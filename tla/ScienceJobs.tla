---------------------------- MODULE ScienceJobs ----------------------------
(***************************************************************************)
(* V5ApiService, the in-memory job service of services/science             *)
(* (science_backend/api_service.py), together with the ThreadPoolExecutor  *)
(* it hands jobs to.  The actors are HTTP threads (submit, cancel), the    *)
(* pool's workers, the done-callbacks of futures and the thread that       *)
(* closes the service.                                                     *)
(*                                                                         *)
(* One action is one critical section of the service's RLock, or one step  *)
(* a worker takes outside it.  `lock' is held across actions only where    *)
(* the code holds the lock while it acquires another one (submit calling   *)
(* executor.submit) or loops (close).  What a run computes, the payload    *)
(* and the time stamps are abstracted; a run ends well or raises, and its  *)
(* deadline and budgets are reasons to raise.                              *)
(***************************************************************************)
EXTENDS Naturals, Sequences, FiniteSets

CONSTANTS
    Jobs,            \* fresh job ids (uuid4), one per admitted request
    Workers,         \* the pool's threads
    NoJob,           \* not a job id
    MaxOutstanding,  \* max_outstanding_jobs
    MaxTerminal      \* max_terminal_jobs

\* The constructor's checks (api_service.py:94-99).
ASSUME ConfigAssumption ==
    /\ IsFiniteSet(Workers) /\ Workers # {}
    /\ MaxOutstanding \in Nat /\ MaxOutstanding >= Cardinality(Workers)
    /\ MaxTerminal \in Nat \ {0}
    /\ NoJob \notin Jobs

\* The service's own state, guarded by its RLock.
VARIABLES
    lock,             \* who holds the RLock across actions
    submitting,       \* the job id of the submit that holds it, or NoJob
    known,            \* the keys of self.jobs
    state,            \* ApiJob.status["state"]; "none" before admission
    cancelRequested,  \* jobs whose cancel_requested event is set
    terminal,         \* jobs whose terminal event is set
    results,          \* jobs whose ApiJob.result is not None
    terminalIds,      \* self._terminal_job_ids
    futures,          \* the keys of self._futures
    outstanding,      \* self._outstanding_jobs
    closing           \* how far close() has come

\* The executor's state and the artifact directory.
VARIABLES
    futureState,      \* the state of each job's Future
    workQueue,        \* the executor's queue of work items
    workerAt,         \* where each worker is in WorkItem.run and _execute
    workerJob,        \* the job it works on
    published         \* jobs whose artifact was moved into place

serviceVars  == <<lock, submitting, known, state, cancelRequested, terminal,
                  results, terminalIds, futures, outstanding, closing>>
executorVars == <<futureState, workQueue, workerAt, workerJob, published>>
vars         == <<serviceVars, executorVars>>

jobVars == <<known, state, cancelRequested, terminal, results, terminalIds>>

TerminalStates == {"succeeded", "failed", "cancelled"}
JobStates      == {"none", "queued", "running"} \cup TerminalStates
FutureStates   == {"none", "pending", "running", "finished", "cancelled"}
\* starting: popped, waiting for the lock; computing: in the runner;
\* writing: in the artifact writer; raised: an exception is in hand;
\* returned: _execute is over; callback: the future is finished and its
\* done-callback waits for the lock.
WorkerPlaces   == {"idle", "starting", "computing", "writing", "raised",
                   "returned", "callback", "exited"}
ClosePhases    == {"open", "marking", "marked", "draining", "joining", "closed"}

closed       == closing # "open"
\* The executor's _shutdown_lock is held while shutdown() drains the queue.
shutdownLock == closing = "draining"

TypeOK ==
    /\ lock \in {"free", "submit", "close"}
    /\ submitting \in Jobs \cup {NoJob}
    /\ known \in SUBSET Jobs
    /\ state \in [Jobs -> JobStates]
    /\ cancelRequested \in SUBSET Jobs
    /\ terminal \in SUBSET Jobs
    /\ results \in SUBSET Jobs
    /\ terminalIds \in Seq(Jobs)
    /\ futures \in SUBSET Jobs
    /\ outstanding \in Nat
    /\ closing \in ClosePhases
    /\ futureState \in [Jobs -> FutureStates]
    /\ workQueue \in Seq(Jobs)
    /\ workerAt \in [Workers -> WorkerPlaces]
    /\ workerJob \in [Workers -> Jobs \cup {NoJob}]
    /\ published \in SUBSET Jobs

Init ==
    /\ lock = "free"
    /\ submitting = NoJob
    /\ known = {}
    /\ state = [j \in Jobs |-> "none"]
    /\ cancelRequested = {}
    /\ terminal = {}
    /\ results = {}
    /\ terminalIds = <<>>
    /\ futures = {}
    /\ outstanding = 0
    /\ closing = "open"
    /\ futureState = [j \in Jobs |-> "none"]
    /\ workQueue = <<>>
    /\ workerAt = [w \in Workers |-> "idle"]
    /\ workerJob = [w \in Workers |-> NoJob]
    /\ published = {}
-----------------------------------------------------------------------------
(* Settling a job: the helpers that run under the lock.                    *)

\* Mutant: the newest record is dropped instead of the oldest.
RecordTerminalLifo(j) ==
    /\ terminal' = terminal \cup {j}
    /\ IF Len(terminalIds) = MaxTerminal
       THEN terminalIds' = terminalIds /\ known' = known \ {j}
       ELSE terminalIds' = Append(terminalIds, j) /\ known' = known

\* _record_terminal_locked for a job that is not terminal yet: the event is
\* set, the record appended, and the oldest record dropped beyond the limit.
RecordTerminal(j) ==
    LET order == Append(terminalIds, j)
    IN  /\ terminal' = terminal \cup {j}
        /\ IF Len(order) > MaxTerminal
           THEN /\ terminalIds' = Tail(order)
                /\ known' = known \ ({Head(order)} \cap terminal')
           ELSE /\ terminalIds' = order
                /\ known' = known

MarkCancelled(j) ==
    /\ cancelRequested' = cancelRequested \cup {j}
    /\ state' = [state EXCEPT ![j] = "cancelled"]
    /\ results' = results \ {j}
    /\ RecordTerminal(j)

MarkFailed(j) ==
    /\ state' = [state EXCEPT ![j] = "failed"]
    /\ results' = results \ {j}
    /\ RecordTerminal(j)
    /\ UNCHANGED cancelRequested

MarkSucceeded(j) ==
    /\ state' = [state EXCEPT ![j] = "succeeded"]
    /\ results' = results \cup {j}
    /\ RecordTerminal(j)
    /\ UNCHANGED cancelRequested

Settled(j) == j \in terminal \/ j \in cancelRequested

\* Mutant: the terminal event is not tested again under the lock.
SettleAbnormallyUnchecked(j) ==
    IF j \in cancelRequested THEN MarkCancelled(j) ELSE MarkFailed(j)

\* What _future_done and _record_execution_failure do with a job that an
\* exception or an early return left behind.
SettleAbnormally(j) ==
    IF j \in terminal THEN UNCHANGED jobVars
    ELSE IF j \in cancelRequested THEN MarkCancelled(j)
    ELSE MarkFailed(j)

\* The accounting half of _future_done.
ReleaseSlot(j) ==
    /\ futures' = futures \ {j}
    /\ outstanding' = outstanding - 1

\* Mutant: the canceller returns the slot of a running job as well.
CancelFutureAlways(j) ==
    /\ ReleaseSlot(j)
    /\ futureState' = IF futureState[j] = "pending"
                      THEN [futureState EXCEPT ![j] = "cancelled"] ELSE futureState

\* Future.cancel with the done-callback it runs synchronously: a pending
\* future is cancelled and its slot released, any other one stays as it is.
CancelFuture(j) ==
    IF futureState[j] = "pending"
    THEN /\ futureState' = [futureState EXCEPT ![j] = "cancelled"]
         /\ ReleaseSlot(j)
    ELSE UNCHANGED <<futureState, futures, outstanding>>
-----------------------------------------------------------------------------
(* HTTP threads.                                                           *)

\* Mutant: submit does not look at _closed.
SubmitAdmitClosed(j) ==
    /\ lock = "free"
    /\ outstanding < MaxOutstanding
    /\ state[j] = "none"
    /\ lock' = "submit"
    /\ submitting' = j
    /\ outstanding' = outstanding + 1
    /\ UNCHANGED <<jobVars, futures, closing, executorVars>>

\* submit up to the point where it calls into the executor; the lock is kept.
SubmitAdmit(j) ==
    /\ lock = "free"
    /\ ~closed
    /\ outstanding < MaxOutstanding
    /\ state[j] = "none"
    /\ lock' = "submit"
    /\ submitting' = j
    /\ outstanding' = outstanding + 1
    /\ UNCHANGED <<jobVars, futures, closing, executorVars>>

\* Mutant: a rejected request keeps its slot.
SubmitRollbackLeaks ==
    /\ lock = "submit"
    /\ lock' = "free"
    /\ submitting' = NoJob
    /\ UNCHANGED <<jobVars, futures, outstanding, closing, executorVars>>

\* forward_request or the executor raises: the admission is rolled back.
SubmitRollback ==
    /\ lock = "submit"
    /\ lock' = "free"
    /\ submitting' = NoJob
    /\ outstanding' = outstanding - 1
    /\ UNCHANGED <<jobVars, futures, closing, executorVars>>

\* The job is recorded and its work item queued, which takes _shutdown_lock.
SubmitHandOver ==
    /\ lock = "submit"
    /\ ~shutdownLock
    /\ lock' = "free"
    /\ submitting' = NoJob
    /\ known' = known \cup {submitting}
    /\ state' = [state EXCEPT ![submitting] = "queued"]
    /\ futures' = futures \cup {submitting}
    /\ futureState' = [futureState EXCEPT ![submitting] = "pending"]
    /\ workQueue' = Append(workQueue, submitting)
    /\ UNCHANGED <<cancelRequested, terminal, results, terminalIds, outstanding,
                   closing, workerAt, workerJob, published>>

\* cancel: an unknown or terminal job is refused without any change.
Cancel(j) ==
    /\ lock = "free"
    /\ j \in known
    /\ state[j] \notin TerminalStates
    /\ MarkCancelled(j)
    /\ CancelFuture(j)
    /\ UNCHANGED <<lock, submitting, closing, workQueue, workerAt, workerJob,
                   published>>
-----------------------------------------------------------------------------
(* The pool's workers.                                                     *)

Goto(w, place) == workerAt' = [workerAt EXCEPT ![w] = place]

\* A popped item whose future was cancelled is dropped.
WorkerDiscard(w) ==
    /\ workerAt[w] = "idle"
    /\ workQueue # <<>>
    /\ futureState[Head(workQueue)] # "pending"
    /\ workQueue' = Tail(workQueue)
    /\ UNCHANGED <<serviceVars, futureState, workerAt, workerJob, published>>

\* set_running_or_notify_cancel: from here on Future.cancel has no effect.
WorkerTake(w) ==
    /\ workerAt[w] = "idle"
    /\ workQueue # <<>>
    /\ futureState[Head(workQueue)] = "pending"
    /\ workQueue' = Tail(workQueue)
    /\ futureState' = [futureState EXCEPT ![Head(workQueue)] = "running"]
    /\ workerJob' = [workerJob EXCEPT ![w] = Head(workQueue)]
    /\ Goto(w, "starting")
    /\ UNCHANGED <<serviceVars, published>>

\* _execute's first critical section.
ExecuteBegin(w) ==
    LET j == workerJob[w] IN
    /\ workerAt[w] = "starting"
    /\ lock = "free"
    /\ IF Settled(j)
       THEN Goto(w, "returned") /\ UNCHANGED state
       ELSE Goto(w, "computing") /\ state' = [state EXCEPT ![j] = "running"]
    /\ UNCHANGED <<lock, submitting, known, cancelRequested, terminal, results,
                   terminalIds, futures, outstanding, closing, futureState,
                   workQueue, workerJob, published>>

\* The runner returns and the cancellation event is not set.
RunnerReturns(w) ==
    /\ workerAt[w] = "computing"
    /\ workerJob[w] \notin cancelRequested
    /\ Goto(w, "writing")
    /\ UNCHANGED <<serviceVars, futureState, workQueue, workerJob, published>>

\* The runner or the writer raises: a poll saw the cancellation, the deadline
\* passed, the result is not scientific, a budget or the disk is exhausted.
ExecuteRaises(w) ==
    /\ workerAt[w] \in {"computing", "writing"}
    /\ Goto(w, "raised")
    /\ UNCHANGED <<serviceVars, futureState, workQueue, workerJob, published>>

\* What it raises is no Exception: _execute does not catch it, WorkItem.run
\* does, and the job is left to _future_done.
ExecuteDies(w) ==
    /\ workerAt[w] \in {"computing", "writing"}
    /\ Goto(w, "returned")
    /\ UNCHANGED <<serviceVars, futureState, workQueue, workerJob, published>>

\* Mutant: success does not test the cancellation under the lock.
PromoteUnchecked(w) ==
    LET j == workerJob[w] IN
    /\ workerAt[w] = "writing"
    /\ lock = "free"
    /\ published' = published \cup {j}
    /\ MarkSucceeded(j)
    /\ Goto(w, "returned")
    /\ UNCHANGED <<lock, submitting, futures, outstanding, closing, futureState,
                   workQueue, workerJob>>

\* _promote_artifact: publication, result and success in one critical section.
Promote(w) ==
    LET j == workerJob[w] IN
    /\ workerAt[w] = "writing"
    /\ lock = "free"
    /\ ~Settled(j)
    /\ published' = published \cup {j}
    /\ MarkSucceeded(j)
    /\ Goto(w, "returned")
    /\ UNCHANGED <<lock, submitting, futures, outstanding, closing, futureState,
                   workQueue, workerJob>>

\* Mutant: the file is moved into place before the cancellation is tested.
PromoteRefusedLate(w) ==
    /\ workerAt[w] = "writing"
    /\ lock = "free"
    /\ Settled(workerJob[w])
    /\ published' = published \cup {workerJob[w]}
    /\ Goto(w, "raised")
    /\ UNCHANGED <<serviceVars, futureState, workQueue, workerJob>>

\* _promote_artifact returns False, so write_arrow raises JobCancelledError.
PromoteRefused(w) ==
    /\ workerAt[w] = "writing"
    /\ lock = "free"
    /\ Settled(workerJob[w])
    /\ Goto(w, "raised")
    /\ UNCHANGED <<serviceVars, futureState, workQueue, workerJob, published>>

\* _record_execution_failure.
RecordFailure(w) ==
    /\ workerAt[w] = "raised"
    /\ lock = "free"
    /\ SettleAbnormally(workerJob[w])
    /\ Goto(w, "returned")
    /\ UNCHANGED <<lock, submitting, futures, outstanding, closing, futureState,
                   workQueue, workerJob, published>>

\* Future.set_result or set_exception wakes the waiters before it runs the callbacks.
FutureFinish(w) ==
    /\ workerAt[w] = "returned"
    /\ futureState' = [futureState EXCEPT ![workerJob[w]] = "finished"]
    /\ Goto(w, "callback")
    /\ UNCHANGED <<serviceVars, workQueue, workerJob, published>>

\* Mutant: the terminal test comes before the slot is returned.
FutureDoneEarlyReturn(w) ==
    LET j == workerJob[w] IN
    /\ workerAt[w] = "callback"
    /\ lock = "free"
    /\ IF j \in terminal
       THEN UNCHANGED <<jobVars, futures, outstanding>>
       ELSE ReleaseSlot(j) /\ SettleAbnormally(j)
    /\ Goto(w, "idle")
    /\ workerJob' = [workerJob EXCEPT ![w] = NoJob]
    /\ UNCHANGED <<lock, submitting, closing, futureState, workQueue, published>>

\* _future_done on the worker's thread.
FutureDone(w) ==
    /\ workerAt[w] = "callback"
    /\ lock = "free"
    /\ ReleaseSlot(workerJob[w])
    /\ SettleAbnormally(workerJob[w])
    /\ Goto(w, "idle")
    /\ workerJob' = [workerJob EXCEPT ![w] = NoJob]
    /\ UNCHANGED <<lock, submitting, closing, futureState, workQueue, published>>

\* The sentinel that shutdown leaves in the drained queue.
WorkerExit(w) ==
    /\ workerAt[w] = "idle"
    /\ closing = "joining"
    /\ workQueue = <<>>
    /\ Goto(w, "exited")
    /\ UNCHANGED <<serviceVars, futureState, workQueue, workerJob, published>>
-----------------------------------------------------------------------------
(* The thread that closes the service.                                     *)

CloseBegin ==
    /\ lock = "free"
    /\ closing = "open"
    /\ lock' = "close"
    /\ closing' = "marking"
    /\ UNCHANGED <<submitting, jobVars, futures, outstanding, executorVars>>

\* One turn of close()'s loop; the order of the dict is left open.
CloseCancels(j) ==
    /\ closing = "marking"
    /\ j \in known
    /\ state[j] \notin TerminalStates
    /\ MarkCancelled(j)
    /\ UNCHANGED <<lock, submitting, futures, outstanding, closing, executorVars>>

\* Mutant: close keeps the service lock while it shuts the executor down.
CloseMarkedKeepsLock ==
    /\ closing = "marking"
    /\ \A j \in known : state[j] \in TerminalStates
    /\ closing' = "marked"
    /\ UNCHANGED <<lock, submitting, jobVars, futures, outstanding, executorVars>>

CloseMarked ==
    /\ closing = "marking"
    /\ \A j \in known : state[j] \in TerminalStates
    /\ lock' = "free"
    /\ closing' = "marked"
    /\ UNCHANGED <<submitting, jobVars, futures, outstanding, executorVars>>

\* executor.shutdown(wait=True, cancel_futures=True) takes _shutdown_lock.
ShutdownBegin ==
    /\ closing = "marked"
    /\ closing' = "draining"
    /\ UNCHANGED <<lock, submitting, jobVars, futures, outstanding, executorVars>>

\* One drained work item: Future.cancel runs _future_done on this thread,
\* which takes the service lock while _shutdown_lock is held.
ShutdownDrains ==
    LET j == Head(workQueue) IN
    /\ closing = "draining"
    /\ workQueue # <<>>
    /\ workQueue' = Tail(workQueue)
    /\ CancelFuture(j)
    /\ IF futureState[j] = "pending"
       THEN /\ lock = "free"
            /\ IF j \in terminal THEN UNCHANGED jobVars ELSE MarkCancelled(j)
       ELSE UNCHANGED jobVars
    /\ UNCHANGED <<lock, submitting, closing, workerAt, workerJob, published>>

ShutdownDrained ==
    /\ closing = "draining"
    /\ workQueue = <<>>
    /\ closing' = "joining"
    /\ UNCHANGED <<lock, submitting, jobVars, futures, outstanding, executorVars>>

\* Mutant: shutdown(wait=False).
CacheCloseNoWait ==
    /\ closing = "joining"
    /\ closing' = "closed"
    /\ UNCHANGED <<lock, submitting, jobVars, futures, outstanding, executorVars>>

\* Every thread has been joined; the artifact cache gives up its file lock.
CacheClose ==
    /\ closing = "joining"
    /\ \A w \in Workers : workerAt[w] = "exited"
    /\ closing' = "closed"
    /\ UNCHANGED <<lock, submitting, jobVars, futures, outstanding, executorVars>>
-----------------------------------------------------------------------------
Submit == (\E j \in Jobs : SubmitAdmit(j)) \/ SubmitRollback \/ SubmitHandOver

WorkerStep(w) ==
    \/ WorkerDiscard(w) \/ WorkerTake(w)
    \/ ExecuteBegin(w)
    \/ RunnerReturns(w) \/ ExecuteRaises(w) \/ ExecuteDies(w)
    \/ Promote(w) \/ PromoteRefused(w) \/ RecordFailure(w)
    \/ FutureFinish(w) \/ FutureDone(w)
    \/ WorkerExit(w)

Close ==
    \/ CloseBegin
    \/ (\E j \in Jobs : CloseCancels(j)) \/ CloseMarked
    \/ ShutdownBegin \/ ShutdownDrains \/ ShutdownDrained
    \/ CacheClose

\* The closed service rests; any other state without a step is a deadlock.
Rest == closing = "closed" /\ UNCHANGED vars

Next ==
    \/ Submit
    \/ \E j \in Jobs : Cancel(j)
    \/ \E w \in Workers : WorkerStep(w)
    \/ Close
    \/ Rest

\* Threads run.  Nobody has to submit, cancel or close, but a submit that
\* holds the lock returns and a close that began goes on.  A run is finite:
\* the runner and the writer poll a deadline (MAX_FORWARD_WALL_TIME_SECONDS).
\* The RLock is not fair in itself; a worker's critical sections wait for a
\* free lock, which is free infinitely often, hence SF for them.
Fairness ==
    /\ WF_vars(SubmitRollback \/ SubmitHandOver)
    /\ \A w \in Workers : SF_vars(WorkerStep(w))
    /\ WF_vars(Close /\ closed)

Safety == Init /\ [][Next]_vars
Spec   == Safety /\ Fairness
-----------------------------------------------------------------------------
(* Properties.                                                             *)

\* A slot is taken exactly while a future is registered or a submit is under
\* way: no path through submit, cancel, run, failure or close leaks a slot or
\* returns one twice (_outstanding_jobs, api_service.py:159,185,345).
SlotsMatchFutures ==
    /\ outstanding = Cardinality(futures) + (IF lock = "submit" THEN 1 ELSE 0)
    /\ outstanding <= MaxOutstanding

\* Cancellation is authoritative: an artifact is published for exactly the
\* jobs that report success, so a run that finishes after its job was
\* cancelled, or while the service closes, leaves nothing behind.
PublishedIffSucceeded ==
    /\ published = {j \in Jobs : state[j] = "succeeded"}
    /\ results = published

\* A job that has reached a terminal state keeps it, and keeps its result,
\* whatever worker, callback or canceller still acts on it.
TerminalIsFinal ==
    [][\A j \in Jobs : state[j] \in TerminalStates =>
         state'[j] = state[j] /\ (j \in results <=> j \in results')]_vars

\* The readable records are all unsettled jobs and the last MaxTerminal
\* settled ones, each once: a record is never dropped before its job settles
\* nor because another job was recorded twice.
RetainedRecords ==
    /\ {j \in Jobs : state[j] \in {"queued", "running"}} \subseteq known
    /\ {terminalIds[i] : i \in 1..Len(terminalIds)} = known \cap terminal
    /\ Len(terminalIds) = Cardinality(known \cap terminal)
    /\ Len(terminalIds) <= MaxTerminal

\* submit holds the service lock while it takes the executor's _shutdown_lock;
\* shutdown holds _shutdown_lock while its callbacks take the service lock.
\* The two never meet, because submit tests _closed under the lock.
NoLockCycle == ~(lock = "submit" /\ shutdownLock)

\* When close() returns no thread of the pool is left, every slot is back and
\* every job has a terminal state, so the cache lock is given up last.
ClosedIsQuiescent ==
    closing = "closed" =>
        /\ outstanding = 0 /\ futures = {}
        /\ \A w \in Workers : workerAt[w] = "exited"
        /\ \A j \in Jobs : state[j] \in TerminalStates \cup {"none"}

\* The class docstring (api_service.py:78): the service owns the bounded
\* queue of forward jobs.  A cancelled job gives its slot back at once, but its
\* work item stays in the executor's queue until a worker pops it.
QueueIsBounded == Len(workQueue) <= MaxOutstanding

\* A slot that was taken is given back, also when the job was cancelled while
\* its worker was busy or its work item still queued.
SlotsDrain == \A j \in Jobs : j \in futures ~> j \notin futures

\* A close that began ends: workers leave, callbacks and drain do not block.
CloseReturns == closed ~> closing = "closed"

\* What a client sees refines the contract: the record of a known job is its
\* state, and an admitted job that is no longer known is forgotten.
View == [j \in Jobs |->
            IF j \in known THEN state[j]
            ELSE IF state[j] = "none" THEN "unknown" ELSE "forgotten"]

Contract == INSTANCE JobContract WITH
    view <- View, recent <- terminalIds, artifacts <- published,
    accepting <- ~closed

ImplementsContract == Contract!Spec
=============================================================================
