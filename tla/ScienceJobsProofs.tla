------------------------- MODULE ScienceJobsProofs -------------------------
(***************************************************************************)
(* Proofs about ScienceJobs for every set of jobs, every finite pool and   *)
(* every limit.  IndInv is the inductive invariant: it ties the lock, the  *)
(* future table, the workers, the work queue and the job records together. *)
(***************************************************************************)
EXTENDS ScienceJobs, FiniteSetTheorems, SequenceTheorems, TLAPS

\* Who holds the lock, and what a submit that holds it knows.
LockInv ==
    /\ lock = "submit" <=> submitting # NoJob
    /\ lock = "close" <=> closing = "marking"
    /\ lock = "submit" => closing = "open" /\ state[submitting] = "none"

\* The events, the results and the artifacts agree with the status.
EventInv ==
    /\ \A j \in Jobs : j \in terminal <=> state[j] \in TerminalStates
    /\ \A j \in Jobs : j \in cancelRequested <=> state[j] = "cancelled"
    /\ \A j \in Jobs : j \in published <=> state[j] = "succeeded"
    /\ \A j \in Jobs : j \in results <=> state[j] = "succeeded"

Busy == {"starting", "computing", "writing", "raised", "returned"}

\* A worker and the future it runs.
WorkerInv ==
    /\ \A w \in Workers : workerJob[w] = NoJob <=> workerAt[w] \in {"idle", "exited"}
    /\ \A w \in Workers : workerAt[w] \in Busy => futureState[workerJob[w]] = "running"
    /\ \A w \in Workers : workerAt[w] = "callback" => futureState[workerJob[w]] = "finished"
    /\ \A w \in Workers : workerAt[w] \in {"computing", "writing", "raised", "returned", "callback"} =>
           state[workerJob[w]] \in {"running"} \cup TerminalStates
    /\ \A v, w \in Workers : v # w /\ workerJob[v] = workerJob[w] => workerJob[w] = NoJob

\* Which futures are registered and where each one is.
FutureInv ==
    /\ \A j \in Jobs : futureState[j] = "none" <=> state[j] = "none"
    /\ \A j \in Jobs : futureState[j] = "cancelled" => j \in terminal
    /\ \A j \in Jobs : futureState[j] = "finished" =>
           \/ j \in terminal
           \/ \E w \in Workers : workerAt[w] = "callback" /\ workerJob[w] = j
    /\ \A j \in Jobs : j \in futures <=>
           \/ futureState[j] \in {"pending", "running"}
           \/ \E w \in Workers : workerAt[w] = "callback" /\ workerJob[w] = j
    /\ \A j \in Jobs : futureState[j] = "running" =>
           \E w \in Workers : workerAt[w] \in Busy /\ workerJob[w] = j
    /\ \A j \in Jobs : futureState[j] = "pending" =>
           \E i \in 1..Len(workQueue) : workQueue[i] = j

SlotInv ==
    /\ IsFiniteSet(futures)
    /\ SlotsMatchFutures

RecordInv ==
    /\ \A j \in Jobs : j \notin terminal => (j \in known <=> state[j] # "none")
    /\ \A j \in Jobs : j \in known /\ j \in terminal <=>
           \E i \in 1..Len(terminalIds) : terminalIds[i] = j
    /\ \A i, k \in 1..Len(terminalIds) : terminalIds[i] = terminalIds[k] => i = k
    /\ Len(terminalIds) <= MaxTerminal

CloseInv ==
    /\ \A w \in Workers : workerAt[w] = "exited" => closing \in {"joining", "closed"}
    /\ closing \in {"joining", "closed"} => workQueue = <<>>
    /\ closing = "closed" => \A w \in Workers : workerAt[w] = "exited"
    /\ closing \notin {"open", "marking"} => \A j \in Jobs : state[j] = "none" \/ j \in terminal

IndInv ==
    /\ TypeOK
    /\ LockInv
    /\ EventInv
    /\ WorkerInv
    /\ FutureInv
    /\ SlotInv
    /\ RecordInv
    /\ CloseInv
-----------------------------------------------------------------------------
(* Types.                                                                  *)

\* What a settling helper leaves: the records stay records of jobs.
LEMMA RecordTerminalType ==
    ASSUME TypeOK, NEW j \in Jobs, RecordTerminal(j)
    PROVE  /\ terminal' \in SUBSET Jobs
           /\ known' \in SUBSET Jobs
           /\ terminalIds' \in Seq(Jobs)
<1>1. Append(terminalIds, j) \in Seq(Jobs) /\ Append(terminalIds, j) # <<>>
  BY AppendProperties DEF TypeOK
<1>2. Tail(Append(terminalIds, j)) \in Seq(Jobs)
  BY <1>1, HeadTailProperties
<1> QED BY <1>1, <1>2 DEF TypeOK, RecordTerminal

JobTypes ==
    /\ known \in SUBSET Jobs
    /\ state \in [Jobs -> JobStates]
    /\ cancelRequested \in SUBSET Jobs
    /\ terminal \in SUBSET Jobs
    /\ results \in SUBSET Jobs
    /\ terminalIds \in Seq(Jobs)

LEMMA SettleTypes ==
    ASSUME TypeOK, NEW j \in Jobs,
           MarkCancelled(j) \/ MarkFailed(j) \/ MarkSucceeded(j) \/ SettleAbnormally(j)
    PROVE  JobTypes'
<1>1. CASE UNCHANGED jobVars
  BY <1>1 DEF TypeOK, JobTypes, jobVars
<1>2. CASE MarkCancelled(j)
  BY <1>2, RecordTerminalType DEF MarkCancelled, TypeOK, JobTypes, JobStates, TerminalStates
<1>3. CASE MarkFailed(j)
  BY <1>3, RecordTerminalType DEF MarkFailed, TypeOK, JobTypes, JobStates, TerminalStates
<1>4. CASE MarkSucceeded(j)
  BY <1>4, RecordTerminalType DEF MarkSucceeded, TypeOK, JobTypes, JobStates, TerminalStates
<1> QED BY <1>1, <1>2, <1>3, <1>4 DEF SettleAbnormally

LEMMA InitInd == Init => IndInv
<1> SUFFICES ASSUME Init PROVE IndInv
  OBVIOUS
<1>1. TypeOK
  BY DEF Init, TypeOK, JobStates, FutureStates, WorkerPlaces, ClosePhases
<1>2. IsFiniteSet({}) /\ Cardinality({}) = 0
  BY FS_EmptySet
<1>3. SlotInv
  BY <1>2, ConfigAssumption, FS_CardinalityType DEF Init, SlotInv, SlotsMatchFutures
<1> QED
  BY <1>1, <1>3, ConfigAssumption DEF Init, IndInv, LockInv, EventInv, WorkerInv, Busy,
     FutureInv, RecordInv, CloseInv, TerminalStates
-----------------------------------------------------------------------------
(* Slots: the counter follows the table of futures through every step.     *)

LEMMA BusyWorkerHasJob ==
    ASSUME TypeOK, WorkerInv, NEW w \in Workers, workerAt[w] \notin {"idle", "exited"}
    PROVE  workerJob[w] \in Jobs
BY DEF TypeOK, WorkerInv

LEMMA SlotReleased ==
    ASSUME TypeOK, SlotInv, NEW j \in futures, ReleaseSlot(j), UNCHANGED lock
    PROVE  SlotInv' /\ outstanding' \in Nat
<1>1. /\ IsFiniteSet(futures')
      /\ Cardinality(futures') = Cardinality(futures) - 1
      /\ Cardinality(futures') \in Nat
  BY FS_RemoveElement, FS_CardinalityType DEF ReleaseSlot, SlotInv
<1>2. outstanding' = outstanding - 1 /\ lock' = lock
  BY DEF ReleaseSlot
<1>3. outstanding = Cardinality(futures) + (IF lock = "submit" THEN 1 ELSE 0)
  BY DEF SlotInv, SlotsMatchFutures
<1>4. Cardinality(futures) \in Nat /\ MaxOutstanding \in Nat /\ outstanding <= MaxOutstanding
  BY ConfigAssumption, FS_CardinalityType DEF SlotInv, SlotsMatchFutures
<1>5. outstanding' = Cardinality(futures') + (IF lock' = "submit" THEN 1 ELSE 0)
  BY <1>1, <1>2, <1>3, <1>4
<1>6. outstanding' \in Nat /\ outstanding' <= MaxOutstanding
  BY <1>1, <1>2, <1>3, <1>4
<1> QED BY <1>1, <1>5, <1>6 DEF SlotInv, SlotsMatchFutures

LEMMA SlotFrame ==
    ASSUME TypeOK, SlotInv, UNCHANGED <<futures, outstanding, lock>>
    PROVE  SlotInv' /\ outstanding' \in Nat
BY DEF TypeOK, SlotInv, SlotsMatchFutures

\* A step that moves the lock between "free" and "close".
LEMMA SlotLockFrame ==
    ASSUME TypeOK, SlotInv, UNCHANGED <<futures, outstanding>>,
           lock # "submit", lock' # "submit"
    PROVE  SlotInv' /\ outstanding' \in Nat
BY DEF TypeOK, SlotInv, SlotsMatchFutures

LEMMA SlotCancel ==
    ASSUME TypeOK, FutureInv, SlotInv, NEW j \in Jobs, CancelFuture(j), UNCHANGED lock
    PROVE  SlotInv' /\ outstanding' \in Nat
<1>1. CASE futureState[j] = "pending"
  <2>1. j \in futures
    BY <1>1 DEF FutureInv
  <2> QED BY <1>1, <2>1, SlotReleased DEF CancelFuture
<1>2. CASE futureState[j] # "pending"
  BY <1>2, SlotFrame DEF CancelFuture
<1> QED BY <1>1, <1>2

LEMMA SlotStep ==
    ASSUME IndInv, [Next]_vars
    PROVE  SlotInv' /\ outstanding' \in Nat
<1> USE DEF IndInv
<1>1. ASSUME NEW j \in Jobs, SubmitAdmit(j) PROVE SlotInv' /\ outstanding' \in Nat
  <2>1. /\ lock = "free" /\ lock' = "submit" /\ futures' = futures
        /\ outstanding' = outstanding + 1 /\ outstanding < MaxOutstanding
    BY <1>1 DEF SubmitAdmit
  <2>2. Cardinality(futures) \in Nat /\ MaxOutstanding \in Nat
    BY ConfigAssumption, FS_CardinalityType DEF SlotInv
  <2> QED BY <2>1, <2>2 DEF TypeOK, SlotInv, SlotsMatchFutures
<1>2. CASE SubmitRollback
  <2>1. /\ lock = "submit" /\ lock' = "free" /\ futures' = futures
        /\ outstanding' = outstanding - 1
    BY <1>2 DEF SubmitRollback
  <2>2. Cardinality(futures) \in Nat /\ MaxOutstanding \in Nat
    BY ConfigAssumption, FS_CardinalityType DEF SlotInv
  <2> QED BY <2>1, <2>2 DEF TypeOK, SlotInv, SlotsMatchFutures
<1>3. CASE SubmitHandOver
  <2>1. /\ lock = "submit" /\ lock' = "free" /\ outstanding' = outstanding
        /\ futures' = futures \cup {submitting}
    BY <1>3 DEF SubmitHandOver
  <2>2. submitting \in Jobs /\ state[submitting] = "none"
    BY <2>1 DEF LockInv, TypeOK
  <2>3. submitting \notin futures
    BY <2>2 DEF FutureInv, WorkerInv, TypeOK
  <2>4. IsFiniteSet(futures') /\ Cardinality(futures') = Cardinality(futures) + 1
    BY <2>1, <2>3, FS_AddElement DEF SlotInv
  <2>5. Cardinality(futures) \in Nat
    BY FS_CardinalityType DEF SlotInv
  <2> QED BY <2>1, <2>4, <2>5 DEF TypeOK, SlotInv, SlotsMatchFutures
<1>4. ASSUME NEW j \in Jobs, Cancel(j) PROVE SlotInv' /\ outstanding' \in Nat
  BY <1>4, SlotCancel DEF Cancel
<1>5. ASSUME NEW w \in Workers, FutureDone(w) PROVE SlotInv' /\ outstanding' \in Nat
  <2>1. workerJob[w] \in futures
    BY <1>5, BusyWorkerHasJob DEF FutureDone, FutureInv
  <2> QED BY <1>5, <2>1, SlotReleased DEF FutureDone
<1>6. ASSUME NEW w \in Workers, WorkerStep(w), ~FutureDone(w)
      PROVE  SlotInv' /\ outstanding' \in Nat
  BY <1>6, SlotFrame DEF WorkerStep, WorkerDiscard, WorkerTake, ExecuteBegin, RunnerReturns,
     ExecuteRaises, ExecuteDies, Promote, PromoteRefused, RecordFailure, FutureFinish, WorkerExit, serviceVars
<1>7. CASE Close
  <2>1. CASE CloseBegin \/ CloseMarked
    BY <1>7, <2>1, SlotLockFrame DEF CloseBegin, CloseMarked, LockInv
  <2>2. CASE ShutdownDrains
    <3>1. workQueue # <<>> /\ Head(workQueue) \in Jobs
      BY <2>2, HeadTailProperties DEF ShutdownDrains, TypeOK
    <3> QED BY <2>2, <3>1, SlotCancel DEF ShutdownDrains
  <2>3. ASSUME NEW j \in Jobs, CloseCancels(j) PROVE SlotInv' /\ outstanding' \in Nat
    BY <2>3, SlotFrame DEF CloseCancels
  <2>4. CASE ShutdownBegin \/ ShutdownDrained \/ CacheClose
    BY <2>4, SlotFrame DEF ShutdownBegin, ShutdownDrained, CacheClose
  <2> QED BY <1>7, <2>1, <2>2, <2>3, <2>4 DEF Close
<1>8. CASE UNCHANGED vars
  BY <1>8, SlotFrame DEF vars, serviceVars
<1> QED BY <1>1, <1>2, <1>3, <1>4, <1>5, <1>6, <1>7, <1>8 DEF Next, Submit, Rest
-----------------------------------------------------------------------------
LEMMA DrainedJob ==
    ASSUME TypeOK, workQueue # <<>>
    PROVE  Head(workQueue) \in Jobs /\ Tail(workQueue) \in Seq(Jobs)
BY HeadTailProperties DEF TypeOK

LEMMA TypeStep ==
    ASSUME IndInv, [Next]_vars
    PROVE  TypeOK'
<1> USE DEF IndInv
<1>0. outstanding' \in Nat
  BY SlotStep
<1>1. ASSUME NEW j \in Jobs, SubmitAdmit(j) PROVE TypeOK'
  BY <1>0, <1>1 DEF SubmitAdmit, TypeOK, jobVars, executorVars
<1>2. CASE SubmitRollback
  BY <1>0, <1>2 DEF SubmitRollback, TypeOK, jobVars, executorVars
<1>3. CASE SubmitHandOver
  <2>1. submitting \in Jobs
    BY <1>3 DEF SubmitHandOver, LockInv, TypeOK
  <2>2. workQueue' \in Seq(Jobs)
    BY <1>3, <2>1, AppendProperties DEF SubmitHandOver, TypeOK
  <2> QED BY <1>0, <1>3, <2>1, <2>2 DEF SubmitHandOver, TypeOK, JobStates, FutureStates
<1>4. ASSUME NEW j \in Jobs, Cancel(j) PROVE TypeOK'
  <2>1. JobTypes'
    BY <1>4, SettleTypes DEF Cancel
  <2> QED BY <1>0, <1>4, <2>1 DEF Cancel, CancelFuture, ReleaseSlot, TypeOK, JobTypes, FutureStates
<1>5. ASSUME NEW w \in Workers, WorkerStep(w) PROVE TypeOK'
  <2> USE DEF Goto, serviceVars, WorkerPlaces, FutureStates, JobStates
  <2>1. CASE WorkerDiscard(w)
    BY <2>1, DrainedJob DEF WorkerDiscard, TypeOK
  <2>2. CASE WorkerTake(w)
    BY <2>2, DrainedJob DEF WorkerTake, TypeOK
  <2>3. CASE ExecuteBegin(w)
    BY <2>3 DEF ExecuteBegin, TypeOK
  <2>4. CASE RunnerReturns(w) \/ ExecuteRaises(w) \/ ExecuteDies(w) \/ PromoteRefused(w) \/ WorkerExit(w)
    BY <2>4 DEF RunnerReturns, ExecuteRaises, ExecuteDies, PromoteRefused, WorkerExit, TypeOK
  <2>5. CASE Promote(w)
    <3>1. workerJob[w] \in Jobs
      BY <2>5, BusyWorkerHasJob DEF Promote
    <3>2. JobTypes'
      BY <2>5, <3>1, SettleTypes DEF Promote
    <3> QED BY <2>5, <3>1, <3>2 DEF Promote, TypeOK, JobTypes
  <2>6. CASE RecordFailure(w)
    <3>1. JobTypes'
      BY <2>6, BusyWorkerHasJob, SettleTypes DEF RecordFailure
    <3> QED BY <2>6, <3>1 DEF RecordFailure, TypeOK, JobTypes
  <2>7. CASE FutureFinish(w)
    BY <2>7 DEF FutureFinish, TypeOK
  <2>8. CASE FutureDone(w)
    <3>1. JobTypes'
      BY <2>8, BusyWorkerHasJob, SettleTypes DEF FutureDone
    <3> QED BY <1>0, <2>8, <3>1 DEF FutureDone, ReleaseSlot, TypeOK, JobTypes
  <2> QED BY <1>5, <2>1, <2>2, <2>3, <2>4, <2>5, <2>6, <2>7, <2>8 DEF WorkerStep
<1>6. CASE Close
  <2> USE DEF jobVars, executorVars, ClosePhases
  <2>1. CASE CloseBegin \/ CloseMarked \/ ShutdownBegin \/ ShutdownDrained \/ CacheClose
    BY <2>1 DEF CloseBegin, CloseMarked, ShutdownBegin, ShutdownDrained, CacheClose, TypeOK
  <2>2. ASSUME NEW j \in Jobs, CloseCancels(j) PROVE TypeOK'
    <3>1. JobTypes'
      BY <2>2, SettleTypes DEF CloseCancels
    <3> QED BY <2>2, <3>1 DEF CloseCancels, TypeOK, JobTypes
  <2>3. CASE ShutdownDrains
    <3>1. Head(workQueue) \in Jobs /\ workQueue' \in Seq(Jobs)
      BY <2>3, DrainedJob DEF ShutdownDrains
    <3>2. JobTypes'
      BY <2>3, <3>1, SettleTypes DEF ShutdownDrains, JobTypes, TypeOK
    <3> QED BY <1>0, <2>3, <3>1, <3>2 DEF ShutdownDrains, CancelFuture, ReleaseSlot, TypeOK,
               JobTypes, FutureStates
  <2> QED BY <1>6, <2>1, <2>2, <2>3 DEF Close
<1>7. CASE UNCHANGED vars
  BY <1>7 DEF vars, serviceVars, executorVars, TypeOK
<1> QED BY <1>1, <1>2, <1>3, <1>4, <1>5, <1>6, <1>7 DEF Next, Submit, Rest

LEMMA LockStep ==
    ASSUME IndInv, [Next]_vars
    PROVE  LockInv'
<1> USE DEF IndInv, LockInv, TypeOK
<1>1. ASSUME NEW j \in Jobs, SubmitAdmit(j) PROVE LockInv'
  BY <1>1, ConfigAssumption DEF SubmitAdmit, jobVars, closed
<1>2. CASE SubmitRollback \/ SubmitHandOver
  BY <1>2 DEF SubmitRollback, SubmitHandOver, jobVars
<1>3. ASSUME NEW j \in Jobs, Cancel(j) PROVE LockInv'
  BY <1>3 DEF Cancel
<1>4. ASSUME NEW w \in Workers, WorkerStep(w) PROVE LockInv'
  BY <1>4 DEF WorkerStep, WorkerDiscard, WorkerTake, ExecuteBegin, RunnerReturns, ExecuteRaises, ExecuteDies,
     Promote, PromoteRefused, RecordFailure, FutureFinish, FutureDone, WorkerExit, serviceVars
<1>5. CASE Close
  BY <1>5 DEF Close, CloseBegin, CloseCancels, CloseMarked, ShutdownBegin, ShutdownDrains,
     ShutdownDrained, CacheClose, jobVars
<1>6. CASE UNCHANGED vars
  BY <1>6 DEF vars, serviceVars
<1> QED BY <1>1, <1>2, <1>3, <1>4, <1>5, <1>6 DEF Next, Submit, Rest
-----------------------------------------------------------------------------
(* Events, results and artifacts.                                          *)

\* Some worker is at one of the places with job j, and the lock is free.
AtPlace(j, places) ==
    lock = "free" /\ \E w \in Workers : workerAt[w] \in places /\ workerJob[w] = j

\* How a step may settle a job: by one of the helpers, once, when the job is
\* recorded and not terminal yet; or not at all.  Only a worker that got past
\* the runner reports an outcome other than cancelled.
SettlesOne(j) ==
    /\ j \in known /\ j \notin terminal
    /\ closing' = closing
    /\ \/ /\ MarkCancelled(j) \/ (MarkFailed(j) /\ AtPlace(j, {"raised", "callback"}))
          /\ published' = published
       \/ /\ MarkSucceeded(j) /\ AtPlace(j, {"writing"})
          /\ published' = published \cup {j}

SettlesNone == UNCHANGED <<jobVars, published>>

\* The two steps that change a status without settling it.
Admits(j) ==
    /\ SubmitHandOver /\ submitting = j
    /\ state[j] = "none"
    /\ state' = [state EXCEPT ![j] = "queued"]
    /\ known' = known \cup {j}
    /\ UNCHANGED <<cancelRequested, terminal, results, terminalIds, published>>

Starts(j) ==
    /\ \E w \in Workers : ExecuteBegin(w) /\ workerJob[w] = j
    /\ state[j] # "none" /\ j \notin terminal
    /\ closing' = closing
    /\ state' = [state EXCEPT ![j] = "running"]
    /\ UNCHANGED <<known, cancelRequested, terminal, results, terminalIds, published>>

LEMMA WorkerJobAdmitted ==
    ASSUME IndInv, NEW w \in Workers, workerAt[w] \notin {"idle", "exited"}
    PROVE  /\ workerJob[w] \in Jobs
           /\ state[workerJob[w]] # "none"
           /\ workerJob[w] \notin terminal => workerJob[w] \in known
<1> USE DEF IndInv
<1>1. workerJob[w] \in Jobs
  BY BusyWorkerHasJob
<1>2. workerAt[w] \in Busy \cup {"callback"}
  BY DEF TypeOK, WorkerPlaces, Busy
<1>3. futureState[workerJob[w]] # "none"
  BY <1>2 DEF WorkerInv
<1> QED BY <1>1, <1>3 DEF FutureInv, RecordInv

\* Every step has one of four effects on the job records.
LEMMA JobEffect ==
    ASSUME IndInv, [Next]_vars
    PROVE  \/ SettlesNone
           \/ \E j \in Jobs : SettlesOne(j) \/ Admits(j) \/ Starts(j)
<1> DEFINE Effect == \/ SettlesNone
                     \/ \E j \in Jobs : SettlesOne(j) \/ Admits(j) \/ Starts(j)
<1> USE DEF IndInv
<1>1. ASSUME NEW j \in Jobs, SubmitAdmit(j) PROVE Effect
  BY <1>1 DEF SubmitAdmit, SettlesNone, executorVars
<1>2. CASE SubmitRollback
  BY <1>2 DEF SubmitRollback, SettlesNone, executorVars
<1>3. CASE SubmitHandOver
  <2>1. submitting \in Jobs /\ state[submitting] = "none"
    BY <1>3 DEF SubmitHandOver, LockInv, TypeOK
  <2>2. Admits(submitting)
    <3>1. /\ state' = [state EXCEPT ![submitting] = "queued"]
          /\ known' = known \cup {submitting}
          /\ UNCHANGED <<cancelRequested, terminal, results, terminalIds, published>>
      BY <1>3 DEF SubmitHandOver
    <3> QED BY <1>3, <2>1, <3>1 DEF Admits
  <2> QED BY <2>1, <2>2
<1>4. ASSUME NEW j \in Jobs, Cancel(j) PROVE Effect
  <2>1. SettlesOne(j)
    BY <1>4 DEF Cancel, SettlesOne, EventInv
  <2> QED BY <2>1
<1>5. ASSUME NEW w \in Workers, WorkerStep(w) PROVE Effect
  <2>1. CASE WorkerDiscard(w) \/ WorkerTake(w) \/ RunnerReturns(w) \/ ExecuteRaises(w) \/ ExecuteDies(w)
             \/ PromoteRefused(w) \/ FutureFinish(w) \/ WorkerExit(w)
    BY <2>1 DEF WorkerDiscard, WorkerTake, RunnerReturns, ExecuteRaises, ExecuteDies, PromoteRefused,
       FutureFinish, WorkerExit, SettlesNone, serviceVars, jobVars
  <2>2. CASE ExecuteBegin(w)
    <3>1. workerJob[w] \in Jobs /\ state[workerJob[w]] # "none"
      BY <2>2, WorkerJobAdmitted DEF ExecuteBegin
    <3>2. CASE Settled(workerJob[w])
      BY <2>2, <3>2 DEF ExecuteBegin, SettlesNone, jobVars
    <3>3. CASE ~Settled(workerJob[w])
      <4>0. /\ workerJob[w] \notin terminal
            /\ state' = [state EXCEPT ![workerJob[w]] = "running"]
            /\ closing' = closing
            /\ UNCHANGED <<known, cancelRequested, terminal, results, terminalIds, published>>
        BY <2>2, <3>3 DEF ExecuteBegin, Settled
      <4>1. Starts(workerJob[w])
        BY <2>2, <3>1, <4>0 DEF Starts
      <4> QED BY <3>1, <4>1
    <3> QED BY <3>2, <3>3
  <2>3. CASE Promote(w)
    <3>1. workerJob[w] \in Jobs /\ SettlesOne(workerJob[w])
      BY <2>3, WorkerJobAdmitted DEF Promote, SettlesOne, Settled, AtPlace
    <3> QED BY <3>1
  <2>4. ASSUME RecordFailure(w) \/ FutureDone(w) PROVE Effect
    <3>1. /\ workerJob[w] \in Jobs
          /\ workerJob[w] \notin terminal => workerJob[w] \in known
          /\ SettleAbnormally(workerJob[w]) /\ published' = published
          /\ closing' = closing
      BY <2>4, WorkerJobAdmitted DEF RecordFailure, FutureDone
    <3>2. AtPlace(workerJob[w], {"raised", "callback"})
      BY <2>4 DEF RecordFailure, FutureDone, AtPlace
    <3>3. SettlesNone \/ SettlesOne(workerJob[w])
      BY <3>1, <3>2 DEF SettleAbnormally, SettlesNone, SettlesOne
    <3> QED BY <3>1, <3>3
  <2> QED BY <1>5, <2>1, <2>2, <2>3, <2>4 DEF WorkerStep
<1>6. CASE Close
  <2>1. CASE CloseBegin \/ CloseMarked \/ ShutdownBegin \/ ShutdownDrained \/ CacheClose
    BY <2>1 DEF CloseBegin, CloseMarked, ShutdownBegin, ShutdownDrained, CacheClose,
       SettlesNone, executorVars
  <2>2. ASSUME NEW j \in Jobs, CloseCancels(j) PROVE Effect
    <3>1. SettlesOne(j)
      BY <2>2 DEF CloseCancels, SettlesOne, EventInv, executorVars
    <3> QED BY <3>1
  <2>3. CASE ShutdownDrains
    <3> DEFINE j == Head(workQueue)
    <3>1. j \in Jobs
      BY <2>3, DrainedJob DEF ShutdownDrains
    <3>2. CASE futureState[j] = "pending" /\ j \notin terminal
      <4>1. j \in known
        BY <3>1, <3>2 DEF FutureInv, RecordInv
      <4>2. SettlesOne(j)
        BY <2>3, <3>2, <4>1 DEF ShutdownDrains, SettlesOne
      <4> QED BY <3>1, <4>2
    <3>3. CASE futureState[j] # "pending" \/ j \in terminal
      BY <2>3, <3>3 DEF ShutdownDrains, SettlesNone
    <3> QED BY <3>2, <3>3
  <2> QED BY <1>6, <2>1, <2>2, <2>3 DEF Close
<1>7. CASE UNCHANGED vars
  BY <1>7 DEF vars, serviceVars, executorVars, SettlesNone, jobVars
<1> QED BY <1>1, <1>2, <1>3, <1>4, <1>5, <1>6, <1>7 DEF Next, Submit, Rest

LEMMA EventStep ==
    ASSUME IndInv, [Next]_vars
    PROVE  EventInv'
<1> USE DEF IndInv, EventInv, TypeOK, TerminalStates
<1>1. CASE SettlesNone
  BY <1>1 DEF SettlesNone, jobVars
<1>2. ASSUME NEW j \in Jobs, SettlesOne(j) PROVE EventInv'
  <2>1. terminal' = terminal \cup {j}
    BY <1>2 DEF SettlesOne, MarkCancelled, MarkFailed, MarkSucceeded, RecordTerminal
  <2>2. j \notin cancelRequested
    BY <1>2 DEF SettlesOne
  <2>3. CASE MarkCancelled(j) /\ published' = published
    BY <1>2, <2>1, <2>3 DEF SettlesOne, MarkCancelled
  <2>4. CASE MarkFailed(j) /\ published' = published
    BY <1>2, <2>1, <2>2, <2>4 DEF SettlesOne, MarkFailed
  <2>5. CASE MarkSucceeded(j) /\ published' = published \cup {j}
    BY <1>2, <2>1, <2>2, <2>5 DEF SettlesOne, MarkSucceeded
  <2> QED BY <1>2, <2>3, <2>4, <2>5 DEF SettlesOne
<1>3. ASSUME NEW j \in Jobs, Admits(j) \/ Starts(j) PROVE EventInv'
  BY <1>3 DEF Admits, Starts
<1> QED BY <1>1, <1>2, <1>3, JobEffect
-----------------------------------------------------------------------------
(* The bounded history of settled records.                                 *)

\* The whole effect of RecordTerminal on a well-formed history.
LEMMA RecordTerminalHistory ==
    ASSUME IndInv, NEW j \in Jobs, j \in known, j \notin terminal,
           RecordTerminal(j), TypeOK', \A k \in Jobs : k # j => state'[k] = state[k],
           state'[j] # "none"
    PROVE  RecordInv'
<1> DEFINE order == Append(terminalIds, j)
<1> USE DEF IndInv
<1>1. /\ terminalIds \in Seq(Jobs) /\ Len(terminalIds) \in Nat /\ MaxTerminal \in Nat \ {0}
      /\ terminal' = terminal \cup {j}
  BY ConfigAssumption, LenProperties DEF TypeOK, RecordTerminal
<1>2. /\ order \in Seq(Jobs) /\ order # <<>> /\ Len(order) = Len(terminalIds) + 1
      /\ \A i \in 1..Len(terminalIds) : order[i] = terminalIds[i]
      /\ order[Len(terminalIds) + 1] = j
  BY <1>1, AppendProperties
<1>3. \A i \in 1..Len(order) : order[i] \in Jobs
  BY <1>2, ElementOfSeq
<1>4. \A i \in 1..Len(terminalIds) : terminalIds[i] # j
  BY DEF RecordInv
<1>5. \A i, k \in 1..Len(order) : order[i] = order[k] => i = k
  <2> SUFFICES ASSUME NEW i \in 1..Len(order), NEW k \in 1..Len(order), order[i] = order[k]
               PROVE  i = k
    OBVIOUS
  <2>1. CASE i \in 1..Len(terminalIds) /\ k \in 1..Len(terminalIds)
    <3>1. terminalIds[i] = terminalIds[k]
      BY <1>2, <2>1
    <3> QED BY <2>1, <3>1 DEF RecordInv
  <2>2. CASE i = Len(terminalIds) + 1 \/ k = Len(terminalIds) + 1
    BY <1>1, <1>2, <1>4, <2>2
  <2> QED BY <1>1, <1>2, <2>1, <2>2
<1>6. \A k \in Jobs : (k \in known /\ k \in terminal') <=> \E i \in 1..Len(order) : order[i] = k
  <2> SUFFICES ASSUME NEW k \in Jobs
               PROVE  (k \in known /\ k \in terminal') <=> \E i \in 1..Len(order) : order[i] = k
    OBVIOUS
  <2>1. CASE k = j
    <3>1. Len(order) \in 1..Len(order) /\ order[Len(order)] = j
      BY <1>1, <1>2
    <3> QED BY <1>1, <2>1, <3>1
  <2>2. CASE k # j
    <3>1. (k \in known /\ k \in terminal) <=> \E i \in 1..Len(terminalIds) : terminalIds[i] = k
      BY DEF RecordInv
    <3>2. (\E i \in 1..Len(terminalIds) : terminalIds[i] = k) <=> \E i \in 1..Len(order) : order[i] = k
      BY <1>1, <1>2, <2>2
    <3> QED BY <1>1, <2>2, <3>1, <3>2
  <2> QED BY <2>1, <2>2
<1>7. CASE Len(order) > MaxTerminal
  <2>1. terminalIds' = Tail(order) /\ known' = known \ ({Head(order)} \cap terminal')
    BY <1>7 DEF RecordTerminal
  <2>2. /\ Head(order) = order[1]
        /\ Len(Tail(order)) = Len(terminalIds)
        /\ \A i \in 1..Len(Tail(order)) : Tail(order)[i] = order[i + 1]
    BY <1>1, <1>2, HeadTailProperties
  <2>3. order[1] \in Jobs /\ order[1] \in terminal'
    <3>1. 1 \in 1..Len(order)
      BY <1>1, <1>2
    <3> QED BY <1>3, <1>6, <3>1
  <2>4. known' = known \ {order[1]}
    BY <2>1, <2>2, <2>3
  <2>5. \A k \in Jobs : k \in known' /\ k \in terminal' <=>
             \E i \in 1..Len(terminalIds') : terminalIds'[i] = k
    <3> SUFFICES ASSUME NEW k \in Jobs
                 PROVE  k \in known' /\ k \in terminal' <=>
                            \E i \in 1..Len(terminalIds') : terminalIds'[i] = k
      OBVIOUS
    <3>1. CASE k = order[1]
      <4>1. ASSUME NEW i \in 1..Len(terminalIds'), terminalIds'[i] = k PROVE FALSE
        <5>1. i \in 1..Len(order) /\ i + 1 \in 1..Len(order) /\ 1 \in 1..Len(order)
              /\ order[i + 1] = order[1] /\ i + 1 # 1
          BY <1>1, <1>2, <2>1, <2>2, <3>1, <4>1
        <5> QED BY <1>5, <5>1
      <4> QED BY <2>4, <3>1, <4>1
    <3>2. CASE k # order[1]
      <4>1. (\E i \in 1..Len(order) : order[i] = k) <=> \E i \in 2..Len(order) : order[i] = k
        BY <1>1, <1>2, <3>2
      <4>2. (\E i \in 2..Len(order) : order[i] = k) => \E i \in 1..Len(terminalIds') : terminalIds'[i] = k
        <5> SUFFICES ASSUME NEW i \in 2..Len(order), order[i] = k
                     PROVE  \E m \in 1..Len(terminalIds') : terminalIds'[m] = k
          OBVIOUS
        <5>1. i - 1 \in 1..Len(terminalIds') /\ (i - 1) + 1 = i
          BY <1>1, <1>2, <2>1, <2>2
        <5>2. terminalIds'[i - 1] = k
          BY <2>1, <2>2, <5>1
        <5> QED BY <5>1, <5>2
      <4>3. (\E i \in 1..Len(terminalIds') : terminalIds'[i] = k) => \E i \in 1..Len(order) : order[i] = k
        <5> SUFFICES ASSUME NEW i \in 1..Len(terminalIds'), terminalIds'[i] = k
                     PROVE  \E m \in 1..Len(order) : order[m] = k
          OBVIOUS
        <5>1. i + 1 \in 1..Len(order) /\ order[i + 1] = k
          BY <1>1, <1>2, <2>1, <2>2
        <5> QED BY <5>1
      <4> QED BY <1>6, <2>4, <3>2, <4>1, <4>2, <4>3
    <3> QED BY <3>1, <3>2
  <2>6. \A i, k \in 1..Len(terminalIds') : terminalIds'[i] = terminalIds'[k] => i = k
    <3> SUFFICES ASSUME NEW i \in 1..Len(terminalIds'), NEW k \in 1..Len(terminalIds'),
                        terminalIds'[i] = terminalIds'[k]
                 PROVE  i = k
      OBVIOUS
    <3>1. i + 1 \in 1..Len(order) /\ k + 1 \in 1..Len(order) /\ order[i + 1] = order[k + 1]
      BY <1>1, <1>2, <2>1, <2>2
    <3>2. i + 1 = k + 1
      BY <1>5, <3>1
    <3> QED BY <1>1, <2>1, <2>2, <3>2
  <2>7. Len(terminalIds') <= MaxTerminal
    BY <2>1, <2>2 DEF RecordInv
  <2>8. \A k \in Jobs : k \notin terminal' => (k \in known' <=> state'[k] # "none")
    BY <1>1, <2>3, <2>4 DEF RecordInv
  <2> QED BY <2>5, <2>6, <2>7, <2>8 DEF RecordInv
<1>8. CASE ~(Len(order) > MaxTerminal)
  <2>1. terminalIds' = order /\ known' = known
    BY <1>8 DEF RecordTerminal
  <2>2. \A k \in Jobs : k \notin terminal' => (k \in known' <=> state'[k] # "none")
    BY <1>1, <2>1 DEF RecordInv
  <2>3. Len(terminalIds') <= MaxTerminal
    BY <1>1, <1>2, <1>8, <2>1
  <2> QED BY <1>5, <1>6, <2>1, <2>2, <2>3 DEF RecordInv
<1> QED BY <1>7, <1>8

LEMMA RecordStep ==
    ASSUME IndInv, [Next]_vars
    PROVE  RecordInv'
<1> USE DEF IndInv
<1>1. CASE SettlesNone
  BY <1>1 DEF SettlesNone, jobVars, RecordInv
<1>2. ASSUME NEW j \in Jobs, SettlesOne(j) PROVE RecordInv'
  <2>1. RecordTerminal(j) /\ \A k \in Jobs : k # j => state'[k] = state[k]
    BY <1>2 DEF SettlesOne, MarkCancelled, MarkFailed, MarkSucceeded, TypeOK
  <2>2. state'[j] # "none"
    BY <1>2 DEF SettlesOne, MarkCancelled, MarkFailed, MarkSucceeded, TypeOK
  <2> QED BY <1>2, <2>1, <2>2, TypeStep, RecordTerminalHistory DEF SettlesOne
<1>3. ASSUME NEW j \in Jobs, Admits(j) \/ Starts(j) PROVE RecordInv'
  <2>1. j \notin terminal /\ terminal' = terminal /\ terminalIds' = terminalIds
        /\ \A k \in Jobs : k # j => state'[k] = state[k] /\ (k \in known' <=> k \in known)
    BY <1>3 DEF Admits, Starts, EventInv, TypeOK, TerminalStates
  <2>2. j \in known' /\ state'[j] # "none"
    BY <1>3, <2>1 DEF Admits, Starts, RecordInv, TypeOK
  <2> QED BY <2>1, <2>2 DEF RecordInv
<1> QED BY <1>1, <1>2, <1>3, JobEffect
-----------------------------------------------------------------------------
(* Workers and futures.                                                    *)

\* A status only moves forward.
LEMMA JobProgress ==
    ASSUME IndInv, [Next]_vars
    PROVE  /\ terminal \subseteq terminal'
           /\ \A j \in Jobs : state[j] \in {"running"} \cup TerminalStates =>
                  state'[j] \in {"running"} \cup TerminalStates
           /\ \A j \in Jobs : state[j] # "none" => state'[j] # "none"
<1> USE DEF IndInv, EventInv, TypeOK, TerminalStates
<1>1. CASE SettlesNone
  BY <1>1 DEF SettlesNone, jobVars
<1>2. ASSUME NEW j \in Jobs, SettlesOne(j)
      PROVE  /\ terminal' = terminal \cup {j}
             /\ state'[j] \in TerminalStates
             /\ \A k \in Jobs : k # j => state'[k] = state[k]
  BY <1>2 DEF SettlesOne, MarkCancelled, MarkFailed, MarkSucceeded, RecordTerminal
<1>3. ASSUME NEW j \in Jobs, Admits(j) \/ Starts(j)
      PROVE  /\ terminal' = terminal
             /\ state'[j] \in {"queued", "running"}
             /\ state[j] = "none" \/ state'[j] = "running"
             /\ \A k \in Jobs : k # j => state'[k] = state[k]
  BY <1>3 DEF Admits, Starts
<1> QED BY <1>1, <1>2, <1>3, JobEffect

\* A settled job is terminal after every step that tests it under the lock.
LEMMA SettlesToTerminal ==
    ASSUME TypeOK, NEW j \in Jobs,
           MarkSucceeded(j) \/ SettleAbnormally(j)
    PROVE  j \in terminal'
BY DEF MarkSucceeded, SettleAbnormally, MarkCancelled, MarkFailed, RecordTerminal, jobVars

LEMMA WorkerStepInv ==
    ASSUME IndInv, [Next]_vars
    PROVE  WorkerInv'
<1> USE DEF IndInv
<1>0. TypeOK' /\ EventInv'
  BY TypeStep, EventStep
<1> DEFINE Frame == UNCHANGED <<workerAt, workerJob>> /\
                    \A j \in Jobs : futureState[j] \in {"running", "finished"} => futureState'[j] = futureState[j]
<1>1. CASE Frame
  <2>1. \A w \in Workers : workerAt[w] \notin {"idle", "exited"} => workerJob[w] \in Jobs
    BY BusyWorkerHasJob
  <2> QED BY <1>1, <2>1, JobProgress DEF WorkerInv, Busy, TypeOK
<1>2. ASSUME NEW j \in Jobs, SubmitAdmit(j) \/ Cancel(j) PROVE Frame
  BY <1>2 DEF SubmitAdmit, Cancel, CancelFuture, executorVars, TypeOK
<1>3. ASSUME SubmitRollback PROVE Frame
  BY <1>3 DEF SubmitRollback, executorVars
<1>4. ASSUME SubmitHandOver PROVE Frame
  <2>1. submitting \in Jobs /\ futureState[submitting] = "none"
    BY <1>4 DEF SubmitHandOver, LockInv, FutureInv, TypeOK
  <2> QED BY <1>4, <2>1 DEF SubmitHandOver, TypeOK
<1>5. ASSUME Close PROVE Frame
  <2>1. ASSUME ShutdownDrains PROVE Frame
    BY <2>1, DrainedJob DEF ShutdownDrains, CancelFuture, TypeOK
  <2>2. ASSUME ~ShutdownDrains PROVE Frame
    BY <1>5, <2>2 DEF Close, CloseBegin, CloseCancels, CloseMarked, ShutdownBegin,
       ShutdownDrained, CacheClose, executorVars
  <2> QED BY <2>1, <2>2
<1>6. ASSUME NEW w \in Workers, WorkerStep(w) PROVE WorkerInv'
  <2> DEFINE j == workerJob[w]
  <2>1. \A v \in Workers : v # w /\ workerAt[v] \notin {"idle", "exited"} =>
            /\ workerJob[v] \in Jobs
            /\ workerJob[v] # workerJob[w]
    BY BusyWorkerHasJob, ConfigAssumption DEF WorkerInv
  <2>2. \A v \in Workers : workerAt[v] \in WorkerPlaces
    BY DEF TypeOK
  <2> USE DEF Goto, serviceVars, Busy
  <2>3. CASE WorkerDiscard(w)
    BY <2>3 DEF WorkerDiscard, WorkerInv
  <2>4. CASE WorkerTake(w)
    <3> DEFINE h == Head(workQueue)
    <3>1. h \in Jobs /\ h # NoJob
      BY <2>4, DrainedJob, ConfigAssumption DEF WorkerTake
    <3>2. \A v \in Workers : workerJob[v] # h
      BY <2>2, <2>4, <3>1 DEF WorkerTake, WorkerInv, WorkerPlaces
    <3> QED BY <2>1, <2>4, <3>1, <3>2, JobProgress DEF WorkerTake, WorkerInv, TypeOK
  <2>5. CASE ExecuteBegin(w)
    <3>1. j \in Jobs
      BY <2>5, BusyWorkerHasJob DEF ExecuteBegin
    <3>2. Settled(j) => state[j] \in TerminalStates
      BY <3>1 DEF Settled, EventInv, TerminalStates
    <3> QED BY <2>1, <2>5, <3>1, <3>2, JobProgress DEF ExecuteBegin, WorkerInv, TypeOK
  <2>6. CASE RunnerReturns(w) \/ ExecuteRaises(w) \/ ExecuteDies(w) \/ PromoteRefused(w)
    BY <2>1, <2>6 DEF RunnerReturns, ExecuteRaises, ExecuteDies, PromoteRefused, WorkerInv, TypeOK
  <2>7. CASE Promote(w) \/ RecordFailure(w)
    <3>1. j \in Jobs
      BY <2>7, BusyWorkerHasJob DEF Promote, RecordFailure
    <3>2. j \in terminal'
      BY <2>7, <3>1, SettlesToTerminal DEF Promote, RecordFailure
    <3>3. /\ UNCHANGED <<workerJob, futureState>> /\ workerAt[w] \in {"writing", "raised"}
          /\ workerAt' = [workerAt EXCEPT ![w] = "returned"]
      BY <2>7 DEF Promote, RecordFailure
    <3> QED BY <2>1, <3>1, <3>2, <3>3, JobProgress DEF WorkerInv, TypeOK
  <2>8. CASE FutureFinish(w)
    <3>1. j \in Jobs
      BY <2>8, BusyWorkerHasJob DEF FutureFinish
    <3> QED BY <2>1, <2>8, <3>1 DEF FutureFinish, WorkerInv, TypeOK
  <2>9. CASE FutureDone(w)
    BY <2>1, <2>9, JobProgress DEF FutureDone, WorkerInv, TypeOK
  <2>10. CASE WorkerExit(w)
    BY <2>10 DEF WorkerExit, WorkerInv, TypeOK
  <2> QED BY <1>6, <2>3, <2>4, <2>5, <2>6, <2>7, <2>8, <2>9, <2>10 DEF WorkerStep
<1>7. ASSUME UNCHANGED vars PROVE Frame
  BY <1>7 DEF vars, executorVars
<1> QED BY <1>1, <1>2, <1>3, <1>4, <1>5, <1>6, <1>7 DEF Next, Submit, Rest

\* A popped item that is not the head of a given job leaves that job queued.
LEMMA QueuedAfterPop ==
    ASSUME TypeOK, workQueue # <<>>, workQueue' = Tail(workQueue),
           NEW j \in Jobs, j # Head(workQueue),
           \E i \in 1..Len(workQueue) : workQueue[i] = j
    PROVE  \E i \in 1..Len(workQueue') : workQueue'[i] = j
<1>1. PICK i \in 1..Len(workQueue) : workQueue[i] = j
  OBVIOUS
<1>2. /\ Len(workQueue) \in Nat /\ Head(workQueue) = workQueue[1]
      /\ Len(workQueue') = Len(workQueue) - 1
      /\ \A k \in 1..Len(workQueue') : workQueue'[k] = workQueue[k + 1]
  BY HeadTailProperties, LenProperties DEF TypeOK
<1>3. i - 1 \in 1..Len(workQueue') /\ (i - 1) + 1 = i
  BY <1>1, <1>2
<1>4. workQueue'[i - 1] = j
  BY <1>1, <1>2, <1>3
<1> QED BY <1>3, <1>4

LEMMA FutureStep ==
    ASSUME IndInv, [Next]_vars
    PROVE  FutureInv'
<1> USE DEF IndInv
<1>0. TypeOK' /\ terminal \subseteq terminal' /\ \A j \in Jobs : state[j] # "none" => state'[j] # "none"
  BY TypeStep, JobProgress
<1> DEFINE Frame == /\ UNCHANGED executorVars /\ UNCHANGED futures
                    /\ \A j \in Jobs : state[j] = "none" => state'[j] = "none"
<1>1. ASSUME Frame PROVE FutureInv'
  BY <1>0, <1>1 DEF FutureInv, executorVars
<1>2. ASSUME NEW j \in Jobs, SubmitAdmit(j) PROVE Frame
  BY <1>2 DEF SubmitAdmit, jobVars
<1>3. ASSUME SubmitRollback PROVE Frame
  BY <1>3 DEF SubmitRollback, jobVars
<1>4. CASE SubmitHandOver
  <2>1. submitting \in Jobs /\ futureState[submitting] = "none" /\ submitting \notin terminal
    BY <1>4 DEF SubmitHandOver, LockInv, FutureInv, TypeOK, EventInv, TerminalStates
  <2>2. /\ Len(workQueue) \in Nat /\ Len(workQueue') = Len(workQueue) + 1
        /\ \A i \in 1..Len(workQueue) : workQueue'[i] = workQueue[i]
        /\ workQueue'[Len(workQueue) + 1] = submitting
    BY <1>4, <2>1, AppendProperties, LenProperties DEF SubmitHandOver, TypeOK
  <2>3. \A j \in Jobs : (\E i \in 1..Len(workQueue) : workQueue[i] = j) =>
                         \E i \in 1..Len(workQueue') : workQueue'[i] = j
    BY <2>2
  <2>4. \E i \in 1..Len(workQueue') : workQueue'[i] = submitting
    BY <2>2
  <2>5. \A w \in Workers : workerAt[w] = "callback" => workerJob[w] # submitting
    BY <2>1 DEF WorkerInv
  <2> QED BY <1>4, <2>1, <2>3, <2>4, <2>5 DEF SubmitHandOver, FutureInv, TypeOK
<1>5. ASSUME NEW h \in Jobs, CancelFuture(h), h \in terminal' \/ futureState[h] # "pending",
             \A j \in Jobs : state[j] = "none" => state'[j] = "none",
             UNCHANGED <<workerAt, workerJob>>,
             workQueue' = workQueue \/ (workQueue # <<>> /\ workQueue' = Tail(workQueue) /\ h = Head(workQueue))
      PROVE  FutureInv'
  <2>1. \A w \in Workers : workerAt[w] = "callback" /\ workerJob[w] = h => futureState[h] # "pending"
    BY DEF WorkerInv
  <2>2. \A j \in Jobs : j # h /\ futureState[j] = "pending" => \E i \in 1..Len(workQueue') : workQueue'[i] = j
    <3>1. \A j \in Jobs : futureState[j] = "pending" => \E i \in 1..Len(workQueue) : workQueue[i] = j
      BY DEF FutureInv
    <3> QED BY <1>5, <3>1, QueuedAfterPop
  <2>3. CASE futureState[h] = "pending"
    <3>1. /\ futureState' = [futureState EXCEPT ![h] = "cancelled"]
          /\ futures' = futures \ {h} /\ h \in terminal'
      BY <1>5, <2>3 DEF CancelFuture, ReleaseSlot
    <3>2. \A j \in Jobs : j \in futures' <=>
              \/ futureState'[j] \in {"pending", "running"}
              \/ \E w \in Workers : workerAt'[w] = "callback" /\ workerJob'[w] = j
      BY <1>5, <2>1, <2>3, <3>1 DEF FutureInv, TypeOK
    <3>3. \A j \in Jobs : futureState'[j] = "none" <=> state'[j] = "none"
      BY <1>0, <1>5, <2>3, <3>1 DEF FutureInv, TypeOK
    <3>4. \A j \in Jobs : /\ futureState'[j] = "cancelled" => j \in terminal'
                          /\ futureState'[j] = "finished" =>
                                 \/ j \in terminal'
                                 \/ \E w \in Workers : workerAt'[w] = "callback" /\ workerJob'[w] = j
      BY <1>0, <1>5, <3>1 DEF FutureInv, TypeOK
    <3>5. \A j \in Jobs : futureState'[j] = "running" =>
              \E w \in Workers : workerAt'[w] \in Busy /\ workerJob'[w] = j
      BY <1>5, <3>1 DEF FutureInv, TypeOK
    <3>6. \A j \in Jobs : futureState'[j] = "pending" => \E i \in 1..Len(workQueue') : workQueue'[i] = j
      BY <2>2, <3>1 DEF TypeOK
    <3> QED BY <3>2, <3>3, <3>4, <3>5, <3>6 DEF FutureInv
  <2>4. CASE futureState[h] # "pending"
    <3>1. UNCHANGED <<futureState, futures>>
      BY <1>5, <2>4 DEF CancelFuture
    <3>2. \A j \in Jobs : futureState'[j] = "pending" => \E i \in 1..Len(workQueue') : workQueue'[i] = j
      BY <2>2, <2>4, <3>1
    <3> QED BY <1>0, <1>5, <3>1, <3>2 DEF FutureInv
  <2> QED BY <2>3, <2>4
<1>6. ASSUME NEW j \in Jobs, Cancel(j) PROVE FutureInv'
  <2>1. j \in terminal' /\ \A k \in Jobs : state[k] = "none" => state'[k] = "none"
    BY <1>6 DEF Cancel, MarkCancelled, RecordTerminal, RecordInv, EventInv, TypeOK
  <2> QED BY <1>5, <1>6, <2>1 DEF Cancel
<1>7. CASE Close
  <2>1. CASE CloseBegin \/ CloseMarked \/ ShutdownBegin \/ ShutdownDrained \/ CacheClose
    BY <1>1, <2>1 DEF CloseBegin, CloseMarked, ShutdownBegin, ShutdownDrained, CacheClose, jobVars
  <2>2. ASSUME NEW j \in Jobs, CloseCancels(j) PROVE Frame
    BY <2>2 DEF CloseCancels, MarkCancelled, RecordInv, EventInv, TypeOK
  <2>3. CASE ShutdownDrains
    <3> DEFINE h == Head(workQueue)
    <3>1. h \in Jobs
      BY <2>3, DrainedJob DEF ShutdownDrains
    <3>2. futureState[h] = "pending" => h \in terminal'
      BY <2>3 DEF ShutdownDrains, MarkCancelled, RecordTerminal, jobVars
    <3>3. \A k \in Jobs : state[k] = "none" => state'[k] = "none"
      BY <2>3, <3>1 DEF ShutdownDrains, MarkCancelled, jobVars, FutureInv, TypeOK
    <3>4. /\ CancelFuture(h) /\ UNCHANGED <<workerAt, workerJob>>
          /\ workQueue # <<>> /\ workQueue' = Tail(workQueue)
      BY <2>3 DEF ShutdownDrains
    <3> QED BY <1>5, <3>1, <3>2, <3>3, <3>4
  <2> QED BY <1>1, <1>7, <2>1, <2>2, <2>3 DEF Close
<1>8. CASE UNCHANGED vars
  BY <1>1, <1>8 DEF vars, serviceVars
<1>9. ASSUME NEW w \in Workers, WorkerStep(w) PROVE FutureInv'
  <2> DEFINE j == workerJob[w]
  <2> USE DEF Goto, serviceVars, Busy
  <2>1. \A k \in Jobs : state[k] = "none" => state'[k] = "none"
    <3>1. CASE SettlesNone
      BY <3>1 DEF SettlesNone, jobVars
    <3>2. ASSUME NEW i \in Jobs, SettlesOne(i) \/ Starts(i)
          PROVE  \A k \in Jobs : state[k] = "none" => state'[k] = "none"
      BY <3>2 DEF SettlesOne, Starts, MarkCancelled, MarkFailed, MarkSucceeded, TypeOK, RecordInv
    <3>3. ASSUME NEW i \in Jobs, Admits(i) PROVE FALSE
      <4>1. state' # state /\ state' = [state EXCEPT ![i] = "queued"] /\ known' # known
        BY <3>3 DEF Admits, TypeOK, RecordInv, EventInv, TerminalStates
      <4>2. ~(Promote(w) \/ RecordFailure(w) \/ FutureDone(w))
        BY <3>3, <4>1 DEF Admits, TypeOK, Promote, RecordFailure, FutureDone, SettleAbnormally,
           MarkSucceeded, MarkFailed, MarkCancelled, RecordTerminal, jobVars
      <4> QED BY <1>9, <4>1, <4>2 DEF WorkerStep, WorkerDiscard, WorkerTake, ExecuteBegin,
             RunnerReturns, ExecuteRaises, ExecuteDies, PromoteRefused, FutureFinish, WorkerExit
    <3> QED BY <3>1, <3>2, <3>3, JobEffect
  <2>2. CASE WorkerDiscard(w)
    <3>1. /\ workQueue # <<>> /\ workQueue' = Tail(workQueue) /\ Head(workQueue) \in Jobs
          /\ futureState[Head(workQueue)] # "pending"
          /\ UNCHANGED <<futureState, futures, workerAt, workerJob, state, terminal>>
      BY <2>2, DrainedJob DEF WorkerDiscard
    <3>2. \A k \in Jobs : futureState[k] = "pending" => \E i \in 1..Len(workQueue') : workQueue'[i] = k
      BY <3>1, QueuedAfterPop DEF FutureInv
    <3>3. \A k \in Jobs : /\ futureState'[k] = "none" <=> state'[k] = "none"
                          /\ futureState'[k] = "cancelled" => k \in terminal'
                          /\ futureState'[k] = "pending" => \E i \in 1..Len(workQueue') : workQueue'[i] = k
      BY <3>1, <3>2 DEF FutureInv
    <3>4. \A k \in Jobs : /\ futureState'[k] = "finished" =>
                                 \/ k \in terminal'
                                 \/ \E v \in Workers : workerAt'[v] = "callback" /\ workerJob'[v] = k
                          /\ k \in futures' <=>
                                 \/ futureState'[k] \in {"pending", "running"}
                                 \/ \E v \in Workers : workerAt'[v] = "callback" /\ workerJob'[v] = k
                          /\ futureState'[k] = "running" =>
                                 \E v \in Workers : workerAt'[v] \in Busy /\ workerJob'[v] = k
      BY <3>1 DEF FutureInv
    <3> QED BY <3>3, <3>4 DEF FutureInv
  <2>3. CASE WorkerTake(w)
    <3> DEFINE h == Head(workQueue)
    <3>1. /\ workQueue # <<>> /\ workQueue' = Tail(workQueue) /\ h \in Jobs
          /\ futureState[h] = "pending" /\ futureState' = [futureState EXCEPT ![h] = "running"]
          /\ workerAt[w] = "idle" /\ workerAt' = [workerAt EXCEPT ![w] = "starting"]
          /\ workerJob' = [workerJob EXCEPT ![w] = h]
          /\ UNCHANGED <<futures, state, terminal>>
      BY <2>3, DrainedJob DEF WorkerTake
    <3>2. \A k \in Jobs : futureState'[k] = "pending" => \E i \in 1..Len(workQueue') : workQueue'[i] = k
      BY <3>1, QueuedAfterPop DEF FutureInv, TypeOK
    <3>3. \A k \in Jobs : futureState'[k] = "running" =>
              \E v \in Workers : workerAt'[v] \in Busy /\ workerJob'[v] = k
      <4> SUFFICES ASSUME NEW k \in Jobs, futureState'[k] = "running"
                   PROVE  \E v \in Workers : workerAt'[v] \in Busy /\ workerJob'[v] = k
        OBVIOUS
      <4>1. CASE k = h
        BY <3>1, <4>1 DEF TypeOK
      <4>2. CASE k # h
        <5>1. PICK v \in Workers : workerAt[v] \in Busy /\ workerJob[v] = k
          BY <3>1, <4>2 DEF FutureInv, TypeOK
        <5>2. v # w
          BY <3>1, <5>1
        <5> QED BY <3>1, <5>1, <5>2 DEF TypeOK
      <4> QED BY <4>1, <4>2
    <3>4. \A k \in Jobs : (\E v \in Workers : workerAt'[v] = "callback" /\ workerJob'[v] = k) <=>
                          \E v \in Workers : workerAt[v] = "callback" /\ workerJob[v] = k
      BY <3>1 DEF TypeOK
    <3> QED BY <3>1, <3>2, <3>3, <3>4 DEF FutureInv, TypeOK
  <2>4. CASE /\ workerAt[w] \in Busy /\ \E p \in Busy : workerAt' = [workerAt EXCEPT ![w] = p]
             /\ UNCHANGED <<futureState, workQueue, workerJob, futures>>
    <3>1. \A v \in Workers : /\ workerAt'[v] \in Busy <=> workerAt[v] \in Busy
                             /\ workerAt'[v] = "callback" <=> workerAt[v] = "callback"
      BY <2>4 DEF TypeOK
    <3> QED BY <1>0, <2>1, <2>4, <3>1 DEF FutureInv
  <2>5. CASE FutureFinish(w)
    <3>1. /\ j \in Jobs /\ futureState[j] = "running" /\ j \in futures
      BY <2>5, BusyWorkerHasJob DEF FutureFinish, WorkerInv, FutureInv
    <3>2. /\ futureState' = [futureState EXCEPT ![j] = "finished"]
          /\ workerAt[w] = "returned" /\ workerAt' = [workerAt EXCEPT ![w] = "callback"]
          /\ UNCHANGED <<futures, workQueue, workerJob, state, terminal>>
      BY <2>5 DEF FutureFinish
    <3>3. \A k \in Jobs : k # j =>
              ((\E v \in Workers : workerAt'[v] = "callback" /\ workerJob'[v] = k) <=>
               \E v \in Workers : workerAt[v] = "callback" /\ workerJob[v] = k)
      BY <3>2 DEF TypeOK
    <3>4. \A k \in Jobs : k # j /\ futureState[k] = "running" =>
              \E v \in Workers : workerAt'[v] \in Busy /\ workerJob'[v] = k
      BY <3>2 DEF FutureInv, TypeOK
    <3>5. \A k \in Jobs : k \in futures' <=>
              \/ futureState'[k] \in {"pending", "running"}
              \/ \E v \in Workers : workerAt'[v] = "callback" /\ workerJob'[v] = k
      BY <3>1, <3>2, <3>3 DEF FutureInv, TypeOK
    <3>6. \A k \in Jobs : futureState'[k] = "finished" =>
              \/ k \in terminal'
              \/ \E v \in Workers : workerAt'[v] = "callback" /\ workerJob'[v] = k
      <4>1. workerAt'[w] = "callback" /\ workerJob'[w] = j
        BY <3>2 DEF TypeOK
      <4>2. \A k \in Jobs : k # j => futureState'[k] = futureState[k]
        BY <3>2 DEF TypeOK
      <4> QED BY <3>2, <3>3, <4>1, <4>2 DEF FutureInv
    <3> QED BY <3>1, <3>2, <3>4, <3>5, <3>6 DEF FutureInv, TypeOK
  <2>6. CASE FutureDone(w)
    <3>1. /\ j \in Jobs /\ futureState[j] = "finished"
      BY <2>6, BusyWorkerHasJob DEF FutureDone, WorkerInv
    <3>2. /\ futures' = futures \ {j}
          /\ workerAt[w] = "callback" /\ workerAt' = [workerAt EXCEPT ![w] = "idle"]
          /\ workerJob' = [workerJob EXCEPT ![w] = NoJob]
          /\ UNCHANGED <<futureState, workQueue>>
      BY <2>6 DEF FutureDone, ReleaseSlot
    <3>3. \A v \in Workers : v # w => workerJob[v] # j
      BY <3>1, ConfigAssumption DEF WorkerInv
    <3>4. \A k \in Jobs : (\E v \in Workers : workerAt'[v] = "callback" /\ workerJob'[v] = k) <=>
              k # j /\ \E v \in Workers : workerAt[v] = "callback" /\ workerJob[v] = k
      BY <3>2, <3>3 DEF TypeOK
    <3>5. \A k \in Jobs : futureState[k] = "running" =>
              \E v \in Workers : workerAt'[v] \in Busy /\ workerJob'[v] = k
      BY <3>2 DEF FutureInv, TypeOK
    <3>6. \A k \in Jobs : k \in futures' <=>
              \/ futureState'[k] \in {"pending", "running"}
              \/ \E v \in Workers : workerAt'[v] = "callback" /\ workerJob'[v] = k
      BY <3>1, <3>2, <3>4 DEF FutureInv
    <3>7. \A k \in Jobs : futureState'[k] = "finished" =>
              \/ k \in terminal'
              \/ \E v \in Workers : workerAt'[v] = "callback" /\ workerJob'[v] = k
      <4>1. j \in terminal'
        BY <2>6, <3>1, SettlesToTerminal DEF FutureDone
      <4> QED BY <1>0, <3>2, <3>4, <4>1 DEF FutureInv
    <3> QED BY <1>0, <2>1, <3>2, <3>5, <3>6, <3>7 DEF FutureInv
  <2>7. CASE WorkerExit(w)
    <3>1. /\ workerAt[w] = "idle" /\ workerAt' = [workerAt EXCEPT ![w] = "exited"]
          /\ UNCHANGED <<futureState, workQueue, workerJob, futures, state, terminal>>
      BY <2>7 DEF WorkerExit
    <3>2. \A v \in Workers : /\ workerAt'[v] \in Busy <=> workerAt[v] \in Busy
                             /\ workerAt'[v] = "callback" <=> workerAt[v] = "callback"
      BY <3>1 DEF TypeOK
    <3> QED BY <3>1, <3>2 DEF FutureInv
  <2> QED
    <3>1. ASSUME ExecuteBegin(w) \/ RunnerReturns(w) \/ ExecuteRaises(w) \/ ExecuteDies(w) \/ Promote(w)
                 \/ PromoteRefused(w) \/ RecordFailure(w)
          PROVE  FutureInv'
      BY <2>4, <3>1 DEF ExecuteBegin, RunnerReturns, ExecuteRaises, ExecuteDies, Promote, PromoteRefused, RecordFailure
    <3> QED BY <1>9, <2>2, <2>3, <2>5, <2>6, <2>7, <3>1 DEF WorkerStep
<1> QED BY <1>1, <1>2, <1>3, <1>4, <1>6, <1>7, <1>8, <1>9 DEF Next, Submit, Rest
-----------------------------------------------------------------------------
LEMMA CloseStep ==
    ASSUME IndInv, [Next]_vars
    PROVE  CloseInv'
<1> USE DEF IndInv, TypeOK
<1> DEFINE Workplace ==
             /\ \A w \in Workers : workerAt[w] = "exited" => closing \in {"joining", "closed"}
             /\ closing \in {"joining", "closed"} => workQueue = <<>>
             /\ closing = "closed" => \A w \in Workers : workerAt[w] = "exited"
           AllSettled == closing \notin {"open", "marking"} =>
                            \A j \in Jobs : state[j] = "none" \/ j \in terminal
<1>0. Workplace /\ AllSettled
  BY DEF CloseInv
<1>1. ASSUME Submit PROVE Workplace'
  BY <1>0, <1>1 DEF Submit, SubmitAdmit, SubmitRollback, SubmitHandOver, LockInv, jobVars, executorVars
<1>2. ASSUME NEW j \in Jobs, Cancel(j) PROVE Workplace'
  BY <1>0, <1>2 DEF Cancel
<1>3. ASSUME NEW w \in Workers, WorkerStep(w) PROVE Workplace'
  <2> USE <1>0 DEF Goto, serviceVars
  <2>1. CASE WorkerDiscard(w) \/ WorkerTake(w)
    BY <2>1 DEF WorkerDiscard, WorkerTake
  <2>2. CASE WorkerExit(w)
    BY <2>2 DEF WorkerExit
  <2>3. CASE ExecuteBegin(w) \/ RunnerReturns(w) \/ ExecuteRaises(w) \/ ExecuteDies(w) \/ PromoteRefused(w)
    BY <2>3 DEF ExecuteBegin, RunnerReturns, ExecuteRaises, ExecuteDies, PromoteRefused
  <2>4. CASE Promote(w) \/ RecordFailure(w) \/ FutureFinish(w) \/ FutureDone(w)
    BY <2>4 DEF Promote, RecordFailure, FutureFinish, FutureDone
  <2> QED BY <1>3, <2>1, <2>2, <2>3, <2>4 DEF WorkerStep
<1>4. ASSUME Close PROVE Workplace'
  BY <1>0, <1>4 DEF Close, CloseBegin, CloseCancels, CloseMarked, ShutdownBegin, ShutdownDrains,
     ShutdownDrained, CacheClose, jobVars, executorVars
<1>5. ASSUME UNCHANGED vars PROVE Workplace'
  BY <1>0, <1>5 DEF vars, serviceVars, executorVars
<1>6. Workplace'
  BY <1>1, <1>2, <1>3, <1>4, <1>5 DEF Next, Rest
<1>7. AllSettled'
  <2>1. CASE CloseMarked
    <3>1. \A j \in Jobs : j \in known => j \in terminal
      BY <2>1 DEF CloseMarked, EventInv
    <3> QED BY <2>1, <3>1 DEF CloseMarked, RecordInv, jobVars
  <2>2. CASE closing' = closing /\ closing \notin {"open", "marking"}
    <3>1. ~SubmitHandOver
      BY <2>2 DEF SubmitHandOver, LockInv
    <3>2. \A j \in Jobs : state[j] = "none" => state'[j] = "none"
      <4>1. CASE SettlesNone
        BY <4>1 DEF SettlesNone, jobVars
      <4>2. ASSUME NEW i \in Jobs, SettlesOne(i) PROVE FALSE
        BY <1>0, <2>2, <4>2 DEF SettlesOne, RecordInv
      <4>3. ASSUME NEW i \in Jobs, Starts(i) PROVE FALSE
        BY <1>0, <2>2, <4>3 DEF Starts
      <4>4. ASSUME NEW i \in Jobs, Admits(i) PROVE FALSE
        BY <3>1, <4>4 DEF Admits
      <4> QED BY <4>1, <4>2, <4>3, <4>4, JobEffect
    <3> QED BY <1>0, <2>2, <3>2, JobProgress
  <2>3. CASE closing' # closing /\ ~CloseMarked
    <3>1. /\ CloseBegin \/ ShutdownBegin \/ ShutdownDrained \/ CacheClose
      BY <2>3 DEF Next, Submit, SubmitAdmit, SubmitRollback, SubmitHandOver, Cancel,
         WorkerStep, WorkerDiscard, WorkerTake, ExecuteBegin, RunnerReturns, ExecuteRaises, ExecuteDies,
         Promote, PromoteRefused, RecordFailure, FutureFinish, FutureDone, WorkerExit,
         Close, CloseCancels, ShutdownDrains, Rest, vars, serviceVars
    <3> QED BY <1>0, <3>1 DEF CloseBegin, ShutdownBegin, ShutdownDrained, CacheClose, jobVars
  <2> QED BY <2>1, <2>2, <2>3
<1> QED BY <1>6, <1>7 DEF CloseInv

THEOREM Inductive == Safety => []IndInv
<1>1. IndInv /\ [Next]_vars => IndInv'
  BY TypeStep, LockStep, EventStep, WorkerStepInv, FutureStep, SlotStep, RecordStep, CloseStep
     DEF IndInv
<1> QED BY InitInd, <1>1, PTL DEF Safety
-----------------------------------------------------------------------------
(* What follows from the invariant.                                        *)

\* Every variable keeps its type.
THEOREM TypeCorrect == Safety => []TypeOK
<1>1. IndInv => TypeOK
  BY DEF IndInv
<1> QED BY Inductive, <1>1, PTL

\* Slots are counted exactly, whatever the number of jobs and workers.
THEOREM SlotsAreExact == Safety => []SlotsMatchFutures
<1>1. IndInv => SlotsMatchFutures
  BY DEF IndInv, SlotInv
<1> QED BY Inductive, <1>1, PTL

\* Cancellation is authoritative: artifacts, results and success coincide.
THEOREM ArtifactsOfSuccessOnly == Safety => []PublishedIffSucceeded
<1>1. IndInv => PublishedIffSucceeded
  BY DEF IndInv, EventInv, TypeOK, PublishedIffSucceeded
<1> QED BY Inductive, <1>1, PTL

\* The service never holds both locks in the two opposite orders.
THEOREM LocksNeverCross == Safety => []NoLockCycle
<1>1. IndInv => NoLockCycle
  BY DEF IndInv, LockInv, NoLockCycle, shutdownLock
<1> QED BY Inductive, <1>1, PTL

\* A terminal status and its result never change again.
THEOREM TerminalStays == Safety => TerminalIsFinal
<1>1. ASSUME IndInv, [Next]_vars, NEW j \in Jobs, state[j] \in TerminalStates
      PROVE  state'[j] = state[j] /\ (j \in results <=> j \in results')
  <2> USE DEF IndInv, TypeOK, TerminalStates
  <2>1. j \in terminal
    BY <1>1 DEF EventInv
  <2>2. CASE SettlesNone
    BY <2>2 DEF SettlesNone, jobVars
  <2>3. ASSUME NEW k \in Jobs, SettlesOne(k)
        PROVE  state'[j] = state[j] /\ (j \in results <=> j \in results')
    BY <1>1, <2>1, <2>3 DEF SettlesOne, MarkCancelled, MarkFailed, MarkSucceeded
  <2>4. ASSUME NEW k \in Jobs, Admits(k) \/ Starts(k)
        PROVE  state'[j] = state[j] /\ (j \in results <=> j \in results')
    BY <1>1, <2>1, <2>4 DEF Admits, Starts
  <2> QED BY <1>1, <2>2, <2>3, <2>4, JobEffect
<1>2. IndInv /\ [Next]_vars =>
        [\A j \in Jobs : state[j] \in TerminalStates =>
            state'[j] = state[j] /\ (j \in results <=> j \in results')]_vars
  BY <1>1
<1> QED BY Inductive, <1>2, PTL DEF Safety, TerminalIsFinal

\* Exactly the unsettled jobs and the last settled ones can be read.
THEOREM RecordsAreRetained == Safety => []RetainedRecords
<1>1. ASSUME IndInv PROVE RetainedRecords
  <2> DEFINE kept == known \cap terminal
  <2> USE <1>1 DEF IndInv
  <2>1. {j \in Jobs : state[j] \in {"queued", "running"}} \subseteq known
    BY DEF RecordInv, EventInv, TerminalStates
  <2>2. terminalIds \in [1..Len(terminalIds) -> Jobs] /\ Len(terminalIds) \in Nat
    BY LenProperties DEF TypeOK
  <2>3. {terminalIds[i] : i \in 1..Len(terminalIds)} = kept
    BY <2>2 DEF RecordInv, TypeOK
  <2>4. terminalIds \in Bijection(1..Len(terminalIds), kept)
    BY <2>2, <2>3 DEF RecordInv, Bijection, Injection, Surjection, IsInjective
  <2>5. IsFiniteSet(1..Len(terminalIds)) /\ Cardinality(1..Len(terminalIds)) = Len(terminalIds)
    <3>1. \A n \in Nat : /\ IsFiniteSet(1..n)
                         /\ Cardinality(1..n) = IF 1 > n THEN 0 ELSE n - 1 + 1
      BY FS_Interval
    <3>2. \A n \in Nat : (IF 1 > n THEN 0 ELSE n - 1 + 1) = n
      OBVIOUS
    <3> QED BY <2>2, <3>1, <3>2
  <2>6. Cardinality(kept) = Len(terminalIds)
    BY <2>4, <2>5, FS_Bijection DEF ExistsBijection
  <2> QED BY <2>1, <2>3, <2>6 DEF RetainedRecords, RecordInv
<1> QED BY Inductive, <1>1, PTL

\* A close that returns leaves no thread, no slot and no unsettled job.
THEOREM CloseLeavesNothing == Safety => []ClosedIsQuiescent
<1>1. ASSUME IndInv PROVE ClosedIsQuiescent
  <2> USE <1>1 DEF IndInv
  <2> SUFFICES ASSUME closing = "closed"
               PROVE  /\ outstanding = 0 /\ futures = {}
                      /\ \A w \in Workers : workerAt[w] = "exited"
                      /\ \A j \in Jobs : state[j] \in TerminalStates \cup {"none"}
    BY DEF ClosedIsQuiescent
  <2>1. workQueue = <<>> /\ \A w \in Workers : workerAt[w] = "exited"
    BY DEF CloseInv
  <2>2. Len(workQueue) = 0
    BY <2>1
  <2>3. \A j \in Jobs : futureState[j] \in {"none", "finished", "cancelled"}
    <3>1. \A j \in Jobs : futureState[j] # "running"
      BY <2>1 DEF FutureInv, Busy
    <3>2. \A j \in Jobs : futureState[j] # "pending"
      BY <2>2 DEF FutureInv
    <3> QED BY <3>1, <3>2 DEF TypeOK, FutureStates
  <2>4. futures = {}
    BY <2>1, <2>3 DEF FutureInv, TypeOK
  <2>5. outstanding = 0
    BY <2>4, FS_EmptySet DEF SlotInv, SlotsMatchFutures, LockInv
  <2>6. \A j \in Jobs : state[j] \in TerminalStates \cup {"none"}
    BY <2>1, <2>3 DEF FutureInv, EventInv
  <2> QED BY <2>1, <2>4, <2>5, <2>6
<1> QED BY Inductive, <1>1, PTL
=============================================================================
