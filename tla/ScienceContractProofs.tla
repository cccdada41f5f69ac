----------------------- MODULE ScienceContractProofs -----------------------
(***************************************************************************)
(* The safety half of the refinement: for every set of jobs, every pool    *)
(* and every limit, a step of the job service is a step of JobContract     *)
(* under the mapping of ScienceJobs, or leaves what a client sees alone.   *)
(***************************************************************************)
EXTENDS ScienceJobsProofs

AtRun == {"computing", "writing", "raised", "returned", "callback"}

\* A job that reports running has a worker past _execute's first section.
RunInv ==
    \A j \in Jobs : state[j] = "running" =>
        \E w \in Workers : workerAt[w] \in AtRun /\ workerJob[w] = j

\* A worker leaves the run of a job only by settling it.
LEMMA RunLeaves ==
    ASSUME IndInv, [Next]_vars, NEW w \in Workers, workerAt[w] \in AtRun
    PROVE  \/ workerAt'[w] \in AtRun /\ workerJob'[w] = workerJob[w]
           \/ workerJob[w] \in terminal'
<1> USE DEF IndInv, TypeOK, AtRun, Goto
<1> DEFINE Stays == \/ workerAt'[w] \in AtRun /\ workerJob'[w] = workerJob[w]
                    \/ workerJob[w] \in terminal'
<1>1. CASE UNCHANGED <<workerAt, workerJob>>
  BY <1>1
<1>2. ASSUME NEW v \in Workers, WorkerStep(v) PROVE Stays
  <2>1. CASE Promote(v) \/ RecordFailure(v) \/ FutureDone(v)
    <3>1. workerAt[v] \in AtRun
      BY <2>1 DEF Promote, RecordFailure, FutureDone
    <3>2. workerJob[v] \in Jobs
      BY <3>1, BusyWorkerHasJob
    <3>3. workerJob[v] \in terminal'
      BY <2>1, <3>2, SettlesToTerminal DEF Promote, RecordFailure, FutureDone
    <3>4. v # w => workerAt'[w] = workerAt[w] /\ workerJob'[w] = workerJob[w]
      BY <2>1 DEF Promote, RecordFailure, FutureDone
    <3> QED BY <3>1, <3>3, <3>4
  <2>2. CASE WorkerDiscard(v) \/ WorkerTake(v) \/ ExecuteBegin(v) \/ RunnerReturns(v)
    BY <2>2 DEF WorkerDiscard, WorkerTake, ExecuteBegin, RunnerReturns
  <2>3. CASE ExecuteRaises(v) \/ ExecuteDies(v) \/ PromoteRefused(v) \/ WorkerExit(v)
    BY <2>3 DEF ExecuteRaises, ExecuteDies, PromoteRefused, WorkerExit
  <2>4. CASE FutureFinish(v)
    BY <2>4 DEF FutureFinish
  <2> QED BY <1>2, <2>1, <2>2, <2>3, <2>4 DEF WorkerStep
<1> QED
  BY <1>1, <1>2 DEF Next, Submit, SubmitAdmit, SubmitRollback, SubmitHandOver, Cancel, Close,
     CloseBegin, CloseCancels, CloseMarked, ShutdownBegin, ShutdownDrains, ShutdownDrained,
     CacheClose, Rest, vars, executorVars

LEMMA RunStep ==
    ASSUME IndInv, IndInv', RunInv, [Next]_vars
    PROVE  RunInv'
<1> SUFFICES ASSUME NEW j \in Jobs, state'[j] = "running"
             PROVE  \E w \in Workers : workerAt'[w] \in AtRun /\ workerJob'[w] = j
  BY DEF RunInv
<1>1. CASE state[j] = "running"
  <2>1. PICK w \in Workers : workerAt[w] \in AtRun /\ workerJob[w] = j
    BY <1>1 DEF RunInv
  <2>2. j \notin terminal'
    BY DEF IndInv, EventInv, TerminalStates
  <2> QED BY <2>1, <2>2, RunLeaves
<1>2. CASE state[j] # "running"
  <2> USE DEF IndInv, TypeOK
  <2>1. ~SettlesNone
    BY <1>2 DEF SettlesNone, jobVars
  <2>2. ASSUME NEW i \in Jobs, SettlesOne(i) \/ Admits(i) PROVE FALSE
    BY <1>2, <2>2 DEF SettlesOne, Admits, MarkCancelled, MarkFailed, MarkSucceeded
  <2>3. PICK i \in Jobs : Starts(i)
    BY <2>1, <2>2, JobEffect
  <2>4. i = j
    BY <1>2, <2>3 DEF Starts
  <2>5. PICK w \in Workers : ExecuteBegin(w) /\ workerJob[w] = j
    BY <2>3, <2>4 DEF Starts
  <2>6. UNCHANGED workerJob /\ (workerAt' = [workerAt EXCEPT ![w] = "computing"] \/ UNCHANGED state)
    BY <2>5 DEF ExecuteBegin, Goto
  <2> QED BY <1>2, <2>5, <2>6 DEF AtRun
<1> QED BY <1>1, <1>2
-----------------------------------------------------------------------------
\* Only CloseBegin changes whether the service accepts work.
LEMMA ClosedStep ==
    ASSUME [Next]_vars
    PROVE  \/ closed' = closed
           \/ CloseBegin
<1> QED
  BY DEF closed, Next, Submit, SubmitAdmit, SubmitRollback, SubmitHandOver, Cancel, WorkerStep,
     WorkerDiscard, WorkerTake, ExecuteBegin, RunnerReturns, ExecuteRaises, ExecuteDies, Promote,
     PromoteRefused, RecordFailure, FutureFinish, FutureDone, WorkerExit, Close, CloseCancels,
     CloseMarked, ShutdownBegin, ShutdownDrains, ShutdownDrained, CacheClose, Rest, vars,
     serviceVars

\* A readable job that is not settled has a registered future.
LEMMA LiveHasFuture ==
    ASSUME IndInv
    PROVE  Contract!LiveJobs \subseteq futures
<1> USE DEF IndInv, TypeOK
<1> SUFFICES ASSUME NEW j \in Jobs, View[j] \in {"queued", "running"}
             PROVE  j \in futures
  BY DEF Contract!LiveJobs, Contract!Live
<1>1. state[j] \in {"queued", "running"}
  BY DEF View
<1>2. j \notin terminal /\ futureState[j] # "none"
  BY <1>1 DEF EventInv, FutureInv, TerminalStates
<1>3. CASE futureState[j] = "finished"
  BY <1>2, <1>3 DEF FutureInv
<1>4. CASE futureState[j] \in {"pending", "running"}
  BY <1>4 DEF FutureInv
<1> QED BY <1>2, <1>3, <1>4 DEF FutureInv, FutureStates

LEMMA AdmitMaps ==
    ASSUME IndInv, IndInv', NEW j \in Jobs, Admits(j)
    PROVE  Contract!Admit(j)
<1> USE DEF IndInv, TypeOK
<1>1. /\ lock = "submit" /\ closing = "open" /\ closing' = closing /\ j \notin terminal
  BY DEF Admits, SubmitHandOver, LockInv, EventInv, TerminalStates
<1>2. j \notin known /\ View[j] = "unknown"
  BY <1>1 DEF View, RecordInv, Admits
<1>3. Cardinality(Contract!LiveJobs) < MaxOutstanding
  <2>1. Cardinality(Contract!LiveJobs) <= Cardinality(futures)
    BY LiveHasFuture, FS_Subset DEF SlotInv
  <2>2. /\ Cardinality(futures) \in Nat
        /\ outstanding = Cardinality(futures) + 1 /\ outstanding <= MaxOutstanding
    BY <1>1, FS_CardinalityType DEF SlotInv, SlotsMatchFutures
  <2>3. Cardinality(Contract!LiveJobs) \in Nat
    BY LiveHasFuture, FS_Subset, FS_CardinalityType DEF SlotInv
  <2> QED BY <2>1, <2>2, <2>3, ConfigAssumption
<1>4. View' = [View EXCEPT ![j] = "queued"]
  BY <1>2 DEF View, Admits
<1>5. Contract!Cardinality(Contract!LiveJobs) = Cardinality(Contract!LiveJobs)
  BY Zenon DEF Contract!Cardinality, Cardinality
<1> QED BY <1>1, <1>2, <1>3, <1>4, <1>5 DEF Contract!Admit, Admits, closed

LEMMA StartMaps ==
    ASSUME IndInv, RunInv, NEW j \in Jobs, Starts(j)
    PROVE  Contract!Start(j)
<1> USE DEF IndInv, TypeOK
<1>1. PICK w \in Workers : workerAt[w] = "starting" /\ workerJob[w] = j /\ lock = "free"
  BY DEF Starts, ExecuteBegin
<1>2. state[j] # "running"
  <2> SUFFICES ASSUME state[j] = "running" PROVE FALSE
    OBVIOUS
  <2>1. PICK v \in Workers : workerAt[v] \in AtRun /\ workerJob[v] = j
    BY DEF RunInv
  <2> QED BY <1>1, <2>1, ConfigAssumption DEF AtRun, WorkerInv
<1>3. state[j] = "queued" /\ j \in known
  BY <1>2 DEF Starts, EventInv, RecordInv, JobStates
<1>4. ~closed
  BY <1>1, <1>3 DEF Starts, CloseInv, LockInv, closed
<1>5. View[j] = "queued" /\ View' = [View EXCEPT ![j] = "running"]
  BY <1>3 DEF View, Starts
<1> QED BY <1>4, <1>5 DEF Contract!Start, Starts, closed
-----------------------------------------------------------------------------
\* The bounded history of the service is the history of the contract.
LEMMA SettleMaps ==
    ASSUME IndInv, NEW j \in Jobs, j \in known, j \notin terminal, RecordTerminal(j),
           NEW outcome \in TerminalStates, state' = [state EXCEPT ![j] = outcome]
    PROVE  Contract!SettleAs(j, outcome)
<1> USE DEF IndInv, TypeOK
<1> DEFINE order == Append(terminalIds, j)
           h     == Head(order)
<1>1. /\ order \in Seq(Jobs) /\ Len(order) = Len(terminalIds) + 1 /\ Len(terminalIds) \in Nat
      /\ h = order[1]
  OBVIOUS
<1>2. h \in Jobs
  BY <1>1
<1>3. CASE Len(order) > MaxTerminal
  <2>1. Len(terminalIds) >= 1
    BY <1>1, <1>3, ConfigAssumption
  <2>2. h = terminalIds[1]
    BY <1>1, <2>1
  <2>3. h \in known /\ h \in terminal /\ h # j
    BY <1>1, <1>2, <2>1, <2>2 DEF RecordInv
  <2>4. state[h] # "none"
    BY <1>2, <2>3 DEF EventInv, TerminalStates
  <2>5. known' = known \ {h} /\ terminalIds' = Tail(order)
    BY <1>3, <2>3 DEF RecordTerminal
  <2>6. View' = [[View EXCEPT ![j] = outcome] EXCEPT ![h] = "forgotten"]
    BY <1>2, <2>3, <2>4, <2>5 DEF View
  <2> QED BY <1>3, <2>5, <2>6 DEF Contract!SettleAs
<1>4. CASE ~(Len(order) > MaxTerminal)
  <2>1. known' = known /\ terminalIds' = order
    BY <1>4 DEF RecordTerminal
  <2>2. View' = [View EXCEPT ![j] = outcome]
    BY <2>1 DEF View
  <2> QED BY <1>4, <2>1, <2>2 DEF Contract!SettleAs
<1> QED BY <1>3, <1>4

LEMMA SettlesOneMaps ==
    ASSUME IndInv, NEW j \in Jobs, SettlesOne(j)
    PROVE  Contract!Settle(j)
<1> USE DEF IndInv, TypeOK
<1>1. /\ state[j] \in {"queued", "running"} /\ View[j] = state[j]
      /\ j \in known /\ j \notin terminal /\ UNCHANGED closing
  BY DEF SettlesOne, EventInv, RecordInv, View, JobStates
<1>2. CASE MarkCancelled(j) /\ published' = published
  <2>1. Contract!SettleAs(j, "cancelled")
    BY <1>1, <1>2, SettleMaps DEF MarkCancelled, TerminalStates
  <2> QED BY <1>1, <1>2, <2>1 DEF Contract!Settle, Contract!Cancel, Contract!Live, closed
<1>3. ASSUME AtPlace(j, {"writing", "raised", "callback"})
      PROVE  ~closed /\ View[j] = "running"
  <2>1. PICK w \in Workers : workerAt[w] \in {"writing", "raised", "callback"} /\ workerJob[w] = j
    BY <1>3 DEF AtPlace
  <2>2. state[j] = "running"
    BY <1>1, <2>1 DEF WorkerInv, TerminalStates
  <2>3. lock = "free"
    BY <1>3 DEF AtPlace
  <2> QED BY <1>1, <2>2, <2>3 DEF CloseInv, LockInv, closed
<1>4. CASE MarkFailed(j) /\ AtPlace(j, {"raised", "callback"}) /\ published' = published
  <2>1. Contract!SettleAs(j, "failed")
    BY <1>1, <1>4, SettleMaps DEF MarkFailed, TerminalStates
  <2>2. ~closed /\ View[j] = "running"
    BY <1>3, <1>4 DEF AtPlace
  <2> QED BY <1>1, <1>4, <2>1, <2>2 DEF Contract!Settle, Contract!Fail, closed
<1>5. CASE MarkSucceeded(j) /\ AtPlace(j, {"writing"}) /\ published' = published \cup {j}
  <2>1. Contract!SettleAs(j, "succeeded")
    BY <1>1, <1>5, SettleMaps DEF MarkSucceeded, TerminalStates
  <2>2. ~closed /\ View[j] = "running"
    BY <1>3, <1>5 DEF AtPlace
  <2> QED BY <1>1, <1>5, <2>1, <2>2 DEF Contract!Settle, Contract!Succeed, closed
<1> QED BY <1>2, <1>4, <1>5 DEF SettlesOne

LEMMA ContractStep ==
    ASSUME IndInv, IndInv', RunInv, [Next]_vars
    PROVE  [Contract!Next]_(Contract!contractVars)
<1>1. CASE SettlesNone /\ closed' = closed
  BY <1>1 DEF SettlesNone, jobVars, View, Contract!contractVars
<1>2. CASE SettlesNone /\ CloseBegin
  <2>1. Contract!Stop
    BY <1>2 DEF SettlesNone, CloseBegin, jobVars, View, closed, Contract!Stop
  <2> QED BY <2>1 DEF Contract!Next
<1>3. ASSUME NEW j \in Jobs, SettlesOne(j) \/ Admits(j) \/ Starts(j)
      PROVE  Contract!Next
  BY <1>3, SettlesOneMaps, AdmitMaps, StartMaps DEF Contract!Next
<1> QED BY <1>1, <1>2, <1>3, JobEffect, ClosedStep

\* What a client can read of the service is a behaviour of the contract: jobs
\* move from queued over running to one outcome, below the capacity limit,
\* success and artifact together, the last MaxTerminal outcomes readable.
THEOREM ContractSafety == Safety => Contract!Safety
<1>1. Init => Contract!Init /\ RunInv
  BY DEF Init, Contract!Init, View, RunInv, closed
<1>2. IndInv /\ IndInv' /\ RunInv /\ [Next]_vars => RunInv'
  BY RunStep
<1>3. IndInv /\ IndInv' /\ RunInv /\ [Next]_vars => [Contract!Next]_(Contract!contractVars)
  BY ContractStep
<1> QED BY Inductive, <1>1, <1>2, <1>3, PTL DEF Safety, Contract!Safety
=============================================================================
