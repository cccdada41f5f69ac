----------------------- MODULE ScienceWorkspaceProofs -----------------------
(***************************************************************************)
(* Proofs about ScienceWorkspace for every set of jobs, every number of    *)
(* calls under way and every limit of the service.                         *)
(***************************************************************************)
EXTENDS ScienceWorkspace, SequenceTheorems, TLAPS

-----------------------------------------------------------------------------
(* The inductive invariant.                                                *)

\* Answers that do not carry the outcome of a request.
Silent == {"none", "error"}

\* What the page knows of the jobs.  The id a POST is answered with belongs to
\* nobody else until the page has read it.
JobInv ==
    /\ \A j \in learned : view[j] # "unknown"
    /\ currentJob \in learned \cup {NoJob}
    /\ \A c \in Calls : at[c] \in {"idle", "checking"} => job[c] = NoJob
    /\ \A c \in Calls : at[c] \in {"polling", "fetching", "cancelling", "cancellingLate"} =>
           job[c] \in learned
    /\ \A c \in Calls : at[c] = "submitting" => job[c] \notin learned
    /\ \A c \in Calls : at[c] = "submitting" /\ reply[c] \notin Silent =>
           job[c] # NoJob
    /\ \A c \in Calls : job[c] # NoJob => view[job[c]] # "unknown"
    /\ \A c, d \in Calls : c # d /\ at[c] = "submitting" /\ job[c] = job[d] => job[c] = NoJob

\* What an answer on its way still says when it arrives.
ReplyInv ==
    /\ \A j \in Jobs : view[j] = "succeeded" => j \in artifacts
    /\ \A c \in Calls : at[c] = "polling" /\ reply[c] \in TerminalStates => ~Service!Live(job[c])
    /\ \A c \in Calls : at[c] = "fetching" =>
           reply[c] \in Silent \/ job[c] \in artifacts
    /\ \A c \in Calls : at[c] \in PageSignal =>
           reply[c] \in Silent \/ ~Service!Live(job[c])

\* The service cancels a job once, so two deletions that it has carried out are
\* of different jobs.
CancelInv ==
    \A c, d \in Calls :
      /\ c # d
      /\ at[c] \in PageSignal /\ reply[c] \notin Silent
      /\ at[d] \in PageSignal /\ reply[d] \notin Silent
      => job[c] # job[d]

\* Who has the turn, and what the buttons say meanwhile.
TurnInv ==
    /\ RequestsExclusive
    /\ active # NoCall => at[active] \in OwnSignal \cup {"cancellingLate"}
    /\ active # NoCall /\ active \notin aborted => runDisabled
    /\ ~runDisabled => currentJob = NoJob
    /\ active = NoCall =>
           /\ runDisabled = (~ready \/ currentJob # NoJob)
           /\ cancelDisabled = (currentJob = NoJob)

\* How the job a call works on relates to the job on the page: a call that may
\* still change the page works on the current one, and its result is not shown yet.
CurrentInv ==
    /\ \A c \in Calls \ aborted :
           /\ at[c] = "submitting" => currentJob = NoJob /\ shown = NoJob
           /\ at[c] = "polling" => currentJob = job[c] /\ shown = NoJob /\ lastJob = job[c]
           /\ at[c] = "fetching" => shown = NoJob /\ lastJob = job[c]
    /\ \A c \in Calls : at[c] = "cancelling" =>
           /\ currentJob = job[c] \/ ~Service!Live(job[c])
           /\ reply[c] \notin Silent => currentJob = job[c]
           /\ \A d \in Calls \ aborted : at[d] = "polling" => job[c] # currentJob

IndInv ==
    /\ TypeOK
    /\ JobInv
    /\ ReplyInv
    /\ CancelInv
    /\ TurnInv
    /\ CurrentInv
    /\ KnownJobTracked
    /\ ShownIsLatest

-----------------------------------------------------------------------------
(* The service.                                                            *)

LEMMA NoCallFresh == NoCall \notin Calls
BY DEF NoCall, Calls

\* What a client may rely on whatever the service does: a job once known stays
\* known, a job that is over never lives again, a success has its artifact.
Evolves ==
    /\ view' \in [Jobs -> {"unknown", "queued", "running", "forgotten"} \cup TerminalStates]
    /\ recent' \in Seq(Jobs)
    /\ artifacts' \in SUBSET Jobs
    /\ accepting' \in BOOLEAN
    /\ artifacts \subseteq artifacts'
    /\ \A j \in Jobs :
         /\ view[j] # "unknown" => view'[j] # "unknown"
         /\ view[j] # "unknown" /\ ~Service!Live(j) => ~Service!Live(j)'
         /\ view'[j] = "succeeded" => view[j] = "succeeded" \/ j \in artifacts'

LEMMA SettleEvolves ==
    ASSUME TypeOK, NEW j \in Jobs, Service!Live(j), NEW outcome \in TerminalStates,
           Service!SettleAs(j, outcome), accepting' \in BOOLEAN,
           artifacts' = artifacts \/ artifacts' = artifacts \cup {j},
           outcome = "succeeded" => j \in artifacts'
    PROVE  Evolves /\ ~Service!Live(j)'
<1> DEFINE settled == [view EXCEPT ![j] = outcome]
           order   == Append(recent, j)
<1>1. order \in Seq(Jobs) /\ order # <<>>
  BY AppendProperties DEF TypeOK
<1>2. Head(order) \in Jobs /\ Tail(order) \in Seq(Jobs)
  BY <1>1, HeadTailProperties
<1>3. recent' \in Seq(Jobs)
  BY <1>1, <1>2 DEF Service!SettleAs
<1>4. view' = settled \/ view' = [settled EXCEPT ![Head(order)] = "forgotten"]
  BY DEF Service!SettleAs
<1> HIDE DEF order
<1> QED BY <1>2, <1>3, <1>4 DEF Evolves, TypeOK, TerminalStates, Service!Live

LEMMA AdmitEvolves ==
    ASSUME TypeOK, NEW j \in Jobs, Service!Admit(j)
    PROVE  Evolves
BY DEF Evolves, TypeOK, TerminalStates, Service!Admit, Service!Live

LEMMA CancelEvolves ==
    ASSUME TypeOK, NEW j \in Jobs, Service!Cancel(j)
    PROVE  Evolves /\ ~Service!Live(j)'
BY SettleEvolves DEF Service!Cancel, TypeOK, TerminalStates

LEMMA IdleEvolves ==
    ASSUME TypeOK, UNCHANGED serviceVars
    PROVE  Evolves
BY DEF Evolves, TypeOK, serviceVars, Service!Live

LEMMA ServiceWorksEvolves ==
    ASSUME TypeOK, ServiceWorks
    PROVE  Evolves
<1>1. ASSUME NEW j \in Jobs, Service!Start(j) PROVE Evolves
  BY <1>1 DEF Evolves, TypeOK, TerminalStates, Service!Start, Service!Live
<1>2. ASSUME NEW j \in Jobs, Service!Succeed(j) PROVE Evolves
  BY <1>2, SettleEvolves DEF Service!Succeed, Service!Live, TypeOK, TerminalStates
<1>3. ASSUME NEW j \in Jobs, Service!Fail(j) PROVE Evolves
  BY <1>3, SettleEvolves DEF Service!Fail, Service!Live, TypeOK, TerminalStates
<1>4. ASSUME Service!Stop PROVE Evolves
  BY <1>4 DEF Evolves, TypeOK, Service!Stop, Service!Live
<1> QED BY <1>1, <1>2, <1>3, <1>4, CancelEvolves DEF ServiceWorks

LEMMA RestartEvolves ==
    ASSUME TypeOK, ServiceRestarts
    PROVE  Evolves
<1>1. <<>> \in Seq(Jobs)
  BY EmptySeq
<1> QED BY <1>1 DEF Evolves, TypeOK, TerminalStates, ServiceRestarts, Service!Live

-----------------------------------------------------------------------------
(* Every step preserves the invariant.                                     *)

USE DEF serviceVars, pageVars, buttonVars, callVars, historyVars,
        OwnSignal, PageSignal, Awaiting, TerminalStates, Silent

\* One lemma per action, one step per part of the invariant: the action with
\* what the service did in the same step, summed up by Evolves.
LEMMA RefreshInd ==
    ASSUME IndInv, NEW c \in Calls, Refresh(c), Evolves
    PROVE  IndInv'
<1>1. TypeOK'
  BY DEF IndInv, TypeOK, Places, Replies, Refresh, StartRequest, SetBusy,
     AbortActive, Sends
<1>2. JobInv'
  BY DEF IndInv, JobInv, Refresh, Sends, IsNext
<1>3. ReplyInv'
  BY DEF IndInv, TypeOK, JobInv, ReplyInv, Evolves, Refresh, Sends
<1>4. CancelInv'
  BY DEF IndInv, CancelInv, Refresh, Sends
<1>5. TurnInv'
  BY NoCallFresh, WorkspaceAssumption DEF IndInv, TypeOK, TurnInv,
     RequestsExclusive, CurrentInv, Refresh, StartRequest, SetBusy, AbortActive, Sends,
     Quiet, MustReject, IsNext
<1>6. CurrentInv'
  BY DEF IndInv, TypeOK, JobInv, CurrentInv, Evolves, Refresh, StartRequest,
     AbortActive, Sends
<1>7. KnownJobTracked'
  BY DEF IndInv, TypeOK, JobInv, KnownJobTracked, Evolves, Refresh, Sends, IsNext
<1>8. ShownIsLatest'
  BY DEF IndInv, ShownIsLatest, Refresh
<1> QED BY <1>1, <1>2, <1>3, <1>4, <1>5, <1>6, <1>7, <1>8 DEF IndInv

LEMMA RunInd ==
    ASSUME IndInv, NEW c \in Calls, Run(c), Evolves
    PROVE  IndInv'
<1>1. TypeOK'
  BY DEF IndInv, TypeOK, Places, Replies, Run, StartRequest, SetBusy, AbortActive,
     Sends
<1>2. JobInv'
  BY WorkspaceAssumption DEF IndInv, TypeOK, JobInv, Run, Sends, IsNext
<1>3. ReplyInv'
  BY DEF IndInv, TypeOK, JobInv, ReplyInv, Evolves, Run, Sends
<1>4. CancelInv'
  BY DEF IndInv, CancelInv, Run, Sends
<1>5. TurnInv'
  BY NoCallFresh, WorkspaceAssumption DEF IndInv, TypeOK, TurnInv,
     RequestsExclusive, CurrentInv, Run, StartRequest, SetBusy, AbortActive, Sends,
     Quiet, MustReject, IsNext
<1>6. CurrentInv'
  BY NoCallFresh DEF IndInv, TypeOK, JobInv, TurnInv, RequestsExclusive, CurrentInv,
     Evolves, Run, StartRequest, AbortActive, Sends
<1>7. KnownJobTracked'
  BY DEF IndInv, TypeOK, JobInv, KnownJobTracked, Evolves, Run, Sends, IsNext
<1>8. ShownIsLatest'
  BY DEF ShownIsLatest, Run
<1> QED BY <1>1, <1>2, <1>3, <1>4, <1>5, <1>6, <1>7, <1>8 DEF IndInv

LEMMA CancelJobInd ==
    ASSUME IndInv, NEW c \in Calls, CancelJob(c), Evolves
    PROVE  IndInv'
<1>1. TypeOK'
  BY DEF IndInv, TypeOK, Places, Replies, CancelJob, AbortActive, Sends
<1>2. JobInv'
  BY DEF IndInv, TypeOK, JobInv, CancelJob, Sends
<1>3. ReplyInv'
  BY DEF IndInv, TypeOK, JobInv, ReplyInv, Evolves, CancelJob, Sends
<1>4. CancelInv'
  BY DEF IndInv, TypeOK, CancelInv, CancelJob, Sends
<1>5. TurnInv'
  BY DEF IndInv, TurnInv, RequestsExclusive, CancelJob, AbortActive, Sends, IsNext
<1>6. CurrentInv'
  BY NoCallFresh DEF IndInv, TypeOK, JobInv, TurnInv, RequestsExclusive, CurrentInv,
     Evolves, CancelJob, AbortActive, Sends
<1>7. KnownJobTracked'
  BY DEF IndInv, TypeOK, JobInv, KnownJobTracked, Evolves, CancelJob, Sends, IsNext
<1>8. ShownIsLatest'
  BY DEF IndInv, ShownIsLatest, CancelJob
<1> QED BY <1>1, <1>2, <1>3, <1>4, <1>5, <1>6, <1>7, <1>8 DEF IndInv

LEMMA CancelNothingInd ==
    ASSUME IndInv, CancelNothing, Evolves
    PROVE  IndInv'
<1>1. TypeOK'
  BY DEF IndInv, TypeOK, CancelNothing, AbortActive, SetBusy
<1>2. JobInv'
  BY DEF IndInv, JobInv, CancelNothing
<1>3. ReplyInv'
  BY DEF IndInv, TypeOK, JobInv, ReplyInv, Evolves, CancelNothing
<1>4. CancelInv'
  BY DEF IndInv, CancelInv, CancelNothing
<1>5. TurnInv'
  BY DEF IndInv, TurnInv, RequestsExclusive, CancelNothing, AbortActive, SetBusy
<1>6. CurrentInv'
  BY DEF IndInv, TypeOK, JobInv, CurrentInv, Evolves, CancelNothing, AbortActive
<1>7. KnownJobTracked'
  BY DEF IndInv, TypeOK, JobInv, KnownJobTracked, Evolves, CancelNothing
<1>8. ShownIsLatest'
  BY DEF IndInv, ShownIsLatest, CancelNothing
<1> QED BY <1>1, <1>2, <1>3, <1>4, <1>5, <1>6, <1>7, <1>8 DEF IndInv

LEMMA PageClosesInd ==
    ASSUME IndInv, PageCloses, Evolves
    PROVE  IndInv'
<1>1. TypeOK'
  BY DEF IndInv, TypeOK, PageCloses
<1>2. JobInv'
  BY DEF IndInv, JobInv, PageCloses
<1>3. ReplyInv'
  BY DEF IndInv, TypeOK, JobInv, ReplyInv, Evolves, PageCloses
<1>4. CancelInv'
  BY DEF IndInv, CancelInv, PageCloses
<1>5. TurnInv'
  BY DEF IndInv, TurnInv, RequestsExclusive, PageCloses
<1>6. CurrentInv'
  BY DEF IndInv, TypeOK, JobInv, CurrentInv, Evolves, PageCloses
<1>7. KnownJobTracked'
  BY DEF KnownJobTracked, PageCloses
<1>8. ShownIsLatest'
  BY DEF IndInv, ShownIsLatest, PageCloses
<1> QED BY <1>1, <1>2, <1>3, <1>4, <1>5, <1>6, <1>7, <1>8 DEF IndInv

LEMMA CapabilitiesAnsweredInd ==
    ASSUME IndInv, NEW c \in Calls, CapabilitiesAnswered(c), Evolves
    PROVE  IndInv'
<1>1. TypeOK'
  BY DEF IndInv, TypeOK, Places, Replies, CapabilitiesAnswered, FinishRequest,
     SetBusy, Ends
<1>2. JobInv'
  BY DEF IndInv, TypeOK, JobInv, CapabilitiesAnswered, Ends
<1>3. ReplyInv'
  BY DEF IndInv, TypeOK, JobInv, ReplyInv, Evolves, CapabilitiesAnswered, Ends
<1>4. CancelInv'
  BY DEF IndInv, TypeOK, CancelInv, CapabilitiesAnswered, Ends
<1>5. TurnInv'
  BY DEF IndInv, TypeOK, TurnInv, RequestsExclusive, CapabilitiesAnswered, Answered,
     Quiet, MustReject, FinishRequest, SetBusy, Ends
<1>6. CurrentInv'
  BY DEF IndInv, TypeOK, JobInv, CurrentInv, Evolves, CapabilitiesAnswered, Ends
<1>7. KnownJobTracked'
  BY DEF IndInv, TypeOK, JobInv, KnownJobTracked, Evolves, CapabilitiesAnswered,
     Answered, Ends
<1>8. ShownIsLatest'
  BY DEF IndInv, ShownIsLatest, CapabilitiesAnswered
<1> QED BY <1>1, <1>2, <1>3, <1>4, <1>5, <1>6, <1>7, <1>8 DEF IndInv

LEMMA SubmitAnsweredInd ==
    ASSUME IndInv, NEW c \in Calls, SubmitAnswered(c), Evolves
    PROVE  IndInv'
<1>1. TypeOK'
  BY DEF IndInv, TypeOK, JobInv, Places, Replies, SubmitAnswered, Answered, Sends
<1>2. JobInv'
  BY DEF IndInv, TypeOK, JobInv, SubmitAnswered, Answered, Sends
<1>3. ReplyInv'
  BY DEF IndInv, TypeOK, JobInv, ReplyInv, Evolves, SubmitAnswered, Sends
<1>4. CancelInv'
  BY DEF IndInv, CancelInv, SubmitAnswered, Sends
<1>5. TurnInv'
  BY NoCallFresh DEF IndInv, TurnInv, RequestsExclusive, SubmitAnswered, Answered,
     Quiet, MustReject, Sends
<1>6. CurrentInv'
  BY WorkspaceAssumption DEF IndInv, TypeOK, JobInv, TurnInv, RequestsExclusive,
     CurrentInv, Evolves, SubmitAnswered, Answered, Quiet, MustReject, Sends
<1>7. KnownJobTracked'
  BY WorkspaceAssumption DEF IndInv, TypeOK, JobInv, CurrentInv, KnownJobTracked,
     Evolves, SubmitAnswered, Answered, Quiet, MustReject, Sends
<1>8. ShownIsLatest'
  BY DEF IndInv, CurrentInv, ShownIsLatest, SubmitAnswered, Answered, Quiet,
     MustReject
<1> QED BY <1>1, <1>2, <1>3, <1>4, <1>5, <1>6, <1>7, <1>8 DEF IndInv

LEMMA PollAgainInd ==
    ASSUME IndInv, NEW c \in Calls, PollAgain(c), Evolves
    PROVE  IndInv'
<1>1. TypeOK'
  BY DEF IndInv, TypeOK, Places, Replies, PollAgain, Sends
<1>2. JobInv'
  BY DEF IndInv, JobInv, PollAgain, Answered, Sends
<1>3. ReplyInv'
  BY DEF IndInv, TypeOK, JobInv, ReplyInv, Evolves, PollAgain, Sends
<1>4. CancelInv'
  BY DEF IndInv, CancelInv, PollAgain, Sends
<1>5. TurnInv'
  BY DEF IndInv, TurnInv, RequestsExclusive, PollAgain, Answered, Sends
<1>6. CurrentInv'
  BY DEF IndInv, TypeOK, JobInv, CurrentInv, Evolves, PollAgain, Answered, Sends
<1>7. KnownJobTracked'
  BY DEF IndInv, TypeOK, JobInv, KnownJobTracked, Evolves, PollAgain, Answered,
     Sends
<1>8. ShownIsLatest'
  BY DEF IndInv, ShownIsLatest, PollAgain
<1> QED BY <1>1, <1>2, <1>3, <1>4, <1>5, <1>6, <1>7, <1>8 DEF IndInv

LEMMA BudgetExhaustedInd ==
    ASSUME IndInv, NEW c \in Calls, BudgetExhausted(c), Evolves
    PROVE  IndInv'
<1>1. TypeOK'
  BY DEF IndInv, TypeOK, Places, Replies, BudgetExhausted, Sends
<1>2. JobInv'
  BY DEF IndInv, JobInv, BudgetExhausted, Answered, Sends
<1>3. ReplyInv'
  BY DEF IndInv, TypeOK, JobInv, ReplyInv, Evolves, BudgetExhausted, Sends
<1>4. CancelInv'
  BY DEF IndInv, TypeOK, CancelInv, BudgetExhausted, Sends
<1>5. TurnInv'
  BY NoCallFresh DEF IndInv, TurnInv, RequestsExclusive, BudgetExhausted, Answered,
     Quiet, MustReject, Sends
<1>6. CurrentInv'
  BY DEF IndInv, TypeOK, JobInv, TurnInv, RequestsExclusive, CurrentInv, Evolves,
     BudgetExhausted, Answered, Quiet, MustReject, Sends
<1>7. KnownJobTracked'
  BY DEF IndInv, TypeOK, JobInv, CurrentInv, KnownJobTracked, Evolves,
     BudgetExhausted, Answered, Quiet, MustReject, Sends
<1>8. ShownIsLatest'
  BY DEF IndInv, ShownIsLatest, BudgetExhausted
<1> QED BY <1>1, <1>2, <1>3, <1>4, <1>5, <1>6, <1>7, <1>8 DEF IndInv

LEMMA PollSucceededInd ==
    ASSUME IndInv, NEW c \in Calls, PollSucceeded(c), Evolves
    PROVE  IndInv'
<1>1. TypeOK'
  BY DEF IndInv, TypeOK, Places, Replies, PollSucceeded, Sends
<1>2. JobInv'
  BY DEF IndInv, JobInv, PollSucceeded, Answered, Sends
<1>3. ReplyInv'
  BY DEF IndInv, TypeOK, JobInv, ReplyInv, Evolves, PollSucceeded, Sends
<1>4. CancelInv'
  BY DEF IndInv, CancelInv, PollSucceeded, Sends
<1>5. TurnInv'
  BY NoCallFresh DEF IndInv, TurnInv, RequestsExclusive, PollSucceeded, Answered,
     Quiet, MustReject, Sends
<1>6. CurrentInv'
  BY DEF IndInv, TypeOK, JobInv, TurnInv, RequestsExclusive, CurrentInv, Evolves,
     PollSucceeded, Answered, Quiet, MustReject, Sends
<1>7. KnownJobTracked'
  BY WorkspaceAssumption DEF IndInv, TypeOK, JobInv, ReplyInv, CurrentInv,
     KnownJobTracked, Evolves, PollSucceeded, Answered, Quiet, MustReject, Sends
<1>8. ShownIsLatest'
  BY DEF IndInv, ShownIsLatest, PollSucceeded
<1> QED BY <1>1, <1>2, <1>3, <1>4, <1>5, <1>6, <1>7, <1>8 DEF IndInv

LEMMA PollFailedInd ==
    ASSUME IndInv, NEW c \in Calls, PollFailed(c), Evolves
    PROVE  IndInv'
<1>1. TypeOK'
  BY DEF IndInv, TypeOK, Places, Replies, PollFailed, FinishRequest, SetBusy, Ends
<1>2. JobInv'
  BY DEF IndInv, TypeOK, JobInv, PollFailed, Ends
<1>3. ReplyInv'
  BY DEF IndInv, TypeOK, JobInv, ReplyInv, Evolves, PollFailed, Ends
<1>4. CancelInv'
  BY DEF IndInv, TypeOK, CancelInv, PollFailed, Ends
<1>5. TurnInv'
  BY DEF IndInv, TypeOK, TurnInv, RequestsExclusive, PollFailed, Answered, Quiet,
     MustReject, FinishRequest, SetBusy, Ends
<1>6. CurrentInv'
  BY DEF IndInv, TypeOK, JobInv, TurnInv, RequestsExclusive, CurrentInv, Evolves,
     PollFailed, Answered, Quiet, MustReject, Ends
<1>7. KnownJobTracked'
  BY DEF IndInv, TypeOK, JobInv, ReplyInv, CurrentInv, KnownJobTracked, Evolves,
     PollFailed, Answered, Quiet, MustReject, Ends
<1>8. ShownIsLatest'
  BY DEF IndInv, ShownIsLatest, PollFailed
<1> QED BY <1>1, <1>2, <1>3, <1>4, <1>5, <1>6, <1>7, <1>8 DEF IndInv

LEMMA ResultAnsweredInd ==
    ASSUME IndInv, NEW c \in Calls, ResultAnswered(c), Evolves
    PROVE  IndInv'
<1>1. TypeOK'
  BY DEF IndInv, TypeOK, Places, Replies, ResultAnswered, FinishRequest, SetBusy,
     Ends
<1>2. JobInv'
  BY DEF IndInv, TypeOK, JobInv, ResultAnswered, Ends
<1>3. ReplyInv'
  BY DEF IndInv, TypeOK, JobInv, ReplyInv, Evolves, ResultAnswered, Ends
<1>4. CancelInv'
  BY DEF IndInv, TypeOK, CancelInv, ResultAnswered, Ends
<1>5. TurnInv'
  BY DEF IndInv, TypeOK, TurnInv, RequestsExclusive, ResultAnswered, FinishRequest,
     SetBusy, Ends
<1>6. CurrentInv'
  BY DEF IndInv, TypeOK, JobInv, TurnInv, RequestsExclusive, CurrentInv, Evolves,
     ResultAnswered, Answered, Quiet, MustReject, Ends
<1>7. KnownJobTracked'
  BY DEF IndInv, TypeOK, JobInv, KnownJobTracked, Evolves, ResultAnswered, Answered,
     Ends
<1>8. ShownIsLatest'
  BY DEF IndInv, ReplyInv, CurrentInv, ShownIsLatest, ResultAnswered, Answered,
     Quiet, MustReject
<1> QED BY <1>1, <1>2, <1>3, <1>4, <1>5, <1>6, <1>7, <1>8 DEF IndInv

LEMMA LateCancelAnsweredInd ==
    ASSUME IndInv, NEW c \in Calls, LateCancelAnswered(c), Evolves
    PROVE  IndInv'
<1>1. TypeOK'
  BY DEF IndInv, TypeOK, Places, Replies, LateCancelAnswered, FinishRequest,
     SetBusy, Ends
<1>2. JobInv'
  BY DEF IndInv, TypeOK, JobInv, LateCancelAnswered, Ends
<1>3. ReplyInv'
  BY DEF IndInv, TypeOK, JobInv, ReplyInv, Evolves, LateCancelAnswered, Ends
<1>4. CancelInv'
  BY DEF IndInv, TypeOK, CancelInv, LateCancelAnswered, Ends
<1>5. TurnInv'
  BY DEF IndInv, TypeOK, TurnInv, RequestsExclusive, LateCancelAnswered,
     FinishRequest, SetBusy, Ends
<1>6. CurrentInv'
  BY DEF IndInv, TypeOK, JobInv, CurrentInv, Evolves, LateCancelAnswered, Ends
<1>7. KnownJobTracked'
  BY DEF IndInv, TypeOK, JobInv, ReplyInv, KnownJobTracked, Evolves,
     LateCancelAnswered, Answered, Ends
<1>8. ShownIsLatest'
  BY DEF IndInv, ShownIsLatest, LateCancelAnswered
<1> QED BY <1>1, <1>2, <1>3, <1>4, <1>5, <1>6, <1>7, <1>8 DEF IndInv

LEMMA CancelAnsweredInd ==
    ASSUME IndInv, NEW c \in Calls, CancelAnswered(c), Evolves
    PROVE  IndInv'
<1>1. TypeOK'
  BY DEF IndInv, TypeOK, Places, Replies, CancelAnswered, SetBusy, Ends
<1>2. JobInv'
  BY DEF IndInv, TypeOK, JobInv, CancelAnswered, Ends
<1>3. ReplyInv'
  BY DEF IndInv, TypeOK, JobInv, ReplyInv, Evolves, CancelAnswered, Ends
<1>4. CancelInv'
  BY DEF IndInv, TypeOK, CancelInv, CancelAnswered, Ends
<1>5. TurnInv'
  BY DEF IndInv, TypeOK, TurnInv, RequestsExclusive, CancelAnswered, Answered,
     SetBusy, Ends
<1>6. CurrentInv'
  BY DEF IndInv, TypeOK, JobInv, ReplyInv, CancelInv, CurrentInv, Evolves,
     CancelAnswered, Answered, Ends
<1>7. KnownJobTracked'
  BY DEF IndInv, TypeOK, JobInv, ReplyInv, CurrentInv, KnownJobTracked, Evolves,
     CancelAnswered, Answered, Ends
<1>8. ShownIsLatest'
  BY DEF IndInv, ShownIsLatest, CancelAnswered
<1> QED BY <1>1, <1>2, <1>3, <1>4, <1>5, <1>6, <1>7, <1>8 DEF IndInv

LEMMA RequestErrsInd ==
    ASSUME IndInv, NEW c \in Calls, RequestErrs(c), Evolves
    PROVE  IndInv'
<1>1. TypeOK'
  BY DEF IndInv, TypeOK, Places, Replies, RequestErrs, Catch, FinishRequest,
     SetBusy, Ends
<1>2. JobInv'
  BY DEF IndInv, TypeOK, JobInv, RequestErrs, Catch, Ends
<1>3. ReplyInv'
  BY DEF IndInv, TypeOK, JobInv, ReplyInv, Evolves, RequestErrs, Catch, Ends
<1>4. CancelInv'
  BY DEF IndInv, CancelInv, RequestErrs, Catch, Ends
<1>5. TurnInv'
  BY DEF IndInv, TypeOK, TurnInv, RequestsExclusive, RequestErrs, Catch,
     FinishRequest, SetBusy, Ends
<1>6. CurrentInv'
  BY DEF IndInv, TypeOK, JobInv, CurrentInv, Evolves, RequestErrs, Catch, Ends
<1>7. KnownJobTracked'
  BY DEF IndInv, TypeOK, JobInv, KnownJobTracked, Evolves, RequestErrs, Catch, Ends
<1>8. ShownIsLatest'
  BY DEF IndInv, ShownIsLatest, RequestErrs, Catch
<1> QED BY <1>1, <1>2, <1>3, <1>4, <1>5, <1>6, <1>7, <1>8 DEF IndInv

LEMMA RejectedInd ==
    ASSUME IndInv, NEW c \in Calls, Rejected(c), Evolves
    PROVE  IndInv'
<1>1. TypeOK'
  BY DEF IndInv, TypeOK, Places, Replies, Rejected, Catch, FinishRequest, SetBusy,
     Ends
<1>2. JobInv'
  BY DEF IndInv, TypeOK, JobInv, Rejected, Catch, Ends
<1>3. ReplyInv'
  BY DEF IndInv, TypeOK, JobInv, ReplyInv, Evolves, Rejected, Catch, Ends
<1>4. CancelInv'
  BY DEF IndInv, TypeOK, CancelInv, Rejected, Catch, Ends
<1>5. TurnInv'
  BY DEF IndInv, TypeOK, TurnInv, RequestsExclusive, Rejected, Catch, FinishRequest,
     SetBusy, Ends
<1>6. CurrentInv'
  BY DEF IndInv, TypeOK, JobInv, CurrentInv, Evolves, Rejected, Catch, Ends
<1>7. KnownJobTracked'
  BY DEF IndInv, TypeOK, JobInv, KnownJobTracked, Evolves, Rejected, Catch, Ends
<1>8. ShownIsLatest'
  BY DEF IndInv, ShownIsLatest, Rejected, Catch
<1> QED BY <1>1, <1>2, <1>3, <1>4, <1>5, <1>6, <1>7, <1>8 DEF IndInv

LEMMA ServeCapabilitiesInd ==
    ASSUME IndInv, NEW c \in Calls, ServeCapabilities(c), Evolves
    PROVE  IndInv'
<1>1. TypeOK'
  BY DEF IndInv, TypeOK, Replies, ServeCapabilities, Answer
<1>2. JobInv'
  BY DEF IndInv, JobInv, ServeCapabilities, Waiting, Answer
<1>3. ReplyInv'
  BY DEF IndInv, TypeOK, JobInv, ReplyInv, Evolves, ServeCapabilities, Waiting,
     Answer
<1>4. CancelInv'
  BY DEF IndInv, CancelInv, ServeCapabilities, Waiting, Answer
<1>5. TurnInv'
  BY DEF IndInv, TurnInv, RequestsExclusive, ServeCapabilities, Answer
<1>6. CurrentInv'
  BY DEF IndInv, TypeOK, JobInv, CurrentInv, Evolves, ServeCapabilities, Waiting,
     Answer
<1>7. KnownJobTracked'
  BY DEF IndInv, TypeOK, JobInv, KnownJobTracked, Evolves, ServeCapabilities, Answer
<1>8. ShownIsLatest'
  BY DEF IndInv, ShownIsLatest, ServeCapabilities, Answer
<1> QED BY <1>1, <1>2, <1>3, <1>4, <1>5, <1>6, <1>7, <1>8 DEF IndInv

LEMMA ServeSubmitInd ==
    ASSUME IndInv, NEW c \in Calls, ServeSubmit(c), Evolves
    PROVE  IndInv'
<1>1. TypeOK'
  BY DEF IndInv, TypeOK, Evolves, Replies, ServeSubmit, Answer
<1>2. JobInv'
  BY WorkspaceAssumption DEF IndInv, TypeOK, JobInv, ServeSubmit, Waiting, Answer,
     Service!Admit
<1>3. ReplyInv'
  BY DEF IndInv, TypeOK, JobInv, ReplyInv, Evolves, ServeSubmit, Waiting, Answer
<1>4. CancelInv'
  BY DEF IndInv, CancelInv, ServeSubmit, Waiting, Answer
<1>5. TurnInv'
  BY DEF IndInv, TurnInv, RequestsExclusive, ServeSubmit, Answer
<1>6. CurrentInv'
  BY DEF IndInv, TypeOK, JobInv, CurrentInv, Evolves, ServeSubmit, Waiting, Answer
<1>7. KnownJobTracked'
  BY DEF IndInv, TypeOK, JobInv, KnownJobTracked, Evolves, ServeSubmit, Waiting,
     Answer
<1>8. ShownIsLatest'
  BY DEF IndInv, ShownIsLatest, Evolves, ServeSubmit, Answer
<1> QED BY <1>1, <1>2, <1>3, <1>4, <1>5, <1>6, <1>7, <1>8 DEF IndInv

LEMMA ServeStatusInd ==
    ASSUME IndInv, NEW c \in Calls, ServeStatus(c), Evolves
    PROVE  IndInv'
<1>1. TypeOK'
  BY DEF IndInv, TypeOK, JobInv, Replies, ServeStatus, Waiting, Answer
<1>2. JobInv'
  BY DEF IndInv, JobInv, ServeStatus, Waiting, Answer
<1>3. ReplyInv'
  BY DEF IndInv, ReplyInv, Service!Live, ServeStatus, Waiting, Answer
<1>4. CancelInv'
  BY DEF IndInv, CancelInv, ServeStatus, Waiting, Answer
<1>5. TurnInv'
  BY DEF IndInv, TurnInv, RequestsExclusive, ServeStatus, Answer
<1>6. CurrentInv'
  BY DEF IndInv, TypeOK, JobInv, CurrentInv, Evolves, ServeStatus, Waiting, Answer
<1>7. KnownJobTracked'
  BY DEF IndInv, TypeOK, JobInv, KnownJobTracked, Evolves, ServeStatus, Answer
<1>8. ShownIsLatest'
  BY DEF IndInv, ShownIsLatest, ServeStatus, Answer
<1> QED BY <1>1, <1>2, <1>3, <1>4, <1>5, <1>6, <1>7, <1>8 DEF IndInv

LEMMA ServeResultInd ==
    ASSUME IndInv, NEW c \in Calls, ServeResult(c), Evolves
    PROVE  IndInv'
<1>1. TypeOK'
  BY DEF IndInv, TypeOK, Replies, ServeResult, Answer
<1>2. JobInv'
  BY DEF IndInv, JobInv, ServeResult, Waiting, Answer
<1>3. ReplyInv'
  BY DEF IndInv, TypeOK, JobInv, ReplyInv, Service!Live, ServeResult, Answer
<1>4. CancelInv'
  BY DEF IndInv, CancelInv, ServeResult, Waiting, Answer
<1>5. TurnInv'
  BY DEF IndInv, TurnInv, RequestsExclusive, ServeResult, Answer
<1>6. CurrentInv'
  BY DEF IndInv, TypeOK, JobInv, CurrentInv, Evolves, ServeResult, Waiting, Answer
<1>7. KnownJobTracked'
  BY DEF IndInv, TypeOK, JobInv, KnownJobTracked, Evolves, ServeResult, Answer
<1>8. ShownIsLatest'
  BY DEF IndInv, ShownIsLatest, ServeResult, Answer
<1> QED BY <1>1, <1>2, <1>3, <1>4, <1>5, <1>6, <1>7, <1>8 DEF IndInv

LEMMA ServeDeleteInd ==
    ASSUME IndInv, NEW c \in Calls, ServeDelete(c), Evolves
    PROVE  IndInv'
<1>1. /\ at[c] \in PageSignal
     /\ \/ Service!Live(job[c]) /\ reply' = [reply EXCEPT ![c] = "cancelled"]
        \/ reply' = [reply EXCEPT ![c] = "error"]
     /\ UNCHANGED <<pageVars, buttonVars, at, job, historyVars>>
  BY DEF ServeDelete, Waiting, Answer
<1>2. Service!Live(job[c]) => ~(view'[job[c]] \in {"queued", "running"})
  BY CancelEvolves DEF IndInv, TypeOK, JobInv, Service!Live, ServeDelete, Waiting
<1>3. TypeOK'
  BY <1>1 DEF IndInv, TypeOK, Evolves, Replies
<1>4. JobInv'
  BY <1>1 DEF IndInv, TypeOK, JobInv, Evolves
<1>5. ReplyInv'
  BY <1>1, <1>2, NoCallFresh, WorkspaceAssumption DEF IndInv, TypeOK, JobInv,
     ReplyInv, TurnInv, CurrentInv, RequestsExclusive, Evolves, Service!Live
<1>6. CancelInv'
  BY <1>1 DEF IndInv, TypeOK, ReplyInv, CancelInv
<1>7. TurnInv'
  BY <1>1 DEF IndInv, TurnInv, RequestsExclusive
<1>8. CurrentInv'
  BY <1>1, <1>2 DEF IndInv, TypeOK, JobInv, CancelInv, CurrentInv, Evolves,
     Service!Live
<1>9. KnownJobTracked'
  BY <1>1 DEF IndInv, TypeOK, JobInv, KnownJobTracked, Evolves
<1>10. ShownIsLatest'
  BY <1>1 DEF IndInv, ShownIsLatest, Evolves
<1> QED BY <1>3, <1>4, <1>5, <1>6, <1>7, <1>8, <1>9, <1>10 DEF IndInv

LEMMA RequestFailsInd ==
    ASSUME IndInv, NEW c \in Calls, RequestFails(c), Evolves
    PROVE  IndInv'
<1>1. TypeOK'
  BY DEF IndInv, TypeOK, Replies, RequestFails, Answer
<1>2. JobInv'
  BY DEF IndInv, JobInv, RequestFails, Answer
<1>3. ReplyInv'
  BY DEF IndInv, TypeOK, JobInv, ReplyInv, Evolves, RequestFails, Answer
<1>4. CancelInv'
  BY DEF IndInv, CancelInv, RequestFails, Answer
<1>5. TurnInv'
  BY DEF IndInv, TurnInv, RequestsExclusive, RequestFails, Answer
<1>6. CurrentInv'
  BY DEF IndInv, TypeOK, JobInv, CurrentInv, Evolves, RequestFails, Answer
<1>7. KnownJobTracked'
  BY DEF IndInv, TypeOK, JobInv, KnownJobTracked, Evolves, RequestFails, Answer
<1>8. ShownIsLatest'
  BY DEF IndInv, ShownIsLatest, RequestFails, Answer
<1> QED BY <1>1, <1>2, <1>3, <1>4, <1>5, <1>6, <1>7, <1>8 DEF IndInv

\* A step that leaves the page alone.
LEMMA ServiceStepInd ==
    ASSUME IndInv, UNCHANGED clientVars, Evolves
    PROVE  IndInv'
<1> USE DEF clientVars
<1>1. TypeOK'
  BY DEF IndInv, TypeOK, Evolves
<1>2. JobInv'
  BY DEF IndInv, TypeOK, JobInv, Evolves
<1>3. ReplyInv'
  BY DEF IndInv, TypeOK, JobInv, ReplyInv, Evolves, Service!Live
<1>4. CancelInv' /\ TurnInv'
  BY DEF IndInv, CancelInv, TurnInv, RequestsExclusive
<1>5. CurrentInv'
  BY DEF IndInv, TypeOK, JobInv, CurrentInv, Evolves, Service!Live
<1>6. KnownJobTracked'
  BY DEF IndInv, TypeOK, JobInv, KnownJobTracked, Evolves, Service!Live
<1>7. ShownIsLatest'
  BY DEF IndInv, ShownIsLatest, Evolves
<1> QED BY <1>1, <1>2, <1>3, <1>4, <1>5, <1>6, <1>7 DEF IndInv

LEMMA InitInd == Init => IndInv
<1> SUFFICES ASSUME Init PROVE IndInv
  OBVIOUS
<1> USE NoCallFresh, WorkspaceAssumption DEF Init, Service!Init
<1>1. TypeOK
  <2>1. <<>> \in Seq(Jobs)
    BY EmptySeq
  <2> QED BY <2>1 DEF TypeOK, Places, Replies
<1>2. JobInv /\ ReplyInv /\ CancelInv
  BY DEF JobInv, ReplyInv, CancelInv
<1>3. TurnInv /\ CurrentInv
  BY DEF TurnInv, RequestsExclusive, CurrentInv
<1>4. KnownJobTracked /\ ShownIsLatest
  BY DEF KnownJobTracked, ShownIsLatest
<1> QED BY <1>1, <1>2, <1>3, <1>4 DEF IndInv

LEMMA StepInd == IndInv /\ [Next]_vars => IndInv'
<1> SUFFICES ASSUME IndInv, [Next]_vars PROVE IndInv'
  OBVIOUS
<1>t. TypeOK
  BY DEF IndInv
<1>1. ASSUME NEW c \in Calls, Refresh(c) \/ Run(c) \/ CancelJob(c) PROVE IndInv'
  <2>1. Evolves
    BY <1>1, <1>t, IdleEvolves DEF Refresh, Run, CancelJob
  <2> QED BY <1>1, <2>1, RefreshInd, RunInd, CancelJobInd
<1>2. CASE CancelNothing \/ PageCloses
  <2>1. Evolves
    BY <1>2, <1>t, IdleEvolves DEF CancelNothing, PageCloses
  <2> QED BY <1>2, <2>1, CancelNothingInd, PageClosesInd
<1>3. ASSUME NEW c \in Calls, Handles(c) PROVE IndInv'
  <2>1. Evolves
    BY <1>3, <1>t, IdleEvolves
       DEF Handles, PollEnds, CapabilitiesAnswered, SubmitAnswered, PollAgain,
           BudgetExhausted, PollSucceeded, PollFailed, ResultAnswered, LateCancelAnswered,
           CancelAnswered, RequestErrs, Rejected, Catch
  <2>2. CASE CapabilitiesAnswered(c) \/ SubmitAnswered(c)
    BY <2>1, <2>2, CapabilitiesAnsweredInd, SubmitAnsweredInd
  <2>3. CASE PollAgain(c) \/ PollEnds(c)
    BY <2>1, <2>3, PollAgainInd, BudgetExhaustedInd, PollSucceededInd, PollFailedInd
       DEF PollEnds
  <2>4. CASE ResultAnswered(c) \/ LateCancelAnswered(c) \/ CancelAnswered(c)
    BY <2>1, <2>4, ResultAnsweredInd, LateCancelAnsweredInd, CancelAnsweredInd
  <2>5. CASE RequestErrs(c) \/ Rejected(c)
    BY <2>1, <2>5, RequestErrsInd, RejectedInd
  <2> QED BY <1>3, <2>2, <2>3, <2>4, <2>5 DEF Handles
<1>4. ASSUME NEW c \in Calls, Serve(c) PROVE IndInv'
  <2>1. CASE ServeCapabilities(c) \/ ServeStatus(c) \/ ServeResult(c)
    <3>1. Evolves
      BY <2>1, <1>t, IdleEvolves DEF ServeCapabilities, ServeStatus, ServeResult
    <3> QED BY <2>1, <3>1, ServeCapabilitiesInd, ServeStatusInd, ServeResultInd
  <2>2. CASE ServeSubmit(c)
    <3>1. Evolves
      BY <2>2, <1>t, AdmitEvolves DEF ServeSubmit
    <3> QED BY <2>2, <3>1, ServeSubmitInd
  <2>3. CASE ServeDelete(c)
    <3>1. job[c] \in Jobs
      BY <2>3 DEF IndInv, TypeOK, JobInv, ServeDelete, Waiting
    <3>2. Evolves
      BY <2>3, <3>1, <1>t, CancelEvolves, IdleEvolves DEF ServeDelete
    <3> QED BY <2>3, <3>2, ServeDeleteInd
  <2> QED BY <1>4, <2>1, <2>2, <2>3 DEF Serve
<1>5. ASSUME NEW c \in Calls, RequestFails(c) PROVE IndInv'
  <2>1. Evolves
    BY <1>5, <1>t, IdleEvolves DEF RequestFails
  <2> QED BY <1>5, <2>1, RequestFailsInd
<1>6. CASE OtherSubmits
  <2>1. Evolves
    BY <1>6, <1>t, AdmitEvolves DEF OtherSubmits
  <2> QED BY <1>6, <2>1, ServiceStepInd DEF OtherSubmits
<1>7. CASE ServiceWorks
  <2>1. Evolves
    BY <1>7, <1>t, ServiceWorksEvolves
  <2> QED BY <1>7, <2>1, ServiceStepInd DEF ServiceWorks
<1>8. CASE ServiceRestarts
  <2>1. Evolves
    BY <1>8, <1>t, RestartEvolves
  <2> QED BY <1>8, <2>1, ServiceStepInd DEF ServiceRestarts, clientVars
<1>9. CASE UNCHANGED vars
  <2>1. UNCHANGED serviceVars /\ UNCHANGED clientVars
    BY <1>9 DEF vars
  <2>2. Evolves
    BY <1>t, <2>1, IdleEvolves
  <2> QED BY <2>1, <2>2, ServiceStepInd
<1> QED BY <1>1, <1>2, <1>3, <1>4, <1>5, <1>6, <1>7, <1>8, <1>9 DEF Next, User

LEMMA Invariant == Spec => []IndInv
BY InitInd, StepInd, PTL DEF Spec

-----------------------------------------------------------------------------
(* What the workspace promises.                                            *)

\* Every variable keeps the values its declaration says, whatever the service,
\* the network and the user do.
THEOREM TypeCorrect == Spec => []TypeOK
<1>1. IndInv => TypeOK
  BY DEF IndInv
<1> QED BY <1>1, Invariant, PTL

\* A job the page has learned of and that still occupies the service can be
\* cancelled from the page (cancel and the late cancellation of runScienceJob).
THEOREM JobsAreTracked == Spec => []KnownJobTracked
<1>1. IndInv => KnownJobTracked
  BY DEF IndInv
<1> QED BY <1>1, Invariant, PTL

\* At most one handler can still change the page, the one activeRequest names
\* (startRequest and finishRequest).
THEOREM TurnsAreExclusive == Spec => []RequestsExclusive
<1>1. IndInv => RequestsExclusive
  BY DEF IndInv, TurnInv
<1> QED BY <1>1, Invariant, PTL

\* A result on the page is that of the latest run, and its artifact exists
\* (runScienceJob and renderResult).
THEOREM ResultIsLatest == Spec => []ShownIsLatest
<1>1. IndInv => ShownIsLatest
  BY DEF IndInv
<1> QED BY <1>1, Invariant, PTL

\* With no request under way the buttons say what the state says (setBusy and
\* setReady).
THEOREM ButtonsTellTheState == Spec => []ButtonsAtRest
<1>1. IndInv => ButtonsAtRest
  BY DEF IndInv, TurnInv, ButtonsAtRest
<1> QED BY <1>1, Invariant, PTL
=============================================================================
