-------------------------- MODULE ScienceWorkspace --------------------------
(***************************************************************************)
(* The browser's scientific workspace                                      *)
(* (apps/browser/src/presentation/science/scienceWorkspace.ts), the only   *)
(* client of the job service in this repository, composed with what the    *)
(* service promises (JobContract).                                         *)
(*                                                                         *)
(* A call is one run of an asynchronous handler: refresh, run or cancel.   *)
(* An action takes a call from one await to the next.  Several calls are   *)
(* under way at once, and they share the workspace state and the buttons.  *)
(* When a signal is aborted, the awaits that listen to it are rejected in  *)
(* microtasks, before the page handles a click or an answer (Quiet).       *)
(*                                                                         *)
(* The delay between two polls belongs to the poll; the clock is left out: *)
(* the polling budget may run out after any answer that is not terminal.   *)
(***************************************************************************)
EXTENDS Naturals, Sequences, FiniteSets

CONSTANTS
    Jobs,            \* job ids of the service
    NoJob,           \* null
    MaxOutstanding,  \* of the service
    MaxTerminal,     \* of the service
    MaxCalls         \* bound: how many handlers are under way at once

ASSUME WorkspaceAssumption == MaxCalls \in Nat /\ NoJob \notin Jobs

Calls  == 1 .. MaxCalls
NoCall == 0

\* The service, as a client sees it.
VARIABLES view, recent, artifacts, accepting

\* The workspace state and the page.
VARIABLES
    open,            \* the page's signal (args.signal) is not aborted
    ready,           \* capabilitiesReady
    currentJob,      \* currentJobId
    active,          \* the call whose AbortController is activeRequest
    aborted,         \* calls whose signal is aborted
    runDisabled,     \* runButton.disabled
    cancelDisabled,  \* cancelButton.disabled
    shown            \* the job whose result and artifact link are shown

\* The calls and their requests.
VARIABLES
    at,              \* the await each call is at; "idle" when it is over
    job,             \* the job it is about
    reply            \* the answer on its way to the page, or "none"

\* What happened so far; no action depends on it.
VARIABLES
    learned,         \* jobs whose id reached this page
    lastJob,         \* the job of the latest run, once its id is known
    gaveUp           \* jobs whose cancellation after the budget failed

Service == INSTANCE JobContract

serviceVars == <<view, recent, artifacts, accepting>>
pageVars    == <<open, ready, currentJob, active, aborted, shown>>
buttonVars  == <<runDisabled, cancelDisabled>>
callVars    == <<at, job, reply>>
historyVars == <<learned, lastJob, gaveUp>>
clientVars  == <<pageVars, buttonVars, callVars, historyVars>>
vars        == <<serviceVars, clientVars>>

\* The request a call waits for is told by its place: a GET of the
\* capabilities, the POST, a GET of the status, a GET of the result, or a
\* DELETE.  The first four listen to the call's own signal, DELETEs to the
\* page's.
OwnSignal  == {"checking", "submitting", "polling", "fetching"}
PageSignal == {"cancellingLate", "cancelling"}
Awaiting   == OwnSignal \cup PageSignal
Places     == Awaiting \cup {"idle"}

TerminalStates == {"succeeded", "failed", "cancelled"}
Replies == {"none", "error", "supported", "unsupported", "queued", "running",
            "result"} \cup TerminalStates

TypeOK ==
    /\ view \in [Jobs -> {"unknown", "queued", "running", "forgotten"} \cup TerminalStates]
    /\ recent \in Seq(Jobs)
    /\ artifacts \in SUBSET Jobs
    /\ {accepting, open, ready, runDisabled, cancelDisabled} \subseteq BOOLEAN
    /\ currentJob \in Jobs \cup {NoJob}
    /\ active \in Calls \cup {NoCall}
    /\ aborted \in SUBSET Calls
    /\ at \in [Calls -> Places]
    /\ job \in [Calls -> Jobs \cup {NoJob}]
    /\ reply \in [Calls -> Replies]
    /\ shown \in Jobs \cup {NoJob}
    /\ learned \in SUBSET Jobs
    /\ lastJob \in Jobs \cup {NoJob}
    /\ gaveUp \in SUBSET Jobs

Init ==
    /\ Service!Init
    /\ open = TRUE
    /\ ready = FALSE
    /\ currentJob = NoJob
    /\ active = NoCall
    /\ aborted = {}
    /\ runDisabled = TRUE
    /\ cancelDisabled = TRUE
    /\ shown = NoJob
    /\ at = [c \in Calls |-> "idle"]
    /\ job = [c \in Calls |-> NoJob]
    /\ reply = [c \in Calls |-> "none"]
    /\ learned = {}
    /\ lastJob = NoJob
    /\ gaveUp = {}

-----------------------------------------------------------------------------
(* The workspace state's own operations.                                   *)

\* The await of call c listens to a signal that is aborted.
MustReject(c) ==
    /\ c \in aborted
    /\ \/ at[c] \in OwnSignal
       \/ at[c] \in PageSignal /\ ~open

Quiet == \A c \in Calls : ~MustReject(c)

\* A new call takes the first number that is free.
IsNext(c) == at[c] = "idle" /\ \A d \in 1 .. (c - 1) : at[d] # "idle"

SetBusy(busy) ==
    /\ runDisabled' = (busy \/ ~ready' \/ currentJob' # NoJob)
    /\ cancelDisabled' = (~busy /\ currentJob' = NoJob)

AbortActive == aborted' = aborted \cup ({active} \ {NoCall})

\* Mutant: the request that had the turn is not aborted.
StartRequestNoAbort(c) ==
    /\ UNCHANGED aborted
    /\ active' = c
    /\ SetBusy(TRUE)

StartRequest(c) ==
    /\ AbortActive
    /\ active' = c
    /\ SetBusy(TRUE)

\* Mutant: whoever finishes ends the turn.
FinishRequestAlways(c) == active' = NoCall /\ SetBusy(FALSE)

FinishRequest(c) ==
    IF active = c
    THEN active' = NoCall /\ SetBusy(FALSE)
    ELSE UNCHANGED <<active, buttonVars>>

\* Call c sends its next request and awaits the answer.
Sends(c, place) ==
    /\ at' = [at EXCEPT ![c] = place]
    /\ reply' = [reply EXCEPT ![c] = "none"]

\* Call c is over, and its signal with it.
Ends(c) ==
    /\ at' = [at EXCEPT ![c] = "idle"]
    /\ job' = [job EXCEPT ![c] = NoJob]
    /\ reply' = [reply EXCEPT ![c] = "none"]
    /\ aborted' = aborted \ {c}

-----------------------------------------------------------------------------
(* The user.  A change of profile calls refresh or cancel whatever the     *)
(* buttons say; only a click runs a job.                                   *)

Refresh(c) ==
    /\ open /\ Quiet /\ IsNext(c)
    /\ ready' = FALSE
    /\ UNCHANGED <<open, currentJob, shown, job, historyVars, serviceVars>>
    /\ StartRequest(c)
    /\ Sends(c, "checking")

Run(c) ==
    /\ open /\ Quiet /\ IsNext(c)
    /\ ~runDisabled
    /\ ready
    /\ UNCHANGED <<open, ready, currentJob, job, learned, gaveUp, serviceVars>>
    /\ StartRequest(c)
    /\ shown' = NoJob
    /\ lastJob' = NoJob
    /\ Sends(c, "submitting")

\* Mutant: the job is forgotten before the service has cancelled it.
CancelJobForgets(c) ==
    /\ open /\ Quiet /\ IsNext(c)
    /\ currentJob # NoJob
    /\ AbortActive
    /\ currentJob' = NoJob
    /\ job' = [job EXCEPT ![c] = currentJob]
    /\ Sends(c, "cancelling")
    /\ UNCHANGED <<open, ready, active, shown, buttonVars, historyVars, serviceVars>>

CancelJob(c) ==
    /\ open /\ Quiet /\ IsNext(c)
    /\ currentJob # NoJob
    /\ AbortActive
    /\ job' = [job EXCEPT ![c] = currentJob]
    /\ Sends(c, "cancelling")
    /\ UNCHANGED <<open, ready, currentJob, active, shown, buttonVars, historyVars,
                   serviceVars>>

CancelNothing ==
    /\ open /\ Quiet
    /\ currentJob = NoJob
    /\ AbortActive
    /\ UNCHANGED <<open, ready, currentJob, active, shown, callVars, historyVars, serviceVars>>
    /\ SetBusy(FALSE)

\* The page's signal is aborted: the active call's too, and every DELETE's.
PageCloses ==
    /\ open /\ Quiet
    /\ open' = FALSE
    /\ aborted' = aborted \cup ({active} \ {NoCall})
                          \cup {c \in Calls : at[c] \in PageSignal}
    /\ UNCHANGED <<ready, currentJob, active, shown, buttonVars, callVars, historyVars,
                   serviceVars>>

-----------------------------------------------------------------------------
(* The page handles answers.                                               *)

Answered(c, place) == Quiet /\ at[c] = place /\ reply[c] \notin {"none", "error"}

CapabilitiesAnswered(c) ==
    /\ Answered(c, "checking")
    /\ ready' = (reply[c] = "supported")
    /\ UNCHANGED <<open, currentJob, shown, historyVars, serviceVars>>
    /\ FinishRequest(c)
    /\ Ends(c)

SubmitAnswered(c) ==
    /\ Answered(c, "submitting")
    /\ currentJob' = job[c]
    /\ learned' = learned \cup {job[c]}
    /\ lastJob' = job[c]
    /\ Sends(c, "polling")
    /\ UNCHANGED <<open, ready, active, aborted, shown, buttonVars, job, gaveUp, serviceVars>>

PollAgain(c) ==
    /\ Answered(c, "polling")
    /\ reply[c] \notin TerminalStates
    /\ Sends(c, "polling")
    /\ UNCHANGED <<pageVars, buttonVars, job, historyVars, serviceVars>>

BudgetExhausted(c) ==
    /\ Answered(c, "polling")
    /\ reply[c] \notin TerminalStates
    /\ currentJob' = NoJob
    /\ Sends(c, "cancellingLate")
    /\ UNCHANGED <<open, ready, active, aborted, shown, buttonVars, job, historyVars,
                   serviceVars>>

PollSucceeded(c) ==
    /\ Answered(c, "polling")
    /\ reply[c] = "succeeded"
    /\ currentJob' = NoJob
    /\ Sends(c, "fetching")
    /\ UNCHANGED <<open, ready, active, aborted, shown, buttonVars, job, historyVars,
                   serviceVars>>

PollFailed(c) ==
    /\ Answered(c, "polling")
    /\ reply[c] \in {"failed", "cancelled"}
    /\ currentJob' = NoJob
    /\ UNCHANGED <<open, ready, shown, historyVars, serviceVars>>
    /\ FinishRequest(c)
    /\ Ends(c)

ResultAnswered(c) ==
    /\ Answered(c, "fetching")
    /\ shown' = job[c]
    /\ UNCHANGED <<open, ready, currentJob, historyVars, serviceVars>>
    /\ FinishRequest(c)
    /\ Ends(c)

\* Mutant: the return after the late cancellation skips the finally block.
LateCancelAnsweredKeepsTurn(c) ==
    /\ Answered(c, "cancellingLate")
    /\ UNCHANGED <<open, ready, currentJob, active, buttonVars, shown, historyVars, serviceVars>>
    /\ Ends(c)

LateCancelAnswered(c) ==
    /\ Answered(c, "cancellingLate")
    /\ UNCHANGED <<open, ready, currentJob, shown, historyVars, serviceVars>>
    /\ FinishRequest(c)
    /\ Ends(c)

\* Mutant: no finally block, so the buttons are not set again.
CancelAnsweredNoFinally(c) ==
    /\ Answered(c, "cancelling")
    /\ currentJob' = NoJob
    /\ UNCHANGED <<open, ready, active, shown, buttonVars, historyVars, serviceVars>>
    /\ Ends(c)

CancelAnswered(c) ==
    /\ Answered(c, "cancelling")
    /\ currentJob' = NoJob
    /\ UNCHANGED <<open, ready, active, shown, historyVars, serviceVars>>
    /\ SetBusy(active # NoCall)
    /\ Ends(c)

\* The catch and finally blocks of the three handlers.  A failed or aborted
\* poll leaves currentJobId as it is.
Catch(c) ==
    /\ ready' = (ready /\ ~(at[c] = "checking" /\ active = c))
    /\ gaveUp' = gaveUp \cup {j \in Jobs : at[c] = "cancellingLate" /\ job[c] = j}
    /\ UNCHANGED <<open, currentJob, shown, learned, lastJob, serviceVars>>
    /\ IF at[c] = "cancelling"
       THEN SetBusy(active # NoCall) /\ UNCHANGED active
       ELSE FinishRequest(c)
    /\ Ends(c)

RequestErrs(c) == Quiet /\ at[c] \in Awaiting /\ reply[c] = "error" /\ Catch(c)

Rejected(c) == MustReject(c) /\ Catch(c)

-----------------------------------------------------------------------------
(* The service answers.  A request reaches it at most once; a request the  *)
(* page no longer waits for may still be served, which for a POST is the   *)
(* same as another client's job (OtherSubmits).                            *)

Waiting(c, places) == at[c] \in places /\ reply[c] = "none"

Answer(c, answer) ==
    /\ reply' = [reply EXCEPT ![c] = answer]
    /\ UNCHANGED <<pageVars, buttonVars, at, historyVars>>

ServeCapabilities(c) ==
    /\ Waiting(c, {"checking"})
    /\ \E answer \in {"supported", "unsupported"} : Answer(c, answer)
    /\ UNCHANGED <<job, serviceVars>>

ServeSubmit(c) ==
    /\ Waiting(c, {"submitting"})
    /\ \E j \in Jobs :
         /\ Service!Admit(j)
         /\ job' = [job EXCEPT ![c] = j]
    /\ Answer(c, "queued")

\* Mutant: a job the service has forgotten is not answered with an error.
ServeStatusUnchecked(c) ==
    /\ Waiting(c, {"polling"})
    /\ Answer(c, view[job[c]])
    /\ UNCHANGED <<job, serviceVars>>

ServeStatus(c) ==
    /\ Waiting(c, {"polling"})
    /\ Answer(c, IF view[job[c]] = "forgotten" THEN "error" ELSE view[job[c]])
    /\ UNCHANGED <<job, serviceVars>>

ServeResult(c) ==
    /\ Waiting(c, {"fetching"})
    /\ Answer(c, IF view[job[c]] = "succeeded" THEN "result" ELSE "error")
    /\ UNCHANGED <<job, serviceVars>>

ServeDelete(c) ==
    /\ Waiting(c, PageSignal)
    /\ IF Service!Live(job[c])
       THEN Service!Cancel(job[c]) /\ Answer(c, "cancelled")
       ELSE Answer(c, "error") /\ UNCHANGED serviceVars
    /\ UNCHANGED job

\* No connection, an answer that is lost or malformed, a refusal.
RequestFails(c) ==
    /\ at[c] \in Awaiting
    /\ reply[c] # "error"
    /\ Answer(c, "error")
    /\ UNCHANGED <<job, serviceVars>>

OtherSubmits == (\E j \in Jobs : Service!Admit(j)) /\ UNCHANGED clientVars

\* Jobs run and settle, or are cancelled by a close that has begun.
ServiceWorks ==
    /\ \/ \E j \in Jobs : Service!Start(j) \/ Service!Succeed(j) \/ Service!Fail(j)
       \/ \E j \in Jobs : ~accepting /\ Service!Cancel(j)
       \/ Service!Stop
    /\ UNCHANGED clientVars

\* A new process knows none of the jobs; published artifacts stay.
ServiceRestarts ==
    /\ view' = [j \in Jobs |-> IF view[j] = "unknown" THEN "unknown" ELSE "forgotten"]
    /\ recent' = <<>>
    /\ accepting' = TRUE
    /\ UNCHANGED <<artifacts, clientVars>>

-----------------------------------------------------------------------------
User == (\E c \in Calls : Refresh(c) \/ Run(c) \/ CancelJob(c)) \/ CancelNothing \/ PageCloses

PollEnds(c) == BudgetExhausted(c) \/ PollSucceeded(c) \/ PollFailed(c)

Handles(c) ==
    \/ CapabilitiesAnswered(c) \/ SubmitAnswered(c) \/ PollAgain(c) \/ PollEnds(c)
    \/ ResultAnswered(c) \/ LateCancelAnswered(c) \/ CancelAnswered(c)
    \/ RequestErrs(c) \/ Rejected(c)

Serve(c) ==
    \/ ServeCapabilities(c) \/ ServeSubmit(c) \/ ServeStatus(c) \/ ServeResult(c)
    \/ ServeDelete(c)

Next ==
    \/ User
    \/ \E c \in Calls : Handles(c) \/ Serve(c) \/ RequestFails(c)
    \/ OtherSubmits \/ ServiceWorks \/ ServiceRestarts

\* A request is answered or fails, the page handles what arrives, and a
\* poll that goes on for ever reaches its budget.  The user owes nothing.
Fairness ==
    \A c \in Calls :
      /\ WF_vars((Serve(c) \/ RequestFails(c)) /\ reply[c] = "none")
      /\ WF_vars(Handles(c))
      /\ SF_vars(PollEnds(c))

Spec == Init /\ [][Next]_vars /\ Fairness

-----------------------------------------------------------------------------
(* Properties.                                                             *)

\* A job the page knows of and that still occupies the service can be
\* cancelled from the page: it is the current job, or it is being cancelled,
\* or its cancellation after the polling budget failed (the page says so).
\* No interleaving of refresh, run, cancel, abort and late answers clears
\* the current job of somebody else (scienceWorkspace.ts:306-321).
KnownJobTracked ==
    \A j \in learned :
      open /\ Service!Live(j) =>
        \/ currentJob = j
        \/ \E c \in Calls : job[c] = j /\ at[c] = "cancellingLate"
        \/ j \in gaveUp

\* A handler that can still change the page is the one activeRequest names:
\* a refresh or run that lost its turn is aborted, and finishRequest of an
\* older call never ends the turn of a newer one (lines 210-222).
RequestsExclusive ==
    \A c \in Calls : at[c] \in OwnSignal /\ c \notin aborted => active = c

\* The result and the artifact link on the page belong to the latest run,
\* and the artifact exists (runScienceJob clears and renders them around
\* awaits that a newer call may abort).
ShownIsLatest ==
    shown # NoJob => shown \in artifacts /\ shown = lastJob

\* When no request is under way and nothing is left to reject, the buttons
\* say what the state says: run is offered exactly when a run would be
\* accepted, cancel exactly when there is a job to cancel (setReady, setBusy).
ButtonsAtRest ==
    active = NoCall /\ Quiet =>
      /\ runDisabled = (~ready \/ currentJob # NoJob)
      /\ cancelDisabled = (currentJob = NoJob)

\* Every request that takes the turn gives it back: the controls do not stay
\* busy for ever, so at every time somebody else has the turn or nobody has,
\* then or later (the finally blocks and the polling budget).
RequestEnds == \A c \in Calls : []<>(active # c)
=============================================================================
