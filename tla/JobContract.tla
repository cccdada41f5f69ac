---------------------------- MODULE JobContract ----------------------------
(***************************************************************************)
(* What the job service of services/science promises to a client that only *)
(* sees the HTTP surface: the status it can read for each job id, the      *)
(* artifacts that exist, and whether new work is accepted.  Threads,       *)
(* futures and locks are absent.  ScienceJobs implements this module.      *)
(***************************************************************************)
EXTENDS Naturals, Sequences, FiniteSets

CONSTANTS
    Jobs,            \* job ids, one per admitted request (uuid4 in the code)
    MaxOutstanding,  \* max_outstanding_jobs
    MaxTerminal      \* max_terminal_jobs: how many settled records are kept

VARIABLES
    view,            \* view[j]: the state a GET of job j reports
    recent,          \* settled jobs that are still readable, oldest first
    artifacts,       \* jobs whose artifact has been published
    accepting        \* FALSE once the service has begun to close

contractVars == <<view, recent, artifacts, accepting>>

Live(j) == view[j] \in {"queued", "running"}

LiveJobs == {j \in Jobs : Live(j)}

Init ==
    /\ view = [j \in Jobs |-> "unknown"]
    /\ recent = <<>>
    /\ artifacts = {}
    /\ accepting = TRUE

\* A request is admitted below the capacity limit, never after Stop.
Admit(j) ==
    /\ accepting
    /\ view[j] = "unknown"
    /\ Cardinality(LiveJobs) < MaxOutstanding
    /\ view' = [view EXCEPT ![j] = "queued"]
    /\ UNCHANGED <<recent, artifacts, accepting>>

Start(j) ==
    /\ accepting
    /\ view[j] = "queued"
    /\ view' = [view EXCEPT ![j] = "running"]
    /\ UNCHANGED <<recent, artifacts, accepting>>

\* Job j settles with the given outcome; the oldest settled record is
\* forgotten when more than MaxTerminal of them would be kept.
SettleAs(j, outcome) ==
    LET settled == [view EXCEPT ![j] = outcome]
        order   == Append(recent, j)
    IN  IF Len(order) > MaxTerminal
        THEN /\ view' = [settled EXCEPT ![Head(order)] = "forgotten"]
             /\ recent' = Tail(order)
        ELSE /\ view' = settled
             /\ recent' = order

\* The artifact becomes visible in the very step that reports success.
Succeed(j) ==
    /\ accepting
    /\ view[j] = "running"
    /\ SettleAs(j, "succeeded")
    /\ artifacts' = artifacts \cup {j}
    /\ UNCHANGED accepting

Fail(j) ==
    /\ accepting
    /\ view[j] = "running"
    /\ SettleAs(j, "failed")
    /\ UNCHANGED <<artifacts, accepting>>

Cancel(j) ==
    /\ Live(j)
    /\ SettleAs(j, "cancelled")
    /\ UNCHANGED <<artifacts, accepting>>

Stop ==
    /\ accepting
    /\ accepting' = FALSE
    /\ UNCHANGED <<view, recent, artifacts>>

Settle(j) == Succeed(j) \/ Fail(j) \/ Cancel(j)

Next == (\E j \in Jobs : Admit(j) \/ Start(j) \/ Settle(j)) \/ Stop

\* Every admitted job is settled in the end, whoever settles it.
Fairness == \A j \in Jobs : WF_contractVars(Settle(j))

Safety == Init /\ [][Next]_contractVars
Spec == Safety /\ Fairness
=============================================================================
