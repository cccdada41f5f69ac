------------------------- MODULE EducationSession -------------------------
(***************************************************************************)
(* The Education session of the Apple apps: the main-actor object the      *)
(* views own (EducationSession.swift, EducationSessionRuntime.swift) and   *)
(* the actor that calculates frames for it (SimulationRuntime.swift).      *)
(*                                                                         *)
(* A main-actor method is one action.  It reaches the actor only through   *)
(* unstructured tasks, so the messages on their way are a set, mail: two   *)
(* of them arrive in either order.  A drain of the actor gives it up at    *)
(* its two awaits, while the detached calculation runs and while the       *)
(* outcome is delivered on the main actor: its stages are actions.         *)
(*                                                                         *)
(* A scenario stands for everything a history must not mix (the scenario,  *)
(* the runtime mode and its substeps); the sample count and a repeated     *)
(* calculation differ in the series revision.  A history is the set of     *)
(* the scenarios its samples came from.  Simulation times are left out:    *)
(* the generation tells requests apart.                                    *)
(***************************************************************************)
EXTENDS Naturals

CONSTANTS
    Scenarios,    \* accepted scenarios with their runtime mode
    Default,      \* ScenarioCatalog.default
    MaxGen,       \* bound: generations made by operations and ticks
    MaxSeries,    \* bound: series revisions
    MaxRevision   \* bound: activity revisions

ASSUME EducationAssumption ==
    /\ Default \in Scenarios
    /\ MaxGen \in Nat /\ MaxSeries \in Nat /\ MaxRevision \in Nat

VARIABLES
    started, sceneActive, occluded,   \* the three parts of isRenderingActive
    running,                          \* isRunning
    playing,          \* the playback task runs its loop
    late,             \* a cancelled playback task had already woken
    generation, seriesRevision, activityRevision,
    scenario,
    frame, canExport, display,
    samples, undo,    \* the histories and their one-level undo
    mail,             \* tasks on their way to the actor
    resumed,          \* tasks back from setPaused(false)
    rt,               \* SimulationRuntime
    answered,         \* generation of the last outcome accepted
    stopped           \* generation of the last stop

shown == <<frame, canExport, display, samples, undo, answered>>
activity == <<started, sceneActive, occluded, activityRevision>>
playback == <<running, playing, late, stopped>>
vars == <<activity, playback, generation, seriesRevision, scenario, shown,
          mail, resumed, rt>>

None == [gen |-> 0]
Request == [gen : 1 .. MaxGen + MaxRevision, rev : 1 .. MaxSeries, of : Scenarios]

\* A request, a suspension and a resumption on their way
Submit(g, rev, s) == [call |-> "submit", request |-> [gen |-> g, rev |-> rev, of |-> s]]
SetPaused(paused, rev) == [call |-> "setPaused", paused |-> paused, rev |-> rev]
Mail == [call : {"submit"}, request : Request]
        \cup [call : {"setPaused"}, paused : BOOLEAN, rev : 1 .. MaxRevision]

Active == started /\ sceneActive /\ ~occluded   \* isRenderingActive

SameSeries(a, b) == a.rev = b.rev /\ a.of = b.of

Init ==
    /\ started = FALSE /\ sceneActive = TRUE /\ occluded = FALSE
    /\ running = FALSE /\ playing = FALSE /\ late = FALSE
    /\ generation = 0 /\ seriesRevision = 0 /\ activityRevision = 0
    /\ scenario = Default
    /\ frame = None /\ canExport = FALSE /\ display = "loading"
    /\ samples = {} /\ undo = {}
    /\ mail = {} /\ resumed = {}
    /\ rt = [pending |-> None, stage |-> "idle", work |-> None, failed |-> FALSE,
             paused |-> FALSE, revision |-> 0, submitted |-> 0, cache |-> None]
    /\ answered = 0 /\ stopped = 0

-----------------------------------------------------------------------------
(* What the operations of the session share                                *)

\* Bounds of an operation that asks for a fresh series
Room == generation < MaxGen /\ seriesRevision < MaxSeries

\* requestCalculation, with the scenario and the activity of after the step; shows is
\* what the views display before the call
RequestCalculation(refresh, shows) ==
    /\ seriesRevision' = seriesRevision + (IF refresh THEN 1 ELSE 0)
    /\ canExport' = (canExport /\ ~refresh)
    /\ IF Active'
       THEN /\ generation' = generation + 1
            /\ display' = IF frame = None THEN "loading" ELSE "ready"
            /\ mail' = mail \cup {Submit(generation + 1, seriesRevision', scenario')}
       ELSE display' = shows /\ UNCHANGED <<generation, mail>>
    /\ UNCHANGED <<frame, answered, rt>>

\* playbackTask?.cancel(): a task that has woken from its sleep goes on for one turn
Cancel == late' \in {late, late \/ playing}

\* Mutant: a new scenario can be followed by "Undo" of the old one's history
ResetKeepsUndo == samples' = {} /\ UNCHANGED undo

\* resetHistories
ResetHistories == samples' = {} /\ undo' = {}

-----------------------------------------------------------------------------
(* Operations of the views                                                 *)

\* start, when a mounted view takes ownership
Start ==
    /\ ~started /\ Room
    /\ started' = TRUE
    /\ UNCHANGED <<sceneActive, occluded, activityRevision, scenario>>
    /\ RequestCalculation(TRUE, display)
    /\ UNCHANGED <<playback, samples, undo, resumed>>

\* toggleRunning before start
StartRunning ==
    /\ ~started /\ Room
    /\ started' = TRUE
    /\ UNCHANGED <<sceneActive, occluded, activityRevision, scenario>>
    /\ RequestCalculation(TRUE, display)
    /\ running' = TRUE /\ playing' = Active'
    /\ UNCHANGED <<late, stopped, samples, undo, resumed>>

\* toggleRunning of a stopped session
Run ==
    /\ started /\ ~running
    /\ running' = TRUE /\ playing' = Active
    /\ UNCHANGED <<late, stopped, activity, generation, seriesRevision, scenario, shown,
                   mail, resumed, rt>>

\* toggleRunning of a running one, or the speed "Paused": what is in flight is dropped
Stop ==
    /\ running /\ generation < MaxGen
    /\ running' = FALSE /\ playing' = FALSE /\ Cancel
    /\ generation' = generation + 1
    /\ stopped' = generation'
    /\ UNCHANGED <<activity, seriesRevision, scenario, shown, mail, resumed, rt>>

\* jumpToTransit
JumpToTransit ==
    /\ Active /\ generation < MaxGen
    /\ UNCHANGED <<activity, scenario>>
    /\ RequestCalculation(FALSE, display)
    /\ UNCHANGED <<playback, samples, undo, resumed>>

\* resetSimulation
ResetSimulation ==
    /\ Active /\ generation < MaxGen
    /\ running' = FALSE /\ playing' = FALSE /\ Cancel
    /\ UNCHANGED <<stopped, activity, scenario>>
    /\ RequestCalculation(FALSE, display)
    /\ UNCHANGED <<samples, undo, resumed>>

\* resetSimulation while nothing may be calculated
ResetHidden ==
    /\ ~Active /\ running
    /\ running' = FALSE /\ playing' = FALSE /\ Cancel
    /\ UNCHANGED <<stopped, activity, generation, seriesRevision, scenario, shown,
                   mail, resumed, rt>>

\* recalculate, setSampleCount, applyDraft of the accepted values
Recalculate ==
    /\ Room
    /\ UNCHANGED <<activity, scenario>>
    /\ RequestCalculation(TRUE, display)
    /\ UNCHANGED <<playback, samples, undo, resumed>>

\* What an accepted scenario changes, whichever control it comes from
Accept(s, shows) ==
    /\ Room
    /\ scenario' = s
    /\ ResetHistories
    /\ UNCHANGED activity
    /\ RequestCalculation(TRUE, shows)
    /\ UNCHANGED <<playback, resumed>>

\* What resetDraft leaves on display
Reverted == IF frame = None THEN "empty" ELSE "ready"

\* selectScenario, restore(workspace:): the draft is reset before the request
SelectScenario(s) == Accept(s, Reverted)

\* setRuntimeMode, applyDraft of a valid candidate that differs: the draft stays
ChangeScenario(s) == Accept(s, display)

\* "Revert"
ResetDraft ==
    /\ display' = Reverted
    /\ UNCHANGED <<activity, playback, generation, seriesRevision, scenario, frame, canExport,
                   samples, undo, answered, mail, resumed, rt>>

\* applyDraft of values the engine refuses
RefuseDraft ==
    /\ display' = "error"
    /\ UNCHANGED <<activity, playback, generation, seriesRevision, scenario, frame, canExport,
                   samples, undo, answered, mail, resumed, rt>>

ClearHistory ==
    /\ samples # {}
    /\ undo' = samples /\ samples' = {}
    /\ UNCHANGED <<activity, playback, generation, seriesRevision, scenario, frame, canExport,
                   display, answered, mail, resumed, rt>>

UndoClear ==
    /\ undo # {}
    /\ samples' = undo /\ undo' = {}
    /\ UNCHANGED <<activity, playback, generation, seriesRevision, scenario, frame, canExport,
                   display, answered, mail, resumed, rt>>

-----------------------------------------------------------------------------
(* Activity                                                                *)

\* updateRenderingActivity, after one of the host's two reports has changed
UpdateRenderingActivity ==
    /\ activityRevision < MaxRevision
    /\ UNCHANGED started
    /\ IF Active' = Active
       THEN UNCHANGED <<activityRevision, generation, mail, playing, late>>
       ELSE /\ activityRevision' = activityRevision + 1
            /\ playing' = FALSE /\ Cancel
            /\ generation' = IF Active THEN generation + 1 ELSE generation
            /\ mail' = mail \cup {SetPaused(Active, activityRevision')}
    /\ UNCHANGED <<running, stopped, seriesRevision, scenario, shown, resumed, rt>>

SetOccluded ==
    /\ occluded' = ~occluded
    /\ UNCHANGED sceneActive
    /\ UpdateRenderingActivity

SetSceneActive ==
    /\ sceneActive' = ~sceneActive
    /\ UNCHANGED occluded
    /\ UpdateRenderingActivity

\* The task of a resumption, back from the actor
Resume(rev) ==
    /\ rev \in resumed
    /\ resumed' = resumed \ {rev}
    /\ UNCHANGED <<activity, scenario, running, stopped, samples, undo>>
    /\ IF rev = activityRevision /\ Active
       THEN /\ RequestCalculation(FALSE, display)
            /\ playing' = (playing \/ running)
            /\ IF running THEN Cancel ELSE UNCHANGED late
       ELSE UNCHANGED <<generation, seriesRevision, canExport, display, mail, playing, late,
                        frame, answered, rt>>

\* A turn of the playback loop: a request, while playback may go on
Turn ==
    /\ generation < MaxGen
    /\ UNCHANGED <<activity, scenario, running, stopped, samples, undo, resumed>>
    /\ IF running /\ Active
       THEN RequestCalculation(FALSE, display)
       ELSE UNCHANGED <<generation, seriesRevision, canExport, display, mail, frame,
                        answered, rt>>

\* The loop goes on, or ends at its guard
Tick == playing /\ Turn /\ playing' = (running /\ Active) /\ UNCHANGED late

\* The last turn of a cancelled loop
LateTick == late /\ Turn /\ late' = FALSE /\ UNCHANGED playing

-----------------------------------------------------------------------------
(* SimulationRuntime                                                       *)

\* startIfNeeded: a drain in any stage takes the request itself
StartIfNeeded(r) ==
    IF r.stage = "idle" /\ ~r.paused /\ r.pending # None
    THEN [r EXCEPT !.stage = "draining"]
    ELSE r

\* submit: only a newer generation, and nothing while paused
Submitted(r, request) ==
    IF request.gen <= r.submitted THEN r
    ELSE IF r.paused THEN [r EXCEPT !.submitted = request.gen]
    ELSE StartIfNeeded([r EXCEPT !.submitted = request.gen, !.pending = request])

\* Mutant: a suspension leaves the waiting request
PausedKeepsPending(r, paused, rev) ==
    IF rev < r.revision THEN r ELSE [r EXCEPT !.revision = rev, !.paused = paused]

\* Mutant: a late suspension is taken after a newer resumption
PausedAnyRevision(r, paused, rev) ==
    [r EXCEPT !.revision = rev, !.paused = paused,
              !.pending = IF paused THEN None ELSE r.pending]

\* setPaused: only the newest revision
Paused(r, paused, rev) ==
    IF rev < r.revision THEN r
    ELSE [r EXCEPT !.revision = rev, !.paused = paused,
                   !.pending = IF paused THEN None ELSE r.pending]

SubmitArrives(m) ==
    /\ m \in mail /\ m.call = "submit"
    /\ rt' = Submitted(rt, m.request)
    /\ mail' = mail \ {m}
    /\ UNCHANGED <<activity, playback, generation, seriesRevision, scenario, shown, resumed>>

SetPausedArrives(m) ==
    /\ m \in mail /\ m.call = "setPaused"
    /\ rt' = Paused(rt, m.paused, m.rev)
    /\ mail' = mail \ {m}
    /\ resumed' = IF m.paused THEN resumed ELSE resumed \cup {m.rev}
    /\ UNCHANGED <<activity, playback, generation, seriesRevision, scenario, shown>>

Rest == UNCHANGED <<activity, playback, generation, seriesRevision, scenario, mail, resumed>>

\* The condition of the loop of drain; at its end, startIfNeeded
Drain ==
    /\ rt.stage = "draining"
    /\ rt' = IF ~rt.paused /\ rt.pending # None
             THEN [rt EXCEPT !.stage = "calculating", !.work = rt.pending, !.pending = None]
             ELSE StartIfNeeded([rt EXCEPT !.stage = "idle"])
    /\ Rest /\ UNCHANGED shown

\* The series of a request: the cached one for an equal key, else a new one
SeriesOf(request, cache) == IF cache # None /\ SameSeries(cache, request) THEN cache ELSE request

\* The detached calculation ends, with a frame or with an error
Calculated ==
    /\ rt.stage = "calculating"
    /\ \E failed \in BOOLEAN :
        LET series == SeriesOf(rt.work, rt.cache)
            done == [rt EXCEPT !.failed = failed,
                               !.work = [series EXCEPT !.gen = rt.work.gen],
                               !.cache = IF failed THEN rt.cache ELSE [series EXCEPT !.gen = 1]]
            over == [done EXCEPT !.stage = "idle", !.work = None, !.failed = FALSE]
        IN rt' = IF rt.paused THEN over ELSE [done EXCEPT !.stage = "delivering"]
    /\ Rest /\ UNCHANGED shown

\* receive, on the main actor: only the current generation and series, only while active
Receive ==
    LET outcome == rt.work
        accepted == /\ outcome.gen = generation
                    /\ SameSeries(outcome, [rev |-> seriesRevision, of |-> scenario])
                    /\ Active
    IN  /\ rt.stage = "delivering"
        /\ rt' = [rt EXCEPT !.stage = "draining", !.work = None, !.failed = FALSE]
        /\ Rest
        /\ IF ~accepted THEN UNCHANGED shown
           ELSE /\ answered' = outcome.gen
                /\ IF rt.failed
                   THEN display' = "error" /\ UNCHANGED <<frame, canExport, samples, undo>>
                   ELSE /\ frame' = outcome /\ canExport' = TRUE /\ display' = "ready"
                        /\ samples' = samples \cup {outcome.of} /\ undo' = {}

-----------------------------------------------------------------------------
Operation ==
    \/ Start \/ StartRunning \/ Run \/ Stop
    \/ JumpToTransit \/ ResetSimulation \/ ResetHidden \/ Recalculate
    \/ \E s \in Scenarios : SelectScenario(s) \/ ChangeScenario(s)
    \/ RefuseDraft \/ ResetDraft \/ ClearHistory \/ UndoClear
    \/ SetOccluded \/ SetSceneActive

Arrives == \E m \in mail : SubmitArrives(m) \/ SetPausedArrives(m)
Resumes == \E rev \in resumed : Resume(rev)

Next ==
    \/ Operation \/ Tick \/ LateTick
    \/ Arrives \/ Resumes
    \/ Drain \/ Calculated \/ Receive

(* Every task gets its turn and a calculation ends.  Nothing is assumed of *)
(* the user, of the host's reports or of the playback clock.               *)
Spec ==
    /\ Init /\ [][Next]_vars
    /\ WF_vars(Arrives) /\ WF_vars(Resumes)
    /\ WF_vars(Drain) /\ WF_vars(Calculated) /\ WF_vars(Receive)

-----------------------------------------------------------------------------
(* Properties                                                              *)

(* What may be on display for a frame.                                     *)
Displays(shows, of) ==
    /\ shows \in {"loading", "empty", "ready", "error"}
    /\ shows \in {"loading", "empty"} => of = None
    /\ shows = "ready" => of # None

(* Every variable has its type; the views say ready when there is a frame, *)
(* and loading or empty only when there is none (requestCalculation,       *)
(* resetDraft, receive); and the actor's queue is tended: a request waits  *)
(* only in an actor that is not paused and has a drain that will take it   *)
(* (SimulationRuntime.pending, isCalculating, isPaused).                   *)
TypeOK ==
    /\ {started, sceneActive, occluded, running, playing, late, canExport} \subseteq BOOLEAN
    /\ generation \in 0 .. MaxGen + MaxRevision
    /\ seriesRevision \in 0 .. MaxSeries /\ activityRevision \in 0 .. MaxRevision
    /\ scenario \in Scenarios
    /\ frame \in Request \cup {None}
    /\ Displays(display, frame)
    /\ samples \subseteq Scenarios /\ undo \subseteq Scenarios
    /\ mail \subseteq Mail /\ resumed \subseteq 1 .. MaxRevision
    /\ rt.pending \in Request \cup {None} /\ rt.work \in Request \cup {None}
    /\ rt.stage \in {"idle", "draining", "calculating", "delivering"}
    /\ rt.pending # None => ~rt.paused /\ rt.stage # "idle"

(* What can be exported belongs together: while canExport holds, the frame *)
(* is of the accepted scenario and of the newest series, and the histories *)
(* exported with it, restored by "Undo" or not, hold no sample of another  *)
(* scenario (requestCalculation, receive, resetHistories).  The first part *)
(* is what the macOS menu offers, which is disabled without canExport; the *)
(* iOS menu is not, and exports whatever frame there is.                   *)
ExportIsCurrent ==
    /\ canExport => frame # None /\ SameSeries(frame, [rev |-> seriesRevision, of |-> scenario])
    /\ samples \cup undo \subseteq {scenario}

(* An active session is answered: the newest generation reaches the views  *)
(* as a frame or as an error, unless the session goes on to another one or *)
(* playback was stopped at it.  In particular no order of suspensions,     *)
(* resumptions and requests leaves the session waiting for a request the   *)
(* paused actor has thrown away (setPaused, submit, drain).                *)
FrameFollows ==
    \A g \in 1 .. MaxGen + MaxRevision :
        (Active /\ generation = g /\ stopped # g)
            ~> (answered = g \/ generation # g \/ ~Active)
=============================================================================
