---------------------- MODULE EducationSessionProofs ----------------------
(***************************************************************************)
(* Proofs about EducationSession for every set of scenarios and every      *)
(* bound on generations, series and activity revisions.                    *)
(***************************************************************************)
EXTENDS EducationSession, TLAPS

-----------------------------------------------------------------------------
(* The inductive invariant.                                                *)

\* The variables of the main actor have their types.
SessionType ==
    /\ {started, sceneActive, occluded, running, playing, late, canExport} \subseteq BOOLEAN
    /\ generation \in 0 .. MaxGen + MaxRevision
    /\ seriesRevision \in 0 .. MaxSeries /\ activityRevision \in 0 .. MaxRevision
    /\ scenario \in Scenarios
    /\ frame \in Request \cup {None}
    /\ Displays(display, frame)
    /\ samples \subseteq Scenarios /\ undo \subseteq Scenarios
    /\ mail \subseteq Mail /\ resumed \subseteq 1 .. MaxRevision

\* A started session has a series to ask for, and the reports of its activity
\* that are on their way are not newer than the activity.
SeriesInv ==
    /\ started => seriesRevision >= 1
    /\ \A m \in mail : m.call = "setPaused" => m.rev <= activityRevision
    /\ \A rev \in resumed : rev <= activityRevision

\* A resumption is on its way to the actor or back from it, never both.
Resumption(rev) == SetPaused(FALSE, rev)
ResumptionInv ==
    ~(Resumption(activityRevision) \in mail /\ activityRevision \in resumed)

\* Every activity revision makes at most one generation of its own: a
\* suspension at once, a resumption when its task comes back.
GenerationInv ==
    /\ generation <= MaxGen + activityRevision
    /\ Resumption(activityRevision) \in mail \/ activityRevision \in resumed =>
           generation < MaxGen + activityRevision

Runtime ==
    [pending : Request \cup {None},
     stage : {"idle", "draining", "calculating", "delivering"},
     work : Request \cup {None}, failed : BOOLEAN, paused : BOOLEAN,
     revision : 0 .. MaxRevision, submitted : 0 .. MaxGen + MaxRevision,
     cache : Request \cup {None}]

\* Whenever a request waits, a drain is under way to take it.
Tended(r) == r.pending # None => ~r.paused /\ r.stage # "idle"

\* A calculation and a delivery have something to work on.
Working(r) == r.stage \in {"calculating", "delivering"} => r.work # None

RuntimeInv == rt \in Runtime /\ Tended(rt) /\ Working(rt)

IndInv ==
    /\ SessionType
    /\ SeriesInv
    /\ ResumptionInv
    /\ GenerationInv
    /\ RuntimeInv
    /\ ExportIsCurrent

-----------------------------------------------------------------------------
(* Messages.                                                               *)

LEMMA NoneIsNoRequest == None \notin Request
<1>1. \A r \in Request : r.gen >= 1
  BY EducationAssumption DEF Request
<1>2. None.gen = 0
  BY DEF None
<1> QED BY <1>1, <1>2

LEMMA SubmitIsMail ==
    ASSUME NEW g \in 1 .. MaxGen + MaxRevision, NEW rev \in 1 .. MaxSeries, NEW s \in Scenarios
    PROVE  Submit(g, rev, s) \in Mail /\ Submit(g, rev, s).call = "submit"
BY DEF Submit, Mail, Request

LEMMA SetPausedIsMail ==
    ASSUME NEW paused \in BOOLEAN, NEW rev \in 1 .. MaxRevision
    PROVE  /\ SetPaused(paused, rev) \in Mail
           /\ SetPaused(paused, rev).call = "setPaused"
           /\ SetPaused(paused, rev).rev = rev
           /\ SetPaused(paused, rev).paused = paused
BY DEF SetPaused, Mail

LEMMA MailIs ==
    ASSUME NEW m \in Mail
    PROVE  /\ m.call = "submit" => m.request \in Request
           /\ m.call = "setPaused" =>
                m.paused \in BOOLEAN /\ m.rev \in 1 .. MaxRevision /\ m = SetPaused(m.paused, m.rev)
BY DEF Mail, SetPaused

-----------------------------------------------------------------------------
(* The shared parts of the operations.                                     *)

\* What requestCalculation leaves to the rest of the session: at most one
\* generation and one series more, and one request in the mail.
Asked ==
    /\ seriesRevision' \in 0 .. MaxSeries
    /\ seriesRevision' >= seriesRevision
    /\ generation' \in {generation, generation + 1}
    /\ mail \subseteq mail' /\ mail' \subseteq Mail
    /\ \A m \in mail' \ mail : m.call = "submit"
    /\ Displays(display', frame)
    /\ canExport' \in BOOLEAN
    /\ canExport' => canExport /\ seriesRevision' = seriesRevision
    /\ UNCHANGED <<frame, answered, rt>>

LEMMA Requested ==
    ASSUME IndInv, NEW refresh \in BOOLEAN, NEW shows, Displays(shows, frame),
           RequestCalculation(refresh, shows),
           scenario' \in Scenarios,
           refresh => seriesRevision < MaxSeries,
           Active' => refresh \/ started,
           Active' => generation < MaxGen + MaxRevision
    PROVE  Asked /\ (refresh => seriesRevision' >= 1)
<1>1. seriesRevision' = IF refresh THEN seriesRevision + 1 ELSE seriesRevision
  BY DEF IndInv, SessionType, RequestCalculation
<1>2. seriesRevision' \in 0 .. MaxSeries /\ seriesRevision' >= seriesRevision
  BY <1>1, EducationAssumption DEF IndInv, SessionType
<1>3. refresh \/ started => seriesRevision' \in 1 .. MaxSeries
  BY <1>1, EducationAssumption DEF IndInv, SessionType, SeriesInv
<1>4. canExport' \in BOOLEAN /\ (canExport' => canExport /\ seriesRevision' = seriesRevision)
  BY <1>1 DEF IndInv, SessionType, RequestCalculation
<1>5. UNCHANGED <<frame, answered, rt>>
  BY DEF RequestCalculation
<1>6. CASE Active'
  <2> DEFINE m == Submit(generation + 1, seriesRevision', scenario')
  <2>1. m \in Mail /\ m.call = "submit"
    <3>1. generation + 1 \in 1 .. MaxGen + MaxRevision
      BY <1>6, EducationAssumption DEF IndInv, SessionType
    <3> QED BY <1>3, <1>6, <3>1, SubmitIsMail
  <2>2. mail' = mail \cup {m} /\ generation' = generation + 1
    BY <1>6 DEF RequestCalculation
  <2> HIDE DEF m
  <2>3. Displays(display', frame)
    BY <1>6 DEF RequestCalculation, Displays
  <2> QED BY <1>2, <1>3, <1>4, <1>5, <1>6, <2>1, <2>2, <2>3 DEF Asked, IndInv, SessionType
<1>7. CASE ~Active'
  <2>1. UNCHANGED <<generation, mail>> /\ display' = shows
    BY <1>7 DEF RequestCalculation
  <2> QED BY <1>2, <1>3, <1>4, <1>5, <2>1 DEF Asked, IndInv, SessionType
<1> QED BY <1>6, <1>7

\* A step of the main actor that asks, or does not, and keeps the activity.
LEMMA AskingKeeps ==
    ASSUME IndInv, Asked, UNCHANGED <<activityRevision, sceneActive, occluded>>,
           resumed' \subseteq resumed,
           started' \in BOOLEAN, started' => started \/ seriesRevision' >= 1,
           {running', playing', late'} \subseteq BOOLEAN,
           scenario' \in Scenarios,
           \/ UNCHANGED <<scenario, samples, undo>>
           \/ scenario' = scenario /\ samples' \cup undo' \subseteq samples \cup undo
           \/ samples' \cup undo' = {} /\ ~canExport',
           generation' = generation
             \/ generation < MaxGen
             \/ activityRevision \in resumed \ resumed'
    PROVE  IndInv'
<1>1. SessionType' /\ GenerationInv'
  <2>1. generation <= MaxGen + activityRevision /\ activityRevision \in 0 .. MaxRevision
    BY DEF IndInv, SessionType, GenerationInv
  <2>2. Resumption(activityRevision) \in mail' => Resumption(activityRevision) \in mail
    <3>1. Resumption(activityRevision).call = "setPaused"
      BY DEF Resumption, SetPaused
    <3> QED BY <3>1 DEF Asked
  <2>3. activityRevision \in resumed => activityRevision >= 1
    BY DEF IndInv, SessionType
  <2>5. Resumption(activityRevision) \in mail => activityRevision >= 1
    BY MailIs, EducationAssumption DEF IndInv, SessionType, Resumption, SetPaused
  <2>4. GenerationInv'
    <3> DEFINE Owed == Resumption(activityRevision) \in mail \/ activityRevision \in resumed
    <3>1. Owed => generation < MaxGen + activityRevision
      BY DEF IndInv, GenerationInv
    <3>2. activityRevision \in resumed \ resumed' => ~Resumption(activityRevision) \in mail'
      BY <2>2 DEF IndInv, ResumptionInv
    <3>3. Resumption(activityRevision)' = Resumption(activityRevision)
      BY DEF Resumption, SetPaused
    <3>4. Resumption(activityRevision) \in mail' \/ activityRevision \in resumed' => Owed
      BY <2>2
    <3>5. generation \in Nat /\ generation' \in {generation, generation + 1}
      BY EducationAssumption DEF IndInv, SessionType, Asked
    <3> DEFINE OwedNext == Resumption(activityRevision) \in mail' \/ activityRevision \in resumed'
    <3>6. CASE generation' = generation
      BY <2>1, <3>1, <3>3, <3>4, <3>6 DEF GenerationInv
    <3>7. CASE generation < MaxGen
      <4>1. OwedNext => activityRevision >= 1
        BY <2>2, <2>3, <2>5
      <4> QED BY <2>1, <3>3, <3>5, <3>7, <4>1, EducationAssumption DEF GenerationInv
    <3>8. CASE activityRevision \in resumed \ resumed'
      BY <2>1, <3>1, <3>2, <3>3, <3>5, <3>8, EducationAssumption DEF GenerationInv
    <3> QED BY <3>6, <3>7, <3>8
  <2>6. generation' \in 0 .. MaxGen + MaxRevision
    BY <2>1, <2>4, EducationAssumption DEF GenerationInv, IndInv, SessionType, Asked
  <2>7. SessionType'
    BY <2>6 DEF IndInv, SessionType, Asked
  <2> QED BY <2>4, <2>7
<1>2. SeriesInv' /\ ResumptionInv'
  <2>1. Resumption(activityRevision) \in mail' => Resumption(activityRevision) \in mail
    <3>1. Resumption(activityRevision).call = "setPaused"
      BY DEF Resumption, SetPaused
    <3> QED BY <3>1 DEF Asked
  <2>2. ResumptionInv'
    BY <2>1 DEF IndInv, ResumptionInv, Resumption, SetPaused
  <2>3. SeriesInv'
    BY DEF IndInv, SessionType, SeriesInv, Asked
  <2> QED BY <2>2, <2>3
<1>3. RuntimeInv'
  BY DEF IndInv, RuntimeInv, Asked, Tended, Working
<1>4. ExportIsCurrent'
  BY DEF IndInv, ExportIsCurrent, SameSeries, Asked
<1> QED BY <1>1, <1>2, <1>3, <1>4 DEF IndInv

LEMMA NotAsking ==
    ASSUME IndInv, UNCHANGED <<seriesRevision, canExport, mail, frame, answered, rt>>,
           generation' \in {generation, generation + 1},
           Displays(display', frame)
    PROVE  Asked
BY EducationAssumption DEF IndInv, SessionType, Asked

-----------------------------------------------------------------------------
(* Every step preserves the invariant.                                     *)

\* The bounds of the session are below those of a generation's type.
LEMMA Bounds ==
    ASSUME IndInv
    PROVE  /\ generation \in Nat /\ activityRevision \in 0 .. MaxRevision
           /\ generation < MaxGen => generation < MaxGen + MaxRevision
           /\ Displays(display, frame)
BY EducationAssumption DEF IndInv, SessionType

LEMMA StartInd == IndInv /\ (Start \/ StartRunning) => IndInv'
<1> SUFFICES ASSUME IndInv, Start \/ StartRunning PROVE IndInv'
  OBVIOUS
<1>1. Room /\ RequestCalculation(TRUE, display) /\ started' /\ scenario' = scenario
  BY DEF Start, StartRunning
<1>2. Asked /\ seriesRevision' >= 1
  BY <1>1, Bounds, Requested DEF Room, IndInv, SessionType
<1>3. {running', playing', late'} \subseteq BOOLEAN
  BY DEF Start, StartRunning, playback, Active, IndInv, SessionType
<1>4. UNCHANGED <<activityRevision, sceneActive, occluded, resumed, scenario, samples, undo>>
  BY DEF Start, StartRunning
<1>5. started' \in BOOLEAN /\ scenario' \in Scenarios
  BY DEF Start, StartRunning, IndInv, SessionType
<1> QED BY <1>1, <1>2, <1>3, <1>4, <1>5, AskingKeeps DEF Room

\* The operations that ask neither for a frame nor for a series.
LEMMA QuietInd ==
    IndInv /\ (Run \/ Stop \/ ResetHidden \/ RefuseDraft \/ ResetDraft
               \/ ClearHistory \/ UndoClear) => IndInv'
<1> SUFFICES ASSUME IndInv,
                    \/ Run \/ Stop \/ ResetHidden \/ RefuseDraft \/ ResetDraft
                    \/ ClearHistory \/ UndoClear
             PROVE  IndInv'
  OBVIOUS
<1> USE DEF Run, Stop, ResetHidden, RefuseDraft, ResetDraft, ClearHistory, UndoClear
<1>1. Asked
  <2>1. Displays(display', frame)
    BY DEF IndInv, SessionType, shown, Displays, Reverted
  <2> QED BY <2>1, NotAsking DEF IndInv, SessionType, shown
<1>2. UNCHANGED <<started, activityRevision, sceneActive, occluded, resumed, scenario>>
  BY DEF activity
<1>3. {running', playing', late'} \subseteq BOOLEAN
  BY DEF Cancel, playback, Active, IndInv, SessionType
<1>4. started' \in BOOLEAN /\ scenario' \in Scenarios
  BY <1>2 DEF IndInv, SessionType
<1>5. samples' \cup undo' \subseteq samples \cup undo
  BY DEF shown
<1>6. generation' = generation \/ generation < MaxGen
  OBVIOUS
<1> HIDE DEF Run, Stop, ResetHidden, RefuseDraft, ResetDraft, ClearHistory, UndoClear
<1> QED BY <1>1, <1>2, <1>3, <1>4, <1>5, <1>6, AskingKeeps

LEMMA AskingInd == IndInv /\ (JumpToTransit \/ ResetSimulation \/ Recalculate) => IndInv'
<1> SUFFICES ASSUME IndInv, JumpToTransit \/ ResetSimulation \/ Recalculate PROVE IndInv'
  OBVIOUS
<1>1. UNCHANGED <<started, activityRevision, sceneActive, occluded, resumed, scenario,
                  samples, undo>>
  BY DEF JumpToTransit, ResetSimulation, Recalculate, activity
<1>2. started' \in BOOLEAN /\ scenario' \in Scenarios
  BY <1>1 DEF IndInv, SessionType
<1>3. generation < MaxGen
  BY DEF JumpToTransit, ResetSimulation, Recalculate, Room
<1>4. Asked
  <2>1. CASE Recalculate
    BY <1>2, <1>3, <2>1, Bounds, Requested DEF Recalculate, Room
  <2>2. CASE JumpToTransit \/ ResetSimulation
    <3>1. RequestCalculation(FALSE, display) /\ started
      BY <2>2 DEF JumpToTransit, ResetSimulation, Active
    <3> QED BY <1>2, <1>3, <3>1, Bounds, Requested
  <2> QED BY <2>1, <2>2
<1>5. {running', playing', late'} \subseteq BOOLEAN
  BY DEF JumpToTransit, ResetSimulation, Recalculate, Cancel, playback, IndInv, SessionType
<1> QED BY <1>1, <1>2, <1>3, <1>4, <1>5, AskingKeeps

LEMMA AcceptInd ==
    ASSUME IndInv, NEW s \in Scenarios, SelectScenario(s) \/ ChangeScenario(s)
    PROVE  IndInv'
<1> PICK shows : Accept(s, shows) /\ Displays(shows, frame)
  BY DEF SelectScenario, ChangeScenario, Reverted, Displays, IndInv, SessionType
<1>1. UNCHANGED <<started, activityRevision, sceneActive, occluded, resumed, playback>>
  BY DEF Accept, activity
<1>2. scenario' \in Scenarios /\ samples' \cup undo' = {} /\ generation < MaxGen
  BY DEF Accept, ResetHistories, Room
<1>3. Asked
  BY <1>2, Bounds, Requested DEF Accept, Room
<1>4. ~canExport'
  BY DEF Accept, RequestCalculation
<1>5. {started', running', playing', late'} \subseteq BOOLEAN
  BY <1>1 DEF playback, IndInv, SessionType
<1> QED BY <1>1, <1>2, <1>3, <1>4, <1>5, AskingKeeps

LEMMA TickInd == IndInv /\ (Tick \/ LateTick) => IndInv'
<1> SUFFICES ASSUME IndInv, Tick \/ LateTick PROVE IndInv'
  OBVIOUS
<1>1. Turn
  BY DEF Tick, LateTick
<1>2. UNCHANGED <<started, activityRevision, sceneActive, occluded, resumed, scenario,
                  samples, undo, running>>
  BY <1>1 DEF Turn, activity
<1>3. started' \in BOOLEAN /\ scenario' \in Scenarios
  BY <1>2 DEF IndInv, SessionType
<1>4. generation < MaxGen
  BY <1>1 DEF Turn
<1>5. Asked
  <2>1. CASE running /\ Active
    <3>1. RequestCalculation(FALSE, display) /\ started
      BY <1>1, <2>1 DEF Turn, Active
    <3> QED BY <1>3, <1>4, <3>1, Bounds, Requested
  <2>2. CASE ~(running /\ Active)
    BY <1>1, <2>2, NotAsking DEF Turn, IndInv, SessionType
  <2> QED BY <2>1, <2>2
<1>6. {running', playing', late'} \subseteq BOOLEAN
  BY <1>2 DEF Tick, LateTick, Active, IndInv, SessionType
<1> QED BY <1>2, <1>3, <1>4, <1>5, <1>6, AskingKeeps

\* The task of a resumption comes back once, with the generation it may make.
LEMMA ResumeInd == ASSUME IndInv, NEW rev \in resumed, Resume(rev) PROVE IndInv'
<1>1. /\ UNCHANGED <<started, activityRevision, sceneActive, occluded, scenario,
                     samples, undo, running>>
      /\ resumed' = resumed \ {rev}
  BY DEF Resume, activity
<1>2. started' \in BOOLEAN /\ scenario' \in Scenarios
  BY <1>1 DEF IndInv, SessionType
<1>3. CASE rev = activityRevision /\ Active
  <2>1. RequestCalculation(FALSE, display) /\ started
    BY <1>3 DEF Resume, Active
  <2>2. generation < MaxGen + MaxRevision
    BY <1>3, Bounds, EducationAssumption DEF IndInv, GenerationInv
  <2>3. Asked
    BY <1>2, <2>1, <2>2, Bounds, Requested
  <2>4. {running', playing', late'} \subseteq BOOLEAN
    BY <1>1, <1>3 DEF Resume, Cancel, IndInv, SessionType
  <2> QED BY <1>1, <1>2, <1>3, <2>3, <2>4, AskingKeeps
<1>4. CASE ~(rev = activityRevision /\ Active)
  <2>1. UNCHANGED <<generation, seriesRevision, canExport, display, mail, playing, late,
                    frame, answered, rt>>
    BY <1>4 DEF Resume
  <2>2. Asked
    BY <2>1, NotAsking DEF IndInv, SessionType
  <2>3. {running', playing', late'} \subseteq BOOLEAN
    BY <1>1, <2>1 DEF IndInv, SessionType
  <2> QED BY <1>1, <1>2, <2>1, <2>2, <2>3, AskingKeeps
<1> QED BY <1>3, <1>4

\* A report of the host.  The revision it makes is new, so nothing on its way
\* bears it yet.
LEMMA UpdateInd ==
    ASSUME IndInv, UpdateRenderingActivity, {sceneActive', occluded'} \subseteq BOOLEAN
    PROVE  IndInv'
<1>1. /\ UNCHANGED <<started, running, seriesRevision, scenario, frame, canExport, display,
                     samples, undo, answered, resumed, rt>>
      /\ activityRevision < MaxRevision
  BY DEF UpdateRenderingActivity, shown
<1>2. RuntimeInv' /\ ExportIsCurrent'
  BY <1>1 DEF IndInv, RuntimeInv, ExportIsCurrent, SameSeries, Tended, Working
<1>3. CASE Active' = Active
  <2>1. UNCHANGED <<activityRevision, generation, mail, playing, late>>
    BY <1>3 DEF UpdateRenderingActivity
  <2>2. SessionType' /\ SeriesInv'
    BY <1>1, <2>1 DEF IndInv, SessionType, SeriesInv
  <2>3. ResumptionInv' /\ GenerationInv'
    BY <1>1, <2>1 DEF IndInv, ResumptionInv, GenerationInv, Resumption, SetPaused
  <2> QED BY <1>2, <2>2, <2>3 DEF IndInv
<1>4. CASE Active' # Active
  <2> DEFINE next == activityRevision + 1
             m == SetPaused(Active, next)
  <2>1. /\ activityRevision' = next /\ next \in 1 .. MaxRevision
        /\ activityRevision \in 0 .. MaxRevision
        /\ generation' = IF Active THEN generation + 1 ELSE generation
        /\ mail' = mail \cup {m}
    BY <1>1, <1>4, Bounds, EducationAssumption DEF UpdateRenderingActivity
  <2>2. Active \in BOOLEAN
    BY DEF Active
  <2>3. m \in Mail /\ m.call = "setPaused" /\ m.rev = next /\ m.paused = Active
    BY <2>1, <2>2, SetPausedIsMail
  <2>4. generation' <= MaxGen + activityRevision' /\ generation' \in Nat
    BY <2>1, EducationAssumption, Bounds DEF IndInv, GenerationInv
  <2>5. Resumption(next) \notin mail /\ next \notin resumed
    <3>1. Resumption(next).call = "setPaused" /\ Resumption(next).rev = next
      BY <2>1, SetPausedIsMail DEF Resumption
    <3> QED BY <2>1, <3>1, EducationAssumption DEF IndInv, SeriesInv
  <2>6. {playing', late'} \subseteq BOOLEAN
    BY <1>4 DEF UpdateRenderingActivity, Cancel, IndInv, SessionType
  <2>7. Resumption(activityRevision)' = Resumption(next)
    BY <2>1 DEF Resumption, SetPaused
  <2>8. Resumption(next) \in mail' => ~Active
    BY <2>1, <2>3, <2>5, SetPausedIsMail DEF Resumption
  <2> HIDE DEF m
  <2>9. SessionType'
    <3>1. generation' \in 0 .. MaxGen + MaxRevision
      BY <2>1, <2>4, EducationAssumption
    <3> QED BY <1>1, <2>1, <2>3, <2>6, <3>1 DEF IndInv, SessionType
  <2>10. SeriesInv'
    <3>1. \A x \in mail : x.call = "setPaused" => x.rev \in Nat /\ x.rev <= activityRevision
      BY MailIs DEF IndInv, SessionType, SeriesInv
    <3>2. \A x \in resumed : x \in Nat /\ x <= activityRevision
      <4>1. resumed \subseteq 1 .. MaxRevision /\ SeriesInv
        BY DEF IndInv, SessionType
      <4> QED BY <4>1, EducationAssumption DEF SeriesInv
    <3>3. \A x \in mail' : x.call = "setPaused" => x.rev <= next
      BY <2>1, <2>3, <3>1, EducationAssumption
    <3>4. \A x \in resumed : x <= next
      BY <2>1, <3>2, EducationAssumption
    <3> QED BY <1>1, <2>1, <3>3, <3>4 DEF IndInv, SeriesInv
  <2>11. ResumptionInv'
    BY <1>1, <2>5, <2>7, <2>1 DEF ResumptionInv
  <2>12. GenerationInv'
    <3>1. Resumption(next) \in mail' \/ next \in resumed' => ~Active
      BY <1>1, <2>5, <2>8
    <3>2. ~Active => generation' < MaxGen + next
      BY <2>1, EducationAssumption, Bounds DEF IndInv, GenerationInv
    <3> QED BY <2>1, <2>4, <2>7, <3>1, <3>2 DEF GenerationInv
  <2> QED BY <1>2, <2>9, <2>10, <2>11, <2>12 DEF IndInv
<1> QED BY <1>3, <1>4

-----------------------------------------------------------------------------
(* The actor.                                                              *)

\* A step of the actor that leaves the session alone, but for the mail it takes.
LEMMA ActorKeeps ==
    ASSUME IndInv, UNCHANGED <<activity, playback, generation, seriesRevision, scenario, shown>>,
           mail' \subseteq mail, resumed' = resumed, RuntimeInv'
    PROVE  IndInv'
<1> USE DEF activity, playback, shown
<1>1. SessionType' /\ SeriesInv'
  BY DEF IndInv, SessionType, SeriesInv
<1>2. ResumptionInv' /\ GenerationInv'
  BY DEF IndInv, ResumptionInv, GenerationInv, Resumption, SetPaused
<1>3. ExportIsCurrent'
  BY DEF IndInv, ExportIsCurrent, SameSeries
<1> QED BY <1>1, <1>2, <1>3 DEF IndInv

\* startIfNeeded starts the drain for a request that an actor may take.
LEMMA StartIfNeededTends ==
    ASSUME NEW r \in Runtime, r.pending # None => ~r.paused,
           Working(r)
    PROVE  /\ StartIfNeeded(r) \in Runtime
           /\ Tended(StartIfNeeded(r)) /\ Working(StartIfNeeded(r))
<1>1. CASE r.stage = "idle" /\ ~r.paused /\ r.pending # None
  BY <1>1 DEF StartIfNeeded, Runtime, Tended, Working
<1>2. CASE ~(r.stage = "idle" /\ ~r.paused /\ r.pending # None)
  BY <1>2 DEF StartIfNeeded, Tended
<1> QED BY <1>1, <1>2

LEMMA SubmitArrivesInd == ASSUME IndInv, NEW m \in mail, SubmitArrives(m) PROVE IndInv'
<1>1. m.request \in Request
  BY MailIs DEF SubmitArrives, IndInv, SessionType
<1>2. m.request # None /\ m.request.gen \in 0 .. MaxGen + MaxRevision
  BY <1>1, NoneIsNoRequest, EducationAssumption DEF Request
<1>3. RuntimeInv'
  <2> DEFINE q == m.request
             r == [rt EXCEPT !.submitted = q.gen, !.pending = q]
  <2>1. rt \in Runtime /\ Tended(rt) /\ rt' = Submitted(rt, q)
    BY DEF IndInv, RuntimeInv, SubmitArrives
  <2>2. CASE q.gen <= rt.submitted
    BY <2>1, <2>2 DEF Submitted, IndInv, RuntimeInv, Tended, Working
  <2>3. CASE ~(q.gen <= rt.submitted) /\ rt.paused
    BY <1>2, <2>1, <2>3 DEF Submitted, IndInv, RuntimeInv, Runtime, Tended, Working
  <2>4. CASE ~(q.gen <= rt.submitted) /\ ~rt.paused
    <3>1. r \in Runtime /\ ~r.paused /\ Working(r)
      BY <1>1, <1>2, <2>1, <2>4 DEF Runtime, IndInv, RuntimeInv, Working
    <3>2. rt' = StartIfNeeded(r)
      BY <2>1, <2>4 DEF Submitted
    <3> HIDE DEF r
    <3> QED BY <3>1, <3>2, StartIfNeededTends DEF RuntimeInv
  <2> QED BY <2>2, <2>3, <2>4
<1> QED BY <1>3, ActorKeeps DEF SubmitArrives

LEMMA SetPausedArrivesInd == ASSUME IndInv, NEW m \in mail, SetPausedArrives(m) PROVE IndInv'
<1>1. m.paused \in BOOLEAN /\ m.rev \in 1 .. MaxRevision /\ m = SetPaused(m.paused, m.rev)
  BY MailIs DEF SetPausedArrives, IndInv, SessionType
<1>2. UNCHANGED <<activity, playback, generation, seriesRevision, scenario, shown>>
  BY DEF SetPausedArrives
<1>3. RuntimeInv'
  <2>1. rt' = Paused(rt, m.paused, m.rev)
    BY DEF SetPausedArrives
  <2>2. m.rev \in 0 .. MaxRevision
    BY <1>1, EducationAssumption
  <2> QED BY <1>1, <2>1, <2>2 DEF Paused, IndInv, RuntimeInv, Runtime, Tended, Working
<1>4. /\ mail' = mail \ {m} /\ resumed' \subseteq resumed \cup {m.rev}
      /\ m.paused => resumed' = resumed
  BY DEF SetPausedArrives
<1>5. SessionType'
  BY <1>1, <1>2, <1>4 DEF IndInv, SessionType, activity, playback, shown
<1>6. SeriesInv'
  BY <1>1, <1>2, <1>4 DEF IndInv, SeriesInv, SetPausedArrives, activity
<1>7. Resumption(activityRevision)' = Resumption(activityRevision)
  BY <1>2 DEF Resumption, SetPaused, activity
<1>8. activityRevision \in resumed' \ resumed => m = Resumption(activityRevision)
  BY <1>1, <1>4 DEF Resumption
<1>9. ResumptionInv'
  BY <1>2, <1>4, <1>7, <1>8 DEF IndInv, ResumptionInv, activity
<1>10. GenerationInv'
  BY <1>2, <1>4, <1>7, <1>8 DEF IndInv, GenerationInv, activity
<1>11. ExportIsCurrent'
  BY <1>2 DEF IndInv, ExportIsCurrent, SameSeries, shown
<1> QED BY <1>3, <1>5, <1>6, <1>9, <1>10, <1>11 DEF IndInv

LEMMA DrainInd == IndInv /\ Drain => IndInv'
<1> SUFFICES ASSUME IndInv, Drain PROVE IndInv'
  OBVIOUS
<1>1. rt \in Runtime /\ Tended(rt)
  BY DEF IndInv, RuntimeInv
<1>2. RuntimeInv'
  <2>1. CASE ~rt.paused /\ rt.pending # None
    BY <1>1, <2>1 DEF Drain, Runtime, RuntimeInv, Tended, Working
  <2>2. CASE ~(~rt.paused /\ rt.pending # None)
    <3> DEFINE r == [rt EXCEPT !.stage = "idle"]
    <3>1. r \in Runtime /\ r.pending = None /\ r.stage = "idle"
      BY <1>1, <2>2 DEF Runtime, Tended
    <3>2. rt' = StartIfNeeded(r)
      BY <2>2 DEF Drain
    <3> HIDE DEF r
    <3> QED BY <3>1, <3>2, StartIfNeededTends DEF RuntimeInv, Working
  <2> QED BY <2>1, <2>2
<1> QED BY <1>2, ActorKeeps DEF Drain, Rest

LEMMA CalculatedInd == IndInv /\ Calculated => IndInv'
<1> SUFFICES ASSUME IndInv, Calculated PROVE IndInv'
  OBVIOUS
<1>1. rt \in Runtime /\ Tended(rt) /\ rt.work \in Request
  BY DEF IndInv, RuntimeInv, Runtime, Tended, Calculated, Working
<1> DEFINE series == SeriesOf(rt.work, rt.cache)
           outcome == [series EXCEPT !.gen = rt.work.gen]
           kept == [series EXCEPT !.gen = 1]
<1>2. series \in Request
  BY <1>1 DEF SeriesOf, Runtime
<1>3. outcome \in Request /\ outcome # None
  <2>1. outcome \in Request
    BY <1>1, <1>2 DEF Request
  <2> QED BY <2>1, NoneIsNoRequest
<1>4. kept \in Request
  BY <1>1, <1>2, EducationAssumption DEF Request
<1>5. PICK failed \in BOOLEAN :
        LET done == [rt EXCEPT !.failed = failed, !.work = outcome,
                               !.cache = IF failed THEN rt.cache ELSE kept]
            over == [done EXCEPT !.stage = "idle", !.work = None, !.failed = FALSE]
        IN  rt' = IF rt.paused THEN over ELSE [done EXCEPT !.stage = "delivering"]
  BY DEF Calculated
<1> HIDE DEF outcome, kept
<1> DEFINE done == [rt EXCEPT !.failed = failed, !.work = outcome,
                              !.cache = IF failed THEN rt.cache ELSE kept]
<1>6. /\ done \in Runtime /\ done.work # None
      /\ done.paused = rt.paused /\ done.pending = rt.pending
  BY <1>1, <1>3, <1>4 DEF Runtime
<1>7. RuntimeInv'
  <2>1. CASE rt.paused
    <3>1. rt' = [done EXCEPT !.stage = "idle", !.work = None, !.failed = FALSE]
      BY <1>5, <2>1
    <3> HIDE DEF done
    <3> QED BY <1>1, <1>6, <2>1, <3>1 DEF RuntimeInv, Runtime, Tended, Working
  <2>2. CASE ~rt.paused
    <3>1. rt' = [done EXCEPT !.stage = "delivering"]
      BY <1>5, <2>2
    <3> HIDE DEF done
    <3> QED BY <1>6, <2>2, <3>1 DEF RuntimeInv, Runtime, Tended, Working
  <2> QED BY <2>1, <2>2
<1> QED BY <1>7, ActorKeeps DEF Calculated, Rest

\* What is shown after a delivery is of the accepted scenario and series.
LEMMA ReceiveInd == IndInv /\ Receive => IndInv'
<1> SUFFICES ASSUME IndInv, Receive PROVE IndInv'
  OBVIOUS
<1>1. UNCHANGED <<activity, playback, generation, seriesRevision, scenario, mail, resumed>>
  BY DEF Receive, Rest
<1>2. RuntimeInv'
  BY DEF Receive, IndInv, RuntimeInv, Runtime, Tended, Working
<1>3. rt.work \in Request /\ rt.work # None
  BY DEF Receive, IndInv, RuntimeInv, Runtime, Tended, Working
<1>4. \/ UNCHANGED <<frame, canExport, samples, undo>>
      \/ /\ frame' = rt.work /\ canExport' = TRUE
         /\ SameSeries(rt.work, [rev |-> seriesRevision, of |-> scenario])
         /\ samples' = samples \cup {rt.work.of} /\ undo' = {}
  BY DEF Receive, shown
<1>5. Displays(display', frame')
  BY <1>3 DEF Receive, shown, IndInv, SessionType, Displays
<1>6. rt.work.of \in Scenarios
  BY <1>3 DEF Request
<1>7. SessionType'
  BY <1>1, <1>3, <1>4, <1>5, <1>6 DEF IndInv, SessionType, activity, playback
<1>8. SeriesInv' /\ ResumptionInv' /\ GenerationInv'
  BY <1>1 DEF IndInv, SeriesInv, ResumptionInv, GenerationInv, Resumption, SetPaused, activity
<1>9. ExportIsCurrent'
  BY <1>1, <1>3, <1>4 DEF IndInv, ExportIsCurrent, SameSeries
<1> QED BY <1>2, <1>7, <1>8, <1>9 DEF IndInv

-----------------------------------------------------------------------------
(* The theorems.                                                           *)

LEMMA InitInd == Init => IndInv
<1> SUFFICES ASSUME Init PROVE IndInv
  OBVIOUS
<1>1. SessionType
  <2>1. {started, sceneActive, occluded, running, playing, late, canExport} \subseteq BOOLEAN
    BY DEF Init
  <2>2. /\ generation \in 0 .. MaxGen + MaxRevision
        /\ seriesRevision \in 0 .. MaxSeries /\ activityRevision \in 0 .. MaxRevision
    BY EducationAssumption DEF Init
  <2>3. /\ scenario \in Scenarios /\ frame \in Request \cup {None}
        /\ Displays(display, frame)
        /\ samples \subseteq Scenarios /\ undo \subseteq Scenarios
        /\ mail \subseteq Mail /\ resumed \subseteq 1 .. MaxRevision
    BY EducationAssumption DEF Init, Displays
  <2> QED BY <2>1, <2>2, <2>3 DEF SessionType
<1>4. SeriesInv /\ ResumptionInv
  BY DEF Init, SeriesInv, ResumptionInv
<1>5. GenerationInv
  BY EducationAssumption DEF Init, GenerationInv
<1>2. RuntimeInv
  BY EducationAssumption DEF Init, RuntimeInv, Runtime, Tended, Working
<1>3. ExportIsCurrent
  BY DEF Init, ExportIsCurrent
<1> QED BY <1>1, <1>2, <1>3, <1>4, <1>5 DEF IndInv

LEMMA StepInd == IndInv /\ [Next]_vars => IndInv'
<1> SUFFICES ASSUME IndInv, [Next]_vars PROVE IndInv'
  OBVIOUS
<1>1. CASE Operation
  <2>1. CASE SetOccluded \/ SetSceneActive
    <3>1. {sceneActive', occluded'} \subseteq BOOLEAN /\ UpdateRenderingActivity
      BY <2>1 DEF SetOccluded, SetSceneActive, IndInv, SessionType
    <3> QED BY <3>1, UpdateInd
  <2>2. ASSUME NEW s \in Scenarios, SelectScenario(s) \/ ChangeScenario(s) PROVE IndInv'
    BY <2>2, AcceptInd
  <2> QED BY <1>1, <2>1, <2>2, StartInd, QuietInd, AskingInd DEF Operation
<1>2. CASE Tick \/ LateTick
  BY <1>2, TickInd
<1>3. CASE Arrives
  BY <1>3, SubmitArrivesInd, SetPausedArrivesInd DEF Arrives
<1>4. CASE Resumes
  BY <1>4, ResumeInd DEF Resumes
<1>5. CASE Drain \/ Calculated \/ Receive
  BY <1>5, DrainInd, CalculatedInd, ReceiveInd
<1>6. CASE UNCHANGED vars
  <2>1. RuntimeInv'
    BY <1>6 DEF vars, IndInv, RuntimeInv, Tended, Working
  <2> QED BY <1>6, <2>1, ActorKeeps DEF vars
<1> QED BY <1>1, <1>2, <1>3, <1>4, <1>5, <1>6 DEF Next

LEMMA Invariant == Spec => []IndInv
BY InitInd, StepInd, PTL DEF Spec

\* Every variable has its type, what is on display fits the frame (resetDraft,
\* requestCalculation, receive), and a request waits only in an actor that is
\* not paused and has a drain that will take it (submit, setPaused, drain).
\* The bound on the generations is part of it: each activity revision makes at
\* most one, however suspensions and resumptions cross.
THEOREM QueueIsTended == Spec => []TypeOK
<1>1. IndInv => TypeOK
  BY DEF IndInv, SessionType, RuntimeInv, TypeOK, Runtime, Tended, Working
<1> QED BY <1>1, Invariant, PTL

\* What can be exported is of the accepted scenario and the newest series
\* (requestCalculation, receive, resetHistories).
THEOREM ExportIsOfTheScenario == Spec => []ExportIsCurrent
<1>1. IndInv => ExportIsCurrent
  BY DEF IndInv
<1> QED BY <1>1, Invariant, PTL
=============================================================================
