----------------------- MODULE ScenarioSessionProofs -----------------------
(***************************************************************************)
(* Proofs about ScenarioSession for every set of presets, catalog entries, *)
(* addresses and workspace files.                                          *)
(***************************************************************************)
EXTENDS ScenarioSession, TLAPS

-----------------------------------------------------------------------------
(* The types of what the handlers work on.                                 *)

Contexts == [product : {"simulation", "lab"}, ui : {"normal", "expert"},
             sim : {"preset", Binary}, preset : Presets, real : RealSystems \cup {NoReal},
             profile : {"education", "scientific"}]

Settings == {"default", "file"}

Runtimes == [params : Params, settings : Settings]

Sessions == [params : Params, defaults : Scenarios, responses : {"none", "some"},
             binary : {"none", "claimed", "revealed"}, settings : Settings,
             torn : BOOLEAN, runtime : Runtimes]

Forms == [of : Scenarios, edit : Edits \cup {Invalid}]

Works == [c : Contexts, s : Sessions, form : Forms]

Hows == [sync : BOOLEAN, reset : BOOLEAN, keep : BOOLEAN]

Guards == [dirty : BOOLEAN, pending : Changes \cup {None}]

\* The runtime was built from the parameters and the settings.
Built(s) == Core(s.runtime.params) = Core(s.params) /\ s.runtime.settings = s.settings

\* It was, or a rebuild has thrown late since.
Sound(s) == s.torn \/ Built(s)

\* What a rebuild that throws makes of a session: nothing, or another runtime.
Kept(s, t, ends) ==
    \/ t = s
    \/ ends = "late" /\ \E r \in Runtimes : t = [s EXCEPT !.runtime = r, !.torn = TRUE]

IndInv ==
    /\ controls \in Contexts
    /\ session \in Sessions
    /\ form \in Forms
    /\ guard \in Guards
    /\ {quick, retry} \subseteq BOOLEAN
    /\ SessionIsConsistent

-----------------------------------------------------------------------------
(* Operators.                                                              *)

LEMMA ParamsAreForms == Params \subseteq Forms
BY DEF Params, Forms

\* Turning the observer of parameters, or not, changes nothing but the edit.
LEMMA ObserverTurns ==
    ASSUME NEW params \in Params, NEW ui
    PROVE  /\ ObserverModeContract(params, ui) \in Params
           /\ ObserverModeContract(params, ui).of = params.of
           /\ Core(ObserverModeContract(params, ui)) = Core(params)
BY DEF ObserverModeContract, Core, Params, Edits

LEMMA KeptIsSound ==
    ASSUME NEW s \in Sessions, NEW t, NEW ends, Kept(s, t, ends)
    PROVE  /\ t \in Sessions /\ t.params = s.params
           /\ Sound(s) => Sound(t)
BY DEF Kept, Sound, Built, Sessions

\* What applyScenarioParams promises: everything is new, or everything but the
\* form, and the runtime after a late throw, is as it was.
Applies(w, next, sync, ends, tried) ==
    /\ tried.w \in Works /\ (tried.ok <=> ends = "works")
    /\ ends # "works" => Kept(w.s, tried.w.s, ends) /\ tried.w.form = w.s.params
    /\ ends = "works" =>
         /\ tried.w.s.params = ObserverModeContract(next, w.c.ui)
         /\ Sound(tried.w.s)
         /\ tried.w.form = IF sync THEN tried.w.s.params ELSE w.form

LEMMA AppliedIsBuilt ==
    ASSUME NEW w \in Works, NEW next \in Params, NEW how \in Hows
    PROVE  LET applied == Applied(w, next, how)
           IN  /\ applied \in Sessions /\ Built(applied)
               /\ applied.params = ObserverModeContract(next, w.c.ui)
<1> DEFINE params == ObserverModeContract(next, w.c.ui)
           settings == IF how.reset /\ ~how.keep THEN "default" ELSE w.s.settings
           binary == IF how.reset THEN "none" ELSE w.s.binary
           runtime == [params |-> params, settings |-> settings]
           applied == [w.s EXCEPT !.params = params, !.responses = "none",
                                  !.settings = settings, !.binary = binary,
                                  !.runtime = runtime]
<1>1. params \in Params /\ w.s \in Sessions
  BY ObserverTurns DEF Works
<1>2. settings \in Settings /\ binary \in {"none", "claimed", "revealed"}
  BY <1>1 DEF Sessions, Settings
<1>3. runtime \in Runtimes
  BY <1>1, <1>2 DEF Runtimes
<1>4. Applied(w, next, how) = applied
  BY <1>1 DEF Applied, Sessions
<1> HIDE DEF params, settings, binary
<1>5. /\ applied \in Sessions /\ applied.params = params /\ applied.settings = settings
      /\ applied.runtime.params = params /\ applied.runtime.settings = settings
  BY <1>1, <1>2, <1>3 DEF Sessions
<1> QED BY <1>4, <1>5 DEF Built, params

LEMMA ApplyScenario ==
    ASSUME NEW w \in Works, NEW next \in Params, NEW how \in Hows, NEW ends \in Endings
    PROVE  Applies(w, next, how.sync, ends, ApplyScenarioParams(w, next, how, ends))
<1> DEFINE applied == Applied(w, next, how)
           tried == ApplyScenarioParams(w, next, how, ends)
<1>1. /\ applied \in Sessions /\ Built(applied)
      /\ applied.params = ObserverModeContract(next, w.c.ui)
      /\ applied.params \in Forms
  BY AppliedIsBuilt, ParamsAreForms DEF Sessions
<1>2. w.s \in Sessions /\ w.s.params \in Forms
  BY ParamsAreForms DEF Works, Sessions
<1>3. CASE ends = "works"
  <2> DEFINE built == [applied EXCEPT !.torn = FALSE]
             left == [w EXCEPT !.s = built, !.form = IF how.sync THEN applied.params ELSE @]
             ending == [w |-> left, ok |-> TRUE]
  <2>1. tried = ending
    BY <1>3 DEF ApplyScenarioParams, Ends
  <2>2. ending.w = left /\ ending.ok = TRUE
    OBVIOUS
  <2> HIDE DEF applied, tried
  <2>3. built \in Sessions /\ built.params = applied.params /\ Sound(built)
    BY <1>1 DEF Sessions, Sound, Built
  <2> HIDE DEF built
  <2>4. /\ left \in Works /\ left.s = built
        /\ left.form = IF how.sync THEN applied.params ELSE w.form
    BY <1>1, <2>3 DEF Works
  <2> HIDE DEF left, ending
  <2> QED BY <1>1, <1>3, <2>1, <2>2, <2>3, <2>4 DEF Applies, tried
<1>4. CASE ends # "works"
  <2> DEFINE late == IsLate(applied, ends)
             back == RolledBack(w, applied, ends)
             ending == [w |-> back, ok |-> FALSE]
  <2>1. tried = ending
    BY <1>4 DEF ApplyScenarioParams, Ends
  <2>2. ending.w = back /\ ending.ok = FALSE
    OBVIOUS
  <2> HIDE DEF applied, tried
  <2>3. back.s \in Sessions /\ back \in Works /\ Kept(w.s, back.s, ends)
        /\ back.form = w.s.params
    <3>1. CASE late
      <4> DEFINE torn == [w.s EXCEPT !.runtime = applied.runtime, !.torn = TRUE]
      <4>1. applied.runtime \in Runtimes /\ ends = "late"
        BY <1>1, <3>1 DEF Sessions, IsLate
      <4>2. torn \in Sessions /\ Kept(w.s, torn, ends)
        BY <1>2, <4>1 DEF Sessions, Kept
      <4>3. back = [w EXCEPT !.s = torn, !.form = w.s.params]
        BY <1>2, <3>1 DEF RolledBack, Works, Sessions
      <4> HIDE DEF torn, back
      <4> QED BY <1>2, <4>2, <4>3 DEF Works
    <3>2. CASE ~late
      <4>1. [w.s EXCEPT !.runtime = w.s.runtime, !.torn = w.s.torn] = w.s
        BY <1>2 DEF Sessions
      <4>2. (w.s.torn \/ late) = w.s.torn
        BY <1>2, <3>2 DEF Sessions
      <4>3. back = [w EXCEPT !.form = w.s.params]
        BY <1>2, <3>2, <4>1, <4>2 DEF RolledBack, Works, Sessions
      <4> HIDE DEF back
      <4> QED BY <1>2, <4>3 DEF Works, Kept
    <3> QED BY <3>1, <3>2
  <2> HIDE DEF back, ending
  <2> QED BY <1>4, <2>1, <2>2, <2>3 DEF Applies, tried
<1> QED BY <1>3, <1>4

LEMMA OwnParams ==
    ASSUME NEW scenario \in Scenarios
    PROVE  [of |-> scenario, edit |-> "own"] \in Params
BY DEF Params, Edits

LEMMA FullIsHow == Full \in Hows /\ Full.sync = TRUE
BY DEF Full, Hows

\* What every way of loading a scenario promises.
Loads(w, ends, tried) ==
    /\ tried.w \in Works /\ (tried.ok <=> ends = "works")
    /\ tried.w.form = tried.w.s.params
    /\ ends = "works" => Sound(tried.w.s)
    /\ ends # "works" => Kept(w.s, tried.w.s, ends)

LEMMA ApplySourceLoads ==
    ASSUME NEW w \in Works, NEW scenario \in Scenarios, NEW ends \in Endings
    PROVE  Loads(w, ends, ApplySource(w, scenario, ends))
<1> DEFINE entered == [w EXCEPT !.s.defaults = scenario]
           params == [of |-> scenario, edit |-> "own"]
           tried == ApplyScenarioParams(entered, params, Full, ends)
           restored == [tried.w EXCEPT !.s.defaults = w.s.defaults]
<1>1. entered \in Works /\ entered.s = [w.s EXCEPT !.defaults = scenario]
  BY DEF Works, Sessions
<1>2. params \in Params
  BY OwnParams
<1>3. ApplySource(w, scenario, ends)
        = IF tried.ok THEN tried ELSE [w |-> restored, ok |-> FALSE]
  BY DEF ApplySource, Ends
<1> HIDE DEF entered, params
<1>4. /\ tried.w \in Works /\ (tried.ok <=> ends = "works")
      /\ ends # "works" => /\ Kept(entered.s, tried.w.s, ends)
                           /\ tried.w.form = entered.s.params
      /\ ends = "works" => Sound(tried.w.s) /\ tried.w.form = tried.w.s.params
  <2>1. Applies(entered, params, TRUE, ends, tried)
    BY <1>1, <1>2, ApplyScenario, FullIsHow
  <2> QED BY <2>1 DEF Applies
<1> HIDE DEF tried
<1>5. CASE ends = "works"
  BY <1>3, <1>4, <1>5 DEF Loads
<1>6. CASE ends # "works"
  <2>1. w.s \in Sessions /\ w.s.params \in Forms /\ entered.s.params = w.s.params
    BY <1>1, ParamsAreForms DEF Works, Sessions
  <2> DEFINE from == tried.w
             back == [from.s EXCEPT !.defaults = w.s.defaults]
  <2>2. from \in Works /\ Kept(entered.s, from.s, ends) /\ from.form = w.s.params
    BY <1>4, <1>6, <2>1
  <2>3. restored = [from EXCEPT !.s = back]
    <3> HIDE DEF from
    <3> QED BY <2>2 DEF Works, from
  <2> HIDE DEF from
  <2>4. Kept(w.s, back, ends)
    <3>1. CASE from.s = entered.s
      <4>1. back = w.s
        BY <1>1, <2>1, <3>1 DEF Sessions
      <4> HIDE DEF back
      <4> QED BY <4>1 DEF Kept
    <3>2. ASSUME NEW r \in Runtimes, from.s = [entered.s EXCEPT !.runtime = r, !.torn = TRUE],
                 ends = "late"
          PROVE  Kept(w.s, back, ends)
      <4>1. back = [w.s EXCEPT !.runtime = r, !.torn = TRUE]
        BY <1>1, <2>1, <3>2 DEF Sessions
      <4> HIDE DEF back
      <4> QED BY <3>2, <4>1 DEF Kept
    <3> QED BY <2>2, <3>1, <3>2 DEF Kept
  <2> HIDE DEF back
  <2>5. back \in Sessions /\ back.params = w.s.params
    BY <2>1, <2>4, KeptIsSound
  <2> HIDE DEF restored
  <2>6. restored \in Works /\ restored.s = back /\ restored.form = w.s.params
    BY <2>2, <2>3, <2>5 DEF Works
  <2> DEFINE left == [w |-> restored, ok |-> FALSE]
  <2>7. left.w = restored /\ left.ok = FALSE
    OBVIOUS
  <2>8. ApplySource(w, scenario, ends) = left
    BY <1>3, <1>4, <1>6
  <2> HIDE DEF left
  <2> QED BY <1>6, <2>4, <2>5, <2>6, <2>7, <2>8 DEF Loads
<1> QED BY <1>5, <1>6

LEMMA ApplyBinaryLabLoads ==
    ASSUME NEW w \in Works, NEW ends \in Endings
    PROVE  Loads(w, ends, ApplyBinaryLab(w, ends))
<1> DEFINE params == [of |-> Binary, edit |-> "own"]
           deselected == [w EXCEPT !.c.real = NoReal]
           entered == [deselected EXCEPT !.s.defaults = Binary, !.s.params = params,
                                         !.s.responses = "none", !.s.binary = "none"]
           tried == ApplyScenarioParams(entered, params, Full, ends)
           restored == [tried.w EXCEPT !.s.defaults = w.s.defaults, !.s.params = w.s.params,
                                       !.s.responses = w.s.responses, !.s.binary = w.s.binary,
                                       !.form = w.s.params]
<1>1. params \in Params /\ Binary \in Scenarios
  BY OwnParams DEF Scenarios
<1>2. deselected \in Works /\ deselected.s = w.s
  BY DEF Works, Contexts
<1>3. /\ entered \in Works
      /\ entered.s = [w.s EXCEPT !.defaults = Binary, !.params = params,
                                 !.responses = "none", !.binary = "none"]
  <2> HIDE DEF deselected, params
  <2> QED BY <1>1, <1>2 DEF Works, Sessions
<1>4. ApplyBinaryLab(w, ends) = IF tried.ok THEN tried ELSE [w |-> restored, ok |-> FALSE]
  BY DEF ApplyBinaryLab, Ends
<1> HIDE DEF entered, params, deselected
<1>5. /\ tried.w \in Works /\ (tried.ok <=> ends = "works")
      /\ ends # "works" => Kept(entered.s, tried.w.s, ends)
      /\ ends = "works" => Sound(tried.w.s) /\ tried.w.form = tried.w.s.params
  <2>1. Applies(entered, params, TRUE, ends, tried)
    <3>1. entered \in Works
      BY <1>3
    <3> QED BY <1>1, <3>1, ApplyScenario, FullIsHow
  <2> HIDE DEF tried
  <2> QED BY <2>1 DEF Applies
<1> HIDE DEF tried
<1>6. CASE ends = "works"
  BY <1>4, <1>5, <1>6 DEF Loads
<1>7. CASE ends # "works"
  <2>1. w.s \in Sessions /\ w.s.params \in Forms
    BY ParamsAreForms DEF Works, Sessions
  <2> DEFINE from == tried.w
             back == [from.s EXCEPT !.defaults = w.s.defaults, !.params = w.s.params,
                                    !.responses = w.s.responses, !.binary = w.s.binary]
  <2>2. from \in Works /\ Kept(entered.s, from.s, ends)
    BY <1>5, <1>7
  <2>3. restored = [from EXCEPT !.s = back, !.form = w.s.params]
    <3> HIDE DEF from
    <3> QED BY <2>2 DEF Works, from
  <2> HIDE DEF from
  <2>4. Kept(w.s, back, ends)
    <3>1. CASE from.s = entered.s
      <4>1. back = w.s
        BY <1>3, <2>1, <3>1 DEF Sessions
      <4> HIDE DEF back
      <4> QED BY <4>1 DEF Kept
    <3>2. ASSUME NEW r \in Runtimes, from.s = [entered.s EXCEPT !.runtime = r, !.torn = TRUE],
                 ends = "late"
          PROVE  Kept(w.s, back, ends)
      <4>1. back = [w.s EXCEPT !.runtime = r, !.torn = TRUE]
        BY <1>3, <2>1, <3>2 DEF Sessions
      <4> HIDE DEF back
      <4> QED BY <3>2, <4>1 DEF Kept
    <3> QED BY <2>2, <3>1, <3>2 DEF Kept
  <2> HIDE DEF back
  <2>5. back \in Sessions /\ back.params = w.s.params
    BY <2>1, <2>4, KeptIsSound
  <2> HIDE DEF restored
  <2>6. restored \in Works /\ restored.s = back /\ restored.form = w.s.params
    BY <2>1, <2>2, <2>3, <2>5 DEF Works
  <2> DEFINE left == [w |-> restored, ok |-> FALSE]
  <2>7. left.w = restored /\ left.ok = FALSE
    OBVIOUS
  <2>8. ApplyBinaryLab(w, ends) = left
    BY <1>4, <1>5, <1>7
  <2> HIDE DEF left
  <2> QED BY <1>7, <2>4, <2>5, <2>6, <2>7, <2>8 DEF Loads
<1> QED BY <1>6, <1>7

\* applyActive loads a scenario or leaves the session as it was, whichever of the
\* three ways the controls select.
LEMMA ApplyActiveLoads ==
    ASSUME NEW w \in Works, NEW ends \in Endings
    PROVE  Loads(w, ends, ApplyActiveScenario(w, ends))
<1>1. w.c.preset \in Scenarios /\ (w.c.real # NoReal => w.c.real \in Scenarios)
  BY DEF Works, Contexts, Scenarios
<1>2. CASE w.c.product = "simulation"
  BY <1>1, <1>2, ApplySourceLoads DEF ApplyActiveScenario
<1>3. CASE w.c.product # "simulation" /\ IsBinaryModeActive(w.c)
  BY <1>3, ApplyBinaryLabLoads DEF ApplyActiveScenario
<1>4. CASE w.c.product # "simulation" /\ ~IsBinaryModeActive(w.c)
  <2> DEFINE deselected == [w EXCEPT !.c.real = NoReal]
  <2>1. deselected \in Works /\ deselected.s = w.s
    BY DEF Works, Contexts
  <2>2. ApplyActiveScenario(w, ends) = ApplySource(deselected, w.c.preset, ends)
    BY <1>4 DEF ApplyActiveScenario
  <2> HIDE DEF deselected
  <2> QED BY <1>1, <2>1, <2>2, ApplySourceLoads DEF Loads
<1> QED BY <1>2, <1>3, <1>4

-----------------------------------------------------------------------------
(* The handlers.                                                           *)

\* What a handler leaves behind is a session with its invariant.
Keeps ==
    /\ controls' \in Contexts /\ session' \in Sessions /\ form' \in Forms
    /\ SessionIsConsistent'

LEMMA BecomesKeeps ==
    ASSUME NEW w \in Works, Becomes(w), Sound(w.s), w.form.of = w.s.params.of
    PROVE  Keeps
BY DEF Becomes, Keeps, Works, Sound, Built, SessionIsConsistent, Core, ObserverModeContract

LEMMA WorkIs ==
    ASSUME IndInv
    PROVE  /\ Work \in Works /\ Work.c = controls /\ Work.s = session /\ Work.form = form
           /\ Sound(session) /\ form.of = session.params.of /\ session.params \in Params
BY DEF IndInv, Work, Works, Sound, Built, SessionIsConsistent, Sessions

LEMMA ApplyActiveKeeps ==
    ASSUME NEW w \in Works, Sound(w.s), NEW ends \in Endings, ApplyActive(w, ends)
    PROVE  /\ Keeps /\ retry' \in BOOLEAN
           /\ form' = session'.params
           /\ ends # "works" => Kept(w.s, session', ends)
<1> DEFINE tried == ApplyActiveScenario(w, ends)
<1>1. Loads(w, ends, tried)
  BY ApplyActiveLoads
<1>2. Becomes(tried.w) /\ retry' = ~tried.ok
  BY DEF ApplyActive
<1> HIDE DEF tried
<1>3. tried.w \in Works /\ tried.w.form = tried.w.s.params /\ Sound(tried.w.s)
  <2>1. w.s \in Sessions
    BY DEF Works
  <2> QED BY <1>1, <2>1, KeptIsSound DEF Loads
<1>4. Keeps
  BY <1>2, <1>3, BecomesKeeps
<1>5. session' = tried.w.s /\ form' = tried.w.form
  BY <1>2 DEF Becomes
<1> QED BY <1>1, <1>2, <1>4, <1>5 DEF Loads

\* The controls after a change.
LEMMA ChangedIsContext ==
    ASSUME NEW c \in Contexts, NEW change \in Changes
    PROVE  Changed(c, change[1], change[2]) \in Contexts
<1>1. CASE change \in {"product"} \X {"simulation", "lab"}
  BY <1>1 DEF Changed, Contexts
<1>2. CASE change \in {"preset"} \X Presets
  BY <1>2 DEF Changed, Contexts
<1>3. CASE change \in {"real"} \X (RealSystems \cup {NoReal})
  BY <1>3 DEF Changed, Contexts
<1>4. CASE change \in {"sim"} \X {"preset", Binary}
  BY <1>4 DEF Changed, Contexts
<1>5. CASE change \in {"ui"} \X {"normal", "expert"}
  BY <1>5 DEF Changed, Contexts
<1>6. CASE change \in {"profile"} \X {"education", "scientific"}
  BY <1>6 DEF Changed, Contexts
<1> QED BY <1>1, <1>2, <1>3, <1>4, <1>5, <1>6 DEF Changes

\* The session with the observer of its parameters turned.
TurnedSession == [session EXCEPT !.params = Core(@)]

\* A rebuild that throws keeps the session, with its observer turned or not.
KeptUp(ends) ==
    ends # "works" => \E kept \in {session, TurnedSession} : Kept(kept, session', ends)

LEMMA ChangeKeeps ==
    ASSUME IndInv, NEW change \in Changes, NEW ends \in Endings, Change(change, ends)
    PROVE  /\ Keeps /\ retry' \in BOOLEAN
           /\ KeptUp(ends)
           /\ ~RebuildsNothing(change) => form' = session'.params
<1> DEFINE w == [Work EXCEPT !.c = Changed(controls, change[1], change[2])]
           turned == [w EXCEPT !.s.params = ObserverModeContract(@, "normal")]
           again == [sync |-> TRUE, reset |-> FALSE, keep |-> FALSE]
           tried == ApplyScenarioParams(turned, turned.s.params, again, ends)
<1>1. w \in Works /\ w.s = session /\ w.form = form
  <2> DEFINE c == Changed(controls, change[1], change[2])
  <2>1. c \in Contexts
    BY ChangedIsContext DEF IndInv
  <2>2. Work \in Works /\ Work.s = session /\ Work.form = form
    BY WorkIs
  <2>3. w = [Work EXCEPT !.c = c]
    OBVIOUS
  <2> HIDE DEF c, w
  <2> QED BY <2>1, <2>2, <2>3 DEF Works
<1>2. CASE RebuildsNothing(change)
  <2>0. change # <<"ui", "normal">>
    BY <1>2 DEF RebuildsNothing
  <2>1. Becomes(w) /\ UNCHANGED retry
    BY <1>2, <2>0 DEF Change
  <2> HIDE DEF w
  <2> QED BY <1>1, <1>2, <2>1, WorkIs, BecomesKeeps DEF Becomes, IndInv, KeptUp, Kept
<1>3. CASE change = <<"ui", "normal">>
  <2>1. ~RebuildsNothing(change)
    BY <1>3 DEF RebuildsNothing
  <2>2. Becomes(tried.w) /\ UNCHANGED retry
    BY <1>3, <2>1 DEF Change
  <2>3. turned \in Works /\ turned.s = TurnedSession /\ turned.form = form
    <3> HIDE DEF w
    <3>1. Core(session.params) \in Params
      BY WorkIs, ObserverTurns DEF Core
    <3> QED BY <1>1, <3>1 DEF Works, Sessions, TurnedSession, Core
  <2>4. Sound(TurnedSession) /\ TurnedSession.params \in Params
    <3>1. Core(session.params) \in Params /\ Core(Core(session.params)) = Core(session.params)
      BY WorkIs, ObserverTurns DEF Core
    <3> QED BY <3>1, WorkIs DEF Sound, Built, TurnedSession, IndInv, Sessions
  <2>5. again \in Hows /\ again.sync = TRUE
    BY DEF Hows
  <2> HIDE DEF turned, again
  <2>6. Applies(turned, turned.s.params, TRUE, ends, tried)
    BY <2>3, <2>4, <2>5, ApplyScenario
  <2> HIDE DEF tried
  <2>7. tried.w \in Works /\ Sound(tried.w.s) /\ tried.w.form = tried.w.s.params
    <3>1. turned.s \in Sessions
      BY <2>3 DEF Works
    <3> QED BY <2>3, <2>4, <2>6, <3>1, KeptIsSound DEF Applies
  <2>8. session' = tried.w.s /\ form' = tried.w.form
    BY <2>2 DEF Becomes
  <2> QED BY <2>2, <2>3, <2>6, <2>7, <2>8, BecomesKeeps DEF Applies, IndInv, KeptUp
<1>4. CASE ~RebuildsNothing(change) /\ change # <<"ui", "normal">>
  <2>1. ApplyActive(w, ends)
    BY <1>4 DEF Change
  <2> HIDE DEF w
  <2> QED BY <1>1, <2>1, WorkIs, ApplyActiveKeeps DEF KeptUp
<1> QED BY <1>2, <1>3, <1>4

\* The form is applied: what it shows is what plays, or nothing has changed but
\* the form, and the runtime after a late throw.
LEMMA ApplyFormKeeps ==
    ASSUME IndInv, NEW ends \in Endings, ApplyCurrentUiParams(ends)
    PROVE  /\ Keeps
           /\ guard' \in Guards
           /\ guard'.pending = guard.pending
           /\ ends # "works" => Kept(session, session', ends)
           /\ guard.dirty /\ ~guard'.dirty => Core(form') = Core(session'.params)
<1> DEFINE asForm == [sync |-> FALSE, reset |-> FALSE, keep |-> FALSE]
           applied == ApplyScenarioParams(Work, form, asForm, ends)
<1>1. CASE EditingLocked
  <2>1. UNCHANGED <<controls, session, form, guard>>
    BY <1>1 DEF ApplyCurrentUiParams
  <2> QED BY <2>1 DEF IndInv, Keeps, SessionIsConsistent, Kept
<1>2. CASE ~EditingLocked /\ form.edit = Invalid
  <2> DEFINE left == [w |-> Work, ok |-> FALSE]
  <2>1. left.w = Work /\ left.ok = FALSE
    OBVIOUS
  <2>2. Becomes(left.w) /\ guard' = [guard EXCEPT !.dirty = @ /\ ~left.ok]
    BY <1>2 DEF ApplyCurrentUiParams, Ends
  <2> HIDE DEF left
  <2>3. Becomes(Work) /\ guard'.dirty = guard.dirty /\ guard' = guard
    BY <2>1, <2>2 DEF IndInv, Guards
  <2> QED BY <2>3, WorkIs, BecomesKeeps DEF Becomes, IndInv, Kept
<1>3. CASE ~EditingLocked /\ form.edit # Invalid
  <2>1. Becomes(applied.w) /\ guard' = [guard EXCEPT !.dirty = @ /\ ~applied.ok]
    BY <1>3 DEF ApplyCurrentUiParams
  <2>2. form \in Params
    BY <1>3 DEF IndInv, Forms, Params
  <2>3. asForm \in Hows /\ asForm.sync = FALSE
    BY DEF Hows
  <2> HIDE DEF asForm
  <2>4. Applies(Work, form, FALSE, ends, applied)
    BY <2>2, <2>3, WorkIs, ApplyScenario
  <2> HIDE DEF applied
  <2>5. CASE ends = "works"
    <3>1. /\ applied.w \in Works /\ Sound(applied.w.s) /\ applied.w.form = form
          /\ applied.w.s.params = ObserverModeContract(form, Work.c.ui)
      BY <2>4, <2>5, WorkIs DEF Applies
    <3>2. applied.w.s.params.of = form.of /\ Core(applied.w.s.params) = Core(form)
      BY <2>2, <3>1, ObserverTurns
    <3>3. guard' \in Guards /\ guard'.pending = guard.pending
      BY <2>1 DEF IndInv, Guards
    <3> QED BY <2>1, <2>5, <3>1, <3>2, <3>3, BecomesKeeps DEF Becomes
  <2>6. CASE ends # "works"
    <3>1. /\ applied.w \in Works /\ Kept(session, applied.w.s, ends)
          /\ applied.w.form = session.params /\ ~applied.ok
      BY <2>4, <2>6, WorkIs DEF Applies
    <3>2. guard' = guard
      BY <2>1, <3>1 DEF IndInv, Guards
    <3>3. Sound(applied.w.s) /\ applied.w.s.params = session.params
      BY <3>1, WorkIs, KeptIsSound DEF IndInv
    <3>4. session' = applied.w.s
      BY <2>1 DEF Becomes
    <3> QED BY <2>1, <3>1, <3>2, <3>3, <3>4, BecomesKeeps DEF IndInv
  <2> QED BY <2>5, <2>6
<1> QED BY <1>1, <1>2, <1>3

LEMMA ResetParamsKeeps ==
    ASSUME IndInv, NEW ends \in Endings, ResetParams(ends)
    PROVE  /\ Keeps
           /\ guard' \in Guards
           /\ ends # "works" => Kept(session, session', ends)
           /\ form' = session'.params
<1> DEFINE again == [sync |-> TRUE, reset |-> FALSE, keep |-> FALSE]
           params == [of |-> session.defaults, edit |-> "own"]
           tried == ApplyScenarioParams(Work, params, again, ends)
<1>1. Becomes(tried.w) /\ guard' = [guard EXCEPT !.dirty = @ /\ ~tried.ok]
  BY DEF ResetParams
<1>2. params \in Params
  BY OwnParams DEF IndInv, Sessions
<1>3. again \in Hows /\ again.sync = TRUE
  BY DEF Hows
<1> HIDE DEF again, params
<1>4. Applies(Work, params, TRUE, ends, tried)
  BY <1>2, <1>3, WorkIs, ApplyScenario
<1> HIDE DEF tried
<1>5. tried.w \in Works /\ Sound(tried.w.s) /\ tried.w.form = tried.w.s.params
  <2>1. session \in Sessions
    BY DEF IndInv
  <2> QED BY <1>4, <2>1, WorkIs, KeptIsSound DEF Applies
<1>6. guard' \in Guards
  BY <1>1 DEF IndInv, Guards
<1> QED BY <1>1, <1>4, <1>5, <1>6, WorkIs, BecomesKeeps DEF Becomes, Applies

\* A file replaces everything, or nothing but the controls and the form, and the
\* runtime if it throws late.
LEMMA RestoreWorkspaceKeeps ==
    ASSUME IndInv, NEW document \in Documents, NEW ends \in Endings,
           RestoreWorkspace(document, ends)
    PROVE  /\ Keeps
           /\ ends # "works" => Kept(session, session', ends)
<1> DEFINE settled == [Work EXCEPT !.c = document.view, !.s.settings = "file"]
           kept == [sync |-> TRUE, reset |-> TRUE, keep |-> TRUE]
           tried == ApplyScenarioParams(settled, document.params, kept, ends)
           back == [tried.w EXCEPT !.s.settings = session.settings]
           guided == [tried.w EXCEPT !.s.responses = "some", !.s.binary = "claimed"]
<1>1. document.view \in Contexts /\ document.params \in Params
  BY SessionAssumption DEF Contexts
<1>2. settled \in Works /\ settled.s = [session EXCEPT !.settings = "file"]
  BY <1>1, WorkIs DEF Works, Sessions, Settings
<1>3. kept \in Hows /\ kept.sync = TRUE
  BY DEF Hows
<1>4. Becomes(IF ~tried.ok THEN back ELSE IF document.guided THEN guided ELSE tried.w)
  BY DEF RestoreWorkspace
<1> HIDE DEF settled, kept
<1>5. Applies(settled, document.params, TRUE, ends, tried)
  <2>1. settled \in Works
    BY <1>2
  <2> QED BY <1>1, <1>3, <2>1, ApplyScenario
<1> HIDE DEF tried
<1>6. CASE ends = "works"
  <2>1. tried.ok /\ tried.w \in Works /\ Sound(tried.w.s) /\ tried.w.form = tried.w.s.params
    BY <1>5, <1>6 DEF Applies
  <2>2. /\ guided \in Works /\ Sound(guided.s)
        /\ guided.form = tried.w.form /\ guided.s.params = tried.w.s.params
    BY <2>1 DEF Works, Sessions, Sound, Built
  <2> HIDE DEF guided
  <2>3. Becomes(guided) \/ Becomes(tried.w)
    BY <1>4, <2>1
  <2> QED BY <1>6, <2>1, <2>2, <2>3, BecomesKeeps
<1>7. CASE ends # "works"
  <2>1. session \in Sessions /\ session.params \in Forms /\ settled.s.params = session.params
    BY <1>2, WorkIs, ParamsAreForms DEF IndInv, Sessions
  <2>2. /\ ~tried.ok /\ tried.w \in Works /\ tried.w.form = session.params
        /\ Kept(settled.s, tried.w.s, ends)
    BY <1>5, <1>7, <2>1 DEF Applies
  <2>3. Becomes(back)
    BY <1>4, <2>2
  <2> DEFINE from == tried.w
             t == [from.s EXCEPT !.settings = session.settings]
  <2>4. back = [from EXCEPT !.s = t]
    <3>1. from \in Works
      BY <2>2
    <3> HIDE DEF from
    <3> QED BY <3>1 DEF Works, from
  <2>5. from \in Works /\ Kept(settled.s, from.s, ends) /\ from.form = session.params
    BY <2>2
  <2> HIDE DEF from
  <2>6. Kept(session, t, ends)
    <3>1. CASE from.s = settled.s
      <4>1. t = session
        BY <1>2, <2>1, <3>1 DEF Sessions
      <4> HIDE DEF t
      <4> QED BY <4>1 DEF Kept
    <3>2. ASSUME NEW r \in Runtimes, from.s = [settled.s EXCEPT !.runtime = r, !.torn = TRUE],
                 ends = "late"
          PROVE  Kept(session, t, ends)
      <4>1. t = [session EXCEPT !.runtime = r, !.torn = TRUE]
        BY <1>2, <2>1, <3>2 DEF Sessions
      <4> HIDE DEF t
      <4> QED BY <3>2, <4>1 DEF Kept
    <3> QED BY <2>5, <3>1, <3>2 DEF Kept
  <2> HIDE DEF t
  <2>7. t \in Sessions /\ Sound(t) /\ t.params = session.params
    BY <2>1, <2>6, WorkIs, KeptIsSound
  <2> HIDE DEF back
  <2>8. back \in Works /\ back.s = t /\ back.form = session.params
    BY <2>4, <2>5, <2>7 DEF Works
  <2> QED BY <2>3, <2>6, <2>7, <2>8, BecomesKeeps DEF Becomes
<1> QED BY <1>6, <1>7

-----------------------------------------------------------------------------
(* The steps.                                                              *)

LEMMA KeepsInv ==
    ASSUME Keeps, guard' \in Guards, {quick', retry'} \subseteq BOOLEAN
    PROVE  IndInv'
BY DEF Keeps, IndInv

\* Nothing unapplied is left when the mark goes out.
Marked ==
    guard.dirty /\ ~guard'.dirty =>
        \/ Core(form') = Core(session'.params)
        \/ quick'
        \/ DialogOpen /\ RebuildsNothing(guard.pending)

LEMMA RequestInd ==
    ASSUME IndInv, NEW ends \in Endings, NEW change \in Changes,
           RequestContextChange(change, ends)
    PROVE  IndInv' /\ Marked /\ KeptUp(ends)
<1>1. guard \in Guards /\ {quick, retry} \subseteq BOOLEAN /\ quick' = quick
  BY DEF IndInv, Guards, RequestContextChange
<1>2. CASE guard.dirty
  <2>1. /\ guard' = [guard EXCEPT !.pending = change]
        /\ UNCHANGED <<controls, session, form, retry>>
    BY <1>2 DEF RequestContextChange
  <2>2. guard' \in Guards /\ guard'.dirty = guard.dirty
    BY <1>1, <2>1 DEF Guards
  <2>3. Keeps
    BY <2>1 DEF Keeps, IndInv, SessionIsConsistent
  <2> QED BY <1>1, <2>1, <2>2, <2>3, KeepsInv DEF Marked, KeptUp, Kept
<1>3. CASE ~guard.dirty
  <2>1. Change(change, ends) /\ guard' = guard
    BY <1>3 DEF RequestContextChange
  <2> QED BY <1>1, <1>3, <2>1, ChangeKeeps, KeepsInv DEF Marked
<1> QED BY <1>2, <1>3

LEMMA DiscardInd ==
    ASSUME IndInv, NEW ends \in Endings, Discard(ends)
    PROVE  IndInv' /\ Marked /\ KeptUp(ends)
<1>1. guard.pending \in Changes /\ Change(guard.pending, ends) /\ DialogOpen
  BY DEF Discard, DialogOpen, IndInv, Guards
<1>2. guard' \in Guards /\ quick' = quick /\ {quick, retry} \subseteq BOOLEAN
  BY DEF Discard, Guards, IndInv
<1>3. /\ Keeps /\ retry' \in BOOLEAN
      /\ KeptUp(ends)
      /\ ~RebuildsNothing(guard.pending) => form' = session'.params
  BY <1>1, ChangeKeeps
<1>4. Marked
  BY <1>1, <1>3 DEF Marked
<1> QED BY <1>2, <1>3, <1>4, KeepsInv

\* The handlers that rebuild without asking the guard.
LEMMA ReloadInd ==
    ASSUME IndInv, NEW ends \in Endings,
           \/ RetryClick(ends)
           \/ \E view \in Views : RestoreBrowserHistory(view, ends)
    PROVE  IndInv' /\ Marked /\ (ends # "works" => Kept(session, session', ends))
<1>1. guard' = guard /\ quick' = quick /\ guard \in Guards /\ quick \in BOOLEAN
  BY DEF IndInv, RetryClick, RestoreBrowserHistory
<1>2. PICK w \in Works : w.s = session /\ ApplyActive(w, ends)
  <2>1. CASE RetryClick(ends)
    BY <2>1, WorkIs DEF RetryClick
  <2>2. ASSUME NEW view \in Views, RestoreBrowserHistory(view, ends)
        PROVE  \E w \in Works : w.s = session /\ ApplyActive(w, ends)
    <3> DEFINE w == [Work EXCEPT !.c = view]
    <3>1. w \in Works /\ w.s = session
      <4>1. view \in Contexts
        BY SessionAssumption DEF Contexts
      <4>2. Work \in Works /\ Work.s = session
        BY WorkIs
      <4> QED BY <4>1, <4>2 DEF Works
    <3>2. ApplyActive(w, ends)
      BY <2>2 DEF RestoreBrowserHistory
    <3> HIDE DEF w
    <3> QED BY <3>1, <3>2
  <2> QED BY <2>1, <2>2
<1>3. Keeps /\ retry' \in BOOLEAN /\ (ends # "works" => Kept(session, session', ends))
  BY <1>2, WorkIs, ApplyActiveKeeps
<1> QED BY <1>1, <1>3, KeepsInv DEF Marked

LEMMA AttemptInd ==
    ASSUME IndInv, NEW ends \in Endings, Attempt(ends)
    PROVE  IndInv' /\ Marked /\ KeptUp(ends)
<1>1. guard \in Guards /\ {quick, retry} \subseteq BOOLEAN
  BY DEF IndInv
<1>2. CASE \E change \in Changes : RequestContextChange(change, ends)
  BY <1>2, RequestInd
<1>3. CASE Discard(ends)
  BY <1>3, DiscardInd
<1>4. CASE Submit(ends) \/ QuickApply(ends)
  <2>1. ApplyCurrentUiParams(ends) /\ retry' = retry /\ quick' \in {quick, FALSE}
    BY <1>4 DEF Submit, QuickApply
  <2> QED BY <1>1, <2>1, ApplyFormKeeps, KeepsInv DEF Marked, KeptUp
<1>5. CASE ResetParams(ends)
  <2>1. retry' = retry /\ quick' = quick
    BY <1>5 DEF ResetParams
  <2> QED BY <1>1, <1>5, <2>1, ResetParamsKeeps, KeepsInv DEF Marked, KeptUp
<1>6. CASE RetryClick(ends) \/ \E view \in Views : RestoreBrowserHistory(view, ends)
  BY <1>6, ReloadInd DEF KeptUp
<1>7. ASSUME NEW document \in Documents, RestoreWorkspace(document, ends)
      PROVE  IndInv' /\ Marked /\ (ends # "works" => Kept(session, session', ends))
  <2>1. UNCHANGED <<guard, quick, retry>>
    BY <1>7 DEF RestoreWorkspace
  <2> QED BY <1>1, <1>7, <2>1, RestoreWorkspaceKeeps, KeepsInv DEF Marked
<1> QED BY <1>2, <1>3, <1>4, <1>5, <1>6, <1>7 DEF Attempt, KeptUp

\* The other handlers do not rebuild, and none of them takes the mark away.
LEMMA OtherInd ==
    ASSUME IndInv,
           \/ KeepEditing
           \/ \E edit \in Edits \cup {Invalid} : EditForm(edit)
           \/ \E edit \in {"own", "changed"} : QuickEdit(edit)
           \/ WriteResponse
           \/ \E next \in {"none", "claimed"} : SetHypothesis(next)
           \/ RevealSky
           \/ UNCHANGED vars
    PROVE  IndInv' /\ Marked
<1>1. guard \in Guards /\ {quick, retry} \subseteq BOOLEAN
  BY DEF IndInv
<1>2. CASE KeepEditing \/ UNCHANGED vars
  <2>1. UNCHANGED <<controls, session, form, quick, retry>>
    BY <1>2 DEF KeepEditing, vars
  <2>2. guard' \in Guards /\ guard'.dirty = guard.dirty
    BY <1>1, <1>2 DEF KeepEditing, vars, Guards
  <2>3. Keeps
    BY <2>1 DEF Keeps, IndInv, SessionIsConsistent
  <2> QED BY <1>1, <2>1, <2>2, <2>3, KeepsInv DEF Marked
<1>3. ASSUME NEW edit \in Edits \cup {Invalid}, EditForm(edit) \/ QuickEdit(edit)
      PROVE  IndInv' /\ Marked
  <2>1. /\ form' = [form EXCEPT !.edit = edit]
        /\ UNCHANGED <<controls, session, retry>>
        /\ quick' \in {quick, TRUE}
        /\ guard' \in {guard, [guard EXCEPT !.dirty = TRUE]}
    BY <1>3 DEF EditForm, QuickEdit
  <2>2. guard' \in Guards /\ (guard.dirty => guard'.dirty)
    BY <1>1, <2>1 DEF Guards
  <2>3. Keeps
    BY <2>1 DEF Keeps, IndInv, SessionIsConsistent, Forms
  <2> QED BY <1>1, <2>1, <2>2, <2>3, KeepsInv DEF Marked
<1>4. CASE \/ WriteResponse
           \/ \E next \in {"none", "claimed"} : SetHypothesis(next)
           \/ RevealSky
  <2> DEFINE Answers ==
               \E responses \in {"none", "some"}, binary \in {"none", "claimed", "revealed"} :
                 session' = [session EXCEPT !.responses = responses, !.binary = binary]
  <2>1. UNCHANGED <<controls, form, guard, quick, retry>> /\ Answers
    <3>1. CASE WriteResponse
      BY <3>1 DEF WriteResponse, IndInv, Sessions
    <3>2. ASSUME NEW next \in {"none", "claimed"}, SetHypothesis(next)
          PROVE  UNCHANGED <<controls, form, guard, quick, retry>> /\ Answers
      BY <3>2 DEF SetHypothesis
    <3>3. CASE RevealSky
      BY <3>3 DEF RevealSky, IndInv, Sessions
    <3> QED BY <1>4, <3>1, <3>2, <3>3
  <2>2. Keeps
    BY <2>1 DEF Keeps, IndInv, SessionIsConsistent, Sessions
  <2> QED BY <1>1, <2>1, <2>2, KeepsInv DEF Marked
<1> QED BY <1>2, <1>3, <1>4 DEF Edits

LEMMA StepInd == IndInv /\ [Next]_vars => IndInv' /\ Marked
BY AttemptInd, OtherInd DEF Next, ThrowsLate, Endings

\* A first load that fails leaves the session the page starts with, but for the
\* runtime if it throws late.
LEMMA InitInd == Init => IndInv
<1> SUFFICES ASSUME Init PROVE IndInv
  OBVIOUS
<1> DEFINE first == CHOOSE preset \in Presets : TRUE
           params == [of |-> first, edit |-> "own"]
           fresh == [params |-> params, defaults |-> first, responses |-> "none",
                     binary |-> "none", settings |-> "default", torn |-> FALSE,
                     runtime |-> [params |-> params, settings |-> "default"]]
           started(view) == [c |-> view, form |-> params, s |-> fresh]
<1>1. PICK view \in Views, ends \in Endings :
        LET loaded == ApplyActiveScenario(started(view), ends)
        IN  /\ controls = loaded.w.c /\ session = loaded.w.s /\ form = loaded.w.form
            /\ retry = ~loaded.ok
            /\ guard = [dirty |-> FALSE, pending |-> None]
            /\ quick = FALSE
  BY DEF Init
<1> DEFINE loaded == ApplyActiveScenario(started(view), ends)
<1>2. params \in Params /\ first \in Scenarios
  <2>1. first \in Presets
    BY SessionAssumption
  <2> HIDE DEF first
  <2> QED BY <2>1, OwnParams DEF Scenarios
<1>3. fresh \in Sessions /\ Built(fresh)
  <2> HIDE DEF params, first
  <2> QED BY <1>2 DEF Sessions, Settings, Runtimes, Built
<1>4. started(view) \in Works /\ started(view).s = fresh
  <2>1. view \in Contexts /\ params \in Forms
    BY <1>2, SessionAssumption, ParamsAreForms DEF Contexts
  <2> HIDE DEF fresh, params
  <2> QED BY <1>3, <2>1 DEF Works
<1>5. Loads(started(view), ends, loaded)
  <2> HIDE DEF started
  <2> QED BY <1>4, ApplyActiveLoads
<1> HIDE DEF fresh
<1>6. loaded.w \in Works /\ Sound(loaded.w.s) /\ loaded.w.form = loaded.w.s.params
  <2>1. Sound(started(view).s) /\ started(view).s \in Sessions
    BY <1>3, <1>4 DEF Sound
  <2> HIDE DEF started
  <2> QED BY <1>5, <2>1, KeptIsSound DEF Loads
<1> HIDE DEF started
<1>7. controls = loaded.w.c /\ session = loaded.w.s /\ form = loaded.w.form
  BY <1>1
<1>8. guard \in Guards /\ {quick, retry} \subseteq BOOLEAN
  BY <1>1 DEF Guards
<1> HIDE DEF loaded
<1> QED BY <1>6, <1>7, <1>8 DEF IndInv, Works, Sound, Built, SessionIsConsistent

LEMMA Invariant == Spec => []IndInv
<1>1. IndInv /\ [Next]_vars => IndInv'
  BY StepInd
<1> QED BY <1>1, InitInd, PTL DEF Spec

-----------------------------------------------------------------------------
(* The theorems.                                                           *)

\* The state has its type: only what validates reaches the parameters
\* (applyCurrentUiParams), and the dialog holds one change that was asked for.
THEOREM TypeCorrect == Spec => []TypeOK
<1>1. IndInv => TypeOK
  BY DEF IndInv, TypeOK, Contexts, Sessions, Runtimes, Settings, Forms, Guards
<1> QED BY <1>1, Invariant, PTL

\* What plays was built from the parameters and the settings of the session,
\* and the form edits it, whatever fails and wherever, until a rebuild throws
\* with its runtime already in place and again once one works; the form edits
\* the scenario of the session even then (applyScenarioParams with its rollback,
\* applyBinaryLab, restoreWorkspace).
THEOREM SessionStaysConsistent == Spec => []SessionIsConsistent
<1>1. IndInv => SessionIsConsistent
  BY DEF IndInv
<1> QED BY <1>1, Invariant, PTL

LEMMA KeptRestores ==
    ASSUME IndInv, NEW ends \in Endings, ends # "works", KeptUp(ends)
    PROVE  /\ Restores(RuntimeAside)
           /\ ends = "early" => Restores(session)
<1>1. PICK kept \in {session, TurnedSession} : Kept(kept, session', ends)
  BY DEF KeptUp
<1>2. session \in Sessions
  BY DEF IndInv
<1>3. CASE session' = kept
  <2>1. kept.runtime = session.runtime /\ kept.torn = session.torn
    BY <1>2 DEF TurnedSession, Sessions
  <2>2. RuntimeAside = session
    BY <1>2, <1>3, <2>1 DEF RuntimeAside, Sessions
  <2> QED BY <1>3, <2>2 DEF Restores, TurnedSession
<1>4. ASSUME NEW r \in Runtimes, session' = [kept EXCEPT !.runtime = r, !.torn = TRUE],
             ends = "late"
      PROVE  Restores(RuntimeAside)
  <2> DEFINE aside == [session EXCEPT !.runtime = r, !.torn = TRUE]
  <2>1. session'.runtime = r /\ session'.torn = TRUE
    BY <1>2, <1>4 DEF TurnedSession, Sessions
  <2>2. RuntimeAside = aside
    BY <2>1 DEF RuntimeAside
  <2>3. session' \in {aside, [aside EXCEPT !.params = Core(@)]}
    BY <1>2, <1>4 DEF TurnedSession, Sessions
  <2> HIDE DEF aside
  <2> QED BY <2>2, <2>3 DEF Restores
<1> QED BY <1>1, <1>3, <1>4 DEF Kept

\* Whatever fails to rebuild leaves the session as it was, up to the observer
\* that the switch to Essential mode has turned (scenarioFlow.ts, applyParams.ts):
\* all of it if the rebuild throws early, all but the runtime if it throws late.
THEOREM FailuresRollBack == Spec => RollbackRestores
<1> DEFINE Step ==
             \/ Restores(session)
             \/ /\ ~Attempt("early")
                /\ session'.torn => Restores(RuntimeAside) \/ ~Attempt("late")
<1>1. ASSUME IndInv, [Next]_vars PROVE Step
  <2>1. Attempt("early") => Restores(session)
    BY <1>1, AttemptInd, KeptRestores DEF Endings
  <2>2. Attempt("late") => Restores(RuntimeAside)
    BY <1>1, AttemptInd, KeptRestores DEF Endings
  <2> QED BY <2>1, <2>2
<1>2. IndInv /\ [Next]_vars => [Step]_vars
  BY <1>1
<1> QED BY <1>2, Invariant, PTL DEF Spec, RollbackRestores

\* "Unapplied changes" goes out only when nothing unapplied is left in the form
\* or a quick apply still waits for it (dirtyGuard.ts, applyParams.ts), with the
\* exception that the property states.
THEOREM MarkIsHonest == Spec => UnappliedIsMarked
<1>1. IndInv /\ [Next]_vars =>
        [(guard.dirty /\ ~guard'.dirty)
           => \/ Core(form') = Core(session'.params)
              \/ quick'
              \/ DialogOpen /\ RebuildsNothing(guard.pending)]_vars
  BY StepInd DEF Marked
<1> QED BY <1>1, Invariant, PTL DEF Spec, UnappliedIsMarked
=============================================================================
