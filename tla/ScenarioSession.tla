-------------------------- MODULE ScenarioSession --------------------------
(***************************************************************************)
(* The authoring session of the browser: how a scenario becomes the        *)
(* parameters and the runtime, from the controls (scenarioControls.ts),    *)
(* the parameter form (applyParams.ts, resetHandlers.ts), the address      *)
(* (startup.ts, persistence.ts) or a workspace file (workspaceRestore.ts), *)
(* with its rollback (scenarioFlow.ts) and the guard of unapplied edits    *)
(* (dirtyGuard.ts).                                                        *)
(*                                                                         *)
(* The handlers await only promises that are already settled, because the  *)
(* runtime's prepare() awaits nothing, so no event comes between two steps *)
(* of one: a handler is one action.  Its parameter ends says how the       *)
(* rebuild ends, and whether a throw comes before or after the new runtime *)
(* is in place.  Events do come while a dialog is open, a quick apply      *)
(* waits or a file is being read.                                          *)
(*                                                                         *)
(* Parameters are the scenario they come from and an edit of it.  What a   *)
(* successful apply drops is the learner's responses, which stand for the  *)
(* didactics runtime, the noise state and the comparison as well.          *)
(***************************************************************************)
EXTENDS Naturals

CONSTANTS
    Presets, RealSystems,   \* values of the two scenario controls
    Fragile,                \* scenarios whose runtime, once built, can throw when it is used
    Views,                  \* contexts an address can hold
    Documents               \* workspace files: a view, parameters, Guided Lab state or none

Binary == "binary"      \* the scenario of the binary lab
NoReal == ""            \* nothing selected in the catalog control
None == <<>>
Edits == {"own", "changed", "tilted"}   \* "tilted": an observer direction off the axis
Invalid == "invalid"                    \* an edit that does not validate

\* How a rebuild ends: it works, or it throws before setSimulation (early), or after it,
\* in resetSimTimeAndLC (late), which only a Fragile scenario does
Endings == {"works", "early", "late"}

Scenarios == Presets \cup RealSystems \cup {Binary}
Params == [of : Scenarios, edit : Edits]

ASSUME SessionAssumption ==
    /\ Presets # {} /\ Binary \notin Presets \cup RealSystems /\ NoReal \notin RealSystems
    /\ Fragile \subseteq Scenarios
    /\ Views \subseteq [product : {"simulation", "lab"}, ui : {"normal", "expert"},
                        sim : {"preset", Binary}, preset : Presets,
                        real : RealSystems \cup {NoReal}, profile : {"education", "scientific"}]
    /\ Documents \subseteq [view : Views, params : Params, guided : BOOLEAN]

VARIABLES
    controls,    \* the selected values of the controls
    session,     \* BootstrapAppState and the runtime; torn is kept for the properties: a
                 \* rebuild has thrown late, and none has worked since
    form,        \* what the parameter form shows
    guard,       \* the dirty flag, and the change an open dialog would make
    quick,       \* the quick-apply timer is set
    retry        \* "Retry" is offered

vars == <<controls, session, form, guard, quick, retry>>

\* What the handlers work on: controls, session and form
Work == [c |-> controls, s |-> session, form |-> form]

\* What a handler leaves: a state, and whether it ended without throwing
Ends(w, ok) == [w |-> w, ok |-> ok]

Becomes(w) == controls' = w.c /\ session' = w.s /\ form' = w.form

IsBinaryModeActive(c) == c.product = "lab" /\ c.sim = Binary

-----------------------------------------------------------------------------
(* Applying parameters, with rollback                                      *)

\* Essential mode looks along the axis
ObserverModeContract(params, ui) ==
    IF ui = "normal" /\ params.edit = "tilted" THEN [params EXCEPT !.edit = "own"] ELSE params

\* how.sync: load the form; how.reset: reset the binary lab; how.keep: keep the settings
Full == [sync |-> TRUE, reset |-> TRUE, keep |-> FALSE]

\* What is assigned before the try, with the runtime built from it
Applied(w, next, how) ==
    LET params == ObserverModeContract(next, w.c.ui)
        settings == IF how.reset /\ ~how.keep THEN "default" ELSE w.s.settings
    IN  [w.s EXCEPT !.params = params, !.responses = "none", !.settings = settings,
                    !.binary = IF how.reset THEN "none" ELSE @,
                    !.runtime = [params |-> params, settings |-> settings]]

\* The new runtime is in place when the rebuild throws
IsLate(applied, ends) == ends = "late" /\ applied.params.of \in Fragile

\* Mutant: a rollback that leaves the settings of the file
RolledBackKeepsSettings(w, applied, ends) ==
    [w EXCEPT !.s.runtime = IF IsLate(applied, ends) THEN applied.runtime ELSE @,
              !.s.torn = @ \/ IsLate(applied, ends),
              !.s.settings = applied.settings,
              !.form = w.s.params]

\* The rollback: the old parameters and the rest of the state, and whichever runtime is there
RolledBack(w, applied, ends) ==
    [w EXCEPT !.s.runtime = IF IsLate(applied, ends) THEN applied.runtime ELSE @,
              !.s.torn = @ \/ IsLate(applied, ends),
              !.form = w.s.params]

ApplyScenarioParams(w, next, how, ends) ==
    LET applied == Applied(w, next, how)
    IN  IF ends = "works"
        THEN Ends([w EXCEPT !.s = [applied EXCEPT !.torn = FALSE],
                            !.form = IF how.sync THEN applied.params ELSE @], TRUE)
        ELSE Ends(RolledBack(w, applied, ends), FALSE)

\* Defaults that outlive a failed apply
ApplySourceKeepsDefaults(w, scenario, ends) ==
    ApplyScenarioParams([w EXCEPT !.s.defaults = scenario],
                        [of |-> scenario, edit |-> "own"], Full, ends)

\* applyPresetById, applyRealSystemById
ApplySource(w, scenario, ends) ==
    LET tried == ApplyScenarioParams([w EXCEPT !.s.defaults = scenario],
                                     [of |-> scenario, edit |-> "own"], Full, ends)
    IN  IF tried.ok THEN tried ELSE Ends([tried.w EXCEPT !.s.defaults = w.s.defaults], FALSE)

\* The lab has its state replaced before the apply, and a rollback of its own
ApplyBinaryLab(w, ends) ==
    LET params == [of |-> Binary, edit |-> "own"]
        deselected == [w EXCEPT !.c.real = NoReal]
        entered == [deselected EXCEPT !.s.defaults = Binary, !.s.params = params,
                                      !.s.responses = "none", !.s.binary = "none"]
        tried == ApplyScenarioParams(entered, params, Full, ends)
    IN  IF tried.ok THEN tried
        ELSE Ends([tried.w EXCEPT !.s.defaults = w.s.defaults, !.s.params = w.s.params,
                                  !.s.responses = w.s.responses, !.s.binary = w.s.binary,
                                  !.form = w.s.params], FALSE)

ApplyActiveScenario(w, ends) ==
    IF w.c.product = "simulation"
    THEN ApplySource(w, IF w.c.real = NoReal THEN w.c.preset ELSE w.c.real, ends)
    ELSE IF IsBinaryModeActive(w.c) THEN ApplyBinaryLab(w, ends)
    ELSE ApplySource([w EXCEPT !.c.real = NoReal], w.c.preset, ends)

\* applyActive: a failure offers a retry
ApplyActive(w, ends) ==
    LET tried == ApplyActiveScenario(w, ends)
    IN  Becomes(tried.w) /\ retry' = ~tried.ok

EditingLocked == IsBinaryModeActive(controls) /\ session.binary = "none"

-----------------------------------------------------------------------------
(* Changes of context.  A change is a control and its new value.           *)

\* The controls after the change, as its handler sets the others
Changed(c, what, value) ==
    CASE what = "product" -> [c EXCEPT !.product = value,
                                       !.ui = IF value = "lab" THEN "normal" ELSE @]
      [] what = "preset"  -> [c EXCEPT !.preset = value, !.product = "simulation", !.real = NoReal]
      [] what = "real"    -> [c EXCEPT !.real = value, !.product = "simulation"]
      [] what = "sim"     -> [c EXCEPT !.sim = value, !.product = "lab",
                                       !.ui = IF c.product = "lab" THEN @ ELSE "normal"]
      [] what = "ui"      -> [c EXCEPT !.ui = value]
      [] what = "profile" -> [c EXCEPT !.profile = value]

RebuildsNothing(change) == change[1] = "profile" \/ change = <<"ui", "expert">>

\* The handler of the change
Change(change, ends) ==
    LET w == [Work EXCEPT !.c = Changed(controls, change[1], change[2])]
        \* the observer of the current parameters is turned in place
        turned == [w EXCEPT !.s.params = ObserverModeContract(@, "normal")]
        again == [sync |-> TRUE, reset |-> FALSE, keep |-> FALSE]
    IN  CASE RebuildsNothing(change) ->
                Becomes(w) /\ UNCHANGED retry
          [] change = <<"ui", "normal">> ->
                /\ Becomes(ApplyScenarioParams(turned, turned.s.params, again, ends).w)
                /\ UNCHANGED retry
          [] OTHER -> ApplyActive(w, ends)

Changes ==
    {"product"} \X {"simulation", "lab"} \cup {"preset"} \X Presets
    \cup {"real"} \X (RealSystems \cup {NoReal}) \cup {"sim"} \X {"preset", Binary}
    \cup {"ui"} \X {"normal", "expert"} \cup {"profile"} \X {"education", "scientific"}

\* The profile and product controls stay in reach in the Scientific profile
Reachable(change) ==
    /\ controls[change[1]] # change[2]
    /\ controls.profile = "education" \/ change[1] \in {"profile", "product"}

-----------------------------------------------------------------------------
(* Actions.  A modal dialog leaves the page's own controls out of reach.   *)

DialogOpen == guard.pending # None

Init ==
    \E view \in Views, ends \in Endings :
       LET first == CHOOSE preset \in Presets : TRUE
           params == [of |-> first, edit |-> "own"]
           started == [c |-> view, form |-> params,
                       s |-> [params |-> params, defaults |-> first, responses |-> "none",
                              binary |-> "none", settings |-> "default", torn |-> FALSE,
                              runtime |-> [params |-> params, settings |-> "default"]]]
           loaded == ApplyActiveScenario(started, ends)
       IN  /\ controls = loaded.w.c /\ session = loaded.w.s /\ form = loaded.w.form
           /\ retry = ~loaded.ok
           /\ guard = [dirty |-> FALSE, pending |-> None]
           /\ quick = FALSE

\* A control changes, or asks first when edits are unapplied
RequestContextChange(change, ends) ==
    /\ ~DialogOpen
    /\ Reachable(change)
    /\ IF guard.dirty
       THEN /\ guard' = [guard EXCEPT !.pending = change]
            /\ UNCHANGED <<controls, session, form, retry>>
       ELSE Change(change, ends) /\ UNCHANGED guard
    /\ UNCHANGED quick

\* "Discard edits and load"
Discard(ends) ==
    /\ DialogOpen
    /\ guard' = [dirty |-> FALSE, pending |-> None]
    /\ Change(guard.pending, ends)
    /\ UNCHANGED quick

\* "Keep editing", or Escape, which leaves the pending change to be replaced
KeepEditing ==
    /\ DialogOpen
    /\ guard' = [guard EXCEPT !.pending = None]
    /\ UNCHANGED <<controls, session, form, quick, retry>>

AtForm == ~DialogOpen /\ controls.profile = "education" /\ ~EditingLocked

\* An input of the form in Advanced mode
EditForm(edit) ==
    /\ AtForm /\ controls.ui = "expert"
    /\ form' = [form EXCEPT !.edit = edit]
    /\ guard' = [guard EXCEPT !.dirty = TRUE]
    /\ UNCHANGED <<controls, session, quick, retry>>

\* A quick control in Essential mode sets the form and the timer
QuickEdit(edit) ==
    /\ AtForm /\ controls.ui = "normal"
    /\ form' = [form EXCEPT !.edit = edit]
    /\ quick' = TRUE
    /\ UNCHANGED <<controls, session, guard, retry>>

\* The form is applied without being validated
ApplyUnvalidated(ends) ==
    LET asForm == [sync |-> FALSE, reset |-> FALSE, keep |-> FALSE]
        tried == ApplyScenarioParams(Work, form, asForm, ends)
    IN  IF EditingLocked THEN UNCHANGED <<controls, session, form, guard>>
        ELSE /\ Becomes(tried.w)
             /\ guard' = [guard EXCEPT !.dirty = @ /\ ~tried.ok]

\* The edits are marked as applied before they are validated
ApplyMarksFirst(ends) ==
    LET asForm == [sync |-> FALSE, reset |-> FALSE, keep |-> FALSE]
        tried == IF form.edit = Invalid THEN Ends(Work, FALSE)
                 ELSE ApplyScenarioParams(Work, form, asForm, ends)
    IN  /\ Becomes(IF EditingLocked THEN Work ELSE tried.w)
        /\ guard' = [guard EXCEPT !.dirty = @ /\ EditingLocked]

\* applyCurrentUiParams
ApplyCurrentUiParams(ends) ==
    LET asForm == [sync |-> FALSE, reset |-> FALSE, keep |-> FALSE]
        tried == IF form.edit = Invalid THEN Ends(Work, FALSE)
                 ELSE ApplyScenarioParams(Work, form, asForm, ends)
    IN  IF EditingLocked THEN UNCHANGED <<controls, session, form, guard>>
        ELSE /\ Becomes(tried.w)
             /\ guard' = [guard EXCEPT !.dirty = @ /\ ~tried.ok]

Submit(ends) ==
    /\ AtForm /\ controls.ui = "expert"
    /\ ApplyCurrentUiParams(ends)
    /\ UNCHANGED <<quick, retry>>

\* 120 ms after the last quick edit, whatever has happened since
QuickApply(ends) ==
    /\ quick
    /\ quick' = FALSE
    /\ ApplyCurrentUiParams(ends)
    /\ UNCHANGED retry

\* "Reset parameters" returns to the defaults of the last scenario
ResetParams(ends) ==
    LET again == [sync |-> TRUE, reset |-> FALSE, keep |-> FALSE]
        tried == ApplyScenarioParams(Work, [of |-> session.defaults, edit |-> "own"], again, ends)
    IN  /\ AtForm /\ controls.ui = "expert"
        /\ Becomes(tried.w)
        /\ guard' = [guard EXCEPT !.dirty = @ /\ ~tried.ok]
        /\ UNCHANGED <<quick, retry>>

RetryClick(ends) ==
    /\ retry /\ ~DialogOpen /\ controls.profile = "education"
    /\ ApplyActive(Work, ends)
    /\ UNCHANGED <<guard, quick>>

\* popstate; the guard is not asked
RestoreBrowserHistory(view, ends) ==
    /\ ApplyActive([Work EXCEPT !.c = view], ends)
    /\ UNCHANGED <<guard, quick>>

\* The text of a file has arrived.  It may have been chosen at any earlier
\* time, so this may happen at any time, and the guard is not asked; a file
\* that does not parse changes nothing.
RestoreWorkspace(document, ends) ==
    LET settled == [Work EXCEPT !.c = document.view, !.s.settings = "file"]
        kept == [sync |-> TRUE, reset |-> TRUE, keep |-> TRUE]
        tried == ApplyScenarioParams(settled, document.params, kept, ends)
    IN  /\ Becomes(IF ~tried.ok THEN [tried.w EXCEPT !.s.settings = session.settings]
                   ELSE IF document.guided
                   THEN [tried.w EXCEPT !.s.responses = "some", !.s.binary = "claimed"]
                   ELSE tried.w)
        /\ UNCHANGED <<guard, quick, retry>>

WriteResponse ==
    /\ ~DialogOpen /\ controls.profile = "education"
    /\ session' = [session EXCEPT !.responses = "some"]
    /\ UNCHANGED <<controls, form, guard, quick, retry>>

\* The hypothesis is frozen once the sky is revealed, and is a response too
SetHypothesis(next) ==
    /\ ~DialogOpen /\ controls.profile = "education" /\ IsBinaryModeActive(controls)
    /\ session.binary # "revealed"
    /\ session' = [session EXCEPT !.binary = next, !.responses = "some"]
    /\ UNCHANGED <<controls, form, guard, quick, retry>>

RevealSky ==
    /\ ~DialogOpen /\ controls.profile = "education" /\ IsBinaryModeActive(controls)
    /\ session.binary = "claimed"
    /\ session' = [session EXCEPT !.binary = "revealed"]
    /\ UNCHANGED <<controls, form, guard, quick, retry>>

\* What rebuilds the runtime
Attempt(ends) ==
    \/ \E change \in Changes : RequestContextChange(change, ends)
    \/ Discard(ends)
    \/ Submit(ends)
    \/ QuickApply(ends)
    \/ ResetParams(ends)
    \/ RetryClick(ends)
    \/ \E view \in Views : RestoreBrowserHistory(view, ends)
    \/ \E document \in Documents : RestoreWorkspace(document, ends)

\* The rebuild throws with its runtime in place
ThrowsLate == Attempt("late") /\ session'.torn

Next ==
    \/ Attempt("works") \/ Attempt("early") \/ ThrowsLate
    \/ KeepEditing
    \/ \E edit \in Edits \cup {Invalid} : EditForm(edit)
    \/ \E edit \in {"own", "changed"} : QuickEdit(edit)
    \/ WriteResponse
    \/ \E next \in {"none", "claimed"} : SetHypothesis(next)
    \/ RevealSky

Spec == Init /\ [][Next]_vars

-----------------------------------------------------------------------------
(* Properties                                                              *)

(* The state has its type; what the form shows reaches the parameters only *)
(* when it validates.                                                      *)
TypeOK ==
    /\ controls.product \in {"simulation", "lab"} /\ controls.ui \in {"normal", "expert"}
    /\ controls.sim \in {"preset", Binary} /\ controls.preset \in Presets
    /\ controls.real \in RealSystems \cup {NoReal}
    /\ controls.profile \in {"education", "scientific"}
    /\ session.params \in Params /\ session.defaults \in Scenarios
    /\ session.runtime \in [params : Params, settings : {"default", "file"}]
    /\ session.settings \in {"default", "file"}
    /\ session.binary \in {"none", "claimed", "revealed"}
    /\ session.responses \in {"none", "some"} /\ session.torn \in BOOLEAN
    /\ form \in [of : Scenarios, edit : Edits \cup {Invalid}]
    /\ guard.dirty \in BOOLEAN /\ guard.pending \in Changes \cup {None}
    /\ {quick, retry} \subseteq BOOLEAN

(* The runtime that plays is the one built from the parameters and the     *)
(* settings of the session, and the form edits the scenario that plays:    *)
(* after every rebuild that works, and after every one that throws before  *)
(* the new runtime is in place, at every level of the rollback.  A late    *)
(* throw breaks it (LastValidPreserved), until a rebuild works again.  The *)
(* form is of the session's scenario even then.  The observer direction is *)
(* left out: the switch to Essential mode turns it before it rebuilds      *)
(* (scenarioControls.ts:98).                                               *)
Core(params) == ObserverModeContract(params, "normal")
SessionIsConsistent ==
    /\ \/ session.torn
       \/ /\ Core(session.runtime.params) = Core(session.params)
          /\ session.runtime.settings = session.settings
    /\ form.of = session.params.of

(* A change of context, an apply, a retry, a Back or a file whose rebuild  *)
(* throws leaves the parameters, the defaults, the settings, the binary    *)
(* lab and the responses as they were (the catch blocks of                 *)
(* scenarioFlow.ts); if it throws early, the runtime too.                  *)
Restores(kept) == session' \in {kept, [kept EXCEPT !.params = Core(@)]}
RuntimeAside == [session EXCEPT !.runtime = session'.runtime, !.torn = session'.torn]
RollbackRestores ==
    [][\/ Restores(session)
       \/ /\ ~Attempt("early")
          /\ session'.torn => Restores(RuntimeAside) \/ ~Attempt("late")]_vars

(* "The last valid simulation is preserved; retry is available.": the      *)
(* status the user reads when a scenario fails to load (applyParams.ts:118)*)
(* as "Retry" is offered.  A late throw leaves the runtime of the failed   *)
(* scenario with the parameters of the old one.                            *)
LastValidPreserved ==
    [][~retry /\ retry' => session'.runtime = session.runtime]_vars

(* When the mark "Unapplied changes" goes out, nothing unapplied is left   *)
(* in the form (up to the observer direction, which Essential mode hides), *)
(* unless a quick apply still waits for it.  Discarding for a change that  *)
(* rebuilds nothing, of the profile or to Advanced mode, is the exception: *)
(* it does not reload the form.                                            *)
UnappliedIsMarked ==
    [][(guard.dirty /\ ~guard'.dirty)
        => \/ Core(form') = Core(session'.params)
           \/ quick'
           \/ DialogOpen /\ RebuildsNothing(guard.pending)]_vars

(* A file without Guided Lab state leaves the learner's responses in       *)
(* memory (comment at workspaceRestore.ts:151-154).                        *)
ResponsesStay ==
    [][(\E document \in Documents : ~document.guided /\ RestoreWorkspace(document, "works"))
        => session'.responses = session.responses]_vars
=============================================================================
