------------------------- MODULE LightCurveSession -------------------------
(***************************************************************************)
(* The playback session of the browser: the frame loop that advances the   *)
(* simulated time, samples the light curve and redraws it (frameLoop.ts,   *)
(* frameLoopFrame.ts, frameLoopResetSeek.ts), the cached fixed preview     *)
(* (frameLoopFixedPlot.ts, fixedPreviewCache.ts), Clear and Undo           *)
(* (lightCurveActions.ts), and the radius comparison, which computes after *)
(* an await (observatory.ts).                                              *)
(*                                                                         *)
(* The controller's methods call each other on one state, so they are      *)
(* operators from the loop record to the loop record; what the browser     *)
(* schedules or the user does is an action.  A sample is its time, the     *)
(* runtime it was computed by, the plot mode, and whether its flux in that *)
(* mode is finite.  One overlay history stands for the four that every     *)
(* sample is pushed to; the trace takes those with a finite flux.          *)
(* The faults of a runtime: bad, the times at which a step throws; gaps,   *)
(* those at which the measured flux is not finite (instrumentNoise.ts:135);*)
(* smeared, those whose exposure reaches a time at which a step throws, so *)
(* that the measured flux cannot be computed.                              *)
(***************************************************************************)
EXTENDS LightCurveBuffer

CONSTANTS
    Trackings,    \* values of the tracking control: "fixed", "dynamic", "live"
    PlotModes,    \* values of the plot mode control
    Faults,       \* faults a runtime may have
    Windows,      \* preview window, by whether a radius comparison is shown
    MaxTime,      \* bound: simulated seconds
    MaxRuntime,   \* bound: runtimes built
    MaxGen        \* bound: preview invalidations

NoFaults == [bad |-> {}, gaps |-> {}, smeared |-> {}]

ASSUME SessionAssumption ==
    /\ {"fixed", "dynamic"} \subseteq Trackings /\ "physical" \in PlotModes
    /\ "unset" \notin PlotModes \cup Trackings
    /\ Faults \subseteq [bad : SUBSET Int, gaps : SUBSET Int, smeared : SUBSET Int]
    /\ Windows \in [BOOLEAN -> Seq(Int)]
    /\ \A focused \in BOOLEAN :
         \* 256 samples in an array for 2000
         /\ Len(Windows[focused]) <= Capacity
         /\ InOrder([i \in DOMAIN Windows[focused] |-> [t |-> Windows[focused][i]]])
    /\ MaxTime \in Nat /\ MaxRuntime \in Nat \ {0} /\ MaxGen \in Nat

VARIABLES
    loop,         \* the bootstrap state and the frame loop; overrun is kept for the
                  \* properties: a seek back into a gap has left later samples in the trace
    sim,          \* the runtime, its faults, and the params of the session
    controls,     \* tracking and plot mode selected
    cleared,      \* what Undo clear would restore, once expired just that
    comparing     \* the params a running comparison started from

vars == <<loop, sim, controls, cleared, comparing>>

None == <<>>      \* undefined
Unset == "unset"  \* a mode that is null

Init ==
    /\ loop = [t |-> 0, running |-> FALSE, hidden |-> FALSE, raf |-> TRUE,
               lastT |-> {0}, lastMode |-> "physical", lastTracking |-> "dynamic",
               gen |-> 1, key |-> None, preview |-> None, range |-> None, rangeMode |-> Unset,
               comparison |-> None, overrun |-> FALSE,
               plot |-> Push(Empty, [t |-> 0, of |-> 1, mode |-> "physical", finite |-> TRUE]),
               history |-> <<[t |-> 0, of |-> 1, mode |-> "physical", finite |-> TRUE]>>]
    /\ sim = [id |-> 1, faults |-> NoFaults, params |-> 1]
    /\ controls = [tracking |-> "dynamic", plotMode |-> "physical"]
    /\ cleared = None
    /\ comparing = None

\* An expired snapshot is not read again; without samples it never was
Expired == [gen |-> 0, plot |-> <<0>>]
Aged == IF cleared = None \/ cleared.gen = loop'.gen THEN cleared
        ELSE IF cleared.plot = <<>> THEN None ELSE Expired

-----------------------------------------------------------------------------
(* Scheduling                                                              *)

RequestFrame(l) == [l EXCEPT !.raf = @ \/ ~l.hidden]

\* A frame loop that asks for a frame only on invalidation
QueueNothing(l) == l

QueueNextFrame(l) == IF l.running THEN RequestFrame(l) ELSE l

SetRunning(l, next) ==
    IF next THEN RequestFrame([l EXCEPT !.running = TRUE])
    ELSE [l EXCEPT !.running = FALSE, !.raf = FALSE]

-----------------------------------------------------------------------------
(* The fixed preview                                                       *)

InvalidatePreview(l) == [l EXCEPT !.key = None, !.preview = None, !.gen = @ + 1]

ClearRange(l) == [l EXCEPT !.range = None, !.rangeMode = Unset]

\* The settings of the key follow from the runtime and the plot mode
PreviewKey(l, s, mode) == [of |-> s.id, mode |-> mode, gen |-> l.gen]

IsFocused(l) == l.comparison # None /\ l.comparison.radius

InGap(s, mode, t) == mode = "measured" /\ t \in s.faults.gaps

FiniteSamples(seq) ==
    FoldLeft(LAMBDA kept, x : IF x.finite THEN Append(kept, x) ELSE kept, <<>>, seq)

\* The samples of a preview that are plotted
PreviewSamples(s, mode, focused) ==
    FiniteSamples([i \in DOMAIN Windows[focused] |->
        [t |-> Windows[focused][i], of |-> s.id, mode |-> mode,
         finite |-> ~InGap(s, mode, Windows[focused][i])]])

\* A preview samples the measured flux in every mode
PreviewThrows(s, focused) ==
    Range(Windows[focused]) \cap (s.faults.bad \cup s.faults.smeared) # {}

\* rebuildFixedPlot: ok is FALSE when it throws
RebuildFixedPlot(l, s, mode, anchored) ==
    LET dropped == [l EXCEPT !.key = None, !.preview = None]
        ranged == IF l.rangeMode \notin {Unset, mode} THEN ClearRange(dropped) ELSE dropped
        samples == PreviewSamples(s, mode, IsFocused(l))
        derived == ranged.range = None /\ samples # <<>>
        built == [ranged EXCEPT
                    !.range = IF derived THEN [of |-> s.id, mode |-> mode] ELSE @,
                    !.rangeMode = IF derived THEN mode ELSE @,
                    !.plot = Restore(samples),
                    !.preview = [of |-> s.id, mode |-> mode, built |-> l.gen],
                    !.key = PreviewKey(l, s, mode)]
    IN  IF ~anchored /\ 0 \in s.faults.bad THEN [ok |-> FALSE, l |-> ranged]
        ELSE IF PreviewThrows(s, IsFocused(l)) THEN [ok |-> FALSE, l |-> [ranged EXCEPT !.plot = Empty]]
        ELSE [ok |-> TRUE, l |-> built]

\* A failed preview is a warning
ShowFixedPlot(l, s, mode, anchored) ==
    LET rebuilt == RebuildFixedPlot(l, s, mode, anchored)
    IN  IF rebuilt.ok
        THEN [rebuilt.l EXCEPT !.lastT = NaN, !.lastMode = mode, !.lastTracking = "fixed"]
        ELSE rebuilt.l

-----------------------------------------------------------------------------
(* Dynamic samples, reset and seek                                         *)

\* A seek or a reset computes the measured flux without catching what it throws
SamplingThrows(s, c, t) == c.plotMode = "measured" /\ t \in s.faults.smeared

\* A frame that cannot compute the measured flux records the physical flux
HasFlux(s, c, t) == ~InGap(s, c.plotMode, t) \/ SamplingThrows(s, c, t)

RecordSample(l, s, c, finite) ==
    LET sample == [t |-> l.t, of |-> s.id, mode |-> c.plotMode, finite |-> finite]
    IN  [l EXCEPT !.plot = IF finite THEN Push(@, sample) ELSE @,
                  !.history = LastN(Append(@, sample), Capacity),
                  !.lastT = {l.t}, !.lastMode = c.plotMode, !.lastTracking = c.tracking]

Redraw(l, c) == [l EXCEPT !.plot = Draw(@, c.tracking = "live")]

ForgetTrace(l) == [l EXCEPT !.plot = Empty, !.lastT = NaN, !.lastMode = Unset]

\* In a gap a reset falls back to the physical flux
Reset(l, s, c) ==
    LET stopped == SetRunning(InvalidatePreview(l), FALSE)
        blank == [ClearRange(ForgetTrace(stopped)) EXCEPT
                    !.t = 0, !.lastTracking = Unset, !.history = <<>>, !.overrun = FALSE]
    IN  IF 0 \in s.faults.bad \/ SamplingThrows(s, c, 0) THEN blank
        ELSE IF c.tracking = "fixed" THEN ShowFixedPlot(blank, s, c.plotMode, TRUE)
        ELSE RecordSample(blank, s, c, TRUE)

\* A seek that leaves the overlay histories as they are
KeepHistory(l) == l

TruncateHistory(l) == [l EXCEPT !.history = Truncated(@, l.t)]

SeekDynamic(l, s, c) ==
    LET kept == IF c.tracking = l.lastTracking THEN l ELSE ForgetTrace(l)
        cut == TruncateHistory(ClearRange(kept))
        finite == ~InGap(s, c.plotMode, l.t)
        past == \E i \in DOMAIN cut.plot.samples : cut.plot.samples[i].t > l.t
    IN  IF SamplingThrows(s, c, l.t) THEN cut
        ELSE Redraw(RecordSample([cut EXCEPT !.overrun = @ \/ (~finite /\ past)], s, c, finite), c)

Seek(l, s, c, target) ==
    LET there == [InvalidatePreview(SetRunning(l, FALSE)) EXCEPT !.t = target]
    IN  IF target \in s.faults.bad THEN there
        ELSE IF c.tracking = "fixed" THEN Redraw(ShowFixedPlot(there, s, c.plotMode, TRUE), c)
        ELSE SeekDynamic(there, s, c)

-----------------------------------------------------------------------------
(* The animation frame                                                     *)

FrameFails(l, c) == Redraw(SetRunning([l EXCEPT !.raf = FALSE], FALSE), c)

\* The plot is dropped and the preview it held is not invalidated
ResetWithoutInvalidation(l, c) ==
    IF c.tracking \in {l.lastTracking, "fixed"} THEN l ELSE ForgetTrace(ClearRange(l))

ResetIfTrackingChanged(l, c) ==
    IF c.tracking \in {l.lastTracking, "fixed"} THEN l
    ELSE ForgetTrace(ClearRange(InvalidatePreview(l)))

ShouldRebuild(l, s, c) ==
    /\ c.tracking = "fixed"
    /\ l.lastTracking # "fixed" \/ l.key # PreviewKey(l, s, c.plotMode)

ShouldSample(l, c) ==
    c.tracking # "fixed" /\ (l.lastT # {l.t} \/ l.lastMode # c.plotMode)

FrameShows(l, s, c) ==
    LET tracked == ResetIfTrackingChanged(l, c)
        shown == IF ShouldRebuild(tracked, s, c)
                 THEN ShowFixedPlot(tracked, s, c.plotMode, FALSE) ELSE tracked
        sampled == IF ShouldSample(shown, c) THEN RecordSample(shown, s, c, HasFlux(s, c, shown.t)) ELSE shown
    IN  QueueNextFrame(Redraw(sampled, c))

\* requestAnimationFrame fires, dt seconds later on the simulated clock
Frame(dt) ==
    /\ loop.raf
    /\ dt > 0 => loop.running
    /\ loop.t + dt <= MaxTime
    /\ LET now == [loop EXCEPT !.raf = FALSE, !.t = @ + dt]
       IN  loop' = IF now.t \in sim.faults.bad THEN FrameFails(loop, controls)
                   ELSE FrameShows(now, sim, controls)
    /\ loop'.gen <= MaxGen
    /\ cleared' = Aged
    /\ UNCHANGED <<sim, controls, comparing>>

-----------------------------------------------------------------------------
(* What the user and the page do                                           *)

ToggleRunning ==
    /\ loop' = SetRunning(loop, ~loop.running)
    /\ cleared' = Aged
    /\ UNCHANGED <<sim, controls, comparing>>

VisibilityChange ==
    /\ loop' = IF loop.hidden THEN RequestFrame([loop EXCEPT !.hidden = FALSE])
               ELSE [loop EXCEPT !.hidden = TRUE, !.raf = FALSE]
    /\ cleared' = Aged
    /\ UNCHANGED <<sim, controls, comparing>>

\* A change event inside main invalidates the frame
Select(selected) ==
    /\ selected # controls
    /\ controls' = selected
    /\ loop' = RequestFrame(loop)
    /\ UNCHANGED <<sim, cleared, comparing>>

SelectTracking(tracking) == Select([controls EXCEPT !.tracking = tracking])
SelectPlotMode(mode) == Select([controls EXCEPT !.plotMode = mode])

ResetClicked ==
    /\ loop.gen < MaxGen
    /\ loop' = Reset(loop, sim, controls)
    /\ cleared' = Aged
    /\ UNCHANGED <<sim, controls, comparing>>

\* "Jump to event", "Jump to transit"
Jump(target) ==
    /\ loop.gen < MaxGen
    /\ loop' = Seek(loop, sim, controls, target)
    /\ cleared' = Aged
    /\ UNCHANGED <<sim, controls, comparing>>

\* applyScenarioParams drops the comparison and replaces params and runtime;
\* the frame is invalidated when the trigger is a change event inside main.  A
\* reset that throws rolls the params and the comparison back, not the runtime.
ApplyScenario(faults, changes) ==
    /\ loop.gen < MaxGen /\ sim.id < MaxRuntime
    /\ LET next == [id |-> sim.id + 1, faults |-> faults, params |-> sim.id + 1]
           reset == Reset([loop EXCEPT !.comparison = None], next, controls)
           late == SamplingThrows(next, controls, 0)
           ended == IF late THEN [reset EXCEPT !.comparison = loop.comparison] ELSE reset
       IN  /\ sim' = IF late THEN [next EXCEPT !.params = sim.params] ELSE next
           /\ loop' = IF changes THEN RequestFrame(ended) ELSE ended
    /\ cleared' = Aged
    /\ UNCHANGED <<controls, comparing>>

\* The runtime mode control replaces the runtime of the same params
RebuildRuntime(faults) ==
    /\ loop.gen < MaxGen /\ sim.id < MaxRuntime
    /\ sim' = [sim EXCEPT !.id = @ + 1, !.faults = faults]
    /\ loop' = RequestFrame(Reset(loop, sim', controls))
    /\ cleared' = Aged
    /\ UNCHANGED <<controls, comparing>>

ClearLightCurve ==
    /\ loop.gen < MaxGen
    /\ cleared' = [plot |-> loop.plot.samples, history |-> loop.history, key |-> loop.key,
                   preview |-> loop.preview, mode |-> loop.lastMode,
                   tracking |-> loop.lastTracking, range |-> loop.range,
                   rangeMode |-> loop.rangeMode, gen |-> loop.gen + 1]
    /\ loop' = RequestFrame(ClearRange(ForgetTrace(
                   [InvalidatePreview(loop) EXCEPT !.history = <<>>])))
    /\ UNCHANGED <<sim, controls, comparing>>

Restored(l, keep, gen) ==
    [l EXCEPT !.plot = Draw(Restore(keep.plot), controls.tracking = "live"),
              !.history = keep.history,
              !.key = IF keep.key = None THEN None ELSE [keep.key EXCEPT !.gen = gen],
              !.preview = keep.preview, !.lastMode = keep.mode,
              !.lastTracking = keep.tracking,
              !.range = keep.range, !.rangeMode = keep.rangeMode]

\* An undo that keeps the generation the preview was built in
UndoOldKey ==
    /\ cleared # None /\ cleared.plot # <<>>
    /\ cleared' = None
    /\ loop' = IF cleared.gen # loop.gen THEN loop
               ELSE RequestFrame(Restored(loop, cleared, loop.gen - 1))
    /\ UNCHANGED <<sim, controls, comparing>>

\* The button is hidden while there is nothing to restore
UndoClear ==
    /\ cleared # None /\ cleared.plot # <<>>
    /\ cleared' = None
    /\ loop' = IF cleared.gen # loop.gen THEN loop
               ELSE RequestFrame(Restored(loop, cleared, loop.gen))
    /\ UNCHANGED <<sim, controls, comparing>>

-----------------------------------------------------------------------------
(* Comparisons                                                             *)

CompareBegins ==
    /\ comparing = None
    /\ comparing' = <<sim.params>>
    /\ UNCHANGED <<loop, sim, controls, cleared>>

\* publishComparison of a result for the params of, at time target
Publish(of, target) ==
    LET fixed == [controls EXCEPT !.tracking = "fixed"]
        noted == RequestFrame(InvalidatePreview([loop EXCEPT
                     !.comparison = [of |-> of, radius |-> TRUE], !.range = None]))
    IN  /\ controls' = fixed
        /\ loop' = RequestFrame(Seek(SetRunning(noted, FALSE), sim, fixed, target))

\* A comparison that publishes whatever the params are now
CompareEndsUnchecked(target, computed) ==
    /\ comparing # None
    /\ loop.gen < MaxGen
    /\ comparing' = None
    /\ IF computed THEN Publish(comparing[1], target) ELSE UNCHANGED <<loop, controls>>
    /\ cleared' = Aged
    /\ UNCHANGED sim

\* After the await: nothing when the params were replaced or the computation throws
CompareEnds(target, computed) ==
    /\ comparing # None
    /\ loop.gen < MaxGen
    /\ comparing' = None
    /\ IF comparing = <<sim.params>> /\ computed THEN Publish(comparing[1], target)
       ELSE UNCHANGED <<loop, controls>>
    /\ cleared' = Aged
    /\ UNCHANGED sim

\* The button shows for a radius comparison and is disabled while one runs.  It
\* ends a comparison, and MaxGen bounds those.
ClearComparison ==
    /\ IsFocused(loop) /\ comparing = None
    /\ loop' = Seek(InvalidatePreview([loop EXCEPT !.comparison = None, !.range = None]),
                    sim, controls, loop.t)
    /\ cleared' = Aged
    /\ UNCHANGED <<sim, controls, comparing>>

\* The comparison of a guided lab is computed at once and keeps the preview
DidacticCompare ==
    /\ loop' = RequestFrame([loop EXCEPT !.comparison = [of |-> sim.params, radius |-> FALSE]])
    /\ cleared' = Aged
    /\ UNCHANGED <<sim, controls, comparing>>

Next ==
    \/ \E dt \in 0 .. 1 : Frame(dt)
    \/ ToggleRunning
    \/ VisibilityChange
    \/ \E tracking \in Trackings : SelectTracking(tracking)
    \/ \E mode \in PlotModes : SelectPlotMode(mode)
    \/ ResetClicked
    \/ \E target \in 0 .. MaxTime : Jump(target)
    \/ \E faults \in Faults, changes \in BOOLEAN : ApplyScenario(faults, changes)
    \/ \E faults \in Faults : RebuildRuntime(faults)
    \/ ClearLightCurve
    \/ UndoClear
    \/ CompareBegins
    \/ \E target \in 0 .. MaxTime, computed \in BOOLEAN : CompareEnds(target, computed)
    \/ ClearComparison
    \/ DidacticCompare

Spec == Init /\ [][Next]_vars

-----------------------------------------------------------------------------
(* Properties                                                              *)

Sample == [t : Int, of : 1 .. MaxRuntime, mode : PlotModes, finite : BOOLEAN]

(* The state has its type: a time never leaves the simulated clock, the    *)
(* trace and the histories never exceed their capacity.                    *)
TypeOK ==
    /\ loop.t \in 0 .. MaxTime
    /\ {loop.running, loop.hidden, loop.raf} \subseteq BOOLEAN
    /\ loop.lastT \subseteq 0 .. MaxTime
    /\ {loop.lastMode, loop.rangeMode} \subseteq PlotModes \cup {Unset}
    /\ loop.lastTracking \in Trackings \cup {Unset}
    /\ loop.gen \in Nat
    /\ \A trace \in {loop.plot.samples, loop.history} :
          Len(trace) <= Capacity /\ \A i \in DOMAIN trace : trace[i] \in Sample
    /\ sim.id \in 1 .. MaxRuntime /\ sim.params \in 1 .. sim.id
    /\ sim.faults \in Faults \cup {NoFaults} /\ loop.overrun \in BOOLEAN
    /\ controls \in [tracking : Trackings, plotMode : PlotModes]
    /\ comparing \in {None} \cup {<<p>> : p \in 1 .. sim.id}

(* Every buffer the session reaches answers with the true first and last   *)
(* time, and the next sample, whatever its time, gives the bounded ordered *)
(* sequence that it is documented to be (lightCurvePlotBuffer.ts:35-36).   *)
BufferMatchesReference ==
    /\ CachesAgree(loop.plot)
    /\ \A t \in 0 .. MaxTime :
         LET sample == [t |-> t, of |-> sim.id, mode |-> controls.plotMode, finite |-> TRUE]
         IN  /\ Push(loop.plot, sample).samples = AbstractPush(loop.plot.samples, sample)
             /\ CachesAgree(Push(loop.plot, sample))

(* Nothing computed by a runtime that was replaced is shown or can come    *)
(* back: no sample, preview, range or comparison, and no undo that has not *)
(* expired.                                                                *)
TraceOfRuntime ==
    LET ofRuntime(trace) == \A i \in DOMAIN trace : trace[i].of = sim.id
    IN  /\ ofRuntime(loop.plot.samples) /\ ofRuntime(loop.history)
        /\ \A kept \in {loop.key, loop.preview, loop.range} \ {None} : kept.of = sim.id
        /\ loop.comparison # None => loop.comparison.of = sim.params

(* In dynamic or live tracking the trace is the end of the overlay         *)
(* histories, but for their samples without a finite flux: no point of the *)
(* trace lacks the physical and component points drawn beside it, and none *)
(* of those lacks its point of the trace outside a gap.  Points in a gap   *)
(* count in the capacity of the histories, so with gaps the trace may      *)
(* reach further back.  Two seeks break it and are left out.  One to a     *)
(* time at which the runtime throws has set the time and leaves before the *)
(* histories or after them are truncated (frameLoopResetSeek.ts:293, 261). *)
(* One back into a gap truncates the histories but not the trace, which    *)
(* truncates itself on the next push only (overrun).                       *)
TraceEndsHistories ==
    /\ sim.faults.bad \cup sim.faults.smeared = {}
    /\ loop.lastTracking \notin {"fixed", Unset} /\ ~loop.overrun
    => LET trace == loop.plot.samples
           finite == FiniteSamples(loop.history)
           reach == IF sim.faults.gaps = {} THEN Len(trace) ELSE Min({Len(trace), Len(finite)})
       IN  LastN(finite, reach) = LastN(trace, reach)

(* A cache key is kept only beside the plot, the y-range and the           *)
(* presentation it was made for, so a frame that trusts it shows the       *)
(* preview of its runtime and plot mode.  A preview that lies in gaps has  *)
(* no range.                                                               *)
KeyDescribesPlot ==
    loop.key # None =>
        /\ loop.key.gen = loop.gen
        /\ \E focused \in BOOLEAN :
             loop.plot.samples = PreviewSamples(sim, loop.key.mode, focused)
        /\ loop.range = None => loop.plot.samples = <<>>
        /\ loop.range # None => {loop.range.mode, loop.rangeMode} = {loop.key.mode}
        /\ loop.preview # None /\ loop.preview.mode = loop.key.mode

(* A running simulation on a visible page always has its next frame        *)
(* requested, and a hidden page has none.                                  *)
FrameRequested ==
    /\ loop.running /\ ~loop.hidden => loop.raf
    /\ loop.hidden => ~loop.raf

(* Frames whose settings are unchanged do not build another preview        *)
(* (docs/performance.md:43), also after Undo clear restored it.            *)
UnchangedFramesKeepPreview ==
    [][(\E dt \in 0 .. 1 : Frame(dt))
        => (loop.key # None /\ controls.tracking = "fixed" /\ controls.plotMode = loop.key.mode
            => loop'.preview = loop.preview)]_vars
=============================================================================
