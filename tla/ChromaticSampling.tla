------------------------- MODULE ChromaticSampling -------------------------
(***************************************************************************)
(* The chromatic lane of the light curve: the overlay of the plot          *)
(* (chromaticOverlay.ts), the queue that keeps one sampling request in     *)
(* flight and one replaceable request behind it (chromaticSampler.ts), the *)
(* adapter that owns the worker (chromaticWorkerAdapter.ts) and the worker *)
(* (chromatic.worker.ts).                                                  *)
(*                                                                         *)
(* The queue and the adapter call each other synchronously, so they form   *)
(* one record and their methods are operators from record to record.  What *)
(* is asynchronous is an action: the worker, its messages, the timer, and  *)
(* the continuation of execute after its await.                            *)
(*                                                                         *)
(* The 100 ms between two starts are one bit, hot.  Sample times are       *)
(* values of Times, NoTimes is the empty array; a series is the runtime    *)
(* and the times it was sampled for.                                       *)
(***************************************************************************)
EXTENDS Naturals, Sequences, FiniteSets

CONSTANTS
    Times,        \* sets of sample times a frame may ask for
    MaxRuntime,   \* bound: runtimes built in one session
    MaxCalls      \* bound: calls of the frame loop and the toolbar

ASSUME ChromaticAssumption == MaxRuntime \in Nat \ {0} /\ MaxCalls \in Nat

None == <<>>      \* undefined
NoTimes == <<>>   \* an array of no times: a trace of at most one sample

VARIABLES
    overlay,      \* ChromaticOverlay: runtime, bands, series, suspended, last request
    cleared,      \* the snapshot kept for "Undo clear"
    queue,        \* ChromaticSamplingQueue and ChromaticWorkerAdapter
    waits,        \* calls of execute at their await, with what sample() settled to
    disposed,     \* the frame loop was disposed
    calls         \* calls made so far

vars == <<overlay, cleared, queue, waits, disposed, calls>>

NoWorker == [gen |-> 0, ok |-> FALSE, handler |-> 0, inbox |-> None, outbox |-> None]

Request == [gen : Nat, id : Nat, of : 1 .. MaxRuntime, times : Times \cup {NoTimes}]

Init ==
    /\ overlay = [runtime |-> 0, bands |-> FALSE, series |-> None,
                  suspended |-> FALSE, last |-> None]
    /\ cleared = None
    /\ queue = [generation |-> 0, requestId |-> 0, active |-> None, pending |-> None,
                timer |-> FALSE, hot |-> FALSE, stopped |-> FALSE, failed |-> FALSE,
                bandsOf |-> 0, adapterGen |-> 0, reject |-> 0, worker |-> NoWorker]
    /\ waits = {}
    /\ disposed = FALSE
    /\ calls = 0

\* What a call of sample() has come to
Waiting == <<"waiting">>
Rejected == <<"rejected">>
Resolved(reply) == <<"resolved", reply>>

-----------------------------------------------------------------------------
(* The adapter and the queue.  A state s is [q |-> queue, w |-> waits].    *)

\* resolve or reject of the promise of request id; a settled one keeps its value
Settle(ws, id, result) ==
    {IF w.request.id = id /\ w.result = Waiting THEN [w EXCEPT !.result = result] ELSE w : w \in ws}

SamplerStop(s) ==
    [q |-> [s.q EXCEPT !.worker = NoWorker, !.reject = 0],
     w |-> Settle(s.w, s.q.reject, Rejected)]

SamplerConfigure(s, of) ==
    LET stopped == SamplerStop(s)
    IN  [stopped EXCEPT !.q = [@ EXCEPT !.adapterGen = s.q.generation, !.bandsOf = of]]

\* works: new Worker() and postMessage() do not throw
Sample(s, request, works) ==
    LET fresh == [NoWorker EXCEPT !.inbox =
                     <<[kind |-> "configure", gen |-> s.q.adapterGen, of |-> s.q.bandsOf]>>]
        worker == IF s.q.worker = NoWorker THEN fresh ELSE s.q.worker
        posted == [worker EXCEPT !.handler = request.id,
                                 !.inbox = Append(@, [kind |-> "sample", request |-> request])]
    IN  [q |-> [s.q EXCEPT !.reject = request.id,
                           !.worker = IF works THEN posted ELSE @],
         w |-> s.w \cup {[request |-> request, result |-> IF works THEN Waiting ELSE Rejected]}]

QueueStop(s) ==
    SamplerStop([s EXCEPT !.q = [@ EXCEPT !.generation = s.q.generation + 1, !.stopped = TRUE,
                                          !.active = None, !.pending = None, !.timer = FALSE]])

QueueConfigure(s, of) ==
    LET stopped == QueueStop(s)
        ready == [stopped EXCEPT !.q = [@ EXCEPT !.stopped = FALSE, !.failed = FALSE, !.hot = FALSE]]
    IN  SamplerConfigure(ready, of)

\* Mutant: drain that does not look at the timer
DrainIgnoresTimer(s, works) ==
    LET request == [gen |-> s.q.generation, id |-> s.q.requestId + 1,
                    of |-> s.q.bandsOf, times |-> s.q.pending.times]
    IN  IF s.q.active # None \/ s.q.pending = None THEN s
        ELSE IF s.q.hot /\ ~s.q.pending.fixed THEN [s EXCEPT !.q.timer = TRUE]
        ELSE Sample([s EXCEPT !.q = [@ EXCEPT !.requestId = request.id, !.pending = None,
                                              !.active = request, !.hot = TRUE]], request, works)

Drain(s, works) ==
    LET q == s.q
        request == [gen |-> q.generation, id |-> q.requestId + 1,
                    of |-> q.bandsOf, times |-> q.pending.times]
    IN  IF q.active # None \/ q.pending = None \/ q.timer THEN s
        ELSE IF q.hot /\ ~q.pending.fixed THEN [s EXCEPT !.q.timer = TRUE]
        ELSE Sample([s EXCEPT !.q = [@ EXCEPT !.requestId = request.id, !.pending = None,
                                              !.active = request, !.hot = TRUE]], request, works)

QueueRequest(s, asked, works) ==
    IF s.q.stopped \/ s.q.failed THEN s ELSE Drain([s EXCEPT !.q.pending = asked], works)

-----------------------------------------------------------------------------
(* The overlay, called by the frame loop and by the toolbar.               *)

State == [q |-> queue, w |-> waits]
Becomes(s) == queue' = s.q /\ waits' = s.w

\* configure(runtime): outcome is what buildBandConfigurations does
ConfigureOverlay(s, o, runtime, outcome) ==
    IF o.runtime = runtime THEN [s |-> s, o |-> o]
    ELSE LET fresh == [o EXCEPT !.runtime = runtime, !.series = None, !.last = None,
                                !.bands = outcome = "bands"]
             stopped == QueueStop(s)
         IN  [s |-> IF outcome = "throws" \/ o.suspended THEN stopped ELSE QueueConfigure(stopped, runtime),
              o |-> fresh]

Call == ~disposed /\ calls < MaxCalls /\ calls' = calls + 1

\* A frame, a reset or a seek: configureOverlay for the runtime that
\* getSimulation() returns, the last one or a new one, then compose
Compose(works) ==
    /\ Call
    /\ \E runtime \in {overlay.runtime, overlay.runtime + 1} \cap 1 .. MaxRuntime,
          times \in Times \cup {NoTimes}, fixed \in BOOLEAN :
       \E outcome \in IF runtime = overlay.runtime THEN {"bands"} ELSE {"bands", "single", "throws"} :
          LET c == ConfigureOverlay(State, overlay, runtime, outcome)
              asked == [times |-> times, fixed |-> fixed]
          IN  /\ overlay' = [c.o EXCEPT !.last = asked]
              /\ Becomes(IF times # NoTimes /\ c.o.bands /\ ~c.o.suspended
                         THEN QueueRequest(c.s, asked, works) ELSE c.s)
    /\ UNCHANGED <<cleared, disposed>>

ClearedState(s) ==
    IF overlay.suspended THEN QueueStop(s) ELSE QueueConfigure(QueueStop(s), overlay.runtime)

\* "Clear" keeps a snapshot for "Undo clear"
Clear ==
    /\ Call
    /\ cleared' = [runtime |-> overlay.runtime, series |-> overlay.series, last |-> overlay.last]
    /\ overlay' = [overlay EXCEPT !.series = None, !.last = None]
    /\ Becomes(ClearedState(State))
    /\ UNCHANGED disposed

\* Mutant: restore without the test of the runtime
RestoreAnyRuntime(works) ==
    /\ Call
    /\ cleared # None
    /\ cleared' = None
    /\ overlay' = [overlay EXCEPT !.series = cleared.series, !.last = cleared.last]
    /\ Becomes(IF cleared.last # None /\ ~overlay.suspended /\ overlay.bands
               THEN QueueRequest(ClearedState(State), cleared.last, works) ELSE ClearedState(State))
    /\ UNCHANGED disposed

\* "Undo clear" restores the snapshot unless the runtime changed since
Restore(works) ==
    /\ Call
    /\ cleared # None
    /\ cleared' = None
    /\ IF cleared.runtime # overlay.runtime THEN UNCHANGED <<overlay, queue, waits>>
       ELSE LET asks == cleared.last # None /\ ~overlay.suspended /\ overlay.bands
            IN  /\ overlay' = [overlay EXCEPT !.series = cleared.series, !.last = cleared.last]
                /\ Becomes(IF asks THEN QueueRequest(ClearedState(State), cleared.last, works)
                           ELSE ClearedState(State))
    /\ UNCHANGED disposed

\* visibilitychange
Suspend(works) ==
    /\ Call
    /\ overlay' = [overlay EXCEPT !.suspended = ~@]
    /\ IF ~overlay.suspended THEN Becomes(QueueStop(State))
       ELSE LET configured == QueueConfigure(State, overlay.runtime)
                asks == overlay.last # None /\ overlay.bands
            IN  Becomes(IF asks THEN QueueRequest(configured, overlay.last, works) ELSE configured)
    /\ UNCHANGED <<cleared, disposed>>

Dispose ==
    /\ ~disposed
    /\ disposed' = TRUE
    /\ Becomes(QueueStop(State))
    /\ UNCHANGED <<overlay, cleared, calls>>

-----------------------------------------------------------------------------
(* The asynchronous part.                                                  *)

\* 100 ms have passed since the last start
Cool ==
    /\ queue.hot
    /\ queue' = [queue EXCEPT !.hot = FALSE]
    /\ UNCHANGED <<overlay, cleared, waits, disposed, calls>>

\* The timer drain set has run out; a timer may be early
TimerFires(works) ==
    /\ queue.timer
    /\ Becomes(Drain([State EXCEPT !.q.timer = FALSE], works))
    /\ UNCHANGED <<overlay, cleared, disposed, calls>>

\* onmessage in the worker.  A sample of another generation has no answer;
\* answer is an error when the bands cannot be built or sampled.
WorkerHandles(works) ==
    LET worker == queue.worker
        message == Head(worker.inbox)
        rest == [worker EXCEPT !.inbox = Tail(@)]
        reply == [gen |-> message.request.gen, id |-> message.request.id,
                  answer |-> IF works /\ worker.ok
                             THEN [of |-> message.request.of, times |-> message.request.times] ELSE None]
    IN  /\ worker.inbox # None
        /\ queue' = [queue EXCEPT !.worker =
               IF message.kind = "configure" THEN [rest EXCEPT !.gen = message.gen, !.ok = works]
               ELSE IF message.request.gen # worker.gen THEN rest
               ELSE [rest EXCEPT !.outbox = Append(@, reply)]]
        /\ UNCHANGED <<overlay, cleared, waits, disposed, calls>>

\* onmessage of the adapter, in the closure of the latest sample
WorkerAnswers ==
    LET worker == queue.worker
        reply == Head(worker.outbox)
    IN  /\ worker.outbox # None
        /\ Becomes([q |-> [queue EXCEPT !.reject = 0, !.worker.outbox = Tail(@)],
                    w |-> Settle(waits, worker.handler,
                                 IF reply.answer = None THEN Rejected ELSE Resolved(reply))])
        /\ UNCHANGED <<overlay, cleared, disposed, calls>>

\* onerror and onmessageerror of the adapter
WorkerFails ==
    /\ queue.worker # NoWorker
    /\ \E w \in waits : w.request.id = queue.worker.handler /\ w.result = Waiting
    /\ waits' = Settle(waits, queue.worker.handler, Rejected)
    /\ UNCHANGED <<overlay, cleared, queue, disposed, calls>>

\* Mutant: a failed sample leaves its worker running
FailKeepsWorker(s) == [s EXCEPT !.q = [@ EXCEPT !.failed = TRUE, !.pending = None]]

\* catch of execute
Fail(s) == SamplerStop([s EXCEPT !.q = [@ EXCEPT !.failed = TRUE, !.pending = None]])

\* Mutant: the end of a request does not start the pending one
ResumeWithoutDrain(w, works) ==
    LET left == [q |-> queue, w |-> waits \ {w}]
        current == queue.active = w.request
        done == IF w.result # Rejected THEN left ELSE Fail(left)
    IN  /\ w.result # Waiting
        /\ Becomes(IF current THEN [done EXCEPT !.q.active = None] ELSE left)
        /\ overlay' = IF current /\ w.result # Rejected
                      THEN [overlay EXCEPT !.series = w.result[2].answer] ELSE overlay
        /\ UNCHANGED <<cleared, disposed, calls>>

\* execute after its await: only the active request publishes, fails or drains
Resume(w, works) ==
    LET left == [q |-> queue, w |-> waits \ {w}]
        current == queue.active = w.request
        reply == w.result[2]
        answered == /\ w.result # Rejected
                    /\ reply.gen = queue.generation /\ reply.id = w.request.id
        done == IF answered THEN left ELSE Fail(left)
    IN  /\ w.result # Waiting
        /\ Becomes(IF current THEN Drain([done EXCEPT !.q.active = None], works) ELSE left)
        /\ overlay' = IF current /\ answered THEN [overlay EXCEPT !.series = reply.answer] ELSE overlay
        /\ UNCHANGED <<cleared, disposed, calls>>

UserNext ==
    \/ \E works \in BOOLEAN : Compose(works) \/ Restore(works) \/ Suspend(works)
    \/ Clear
    \/ Dispose

WorkerSide == \E works \in BOOLEAN : WorkerHandles(works)
Timer == \E works \in BOOLEAN : TimerFires(works)
Continue == \E w \in waits, works \in BOOLEAN : Resume(w, works)

Next == UserNext \/ Cool \/ Timer \/ WorkerSide \/ WorkerAnswers \/ WorkerFails \/ Continue

(* The event loop runs what is due and a worker that was handed a message  *)
(* handles it; the user, the frame loop and failures are not fair.         *)
Spec ==
    /\ Init /\ [][Next]_vars
    /\ WF_vars(Cool) /\ WF_vars(Timer) /\ WF_vars(WorkerSide)
    /\ WF_vars(WorkerAnswers) /\ WF_vars(Continue)

-----------------------------------------------------------------------------
(* Properties.                                                             *)

\* Types of the state.  The queue is never busy and waiting for its timer at
\* once, and the active request has a call of execute that will end it.
TypeOK ==
    /\ calls \in 0 .. MaxCalls /\ disposed \in BOOLEAN
    /\ overlay.runtime \in 0 .. MaxRuntime /\ overlay.bands \in BOOLEAN
    /\ queue.generation \in Nat /\ queue.requestId \in Nat
    /\ queue.active \in Request \cup {None}
    /\ \A w \in waits : w.request \in Request
    /\ queue.active # None => ~queue.timer /\ \E w \in waits : w.request = queue.active

\* The worker works for the active request and no other: what it was asked,
\* what it has answered and what the adapter would reject belong to it, the
\* request carries the generation the worker is configured with (a sample of
\* another generation has no answer, and the queue would wait for ever), and
\* a stopped or failed queue leaves no worker running.
WorkerServesActive ==
    LET worker == queue.worker
        asked == {worker.inbox[i].request : i \in {j \in DOMAIN worker.inbox :
                                                    worker.inbox[j].kind = "sample"}}
    IN  /\ \A r \in asked : r = queue.active /\ r.gen = queue.adapterGen
        /\ \A i \in DOMAIN worker.outbox : worker.outbox[i].id = queue.active.id
        /\ queue.reject # 0 => queue.active # None /\ queue.active.id = queue.reject
        /\ queue.stopped \/ queue.failed => worker = NoWorker

\* Band samples on the plot belong to the runtime the overlay is configured
\* for, however late they arrive and whatever is restored; a runtime without
\* bands has none.
ShownMatchesScenario ==
    overlay.series # None => overlay.series.of = overlay.runtime /\ overlay.bands

\* Every request the frame loop leaves standing is served: as long as the
\* page is visible and the sampler has not failed, the overlay of the last
\* composed times is drawn.
Wanted(times) ==
    /\ overlay.last # None /\ overlay.last.times = times
    /\ overlay.bands /\ ~overlay.suspended /\ ~queue.failed /\ ~disposed
RequestServed ==
    \A times \in Times :
        Wanted(times) ~> \/ ~Wanted(times)
                         \/ overlay.series # None /\ overlay.series.times = times
=============================================================================
