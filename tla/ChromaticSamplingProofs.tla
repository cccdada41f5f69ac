----------------------- MODULE ChromaticSamplingProofs -----------------------
(***************************************************************************)
(* Proofs about ChromaticSampling for every set of sample times and every  *)
(* number of runtimes and calls.                                           *)
(*                                                                         *)
(* The queue's methods are operators from a queue with its calls to the    *)
(* next one, so the invariant of the queue is a predicate of such a pair   *)
(* and each method has a lemma: what it keeps (Good), what it leaves       *)
(* behind (Idle), what it may still sample (Serves).  An action is then    *)
(* the composition of two or three lemmas.                                 *)
(***************************************************************************)
EXTENDS ChromaticSampling, SequenceTheorems, TLAPS

-----------------------------------------------------------------------------
(* The types of the queue, the worker's messages and the calls of execute. *)

SampleTimes == Times \cup {NoTimes}
Series == [of : 1 .. MaxRuntime, times : SampleTimes]
Asked == [times : SampleTimes, fixed : BOOLEAN]

SampleOf(request) == [kind |-> "sample", request |-> request]
ConfigureOf(q) == [kind |-> "configure", gen |-> q.adapterGen, of |-> q.bandsOf]
Messages == [kind : {"configure"}, gen : Nat, of : 0 .. MaxRuntime]
            \cup [kind : {"sample"}, request : Request]

AnswerOf(request) == [of |-> request.of, times |-> request.times]
ReplyTo(request, answer) == [gen |-> request.gen, id |-> request.id, answer |-> answer]
Replies == [gen : Nat, id : Nat, answer : Series \cup {None}]

Workers == [gen : Nat, ok : BOOLEAN, handler : Nat, inbox : Seq(Messages),
            outbox : Seq(Replies)]

Queues == [generation : Nat, requestId : Nat, active : Request \cup {None},
           pending : Asked \cup {None}, timer : BOOLEAN, hot : BOOLEAN,
           stopped : BOOLEAN, failed : BOOLEAN, bandsOf : 0 .. MaxRuntime,
           adapterGen : Nat, reject : Nat, worker : Workers]

Overlays == [runtime : 0 .. MaxRuntime, bands : BOOLEAN, series : Series \cup {None},
             suspended : BOOLEAN, last : Asked \cup {None}]

Snapshots == [runtime : 0 .. MaxRuntime, series : Series \cup {None},
              last : Asked \cup {None}]

\* A call of execute at its await: what has come back is the answer to its request.
IsWait(w) ==
    /\ w.request \in Request
    /\ w = [request |-> w.request, result |-> w.result]
    /\ w.result \in {Waiting, Rejected, Resolved(ReplyTo(w.request, AnswerOf(w.request)))}

-----------------------------------------------------------------------------
(* The inductive invariant, in parts, of a queue q and the calls ws of     *)
(* execute that have not ended.                                            *)

\* A request id is given once.
IdsInv(q, ws) ==
    /\ \A w \in ws : IsWait(w) /\ w.request.id <= q.requestId
    /\ \A v, w \in ws : v.request.id = w.request.id => v.request = w.request

\* The active request is the queue's own: of its generation and its bands, and
\* with a call that will end it.  What waits can be sampled.
ActiveInv(q, ws) ==
    /\ q.active # None =>
         /\ ~q.timer /\ ~q.stopped /\ ~q.failed
         /\ q.active.gen = q.generation /\ q.active.of = q.bandsOf
         /\ \E w \in ws : w.request = q.active
    /\ q.pending # None => ~q.stopped /\ ~q.failed /\ q.bandsOf >= 1
    /\ ~q.stopped => q.adapterGen = q.generation

\* The worker holds nothing but the active request, or its answer.
WorkerInv(q) ==
    /\ q.stopped \/ q.failed => q.worker = NoWorker
    /\ q.reject # 0 => q.active # None /\ q.active.id = q.reject
    /\ q.worker.inbox # <<>> =>
         /\ q.active # None
         /\ q.worker.inbox \in {<<SampleOf(q.active)>>, <<ConfigureOf(q), SampleOf(q.active)>>}
         /\ q.worker.outbox = <<>>
         /\ q.worker.handler = q.active.id
    /\ q.worker.outbox # <<>> =>
         /\ q.active # None
         /\ q.worker.outbox \in {<<ReplyTo(q.active, answer)>> :
                                    answer \in {None, AnswerOf(q.active)}}
         /\ q.worker.handler = q.active.id

\* Once an answer has settled the active call, nothing of it is under way.
AnswerInv(q, ws) ==
    \A w \in ws : w.request = q.active /\ w.result \notin {Waiting, Rejected} =>
        q.worker.inbox = <<>> /\ q.worker.outbox = <<>> /\ q.reject = 0

QueueInv(q, ws) ==
    /\ q \in Queues
    /\ IdsInv(q, ws)
    /\ ActiveInv(q, ws)
    /\ WorkerInv(q)
    /\ AnswerInv(q, ws)

\* What the overlay is configured for is what the queue samples.
OverlayInv(q, o) ==
    /\ o.bands => o.runtime >= 1
    /\ o.bands /\ ~o.suspended => q.bandsOf = o.runtime
    /\ q.active # None \/ q.pending # None => o.bands /\ q.bandsOf = o.runtime
    /\ o.series # None => o.series.of = o.runtime /\ o.bands

\* A snapshot kept for "Undo clear" fits the overlay it was taken from.
ClearedInv(kept, o) ==
    kept # None =>
      /\ kept \in Snapshots
      /\ kept.runtime <= o.runtime
      /\ kept.series # None =>
           /\ kept.series.of = kept.runtime
           /\ kept.runtime = o.runtime => o.bands

IndInv ==
    /\ calls \in 0 .. MaxCalls /\ disposed \in BOOLEAN
    /\ overlay \in Overlays
    /\ QueueInv(queue, waits)
    /\ OverlayInv(queue, overlay)
    /\ ClearedInv(cleared, overlay)

\* A queue with its calls, of which only the types and the ids are known.
Typed(s) ==
    /\ s = [q |-> s.q, w |-> s.w]
    /\ s.q \in Queues
    /\ IdsInv(s.q, s.w)

\* A queue with its calls that satisfies the invariant.
Good(s) == s = [q |-> s.q, w |-> s.w] /\ QueueInv(s.q, s.w)

\* A queue that has just been stopped or configured.
Idle(s) ==
    /\ Typed(s)
    /\ s.q.active = None /\ s.q.pending = None
    /\ s.q.worker = NoWorker /\ s.q.reject = 0
    /\ ~s.q.stopped => s.q.adapterGen = s.q.generation

\* What the queue's methods leave of the bands, and what they may still sample.
Serves(s, t) ==
    /\ Good(t)
    /\ t.q.bandsOf = s.q.bandsOf
    /\ t.q.active # None \/ t.q.pending # None => s.q.active # None \/ s.q.pending # None

-----------------------------------------------------------------------------
(* Undefined is no record.                                                 *)

LEMMA NoneIsNoRecord == None \notin Request /\ None \notin Asked /\ None \notin Series
<1>1. DOMAIN None = {}
  BY DEF None
<1>2. \A r \in Request : "id" \in DOMAIN r
  BY DEF Request
<1>3. \A r \in Asked : "fixed" \in DOMAIN r
  BY DEF Asked
<1>4. \A r \in Series : "of" \in DOMAIN r
  BY DEF Series
<1> QED BY <1>1, <1>2, <1>3, <1>4

LEMMA AnswerIsSeries ==
    ASSUME NEW r \in Request
    PROVE  AnswerOf(r) \in Series /\ AnswerOf(r) # None
<1>1. AnswerOf(r) \in Series
  BY DEF AnswerOf, Request, Series, SampleTimes
<1> QED BY <1>1, NoneIsNoRecord

LEMMA NoWorkerIsTyped == NoWorker \in Workers /\ NoWorker.inbox = <<>> /\ NoWorker.outbox = <<>>
BY DEF NoWorker, Workers, None

LEMMA ResultsDiffer ==
    /\ Waiting # Rejected
    /\ \A reply : Resolved(reply) # Waiting /\ Resolved(reply) # Rejected /\ Resolved(reply)[2] = reply
BY DEF Waiting, Rejected, Resolved

-----------------------------------------------------------------------------
(* The adapter and the queue.                                              *)

\* Settling a promise leaves every call with its request.
LEMMA Settles ==
    ASSUME NEW q \in Queues, NEW ws, IdsInv(q, ws), NEW id, NEW result,
           \A w \in ws : w.request.id = id =>
               result \in {Rejected, Resolved(ReplyTo(w.request, AnswerOf(w.request)))}
    PROVE  /\ IdsInv(q, Settle(ws, id, result))
           /\ \A w \in ws : \E v \in Settle(ws, id, result) : v.request = w.request
           /\ \A v \in Settle(ws, id, result) :
                \E w \in ws : /\ v.request = w.request
                              /\ v = w \/ (w.request.id = id /\ v.result = result)
<1> DEFINE one(w) == IF w.request.id = id /\ w.result = Waiting
                     THEN [w EXCEPT !.result = result] ELSE w
<1>1. Settle(ws, id, result) = {one(w) : w \in ws}
  BY DEF Settle
<1>2. ASSUME NEW w \in ws
      PROVE  /\ one(w).request = w.request
             /\ IsWait(one(w))
             /\ one(w) = w \/ (w.request.id = id /\ one(w).result = result)
  <2>1. IsWait(w)
    BY DEF IdsInv
  <2>2. CASE w.request.id = id /\ w.result = Waiting
    <3>1. w = [request |-> w.request, result |-> w.result]
      BY <2>1 DEF IsWait
    <3>2. one(w) = [request |-> w.request, result |-> result]
      BY <2>2, <3>1
    <3> HIDE DEF one
    <3> QED BY <2>1, <2>2, <3>2 DEF IsWait
  <2>3. CASE ~(w.request.id = id /\ w.result = Waiting)
    BY <2>1, <2>3
  <2> QED BY <2>2, <2>3
<1> HIDE DEF one
<1> QED BY <1>1, <1>2 DEF IdsInv

LEMMA IdleIsGood ==
    ASSUME NEW s, Idle(s)
    PROVE  Good(s)
<1>1. \A w \in s.w : w.request # s.q.active
  BY NoneIsNoRecord DEF Idle, Typed, IdsInv, IsWait
<1>2. ActiveInv(s.q, s.w)
  BY DEF Idle, ActiveInv
<1>3. WorkerInv(s.q)
  BY NoWorkerIsTyped DEF Idle, WorkerInv
<1> QED BY <1>1, <1>2, <1>3 DEF Idle, Typed, Good, QueueInv, AnswerInv

LEMMA GoodIsTyped ==
    ASSUME NEW s, Good(s)
    PROVE  Typed(s)
BY DEF Good, Typed, QueueInv

LEMMA SamplerStops ==
    ASSUME NEW s, Typed(s)
    PROVE  /\ Typed(SamplerStop(s))
           /\ SamplerStop(s).q = [s.q EXCEPT !.worker = NoWorker, !.reject = 0]
<1> DEFINE q == [s.q EXCEPT !.worker = NoWorker, !.reject = 0]
           ws == Settle(s.w, s.q.reject, Rejected)
<1>1. SamplerStop(s) = [q |-> q, w |-> ws]
  BY DEF SamplerStop
<1>2. q \in Queues /\ q.requestId = s.q.requestId
  BY NoWorkerIsTyped DEF Typed, Queues
<1>3. IdsInv(s.q, ws)
  BY Settles DEF Typed
<1> HIDE DEF q, ws
<1>4. IdsInv(q, ws)
  BY <1>2, <1>3 DEF IdsInv
<1> QED BY <1>1, <1>2, <1>4 DEF Typed, q

LEMMA QueueStops ==
    ASSUME NEW s, Typed(s)
    PROVE  /\ Idle(QueueStop(s))
           /\ QueueStop(s).q.bandsOf = s.q.bandsOf
           /\ QueueStop(s).q.stopped = TRUE
<1> DEFINE q == [s.q EXCEPT !.generation = s.q.generation + 1, !.stopped = TRUE, !.active = None,
                            !.pending = None, !.timer = FALSE]
           t == [q |-> q, w |-> s.w]
           n == SamplerStop(t)
<1>1. QueueStop(s) = n
  <2>1. s = [q |-> s.q, w |-> s.w] /\ s.q \in Queues
    BY DEF Typed
  <2>2. [s EXCEPT !.q = [@ EXCEPT !.generation = s.q.generation + 1, !.stopped = TRUE,
                                  !.active = None, !.pending = None,
                                  !.timer = FALSE]] = t
    <3> HIDE DEF q
    <3>1. [s EXCEPT !.q = q] = t
      BY <2>1
    <3> QED BY <3>1 DEF q
  <2> HIDE DEF t, q
  <2> QED BY <2>2 DEF QueueStop, q
<1>2. /\ q \in Queues /\ q.requestId = s.q.requestId /\ q.bandsOf = s.q.bandsOf
      /\ q.active = None /\ q.pending = None /\ q.stopped = TRUE
  <2>1. s.q \in Queues
    BY DEF Typed
  <2>2. s.q.generation + 1 \in Nat
    BY <2>1 DEF Queues
  <2> HIDE DEF n, t
  <2> QED BY <2>1, <2>2 DEF Queues
<1> HIDE DEF q
<1>3. Typed(t)
  BY <1>2 DEF Typed, IdsInv
<1>4. Typed(n) /\ n.q = [q EXCEPT !.worker = NoWorker, !.reject = 0]
  BY <1>3, SamplerStops
<1> HIDE DEF n
<1>5. /\ n.q.active = None /\ n.q.pending = None /\ n.q.stopped = TRUE
      /\ n.q.bandsOf = s.q.bandsOf /\ n.q.worker = NoWorker /\ n.q.reject = 0
  BY <1>2, <1>4 DEF Queues
<1> QED BY <1>1, <1>4, <1>5 DEF Idle

LEMMA QueueConfigures ==
    ASSUME NEW s, Typed(s), NEW of \in 0 .. MaxRuntime
    PROVE  /\ Idle(QueueConfigure(s, of))
           /\ QueueConfigure(s, of).q.bandsOf = of
           /\ ~QueueConfigure(s, of).q.stopped
<1> DEFINE stopped == QueueStop(s)
           q == [stopped.q EXCEPT !.stopped = FALSE, !.failed = FALSE, !.hot = FALSE]
           t == [q |-> q, w |-> stopped.w]
           n == SamplerStop(t)
           c == [n.q EXCEPT !.adapterGen = q.generation, !.bandsOf = of]
<1>1. Idle(stopped)
  BY QueueStops
<1>2. QueueConfigure(s, of) = SamplerConfigure(t, of)
  <2> HIDE DEF stopped
  <2>1. stopped = [q |-> stopped.q, w |-> stopped.w]
    BY <1>1 DEF Idle, Typed
  <2>2. [stopped EXCEPT !.q = [@ EXCEPT !.stopped = FALSE, !.failed = FALSE, !.hot = FALSE]] = t
    <3> HIDE DEF q
    <3>1. [stopped EXCEPT !.q = q] = t
      BY <2>1
    <3> QED BY <3>1 DEF q
  <2> HIDE DEF t, q
  <2> QED BY <2>2 DEF QueueConfigure, stopped, q
<1> HIDE DEF stopped
<1>3. /\ q \in Queues /\ q.requestId = stopped.q.requestId
      /\ q.active = None /\ q.pending = None /\ ~q.stopped
  BY <1>1 DEF Idle, Typed, Queues
<1> HIDE DEF q
<1>4. Typed(t)
  BY <1>1, <1>3 DEF Idle, Typed, IdsInv
<1>5. Typed(n) /\ n.q = [q EXCEPT !.worker = NoWorker, !.reject = 0]
  BY <1>4, SamplerStops
<1>6. SamplerConfigure(t, of) = [q |-> c, w |-> n.w]
  <2> HIDE DEF n
  <2>1. n = [q |-> n.q, w |-> n.w]
    BY <1>5 DEF Typed
  <2>2. [n EXCEPT !.q = [@ EXCEPT !.adapterGen = q.generation, !.bandsOf = of]] = [q |-> c, w |-> n.w]
    <3> HIDE DEF c
    <3>1. [n EXCEPT !.q = c] = [q |-> c, w |-> n.w]
      BY <2>1
    <3> QED BY <3>1 DEF c
  <2>3. t.q = q
    OBVIOUS
  <2> HIDE DEF t, c
  <2> QED BY <2>2, <2>3 DEF SamplerConfigure, n, c
<1> HIDE DEF n, t
<1>7. /\ c \in Queues /\ c.requestId = n.q.requestId
      /\ c.active = None /\ c.pending = None /\ ~c.stopped /\ c.bandsOf = of
      /\ c.worker = NoWorker /\ c.reject = 0 /\ c.adapterGen = c.generation
  <2>1. /\ n.q \in Queues /\ n.q.worker = NoWorker /\ n.q.reject = 0
        /\ n.q.active = None /\ n.q.pending = None /\ ~n.q.stopped
        /\ n.q.generation = q.generation
    <3> HIDE DEF c, n
    <3> QED BY <1>3, <1>5, NoWorkerIsTyped DEF Typed, Queues
  <2>2. q.generation \in Nat
    BY <1>3 DEF Queues
  <2> HIDE DEF n
  <2> QED BY <2>1, <2>2 DEF Queues
<1> HIDE DEF c
<1>8. IdsInv(c, n.w)
  BY <1>5, <1>7 DEF Typed, IdsInv
<1> QED BY <1>2, <1>6, <1>7, <1>8 DEF Idle, Typed

\* The worker's inbox holds one message or two.
LEMMA AppendsSecond ==
    ASSUME NEW S, NEW first \in S, NEW second \in S
    PROVE  Append(<<first>>, second) = <<first, second>>
<1> DEFINE s == Append(<<first>>, second)
           t == <<first, second>>
<1>1. s \in Seq(S) /\ t \in Seq(S)
  OBVIOUS
<1>2. Len(s) = 2 /\ Len(t) = 2
  OBVIOUS
<1>3. s[1] = t[1] /\ s[2] = t[2]
  OBVIOUS
<1> HIDE DEF s, t
<1>4. s = t
  BY <1>1, <1>2, <1>3, SeqEqual
<1> QED BY <1>4 DEF s, t

\* A sample starts when nothing is active: the worker, fresh or not, is handed it.
LEMMA Posts ==
    ASSUME NEW b \in Queues, NEW request \in Request,
           b.worker.inbox = <<>>, b.worker.outbox = <<>>
    PROVE  LET fresh == [NoWorker EXCEPT !.inbox = <<ConfigureOf(b)>>]
               worker == IF b.worker = NoWorker THEN fresh ELSE b.worker
               posted == [worker EXCEPT !.handler = request.id,
                                        !.inbox = Append(@, SampleOf(request))]
           IN  /\ posted \in Workers
               /\ posted.handler = request.id
               /\ posted.outbox = <<>>
               /\ posted.inbox \in {<<SampleOf(request)>>, <<ConfigureOf(b), SampleOf(request)>>}
<1> DEFINE fresh == [NoWorker EXCEPT !.inbox = <<ConfigureOf(b)>>]
           worker == IF b.worker = NoWorker THEN fresh ELSE b.worker
           posted == [worker EXCEPT !.handler = request.id,
                                    !.inbox = Append(@, SampleOf(request))]
<1>1. SampleOf(request) \in Messages /\ ConfigureOf(b) \in Messages
  BY DEF SampleOf, ConfigureOf, Messages, Queues
<1>2. b.worker \in Workers /\ request.id \in Nat
  BY DEF Queues, Request
<1>3. /\ fresh \in Workers /\ fresh.inbox = <<ConfigureOf(b)>> /\ fresh.outbox = <<>>
  <2> DEFINE first == <<ConfigureOf(b)>>
  <2>1. first \in Seq(Messages)
    BY <1>1
  <2> HIDE DEF first
  <2>2. [NoWorker EXCEPT !.inbox = first] \in Workers
    BY <2>1, NoWorkerIsTyped DEF Workers
  <2>3. /\ [NoWorker EXCEPT !.inbox = first].inbox = first
        /\ [NoWorker EXCEPT !.inbox = first].outbox = <<>>
    BY NoWorkerIsTyped DEF Workers
  <2> QED BY <2>2, <2>3 DEF first
<1>4. /\ worker \in Workers /\ worker.outbox = <<>>
      /\ worker.inbox = <<>> \/ worker.inbox = <<ConfigureOf(b)>>
  <2> HIDE DEF fresh
  <2> QED BY <1>2, <1>3
<1> HIDE DEF worker
<1>5. worker.inbox \in Seq(Messages)
  BY <1>4 DEF Workers
<1>6. Append(worker.inbox, SampleOf(request)) \in Seq(Messages)
  BY <1>1, <1>5
<1>7. Append(worker.inbox, SampleOf(request))
        \in {<<SampleOf(request)>>, <<ConfigureOf(b), SampleOf(request)>>}
  <2>1. Append(<<>>, SampleOf(request)) = <<SampleOf(request)>>
    BY <1>1
  <2>2. Append(<<ConfigureOf(b)>>, SampleOf(request)) = <<ConfigureOf(b), SampleOf(request)>>
    BY <1>1, AppendsSecond
  <2> QED BY <1>4, <2>1, <2>2
<1> DEFINE inbox == Append(worker.inbox, SampleOf(request))
<1> HIDE DEF inbox
<1>8. posted = [worker EXCEPT !.handler = request.id, !.inbox = inbox]
  BY DEF inbox
<1>9. posted \in Workers /\ posted.handler = request.id /\ posted.outbox = <<>>
      /\ posted.inbox = inbox
  <2>1. inbox \in Seq(Messages)
    BY <1>6 DEF inbox
  <2> QED BY <1>2, <1>4, <1>8, <2>1 DEF Workers
<1> HIDE DEF posted
<1> QED BY <1>7, <1>9 DEF inbox, posted, worker, fresh

\* drain starts a request, sets the timer or does nothing.
LEMMA Drains ==
    ASSUME NEW s, Good(s), NEW works \in BOOLEAN
    PROVE  Serves(s, Drain(s, works))
<1> DEFINE t == Drain(s, works)
           q == s.q
           request == [gen |-> q.generation, id |-> q.requestId + 1,
                       of |-> q.bandsOf, times |-> q.pending.times]
           b == [q EXCEPT !.requestId = request.id, !.pending = None,
                          !.active = request, !.hot = TRUE]
<1>0. /\ s = [q |-> s.q, w |-> s.w] /\ s.q \in Queues /\ IdsInv(s.q, s.w)
      /\ ActiveInv(s.q, s.w) /\ WorkerInv(s.q) /\ AnswerInv(s.q, s.w)
  BY DEF Good, QueueInv
<1>1. CASE q.active # None \/ q.pending = None \/ q.timer
  <2>1. t = s
    BY <1>1 DEF Drain
  <2> QED BY <2>1 DEF Serves
<1>2. CASE ~(q.active # None \/ q.pending = None \/ q.timer) /\ q.hot /\ ~q.pending.fixed
  <2> DEFINE h == [q EXCEPT !.timer = TRUE]
  <2>1. t = [q |-> h, w |-> s.w]
    <3>1. t = [s EXCEPT !.q.timer = TRUE]
      BY <1>2 DEF Drain
    <3> QED BY <1>0, <3>1
  <2>2. /\ h \in Queues /\ h.requestId = q.requestId /\ h.active = None
        /\ h.pending = q.pending /\ h.stopped = q.stopped /\ h.failed = q.failed
        /\ h.bandsOf = q.bandsOf /\ h.adapterGen = q.adapterGen
        /\ h.generation = q.generation /\ h.worker = q.worker /\ h.reject = q.reject
    BY <1>0, <1>2 DEF Queues
  <2> HIDE DEF h
  <2>3. q.active = None /\ q.pending # None
    BY <1>2
  <2>4. IdsInv(h, s.w) /\ ActiveInv(h, s.w)
    BY <1>0, <2>2, <2>3 DEF IdsInv, ActiveInv
  <2>5. WorkerInv(h)
    BY <1>0, <2>2, <2>3 DEF WorkerInv
  <2>6. AnswerInv(h, s.w)
    BY <1>0, <2>2, <2>3 DEF AnswerInv
  <2>7. Good(t)
    BY <2>1, <2>2, <2>4, <2>5, <2>6 DEF Good, QueueInv
  <2>8. t.q.bandsOf = s.q.bandsOf
    BY <2>1, <2>2
  <2> HIDE DEF t
  <2> QED BY <2>3, <2>7, <2>8 DEF Serves, t
<1>3. CASE ~(q.active # None \/ q.pending = None \/ q.timer) /\ ~(q.hot /\ ~q.pending.fixed)
  <2> DEFINE fresh == [NoWorker EXCEPT !.inbox = <<ConfigureOf(b)>>]
             worker == IF b.worker = NoWorker THEN fresh ELSE b.worker
             posted == [worker EXCEPT !.handler = request.id,
                                      !.inbox = Append(@, SampleOf(request))]
             used == IF works THEN posted ELSE b.worker
             n == [b EXCEPT !.reject = request.id, !.worker = used]
             call == [request |-> request, result |-> IF works THEN Waiting ELSE Rejected]
  <2>1. /\ q.active = None /\ q.pending \in Asked /\ ~q.timer
        /\ ~q.stopped /\ ~q.failed /\ q.bandsOf \in 1 .. MaxRuntime
        /\ q.adapterGen = q.generation
    <3>1. q.active = None /\ q.pending # None /\ ~q.timer
      BY <1>3
    <3>2. q.pending \in Asked
      BY <1>0, <3>1 DEF Queues
    <3>3. q.bandsOf \in 0 .. MaxRuntime
      BY <1>0 DEF Queues
    <3> QED BY <1>0, <3>1, <3>2, <3>3, ChromaticAssumption DEF ActiveInv
  <2>2. request \in Request /\ request # None
    <3>1. /\ q.generation \in Nat /\ q.requestId + 1 \in Nat
          /\ q.pending.times \in Times \cup {NoTimes}
      BY <1>0, <2>1 DEF Queues, Asked, SampleTimes
    <3>2. request \in Request
      BY <2>1, <3>1 DEF Request
    <3> QED BY <3>2, NoneIsNoRecord
  <2>3. /\ request.id = q.requestId + 1 /\ request.gen = q.generation
        /\ request.of = q.bandsOf
    OBVIOUS
  <2>4. t = Sample([s EXCEPT !.q = b], request, works)
    <3>1. t = Sample([s EXCEPT !.q = [@ EXCEPT !.requestId = request.id, !.pending = None,
                                               !.active = request, !.hot = TRUE]], request, works)
      BY <1>3 DEF Drain
    <3> QED BY <3>1
  <2> HIDE DEF request
  <2>5. /\ b \in Queues /\ b.requestId = request.id /\ b.active = request /\ b.pending = None
        /\ b.timer = q.timer /\ b.stopped = q.stopped /\ b.failed = q.failed
        /\ b.bandsOf = q.bandsOf /\ b.adapterGen = q.adapterGen
        /\ b.generation = q.generation /\ b.worker = q.worker
    <3>1. request.id \in Nat
      BY <2>2 DEF Request
    <3> QED BY <1>0, <2>2, <3>1 DEF Queues
  <2> HIDE DEF b
  <2>6. b.worker.inbox = <<>> /\ b.worker.outbox = <<>>
    BY <1>0, <2>1, <2>5 DEF WorkerInv
  <2>7. /\ posted \in Workers /\ posted.handler = request.id /\ posted.outbox = <<>>
        /\ posted.inbox \in {<<SampleOf(request)>>, <<ConfigureOf(b), SampleOf(request)>>}
    BY <2>2, <2>5, <2>6, Posts
  <2>8. t = [q |-> n, w |-> s.w \cup {call}]
    <3>1. [s EXCEPT !.q = b] = [q |-> b, w |-> s.w]
      BY <1>0
    <3>2. Sample([q |-> b, w |-> s.w], request, works) = [q |-> n, w |-> s.w \cup {call}]
      BY DEF Sample, ConfigureOf, SampleOf
    <3> HIDE DEF t
    <3> QED BY <2>4, <3>1, <3>2
  <2> HIDE DEF posted, t
  <2>9. /\ used \in Workers /\ used.outbox = <<>>
        /\ used.inbox # <<>> =>
             /\ used.inbox \in {<<SampleOf(request)>>, <<ConfigureOf(b), SampleOf(request)>>}
             /\ used.handler = request.id
    <3>1. b.worker \in Workers
      BY <2>5 DEF Queues
    <3> QED BY <2>6, <2>7, <3>1
  <2> HIDE DEF used
  <2>10. /\ n \in Queues /\ n.requestId = request.id /\ n.active = request /\ n.pending = None
         /\ ~n.timer /\ ~n.stopped /\ ~n.failed /\ n.bandsOf = q.bandsOf
         /\ n.adapterGen = b.adapterGen /\ n.adapterGen = n.generation
         /\ n.generation = q.generation
         /\ n.worker = used /\ n.reject = request.id
    <3>1. request.id \in Nat
      BY <2>2 DEF Request
    <3> QED BY <2>1, <2>5, <2>9, <3>1 DEF Queues
  <2>11. ConfigureOf(n) = ConfigureOf(b)
    BY <2>5, <2>10 DEF ConfigureOf
  <2> HIDE DEF n
  <2>12. /\ IsWait(call) /\ call.request = request
         /\ call.result \in {Waiting, Rejected}
    BY <2>2 DEF IsWait
  <2> HIDE DEF call
  <2>13. \A w \in s.w : w.request.id < request.id
    <3>1. \A w \in s.w : w.request.id \in Nat /\ w.request.id <= q.requestId
      BY <1>0 DEF IdsInv, IsWait, Request
    <3>2. q.requestId \in Nat
      BY <1>0 DEF Queues
    <3> QED BY <2>3, <3>1, <3>2
  <2>14. IdsInv(n, s.w \cup {call})
    <3>1. request.id \in Nat /\ \A w \in s.w : w.request.id \in Nat /\ IsWait(w)
      BY <1>0, <2>2 DEF IdsInv, IsWait, Request
    <3>2. \A v, w \in s.w : v.request.id = w.request.id => v.request = w.request
      BY <1>0 DEF IdsInv
    <3> QED BY <2>10, <2>12, <2>13, <3>1, <3>2 DEF IdsInv
  <2>15. ActiveInv(n, s.w \cup {call})
    BY <2>3, <2>10, <2>12 DEF ActiveInv
  <2>16. WorkerInv(n)
    BY <2>2, <2>9, <2>10, <2>11 DEF WorkerInv
  <2>17. AnswerInv(n, s.w \cup {call})
    <3>1. request.id \in Nat
      BY <2>2 DEF Request
    <3>2. \A w \in s.w : w.request # request
      BY <2>13, <3>1
    <3> QED BY <2>10, <2>12, <3>2 DEF AnswerInv
  <2>18. Good(t)
    BY <2>8, <2>10, <2>14, <2>15, <2>16, <2>17 DEF Good, QueueInv
  <2>19. t.q.bandsOf = s.q.bandsOf
    BY <2>8, <2>10
  <2>20. s.q.pending # None
    BY <1>3
  <2> QED BY <2>18, <2>19, <2>20 DEF Serves, t
<1> QED BY <1>1, <1>2, <1>3

LEMMA QueueRequests ==
    ASSUME NEW s, Good(s), NEW asked \in Asked, NEW works \in BOOLEAN,
           s.q.stopped \/ s.q.bandsOf >= 1
    PROVE  /\ Good(QueueRequest(s, asked, works))
           /\ QueueRequest(s, asked, works).q.bandsOf = s.q.bandsOf
<1> DEFINE q == [s.q EXCEPT !.pending = asked]
           t == [q |-> q, w |-> s.w]
<1>0. /\ s = [q |-> s.q, w |-> s.w] /\ s.q \in Queues /\ IdsInv(s.q, s.w)
      /\ ActiveInv(s.q, s.w) /\ WorkerInv(s.q) /\ AnswerInv(s.q, s.w)
  BY DEF Good, QueueInv
<1>1. CASE s.q.stopped \/ s.q.failed
  BY <1>1 DEF QueueRequest
<1>2. CASE ~(s.q.stopped \/ s.q.failed)
  <2>1. QueueRequest(s, asked, works) = Drain(t, works)
    <3>1. [s EXCEPT !.q.pending = asked] = t
      BY <1>0
    <3> QED BY <1>2, <3>1 DEF QueueRequest
  <2>2. /\ q \in Queues /\ q.requestId = s.q.requestId /\ q.active = s.q.active
        /\ q.timer = s.q.timer /\ q.stopped = s.q.stopped /\ q.failed = s.q.failed
        /\ q.bandsOf = s.q.bandsOf /\ q.adapterGen = s.q.adapterGen
        /\ q.generation = s.q.generation /\ q.worker = s.q.worker /\ q.reject = s.q.reject
    BY <1>0 DEF Queues
  <2> HIDE DEF q
  <2>3. IdsInv(q, s.w)
    BY <1>0, <2>2 DEF IdsInv
  <2>4. ActiveInv(q, s.w)
    BY <1>0, <1>2, <2>2 DEF ActiveInv
  <2>5. WorkerInv(q)
    BY <1>0, <2>2 DEF WorkerInv, ConfigureOf
  <2>6. AnswerInv(q, s.w)
    BY <1>0, <2>2 DEF AnswerInv
  <2>7. Good(t)
    BY <2>2, <2>3, <2>4, <2>5, <2>6 DEF Good, QueueInv
  <2>8. t.q.bandsOf = s.q.bandsOf
    BY <2>2
  <2> HIDE DEF t
  <2> QED BY <2>1, <2>7, <2>8, Drains DEF Serves
<1> QED BY <1>1, <1>2

-----------------------------------------------------------------------------
(* The overlay.                                                            *)

\* A request goes to a queue that is configured for the overlay's runtime.
LEMMA OverlayRequests ==
    ASSUME NEW s, Good(s), NEW o \in Overlays, OverlayInv(s.q, o), o.bands, ~o.suspended,
           NEW asked \in Asked, NEW works \in BOOLEAN
    PROVE  /\ Good(QueueRequest(s, asked, works))
           /\ OverlayInv(QueueRequest(s, asked, works).q, o)
<1>1. o.runtime \in 1 .. MaxRuntime /\ s.q.bandsOf = o.runtime
  BY DEF OverlayInv, Overlays
<1>2. /\ Good(QueueRequest(s, asked, works))
      /\ QueueRequest(s, asked, works).q.bandsOf = s.q.bandsOf
  BY <1>1, QueueRequests
<1> QED BY <1>1, <1>2 DEF OverlayInv

\* A queue that was stopped or configured for the overlay fits it.
LEMMA IdleFits ==
    ASSUME NEW s, Idle(s), NEW o \in Overlays,
           o.bands => o.runtime >= 1,
           o.bands /\ ~o.suspended => s.q.bandsOf = o.runtime,
           o.series # None => o.series.of = o.runtime /\ o.bands
    PROVE  OverlayInv(s.q, o)
BY DEF Idle, OverlayInv

Configured(s, o, runtime, c) ==
    /\ Good(c.s)
    /\ c.o \in Overlays
    /\ OverlayInv(c.s.q, c.o)
    /\ c.o.runtime = runtime
    /\ runtime = o.runtime => c.o = o

LEMMA OverlayConfigures ==
    ASSUME NEW s, Good(s), NEW o \in Overlays, OverlayInv(s.q, o),
           NEW runtime \in 1 .. MaxRuntime, NEW outcome
    PROVE  Configured(s, o, runtime, ConfigureOverlay(s, o, runtime, outcome))
<1> DEFINE c == ConfigureOverlay(s, o, runtime, outcome)
           fresh == [o EXCEPT !.runtime = runtime, !.series = None, !.last = None,
                              !.bands = outcome = "bands"]
           stopped == QueueStop(s)
           n == IF outcome = "throws" \/ o.suspended THEN stopped
                ELSE QueueConfigure(stopped, runtime)
<1>1. CASE o.runtime = runtime
  <2>1. c = [s |-> s, o |-> o]
    BY <1>1 DEF ConfigureOverlay
  <2> QED BY <1>1, <2>1 DEF Configured
<1>2. CASE o.runtime # runtime
  <2>1. c = [s |-> n, o |-> fresh]
    BY <1>2 DEF ConfigureOverlay
  <2>2. /\ fresh \in Overlays /\ fresh.runtime = runtime /\ fresh.series = None
        /\ fresh.suspended = o.suspended /\ (fresh.bands => outcome # "throws")
    <3> DEFINE bands == outcome = "bands"
    <3>0. bands \in BOOLEAN
      OBVIOUS
    <3>1. bands => outcome # "throws"
      OBVIOUS
    <3> HIDE DEF bands
    <3>2. fresh = [o EXCEPT !.runtime = runtime, !.series = None, !.last = None, !.bands = bands]
      BY DEF bands
    <3> HIDE DEF fresh, n, c, stopped
    <3>3. fresh \in Overlays
      <4>1. runtime \in 0 .. MaxRuntime /\ None \in Series \cup {None} /\ None \in Asked \cup {None}
        OBVIOUS
      <4> QED BY <3>0, <3>2, <4>1 DEF Overlays
    <3>4. /\ fresh.runtime = runtime /\ fresh.series = None
          /\ fresh.suspended = o.suspended /\ fresh.bands = bands
      BY <3>2 DEF Overlays
    <3> QED BY <3>1, <3>3, <3>4
  <2> HIDE DEF fresh
  <2>3. Idle(stopped)
    BY GoodIsTyped, QueueStops
  <2>4. /\ Idle(n)
        /\ ~(outcome = "throws" \/ o.suspended) => n.q.bandsOf = runtime
    <3>1. Typed(stopped) /\ runtime \in 0 .. MaxRuntime
      BY <2>3 DEF Idle
    <3> HIDE DEF stopped
    <3>2. /\ Idle(QueueConfigure(stopped, runtime))
          /\ QueueConfigure(stopped, runtime).q.bandsOf = runtime
      BY <3>1, QueueConfigures
    <3> QED BY <2>3, <3>2
  <2> HIDE DEF n
  <2>5. OverlayInv(n.q, fresh)
    <3>1. /\ fresh.bands => fresh.runtime >= 1
          /\ fresh.bands /\ ~fresh.suspended => n.q.bandsOf = fresh.runtime
          /\ fresh.series = None
      BY <2>2, <2>4
    <3> QED BY <2>2, <2>4, <3>1, IdleFits
  <2>6. Good(n)
    BY <2>4, IdleIsGood
  <2> HIDE DEF c
  <2>7. c.s = n /\ c.o = fresh
    BY <2>1
  <2> QED BY <1>2, <2>2, <2>5, <2>6, <2>7 DEF Configured, c
<1> QED BY <1>1, <1>2

LEMMA StateIsGood ==
    ASSUME IndInv
    PROVE  /\ Good(State) /\ Typed(State) /\ State.q = queue /\ State.w = waits
           /\ overlay \in Overlays /\ OverlayInv(State.q, overlay)
           /\ ClearedInv(cleared, overlay)
<1>1. State = [q |-> State.q, w |-> State.w] /\ State.q = queue /\ State.w = waits
  BY DEF State
<1>2. Good(State)
  BY <1>1 DEF Good, IndInv
<1> QED BY <1>1, <1>2, GoodIsTyped DEF IndInv

LEMMA Becoming ==
    ASSUME NEW s, Becomes(s), Good(s), NEW o, OverlayInv(s.q, o), overlay' = o
    PROVE  QueueInv(queue, waits)' /\ OverlayInv(queue, overlay)'
BY DEF Becomes, Good

\* "Clear" and "Undo clear" leave a queue that is configured for the overlay, or stopped.
LEMMA Clears ==
    ASSUME IndInv
    PROVE  /\ Idle(ClearedState(State))
           /\ ~overlay.suspended => ClearedState(State).q.bandsOf = overlay.runtime
<1>1. Idle(QueueStop(State)) /\ Typed(QueueStop(State))
  BY StateIsGood, QueueStops DEF Idle
<1>2. overlay.runtime \in 0 .. MaxRuntime
  BY StateIsGood DEF Overlays
<1>3. /\ Idle(QueueConfigure(QueueStop(State), overlay.runtime))
      /\ QueueConfigure(QueueStop(State), overlay.runtime).q.bandsOf = overlay.runtime
  BY <1>1, <1>2, QueueConfigures
<1> QED BY <1>1, <1>3 DEF ClearedState

-----------------------------------------------------------------------------
(* The calls of the frame loop and of the toolbar.                         *)

LEMMA Calls ==
    ASSUME IndInv, Call
    PROVE  calls' \in 0 .. MaxCalls /\ calls + 1 \in 0 .. MaxCalls
BY ChromaticAssumption DEF Call, IndInv

LEMMA Composes ==
    ASSUME IndInv, NEW works \in BOOLEAN, Compose(works)
    PROVE  IndInv'
<1>1. PICK runtime \in {overlay.runtime, overlay.runtime + 1} \cap 1 .. MaxRuntime,
           times \in Times \cup {NoTimes}, fixed \in BOOLEAN,
           outcome \in {"bands", "single", "throws"} :
             LET c == ConfigureOverlay(State, overlay, runtime, outcome)
                 asked == [times |-> times, fixed |-> fixed]
             IN  /\ overlay' = [c.o EXCEPT !.last = asked]
                 /\ Becomes(IF times # NoTimes /\ c.o.bands /\ ~c.o.suspended
                            THEN QueueRequest(c.s, asked, works) ELSE c.s)
  BY DEF Compose
<1> DEFINE c == ConfigureOverlay(State, overlay, runtime, outcome)
           asked == [times |-> times, fixed |-> fixed]
           o == [c.o EXCEPT !.last = asked]
           s == IF times # NoTimes /\ c.o.bands /\ ~c.o.suspended
                THEN QueueRequest(c.s, asked, works) ELSE c.s
<1>2. overlay' = o /\ Becomes(s)
  BY <1>1
<1>3. Configured(State, overlay, runtime, c)
  BY StateIsGood, OverlayConfigures
<1>4. asked \in Asked
  BY DEF Asked, SampleTimes
<1> HIDE DEF c, asked
<1>5. /\ o \in Overlays /\ o.runtime = c.o.runtime /\ o.bands = c.o.bands
      /\ o.suspended = c.o.suspended /\ o.series = c.o.series
  BY <1>3, <1>4 DEF Configured, Overlays
<1>6. Good(s) /\ OverlayInv(s.q, c.o)
  BY <1>3, <1>4, OverlayRequests DEF Configured
<1> HIDE DEF o, s
<1>7. OverlayInv(s.q, o)
  BY <1>5, <1>6 DEF OverlayInv
<1>8. QueueInv(queue, waits)' /\ OverlayInv(queue, overlay)'
  BY <1>2, <1>6, <1>7, Becoming
<1>9. ClearedInv(cleared, o)
  <2>1. overlay.runtime \in Nat /\ runtime \in Nat /\ overlay \in Overlays
    BY StateIsGood DEF Overlays
  <2>2. runtime = overlay.runtime \/ runtime = overlay.runtime + 1
    OBVIOUS
  <2>3. o.runtime = runtime /\ (runtime = overlay.runtime => o.bands = overlay.bands)
    BY <1>3, <1>5 DEF Configured
  <2>4. cleared # None => cleared.runtime \in Nat
    BY StateIsGood DEF ClearedInv, Snapshots
  <2> QED BY <2>1, <2>2, <2>3, <2>4, StateIsGood DEF ClearedInv
<1>10. calls' \in 0 .. MaxCalls /\ UNCHANGED <<cleared, disposed>>
  BY Calls DEF Compose
<1> QED BY <1>2, <1>5, <1>8, <1>9, <1>10 DEF IndInv

LEMMA ClearKeeps ==
    ASSUME IndInv, Clear
    PROVE  IndInv'
<1> DEFINE o == [overlay EXCEPT !.series = None, !.last = None]
           kept == [runtime |-> overlay.runtime, series |-> overlay.series, last |-> overlay.last]
           s == ClearedState(State)
<1>1. overlay' = o /\ cleared' = kept /\ Becomes(s) /\ UNCHANGED disposed
  BY DEF Clear
<1>2. /\ o \in Overlays /\ o.runtime = overlay.runtime /\ o.bands = overlay.bands
      /\ o.suspended = overlay.suspended /\ o.series = None
  BY StateIsGood DEF Overlays
<1>3. /\ kept \in Snapshots /\ kept.runtime = overlay.runtime /\ kept.series = overlay.series
      /\ overlay.runtime \in Nat
  BY StateIsGood DEF Overlays, Snapshots
<1>4. Idle(s) /\ (~overlay.suspended => s.q.bandsOf = overlay.runtime)
  BY Clears
<1> HIDE DEF o, kept, s
<1>5. OverlayInv(s.q, o)
  <2>1. overlay.bands => overlay.runtime >= 1
    BY StateIsGood DEF OverlayInv
  <2> QED BY <1>2, <1>4, <2>1, IdleFits
<1>6. QueueInv(queue, waits)' /\ OverlayInv(queue, overlay)'
  BY <1>1, <1>4, <1>5, IdleIsGood, Becoming
<1>7. ClearedInv(kept, o)
  BY <1>2, <1>3, StateIsGood DEF ClearedInv, OverlayInv
<1>8. calls' \in 0 .. MaxCalls
  BY Calls DEF Clear
<1> QED BY <1>1, <1>2, <1>6, <1>7, <1>8 DEF IndInv

LEMMA RestoreKeeps ==
    ASSUME IndInv, NEW works \in BOOLEAN, Restore(works)
    PROVE  IndInv'
<1>1. /\ cleared # None /\ cleared' = None /\ disposed' = disposed
      /\ calls' \in 0 .. MaxCalls
  BY Calls DEF Restore
<1>2. CASE cleared.runtime # overlay.runtime
  <2>1. UNCHANGED <<overlay, queue, waits>>
    BY <1>2 DEF Restore
  <2> QED BY <1>1, <2>1 DEF IndInv, ClearedInv
<1>3. CASE cleared.runtime = overlay.runtime
  <2> DEFINE o == [overlay EXCEPT !.series = cleared.series, !.last = cleared.last]
             idle == ClearedState(State)
             asks == cleared.last # None /\ ~overlay.suspended /\ overlay.bands
             s == IF asks THEN QueueRequest(idle, cleared.last, works) ELSE idle
  <2>1. overlay' = o /\ Becomes(s)
    BY <1>3 DEF Restore
  <2>2. cleared \in Snapshots
    BY <1>1, StateIsGood DEF ClearedInv
  <2>3. /\ o \in Overlays /\ o.runtime = overlay.runtime /\ o.bands = overlay.bands
        /\ o.suspended = overlay.suspended /\ o.series = cleared.series
    BY <2>2, StateIsGood DEF Overlays, Snapshots
  <2>4. cleared.last # None => cleared.last \in Asked
    BY <2>2 DEF Snapshots
  <2>5. Idle(idle) /\ (~overlay.suspended => idle.q.bandsOf = overlay.runtime)
    BY Clears
  <2> HIDE DEF o, idle
  <2>6. OverlayInv(idle.q, o)
    <3>1. overlay.bands => overlay.runtime >= 1
      BY StateIsGood DEF OverlayInv
    <3>2. cleared.series # None => cleared.series.of = overlay.runtime /\ overlay.bands
      BY <1>1, <1>3, StateIsGood DEF ClearedInv
    <3> QED BY <2>3, <2>5, <3>1, <3>2, IdleFits
  <2>7. Good(idle)
    BY <2>5, IdleIsGood
  <2>8. Good(s) /\ OverlayInv(s.q, o)
    BY <2>3, <2>4, <2>6, <2>7, OverlayRequests
  <2> HIDE DEF s
  <2>9. QueueInv(queue, waits)' /\ OverlayInv(queue, overlay)'
    BY <2>1, <2>8, Becoming
  <2> QED BY <1>1, <2>1, <2>3, <2>9 DEF IndInv, ClearedInv
<1> QED BY <1>2, <1>3

LEMMA SuspendKeeps ==
    ASSUME IndInv, NEW works \in BOOLEAN, Suspend(works)
    PROVE  IndInv'
<1> DEFINE o == [overlay EXCEPT !.suspended = ~@]
           idle == IF overlay.suspended THEN QueueConfigure(State, overlay.runtime)
                   ELSE QueueStop(State)
           asks == overlay.suspended /\ overlay.last # None /\ overlay.bands
           s == IF asks THEN QueueRequest(idle, overlay.last, works) ELSE idle
<1>1. overlay' = o /\ UNCHANGED <<cleared, disposed>> /\ calls' \in 0 .. MaxCalls
  BY Calls DEF Suspend
<1>2. Becomes(s)
  BY DEF Suspend
<1>3. /\ o \in Overlays /\ o.runtime = overlay.runtime /\ o.bands = overlay.bands
      /\ o.suspended = ~overlay.suspended /\ o.series = overlay.series
  BY StateIsGood DEF Overlays
<1>4. overlay.last # None => overlay.last \in Asked
  BY StateIsGood DEF Overlays
<1>5. Idle(idle) /\ (overlay.suspended => idle.q.bandsOf = overlay.runtime)
  <2>1. overlay.runtime \in 0 .. MaxRuntime
    BY StateIsGood DEF Overlays
  <2>2. /\ Idle(QueueConfigure(State, overlay.runtime))
        /\ QueueConfigure(State, overlay.runtime).q.bandsOf = overlay.runtime
    BY <2>1, StateIsGood, QueueConfigures
  <2>3. Idle(QueueStop(State))
    BY StateIsGood, QueueStops
  <2> QED BY <2>2, <2>3
<1> HIDE DEF o, idle
<1>6. OverlayInv(idle.q, o)
  <2>1. /\ overlay.bands => overlay.runtime >= 1
        /\ overlay.series # None => overlay.series.of = overlay.runtime /\ overlay.bands
    BY StateIsGood DEF OverlayInv
  <2> QED BY <1>3, <1>5, <2>1, IdleFits
<1>7. Good(idle)
  BY <1>5, IdleIsGood
<1>8. Good(s) /\ OverlayInv(s.q, o)
  BY <1>3, <1>4, <1>6, <1>7, OverlayRequests
<1> HIDE DEF s
<1>9. QueueInv(queue, waits)' /\ OverlayInv(queue, overlay)'
  BY <1>1, <1>2, <1>8, Becoming
<1>10. ClearedInv(cleared, o)
  BY <1>3, StateIsGood DEF ClearedInv
<1> QED BY <1>1, <1>3, <1>9, <1>10 DEF IndInv

LEMMA DisposeKeeps ==
    ASSUME IndInv, Dispose
    PROVE  IndInv'
<1> DEFINE s == QueueStop(State)
<1>1. /\ disposed' = TRUE /\ Becomes(s) /\ UNCHANGED <<overlay, cleared, calls>>
  BY DEF Dispose
<1>2. Idle(s) /\ s.q.bandsOf = State.q.bandsOf
  BY StateIsGood, QueueStops
<1> HIDE DEF s
<1>3. OverlayInv(s.q, overlay)
  BY <1>2, StateIsGood DEF OverlayInv, Idle
<1>4. QueueInv(queue, waits)' /\ OverlayInv(queue, overlay)'
  BY <1>1, <1>2, <1>3, IdleIsGood, Becoming
<1> QED BY <1>1, <1>4 DEF IndInv

-----------------------------------------------------------------------------
(* The asynchronous part.                                                  *)

LEMMA TailOfTwo ==
    ASSUME NEW S, NEW first \in S, NEW second \in S
    PROVE  Tail(<<first, second>>) = <<second>>
<1> DEFINE s == Tail(<<first, second>>)
           t == <<second>>
<1>1. s \in Seq(S) /\ t \in Seq(S)
  OBVIOUS
<1>2. Len(s) = 1 /\ Len(t) = 1
  OBVIOUS
<1>3. s[1] = t[1]
  OBVIOUS
<1> HIDE DEF s, t
<1>4. s = t
  BY <1>1, <1>2, <1>3, SeqEqual
<1> QED BY <1>4 DEF s, t

LEMMA InvParts ==
    ASSUME IndInv
    PROVE  /\ queue \in Queues /\ IdsInv(queue, waits) /\ ActiveInv(queue, waits)
           /\ WorkerInv(queue) /\ AnswerInv(queue, waits)
BY DEF IndInv, QueueInv

\* A step that leaves the overlay alone and asks the queue for nothing new.
LEMMA QueueSteps ==
    ASSUME IndInv, UNCHANGED <<overlay, cleared, disposed, calls>>, NEW q, NEW ws,
           queue' = q, waits' = ws, QueueInv(q, ws), q.bandsOf = queue.bandsOf,
           q.active # None \/ q.pending # None => queue.active # None \/ queue.pending # None
    PROVE  IndInv'
BY DEF IndInv, OverlayInv

LEMMA CoolKeeps ==
    ASSUME IndInv, Cool
    PROVE  IndInv'
<1> DEFINE q == [queue EXCEPT !.hot = FALSE]
<1>1. queue' = q /\ waits' = waits /\ UNCHANGED <<overlay, cleared, disposed, calls>>
  BY DEF Cool
<1>2. /\ q \in Queues /\ q.requestId = queue.requestId /\ q.active = queue.active
      /\ q.pending = queue.pending /\ q.timer = queue.timer /\ q.stopped = queue.stopped
      /\ q.failed = queue.failed /\ q.bandsOf = queue.bandsOf
      /\ q.adapterGen = queue.adapterGen /\ q.generation = queue.generation
      /\ q.worker = queue.worker /\ q.reject = queue.reject
  BY InvParts DEF Queues
<1> HIDE DEF q
<1>3. IdsInv(q, waits) /\ ActiveInv(q, waits)
  BY <1>2, InvParts DEF IdsInv, ActiveInv
<1>4. WorkerInv(q)
  BY <1>2, InvParts DEF WorkerInv, ConfigureOf
<1>5. AnswerInv(q, waits)
  BY <1>2, InvParts DEF AnswerInv
<1>6. QueueInv(q, waits)
  BY <1>2, <1>3, <1>4, <1>5 DEF QueueInv
<1> QED BY <1>1, <1>2, <1>6, QueueSteps

LEMMA TimerKeeps ==
    ASSUME IndInv, NEW works \in BOOLEAN, TimerFires(works)
    PROVE  IndInv'
<1> DEFINE q == [queue EXCEPT !.timer = FALSE]
           s == [q |-> q, w |-> waits]
           t == Drain(s, works)
<1>1. Becomes(t) /\ UNCHANGED <<overlay, cleared, disposed, calls>>
  <2>1. [State EXCEPT !.q.timer = FALSE] = s
    <3>1. State = [q |-> queue, w |-> waits] /\ State.q = queue
      BY DEF State
    <3>2. [State EXCEPT !.q = q] = s
      <4> HIDE DEF q
      <4> QED BY <3>1
    <3> QED BY <3>1, <3>2
  <2> HIDE DEF s
  <2> QED BY <2>1 DEF TimerFires
<1>2. /\ q \in Queues /\ q.requestId = queue.requestId /\ q.active = queue.active
      /\ q.pending = queue.pending /\ ~q.timer /\ q.stopped = queue.stopped
      /\ q.failed = queue.failed /\ q.bandsOf = queue.bandsOf
      /\ q.adapterGen = queue.adapterGen /\ q.generation = queue.generation
      /\ q.worker = queue.worker /\ q.reject = queue.reject
  BY InvParts DEF Queues
<1> HIDE DEF q
<1>3. IdsInv(q, waits) /\ ActiveInv(q, waits)
  BY <1>2, InvParts DEF IdsInv, ActiveInv
<1>4. WorkerInv(q)
  BY <1>2, InvParts DEF WorkerInv, ConfigureOf
<1>5. AnswerInv(q, waits)
  BY <1>2, InvParts DEF AnswerInv
<1>6. Good(s) /\ s.q = q
  BY <1>2, <1>3, <1>4, <1>5 DEF Good, QueueInv
<1> HIDE DEF s
<1>7. Serves(s, t)
  BY <1>6, Drains
<1> HIDE DEF t
<1>8. /\ QueueInv(t.q, t.w) /\ t.q.bandsOf = queue.bandsOf
      /\ t.q.active # None \/ t.q.pending # None => queue.active # None \/ queue.pending # None
  BY <1>2, <1>6, <1>7 DEF Serves, Good
<1>9. queue' = t.q /\ waits' = t.w
  BY <1>1 DEF Becomes
<1> QED BY <1>1, <1>8, <1>9, QueueSteps

\* What may change of the worker while it serves the active request.
LEMMA WorkerSteps ==
    ASSUME IndInv, NEW worker \in Workers, queue.active # None,
           queue.worker.inbox # <<>>, ~queue.stopped, ~queue.failed,
           worker.inbox # <<>> =>
             /\ worker.inbox = <<SampleOf(queue.active)>>
             /\ worker.outbox = <<>>,
           worker.outbox # <<>> =>
             worker.outbox \in {<<ReplyTo(queue.active, answer)>> :
                                   answer \in {None, AnswerOf(queue.active)}},
           worker.handler = queue.worker.handler
    PROVE  QueueInv([queue EXCEPT !.worker = worker], waits)
<1> DEFINE q == [queue EXCEPT !.worker = worker]
<1>2. /\ q \in Queues /\ q.requestId = queue.requestId /\ q.active = queue.active
      /\ q.pending = queue.pending /\ q.timer = queue.timer /\ q.stopped = queue.stopped
      /\ q.failed = queue.failed /\ q.bandsOf = queue.bandsOf
      /\ q.adapterGen = queue.adapterGen /\ q.generation = queue.generation
      /\ q.worker = worker /\ q.reject = queue.reject
  BY InvParts DEF Queues
<1> HIDE DEF q
<1>3. IdsInv(q, waits) /\ ActiveInv(q, waits)
  BY <1>2, InvParts DEF IdsInv, ActiveInv
<1>4. worker.handler = queue.active.id
  BY InvParts DEF WorkerInv
<1>5. WorkerInv(q)
  BY <1>2, <1>4, InvParts DEF WorkerInv
<1>6. AnswerInv(q, waits)
  <2>1. \A w \in waits : w.request = queue.active => w.result \in {Waiting, Rejected}
    BY InvParts DEF AnswerInv
  <2> QED BY <1>2, <2>1 DEF AnswerInv
<1> QED BY <1>2, <1>3, <1>5, <1>6 DEF QueueInv, q

LEMMA HandlesKeeps ==
    ASSUME IndInv, NEW works \in BOOLEAN, WorkerHandles(works)
    PROVE  IndInv'
<1> DEFINE worker == queue.worker
           active == queue.active
           message == Head(worker.inbox)
           rest == [worker EXCEPT !.inbox = Tail(@)]
           answer == IF works /\ worker.ok
                     THEN [of |-> message.request.of, times |-> message.request.times] ELSE None
           reply == [gen |-> message.request.gen, id |-> message.request.id, answer |-> answer]
           next == IF message.kind = "configure" THEN [rest EXCEPT !.gen = message.gen, !.ok = works]
                   ELSE IF message.request.gen # worker.gen THEN rest
                   ELSE [rest EXCEPT !.outbox = Append(@, reply)]
<1>1. /\ queue' = [queue EXCEPT !.worker = next] /\ waits' = waits
      /\ UNCHANGED <<overlay, cleared, disposed, calls>>
  BY DEF WorkerHandles
<1>2. worker.inbox # <<>>
  BY DEF WorkerHandles, None
<1>3. /\ active # None /\ worker.outbox = <<>>
      /\ worker.inbox \in {<<SampleOf(active)>>, <<ConfigureOf(queue), SampleOf(active)>>}
  BY <1>2, InvParts DEF WorkerInv
<1>4. /\ worker \in Workers /\ active \in Request /\ ~queue.stopped /\ ~queue.failed
      /\ queue.adapterGen \in Nat /\ queue \in Queues
  BY <1>3, InvParts DEF Queues, ActiveInv
<1>5. SampleOf(active) \in Messages /\ ConfigureOf(queue) \in Messages
  BY <1>4 DEF SampleOf, ConfigureOf, Messages, Queues
<1>8. QueueInv([queue EXCEPT !.worker = next], waits) => IndInv'
  <2> HIDE DEF next
  <2> DEFINE q == [queue EXCEPT !.worker = next]
  <2>1. q.bandsOf = queue.bandsOf /\ q.active = queue.active /\ q.pending = queue.pending
    BY <1>4 DEF Queues
  <2> HIDE DEF q
  <2> SUFFICES ASSUME QueueInv(q, waits) PROVE IndInv'
    BY DEF q
  <2>2. queue' = q
    BY <1>1 DEF q
  <2> QED BY <1>1, <2>1, <2>2, QueueSteps
<1>6. CASE worker.inbox = <<ConfigureOf(queue), SampleOf(active)>>
  <2>1. message = ConfigureOf(queue) /\ Tail(worker.inbox) = <<SampleOf(active)>>
    BY <1>5, <1>6, TailOfTwo
  <2>2. message.kind = "configure" /\ message.gen = queue.adapterGen
    BY <2>1 DEF ConfigureOf
  <2>3. next = [rest EXCEPT !.gen = message.gen, !.ok = works]
    BY <2>2
  <2>4. <<SampleOf(active)>> \in Seq(Messages) /\ <<SampleOf(active)>> # <<>>
    BY <1>5
  <2>5. /\ rest \in Workers /\ rest.inbox = <<SampleOf(active)>> /\ rest.outbox = <<>>
        /\ rest.handler = worker.handler
    BY <1>3, <1>4, <2>1, <2>4 DEF Workers
  <2> HIDE DEF rest, message, next
  <2>6. /\ next \in Workers /\ next.inbox = <<SampleOf(active)>> /\ next.outbox = <<>>
        /\ next.handler = worker.handler
    BY <1>4, <2>2, <2>3, <2>5 DEF Workers
  <2> QED BY <1>2, <1>3, <1>4, <1>8, <2>6, WorkerSteps
<1>7. CASE worker.inbox = <<SampleOf(active)>>
  <2>1. message = SampleOf(active) /\ Tail(worker.inbox) = <<>>
    BY <1>5, <1>7
  <2>2. message.kind = "sample" /\ message.request = active
    BY <2>1 DEF SampleOf
  <2>3. /\ rest \in Workers /\ rest.inbox = <<>> /\ rest.outbox = <<>>
        /\ rest.handler = worker.handler
    <3> DEFINE tail == Tail(worker.inbox)
    <3>1. rest = [worker EXCEPT !.inbox = tail]
      OBVIOUS
    <3>2. tail = <<>> /\ tail \in Seq(Messages)
      <4>1. <<>> \in Seq(Messages)
        OBVIOUS
      <4>2. tail = <<>>
        BY <2>1
      <4> QED BY <4>1, <4>2
    <3> HIDE DEF rest, message, tail
    <3> QED BY <1>3, <1>4, <3>1, <3>2 DEF Workers
  <2>4. answer \in {None, AnswerOf(active)}
    BY <2>2 DEF AnswerOf
  <2> HIDE DEF rest, message, answer
  <2>5. reply = ReplyTo(active, answer)
    BY <2>2 DEF ReplyTo
  <2>6. reply \in Replies
    <3>1. active.gen \in Nat /\ active.id \in Nat
      BY <1>4 DEF Request
    <3>2. answer \in Series \cup {None}
      BY <1>4, <2>4, AnswerIsSeries
    <3> QED BY <3>1, <3>2, <2>5 DEF Replies, ReplyTo
  <2> HIDE DEF reply
  <2>7. CASE message.request.gen # worker.gen
    <3>1. next = rest
      BY <2>2, <2>7
    <3> HIDE DEF next
    <3> QED BY <1>2, <1>3, <1>4, <1>8, <2>3, <3>1, WorkerSteps
  <2>8. CASE message.request.gen = worker.gen
    <3>1. next = [rest EXCEPT !.outbox = Append(@, reply)]
      BY <2>2, <2>8
    <3>2. Append(rest.outbox, reply) = <<reply>> /\ <<reply>> \in Seq(Replies)
      BY <2>3, <2>6
    <3> HIDE DEF next
    <3>3. /\ next \in Workers /\ next.inbox = <<>> /\ next.outbox = <<reply>>
          /\ next.handler = worker.handler
      BY <2>3, <3>1, <3>2 DEF Workers
    <3> QED BY <1>2, <1>3, <1>4, <1>8, <2>4, <2>5, <3>3, WorkerSteps
  <2> QED BY <2>7, <2>8
<1> QED BY <1>3, <1>6, <1>7

LEMMA AnswersKeeps ==
    ASSUME IndInv, WorkerAnswers
    PROVE  IndInv'
<1> DEFINE worker == queue.worker
           active == queue.active
           reply == Head(worker.outbox)
           tail == Tail(worker.outbox)
           used == [worker EXCEPT !.outbox = tail]
           q == [queue EXCEPT !.reject = 0, !.worker = used]
           result == IF reply.answer = None THEN Rejected ELSE Resolved(reply)
           ws == Settle(waits, worker.handler, result)
<1>1. /\ worker.outbox # <<>> /\ waits' = ws
      /\ UNCHANGED <<overlay, cleared, disposed, calls>>
  BY DEF WorkerAnswers, Becomes, None
<1>2. queue' = q
  <2>1. queue' = [queue EXCEPT !.reject = 0, !.worker.outbox = Tail(@)]
    BY DEF WorkerAnswers, Becomes
  <2>2. [queue EXCEPT !.reject = 0, !.worker.outbox = Tail(@)] = q
    BY InvParts DEF Queues
  <2> QED BY <2>1, <2>2
<1>3. /\ active # None /\ worker.handler = active.id /\ worker.inbox = <<>>
      /\ worker.outbox \in {<<ReplyTo(active, answer)>> : answer \in {None, AnswerOf(active)}}
  BY <1>1, InvParts DEF WorkerInv
<1>4. queue \in Queues /\ worker \in Workers /\ active \in Request
  BY <1>3, InvParts DEF Queues
<1>5. PICK answer \in {None, AnswerOf(active)} : worker.outbox = <<ReplyTo(active, answer)>>
  BY <1>3
<1>6. reply = ReplyTo(active, answer) /\ tail = <<>>
  <2>1. ReplyTo(active, answer) \in Replies
    <3>1. active.gen \in Nat /\ active.id \in Nat
      BY <1>4 DEF Request
    <3>2. answer \in Series \cup {None}
      BY <1>4, AnswerIsSeries
    <3> QED BY <3>1, <3>2 DEF Replies, ReplyTo
  <2> QED BY <1>5, <2>1
<1>7. result \in {Rejected, Resolved(ReplyTo(active, AnswerOf(active)))}
  <2>1. reply.answer = answer
    BY <1>6 DEF ReplyTo
  <2> HIDE DEF reply
  <2> QED BY <1>6, <2>1
<1>8. <<>> \in Seq(Replies)
  OBVIOUS
<1> HIDE DEF tail, reply, result
<1>9. used \in Workers /\ used.inbox = <<>> /\ used.outbox = <<>>
  BY <1>3, <1>4, <1>6, <1>8 DEF Workers
<1> HIDE DEF used
<1>10. /\ q \in Queues /\ q.requestId = queue.requestId /\ q.active = queue.active
       /\ q.pending = queue.pending /\ q.timer = queue.timer /\ q.stopped = queue.stopped
       /\ q.failed = queue.failed /\ q.bandsOf = queue.bandsOf
       /\ q.adapterGen = queue.adapterGen /\ q.generation = queue.generation
       /\ q.worker = used /\ q.reject = 0
  BY <1>4, <1>9 DEF Queues
<1> HIDE DEF q
<1>11. PICK caller \in waits : caller.request = active
  BY <1>3, InvParts DEF ActiveInv
<1>12. \A w \in waits : w.request.id = worker.handler =>
          result \in {Rejected, Resolved(ReplyTo(w.request, AnswerOf(w.request)))}
  <2>1. \A w \in waits : w.request.id = worker.handler => w.request = active
    BY <1>3, <1>11, InvParts DEF IdsInv
  <2> QED BY <1>7, <2>1
<1>13. /\ IdsInv(queue, ws)
       /\ \A w \in waits : \E v \in ws : v.request = w.request
  BY <1>4, <1>12, InvParts, Settles
<1> HIDE DEF ws
<1>14. IdsInv(q, ws)
  BY <1>10, <1>13 DEF IdsInv
<1>15. ActiveInv(q, ws)
  BY <1>10, <1>13, InvParts DEF ActiveInv
<1>16. WorkerInv(q)
  <2>1. ~queue.stopped /\ ~queue.failed
    BY <1>3, InvParts DEF ActiveInv
  <2> QED BY <1>9, <1>10, <2>1 DEF WorkerInv
<1>17. AnswerInv(q, ws)
  BY <1>9, <1>10 DEF AnswerInv
<1>18. QueueInv(q, ws)
  BY <1>10, <1>14, <1>15, <1>16, <1>17 DEF QueueInv
<1> QED BY <1>1, <1>2, <1>10, <1>18, QueueSteps

LEMMA FailsKeeps ==
    ASSUME IndInv, WorkerFails
    PROVE  IndInv'
<1> DEFINE ws == Settle(waits, queue.worker.handler, Rejected)
<1>1. waits' = ws /\ UNCHANGED <<overlay, cleared, queue, disposed, calls>>
  BY DEF WorkerFails
<1>2. /\ IdsInv(queue, ws)
      /\ \A w \in waits : \E v \in ws : v.request = w.request
      /\ \A v \in ws : \E w \in waits : /\ v.request = w.request
                                        /\ v = w \/ v.result = Rejected
  BY InvParts, Settles
<1> HIDE DEF ws
<1>3. ActiveInv(queue, ws)
  BY <1>2, InvParts DEF ActiveInv
<1>4. AnswerInv(queue, ws)
  BY <1>2, InvParts DEF AnswerInv
<1>5. QueueInv(queue, ws)
  BY <1>2, <1>3, <1>4, InvParts DEF QueueInv
<1> QED BY <1>1, <1>5, QueueSteps

\* A call that is not the active one ends and leaves the queue as it is.
LEMMA StaleEnds ==
    ASSUME IndInv, NEW w \in waits, queue.active # w.request
    PROVE  QueueInv(queue, waits \ {w})
<1>1. IdsInv(queue, waits \ {w}) /\ AnswerInv(queue, waits \ {w})
  BY InvParts DEF IdsInv, AnswerInv
<1>2. ActiveInv(queue, waits \ {w})
  BY InvParts DEF ActiveInv
<1> QED BY <1>1, <1>2, InvParts DEF QueueInv

\* The active call has its answer: the queue is ready for the next.
LEMMA AnsweredEnds ==
    ASSUME IndInv, NEW w \in waits, queue.active = w.request,
           w.result \notin {Waiting, Rejected}
    PROVE  Good([q |-> [queue EXCEPT !.active = None], w |-> waits \ {w}])
<1> DEFINE q == [queue EXCEPT !.active = None]
           ws == waits \ {w}
<1>1. /\ q \in Queues /\ q.requestId = queue.requestId /\ q.active = None
      /\ q.pending = queue.pending /\ q.timer = queue.timer /\ q.stopped = queue.stopped
      /\ q.failed = queue.failed /\ q.bandsOf = queue.bandsOf
      /\ q.adapterGen = queue.adapterGen /\ q.generation = queue.generation
      /\ q.worker = queue.worker /\ q.reject = queue.reject
  BY InvParts DEF Queues
<1> HIDE DEF q
<1>2. q.worker.inbox = <<>> /\ q.worker.outbox = <<>> /\ q.reject = 0
  BY <1>1, InvParts DEF AnswerInv
<1>3. IdsInv(q, ws)
  BY <1>1, InvParts DEF IdsInv
<1>4. ActiveInv(q, ws)
  BY <1>1, InvParts DEF ActiveInv
<1>5. WorkerInv(q)
  BY <1>1, <1>2, InvParts DEF WorkerInv
<1>6. AnswerInv(q, ws)
  BY <1>2 DEF AnswerInv
<1> QED BY <1>1, <1>3, <1>4, <1>5, <1>6 DEF Good, QueueInv, q

\* The active call failed: its worker is stopped and nothing is asked any more.
LEMMA FailedEnds ==
    ASSUME IndInv, NEW w \in waits, queue.active = w.request
    PROVE  LET done == Fail([q |-> queue, w |-> waits \ {w}])
               s == [done EXCEPT !.q.active = None]
           IN  Good(s) /\ s.q.bandsOf = queue.bandsOf /\ s.q.active = None /\ s.q.pending = None
<1> DEFINE left == [q |-> queue, w |-> waits \ {w}]
           b == [queue EXCEPT !.failed = TRUE, !.pending = None]
           t == [q |-> b, w |-> waits \ {w}]
           done == SamplerStop(t)
           q == [done.q EXCEPT !.active = None]
           s == [done EXCEPT !.q.active = None]
<1>1. Fail(left) = done
  <2>1. [left EXCEPT !.q = [@ EXCEPT !.failed = TRUE, !.pending = None]] = t
    <3> HIDE DEF b
    <3>1. [left EXCEPT !.q = b] = t
      OBVIOUS
    <3> QED BY <3>1 DEF b
  <2> HIDE DEF left, t
  <2> QED BY <2>1 DEF Fail
<1>2. /\ b \in Queues /\ b.requestId = queue.requestId /\ b.pending = None
      /\ b.stopped = queue.stopped /\ b.bandsOf = queue.bandsOf
      /\ b.adapterGen = queue.adapterGen /\ b.generation = queue.generation
  BY InvParts DEF Queues
<1> HIDE DEF b
<1>3. Typed(t)
  BY <1>2, InvParts DEF Typed, IdsInv
<1>4. t.q = b
  OBVIOUS
<1> HIDE DEF t
<1>5. Typed(done) /\ done.q = [b EXCEPT !.worker = NoWorker, !.reject = 0]
  BY <1>3, <1>4, SamplerStops
<1> HIDE DEF done
<1>6. s = [q |-> q, w |-> done.w]
  <2>1. done = [q |-> done.q, w |-> done.w]
    BY <1>5 DEF Typed
  <2> QED BY <2>1
<1>7. /\ done.q \in Queues /\ done.q.requestId = queue.requestId /\ done.q.pending = None
      /\ done.q.stopped = queue.stopped /\ done.q.bandsOf = queue.bandsOf
      /\ done.q.adapterGen = queue.adapterGen /\ done.q.generation = queue.generation
      /\ done.q.worker = NoWorker /\ done.q.reject = 0
  <2>1. done.q \in Queues
    BY <1>5 DEF Typed
  <2> QED BY <1>2, <1>5, <2>1 DEF Queues
<1>8. /\ q \in Queues /\ q.requestId = queue.requestId /\ q.pending = None /\ q.active = None
      /\ q.stopped = queue.stopped /\ q.bandsOf = queue.bandsOf
      /\ q.adapterGen = queue.adapterGen /\ q.generation = queue.generation
      /\ q.worker = NoWorker /\ q.reject = 0
  BY <1>7 DEF Queues
<1> HIDE DEF q, s
<1>9. s.q = q /\ s.w = done.w /\ s = [q |-> s.q, w |-> s.w]
  BY <1>6
<1>10. IdsInv(q, done.w)
  BY <1>5, <1>7, <1>8 DEF Typed, IdsInv
<1>11. ~queue.stopped => queue.adapterGen = queue.generation
  BY InvParts DEF ActiveInv
<1>12. Idle(s)
  BY <1>8, <1>9, <1>10, <1>11 DEF Idle, Typed
<1>13. Good(s) /\ s.q.bandsOf = queue.bandsOf /\ s.q.active = None /\ s.q.pending = None
  BY <1>8, <1>9, <1>12, IdleIsGood
<1> QED BY <1>1, <1>13 DEF s, left

LEMMA ResumeKeeps ==
    ASSUME IndInv, NEW w \in waits, NEW works \in BOOLEAN, Resume(w, works)
    PROVE  IndInv'
<1> DEFINE left == [q |-> queue, w |-> waits \ {w}]
           current == queue.active = w.request
           reply == w.result[2]
           answered == /\ w.result # Rejected
                       /\ reply.gen = queue.generation /\ reply.id = w.request.id
           done == IF answered THEN left ELSE Fail(left)
           s == [done EXCEPT !.q.active = None]
           t == Drain(s, works)
<1>1. /\ w.result # Waiting /\ UNCHANGED <<cleared, disposed, calls>>
      /\ Becomes(IF current THEN t ELSE left)
      /\ overlay' = IF current /\ answered THEN [overlay EXCEPT !.series = reply.answer] ELSE overlay
  BY DEF Resume
<1>2. w.request \in Request /\ w.request # None /\ IsWait(w)
  BY InvParts, NoneIsNoRecord DEF IdsInv, IsWait
<1>3. CASE ~current
  <2>1. queue' = queue /\ waits' = waits \ {w} /\ overlay' = overlay
    BY <1>1, <1>3 DEF Becomes
  <2>2. QueueInv(queue, waits \ {w})
    BY <1>3, StaleEnds
  <2> QED BY <1>1, <2>1, <2>2, QueueSteps
<1>4. CASE current
  <2>1. /\ Good(s) /\ s.q.bandsOf = queue.bandsOf /\ s.q.active = None
        /\ s.q.pending # None => queue.pending # None
    <3>1. CASE answered
      <4>1. w.result \notin {Waiting, Rejected}
        BY <1>1, <3>1
      <4>2. s = [q |-> [queue EXCEPT !.active = None], w |-> waits \ {w}]
        <5>1. done = left
          BY <3>1
        <5>2. [left EXCEPT !.q.active = None]
                = [q |-> [queue EXCEPT !.active = None], w |-> waits \ {w}]
          OBVIOUS
        <5> HIDE DEF done, left
        <5> QED BY <5>1, <5>2
      <4>3. Good(s)
        BY <1>4, <4>1, <4>2, AnsweredEnds
      <4>4. s.q = [queue EXCEPT !.active = None]
        BY <4>2
      <4> HIDE DEF s
      <4>5. s.q.bandsOf = queue.bandsOf /\ s.q.active = None /\ s.q.pending = queue.pending
        BY <4>4, InvParts DEF Queues
      <4> QED BY <4>3, <4>5
    <3>2. CASE ~answered
      <4>1. done = Fail(left)
        BY <3>2
      <4> HIDE DEF answered
      <4> QED BY <1>4, <4>1, FailedEnds
    <3> QED BY <3>1, <3>2
  <2>2. queue' = t.q /\ waits' = t.w
    BY <1>1, <1>4 DEF Becomes
  <2> HIDE DEF s
  <2>3. Serves(s, t)
    BY <2>1, Drains
  <2> HIDE DEF t
  <2>4. /\ QueueInv(t.q, t.w) /\ t.q.bandsOf = queue.bandsOf
        /\ t.q.active # None \/ t.q.pending # None => queue.active # None \/ queue.pending # None
    BY <2>1, <2>3 DEF Serves, Good
  <2>5. CASE ~answered
    <3>1. overlay' = overlay
      BY <1>1, <2>5
    <3> HIDE DEF answered
    <3> QED BY <1>1, <2>2, <2>4, <3>1, QueueSteps
  <2>6. CASE answered
    <3> DEFINE o == [overlay EXCEPT !.series = reply.answer]
    <3>1. overlay' = o
      BY <1>1, <1>4, <2>6
    <3>2. w.result = Resolved(ReplyTo(w.request, AnswerOf(w.request)))
      BY <1>1, <1>2, <2>6 DEF IsWait
    <3>3. reply.answer = AnswerOf(w.request)
      BY <3>2, ResultsDiffer DEF ReplyTo
    <3>4. AnswerOf(w.request) \in Series /\ AnswerOf(w.request).of = w.request.of
      BY <1>2, AnswerIsSeries DEF AnswerOf
    <3> HIDE DEF reply, answered
    <3>5. /\ o \in Overlays /\ o.runtime = overlay.runtime /\ o.bands = overlay.bands
          /\ o.suspended = overlay.suspended /\ o.series = AnswerOf(w.request)
      BY <3>3, <3>4, StateIsGood DEF Overlays
    <3> HIDE DEF o
    <3>6. /\ queue.active # None /\ w.request.of = queue.bandsOf
          /\ overlay.bands /\ queue.bandsOf = overlay.runtime
      BY <1>2, <1>4, InvParts, StateIsGood DEF ActiveInv, OverlayInv
    <3>7. OverlayInv(queue, overlay)
      BY StateIsGood
    <3>8. OverlayInv(t.q, o)
      BY <2>4, <3>4, <3>5, <3>6, <3>7 DEF OverlayInv
    <3>9. ClearedInv(cleared, o)
      BY <3>5, StateIsGood DEF ClearedInv
    <3> QED BY <1>1, <2>2, <2>4, <3>1, <3>5, <3>8, <3>9 DEF IndInv
  <2> QED BY <2>5, <2>6
<1> QED BY <1>3, <1>4

-----------------------------------------------------------------------------
(* The invariant and what follows from it.                                 *)

LEMMA InitInv ==
    ASSUME Init
    PROVE  IndInv
<1>1. queue \in Queues /\ overlay \in Overlays
  BY ChromaticAssumption, NoWorkerIsTyped DEF Init, Queues, Overlays
<1>2. /\ queue.active = None /\ queue.pending = None /\ queue.worker = NoWorker
      /\ queue.reject = 0 /\ ~queue.stopped /\ queue.adapterGen = queue.generation
      /\ waits = {} /\ cleared = None
      /\ ~overlay.bands /\ overlay.series = None
  BY DEF Init
<1>3. QueueInv(queue, waits)
  <2>1. IdsInv(queue, waits) /\ AnswerInv(queue, waits)
    BY <1>2 DEF IdsInv, AnswerInv
  <2>2. ActiveInv(queue, waits)
    BY <1>2 DEF ActiveInv
  <2>3. WorkerInv(queue)
    BY <1>2, NoWorkerIsTyped DEF WorkerInv
  <2> QED BY <1>1, <2>1, <2>2, <2>3 DEF QueueInv
<1>4. OverlayInv(queue, overlay) /\ ClearedInv(cleared, overlay)
  <2>1. OverlayInv(queue, overlay)
    BY <1>2 DEF OverlayInv
  <2>2. ClearedInv(cleared, overlay)
    BY <1>2 DEF ClearedInv
  <2> QED BY <2>1, <2>2
<1>5. calls \in 0 .. MaxCalls
  BY ChromaticAssumption DEF Init
<1>6. disposed \in BOOLEAN
  BY DEF Init
<1> QED BY <1>1, <1>3, <1>4, <1>5, <1>6 DEF IndInv

LEMMA StepInv ==
    ASSUME IndInv, [Next]_vars
    PROVE  IndInv'
<1>1. CASE UserNext
  BY <1>1, Composes, RestoreKeeps, SuspendKeeps, ClearKeeps, DisposeKeeps DEF UserNext
<1>2. CASE Cool
  BY <1>2, CoolKeeps
<1>3. CASE Timer
  BY <1>3, TimerKeeps DEF Timer
<1>4. CASE WorkerSide
  BY <1>4, HandlesKeeps DEF WorkerSide
<1>5. CASE WorkerAnswers
  BY <1>5, AnswersKeeps
<1>6. CASE WorkerFails
  BY <1>6, FailsKeeps
<1>7. CASE Continue
  BY <1>7, ResumeKeeps DEF Continue
<1>8. CASE UNCHANGED vars
  BY <1>8 DEF vars, IndInv
<1> QED BY <1>1, <1>2, <1>3, <1>4, <1>5, <1>6, <1>7, <1>8 DEF Next

LEMMA Invariance == Spec => []IndInv
<1>1. Init => IndInv
  BY InitInv
<1>2. IndInv /\ [Next]_vars => IndInv'
  BY StepInv
<1> QED BY <1>1, <1>2, PTL DEF Spec

\* The state is well typed, the queue is never busy and waiting for its timer
\* at once, and the active request always has a call of execute that will end it.
THEOREM TypeCorrect == Spec => []TypeOK
<1>1. IndInv => TypeOK
  <2> SUFFICES ASSUME IndInv PROVE TypeOK
    OBVIOUS
  <2>1. /\ overlay.runtime \in 0 .. MaxRuntime /\ overlay.bands \in BOOLEAN
        /\ calls \in 0 .. MaxCalls /\ disposed \in BOOLEAN
    BY DEF IndInv, Overlays
  <2>2. /\ queue.generation \in Nat /\ queue.requestId \in Nat
        /\ queue.active \in Request \cup {None}
    BY InvParts DEF Queues
  <2>3. \A w \in waits : w.request \in Request
    BY InvParts DEF IdsInv, IsWait
  <2>4. queue.active # None => ~queue.timer /\ \E w \in waits : w.request = queue.active
    BY InvParts DEF ActiveInv
  <2> QED BY <2>1, <2>2, <2>3, <2>4 DEF TypeOK
<1> QED BY <1>1, Invariance, PTL

\* The worker serves the active request and no other, in the generation it is
\* configured with; a stopped or failed queue has no worker.
THEOREM WorkerIsExclusive == Spec => []WorkerServesActive
<1>1. IndInv => WorkerServesActive
  <2> SUFFICES ASSUME IndInv PROVE WorkerServesActive
    OBVIOUS
  <2> DEFINE worker == queue.worker
             active == queue.active
             samples == {j \in DOMAIN worker.inbox : worker.inbox[j].kind = "sample"}
  <2>1. \A i \in samples : worker.inbox[i].request = active /\ active.gen = queue.adapterGen
    <3> SUFFICES ASSUME NEW i \in samples
                 PROVE  worker.inbox[i].request = active /\ active.gen = queue.adapterGen
      OBVIOUS
    <3>1. worker.inbox # <<>>
      OBVIOUS
    <3>2. /\ active # None
          /\ worker.inbox \in {<<SampleOf(active)>>, <<ConfigureOf(queue), SampleOf(active)>>}
      BY <3>1, InvParts DEF WorkerInv
    <3>3. active.gen = queue.adapterGen
      BY <3>2, InvParts DEF ActiveInv
    <3>4. SampleOf(active).request = active /\ ConfigureOf(queue).kind = "configure"
      BY DEF SampleOf, ConfigureOf
    <3>5. worker.inbox[i] \in {SampleOf(active), ConfigureOf(queue)}
      BY <3>2
    <3> QED BY <3>3, <3>4, <3>5
  <2>2. \A i \in DOMAIN worker.outbox : worker.outbox[i].id = active.id
    <3> SUFFICES ASSUME NEW i \in DOMAIN worker.outbox PROVE worker.outbox[i].id = active.id
      OBVIOUS
    <3>1. worker.outbox # <<>>
      OBVIOUS
    <3>2. worker.outbox \in {<<ReplyTo(active, answer)>> : answer \in {None, AnswerOf(active)}}
      BY <3>1, InvParts DEF WorkerInv
    <3>3. PICK answer : worker.outbox = <<ReplyTo(active, answer)>>
      BY <3>2
    <3>4. worker.outbox[i] = ReplyTo(active, answer)
      BY <3>3
    <3> QED BY <3>4 DEF ReplyTo
  <2>3. /\ queue.reject # 0 => queue.active # None /\ queue.active.id = queue.reject
        /\ queue.stopped \/ queue.failed => worker = NoWorker
    BY InvParts DEF WorkerInv
  <2> QED BY <2>1, <2>2, <2>3 DEF WorkerServesActive
<1> QED BY <1>1, Invariance, PTL

\* Band samples on the plot belong to the runtime the overlay is configured for.
THEOREM OverlayIsOfTheScenario == Spec => []ShownMatchesScenario
<1>1. IndInv => ShownMatchesScenario
  BY DEF IndInv, OverlayInv, ShownMatchesScenario
<1> QED BY <1>1, Invariance, PTL
=============================================================================
