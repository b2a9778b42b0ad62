------------------------------ MODULE OtaProofs ------------------------------
(***************************************************************************)
(* Proofs about firmware updates (OtaUpdate), for every set of targets,    *)
(* every number of chunks and uploads.                                     *)
(*                                                                         *)
(* The invariant says for each source the stage its upload is at: what is  *)
(* queued of its conversation with OtaModule (at most one request or       *)
(* answer), whether OtaModule's session is its own, and what has been      *)
(* written to the file that is open.  It holds because what a source sends *)
(* when it gives an upload up is queued before what it sends for the next. *)
(*                                                                         *)
(* Timely, below, keeps three faults out; each makes some of what is       *)
(* proved here false, as TLC shows.                                        *)
(***************************************************************************)
EXTENDS OtaUpdate, FiniteSetTheorems, TLAPS

-----------------------------------------------------------------------------
(* What is said of the inbox, as a set H of messages.                       *)

Held(q) == {q[i] : i \in DOMAIN q}

\* A request of s, or an answer to it.
Asks(x, s) ==
  \/ x.id \in {"StartRequest", "RequestDriver"} /\ x.source = s
  \/ x.id \in {"StartResponse", "DriverResponse"} /\ x.to = s

\* What s says when an upload of its is over.
Ends(x, s) == x.id \in {"AbortRequest", "CompleteNotify"} /\ x.source = s

Mine(H, s) == {x \in H : Asks(x, s) \/ Ends(x, s)}

Quiet(Q, s) == \A x \in Q : ~Asks(x, s)

\* x is what is queued of the conversation of s.
Sole(Q, s, x) == x \in Q /\ \A y \in Q : Asks(y, s) => y = x

\* x may be queued before y.
Before(x, y) ==
  \A s \in Sources :
    /\ ~(Asks(x, s) /\ Asks(y, s))
    /\ x.id = "StartRequest" /\ x.source = s /\ Ends(y, s) =>
         x.up <= y.up /\ (y.id = "CompleteNotify" => y.success = FALSE)

Ordered(q) == \A i, j \in DOMAIN q : i < j => Before(q[i], q[j])

-----------------------------------------------------------------------------
(* The parts of the invariant: q is the inbox, h the session, k the task,   *)
(* d the drivers, mt the targets meant, w the web server, m the MQTT module,*)
(* g the sources gone.                                                      *)

Image(u, n) == [i \in 1..n |-> <<u, i>>]

WholeAt(d, t, u) == d[t].open = FALSE /\ d[t].image = Image(u, Chunks)

Own(h, s, u, st) == h.source = s /\ h.up = u /\ h.state = st

\* A request is for a later upload than the session's; an end is for no earlier one; a success
\* is that of the session, whose image is whole.
Fits(x, h, d, mt) ==
  /\ x.id = "StartRequest" =>
       /\ x.up \in DOMAIN mt /\ x.target = mt[x.up]
       /\ h.state # "idle" /\ h.source = x.source => h.up < x.up
  /\ x.id \in {"AbortRequest", "CompleteNotify"} =>
       /\ x.up \in DOMAIN mt
       /\ h.state # "idle" /\ h.source = x.source => h.up <= x.up
  /\ x.id = "CompleteNotify" /\ x.success = TRUE =>
       (h.state # "idle" /\ h.source = x.source =>
          /\ h.up = x.up /\ h.state \in {"active", "complete"}
          /\ WholeAt(d, mt[x.up], x.up))

Mail(H, h, d, mt) == \A x \in H : Fits(x, h, d, mt)

SessOK(h, d, mt) ==
  /\ h.state # "idle" => h.up \in DOMAIN mt /\ h.target = mt[h.up]
  /\ h.state = "complete" => WholeAt(d, h.target, h.up)

WebWrites(w, u, t, im) ==
  /\ w.busy = TRUE /\ w.up = u /\ w.pc \in {"idle", "append"}
  /\ w.driver = t /\ im = Image(u, w.seq)

MqttWrites(m, k, u, t, im) ==
  /\ m.up = u /\ m.driver = t
  /\ \/ m.state = "active" /\ m.pc \in {"idle", "append"} /\ im = Image(u, m.offset)
     \/ m.state = "driver" /\ k = "opened" /\ im = Image(u, 0)

\* Only the target of the session is open, and its image is what the source has written so far.
Opens(d, h, w, m, k) ==
  \A t \in Targets : d[t].open = TRUE =>
    /\ h.state = "active" /\ h.target = t
    /\ h.source = "web" => WebWrites(w, h.up, t, d[t].image)
    /\ h.source = "mqtt" => MqttWrites(m, k, h.up, t, d[t].image)

\* A file that is not open is cut, absent or whole.
Left(d, mt) ==
  \A t \in Targets : \/ d[t].open = TRUE \/ d[t].cut = TRUE \/ d[t].image = <<>>
                     \/ \E u \in DOMAIN mt : d[t].image = Image(u, Chunks)

-----------------------------------------------------------------------------
(* The stages of the web server's upload.                                   *)

NoSems(w) == w.startSem = FALSE /\ w.driverSem = FALSE

Fresh(w) == w.seq = 0 /\ w.next = 0

WebAsks(w, Q, h, mt) ==
  /\ w.pc = "start" /\ w.driverSem = FALSE /\ Fresh(w)
  /\ \/ w.startSem = FALSE /\ Sole(Q, "web", StartRequest("web", mt[w.up], w.up))
     \/ w.startSem = FALSE /\ Sole(Q, "web", StartResponse("web", FALSE))
     \/ /\ w.startSem = FALSE /\ Sole(Q, "web", StartResponse("web", TRUE))
        /\ Own(h, "web", w.up, "pending")
     \/ /\ w.startSem = TRUE /\ Quiet(Q, "web")
        /\ w.granted = TRUE => Own(h, "web", w.up, "pending")

WebKnows(w, Q, h) ==
  /\ w.pc = "result" /\ NoSems(w) /\ Fresh(w) /\ Quiet(Q, "web")
  /\ w.granted = TRUE => Own(h, "web", w.up, "pending")

WebWaits(w, Q, h, mt) ==
  /\ w.pc = "driver" /\ w.startSem = FALSE /\ Fresh(w)
  /\ \/ /\ w.driverSem = FALSE /\ Sole(Q, "web", RequestDriver("web"))
        /\ Own(h, "web", w.up, "pending")
     \/ /\ w.driverSem = FALSE /\ Sole(Q, "web", DriverResponse("web", mt[w.up]))
        /\ Own(h, "web", w.up, "active")
     \/ /\ w.driverSem = TRUE /\ Quiet(Q, "web") /\ w.driver = mt[w.up]
        /\ Own(h, "web", w.up, "active")

WebOpens(w, Q, h, mt) ==
  /\ w.pc = "open" /\ NoSems(w) /\ Fresh(w) /\ Quiet(Q, "web") /\ w.driver = mt[w.up]
  /\ Own(h, "web", w.up, "active")

WebSends(w, Q, h, d, g, mt) ==
  /\ w.pc \in {"idle", "append"} /\ NoSems(w) /\ Quiet(Q, "web") /\ w.driver = mt[w.up]
  /\ w.seq = w.next \/ w.seq = w.next + 1
  /\ "web" \notin g => Own(h, "web", w.up, "active")
  /\ w.pc = "append" => d[w.driver].open = TRUE /\ w.seq = w.next /\ w.next < Chunks

WebCloses(w, Q, h, d, mt) ==
  /\ w.pc = "notify" /\ NoSems(w) /\ Quiet(Q, "web") /\ w.driver = mt[w.up]
  /\ Own(h, "web", w.up, "active")
  /\ w.closed = TRUE => WholeAt(d, w.driver, w.up)

WebFree(w, Q, g) ==
  w.busy = FALSE /\ w.pc = "idle" /\ NoSems(w) /\ Quiet(Q, "web") /\ "web" \notin g

WebBusy(w, Q, g, mt) ==
  /\ w.busy = TRUE /\ w.up \in DOMAIN mt
  /\ "web" \in g => w.pc = "idle"
  /\ \A x \in Q : Ends(x, "web") => x.up < w.up

WebInv(w, Q, h, d, g, mt) ==
  \/ WebFree(w, Q, g)
  \/ /\ WebBusy(w, Q, g, mt)
     /\ \/ WebAsks(w, Q, h, mt) \/ WebKnows(w, Q, h) \/ WebWaits(w, Q, h, mt)
        \/ WebOpens(w, Q, h, mt) \/ WebSends(w, Q, h, d, g, mt) \/ WebCloses(w, Q, h, d, mt)

-----------------------------------------------------------------------------
(* The stages of the MQTT module's upload.                                  *)

MqttFree(m, k) ==
  /\ m.state = "idle" /\ m.pc \in {"idle", "away"} /\ m.up = 0 /\ m.driver = None
  /\ m.done = FALSE /\ m.offset = 0 /\ k = "free"

MqttAsks(m, Q, h, k, mt) ==
  /\ m.state = "session" /\ m.pc = "idle" /\ m.driver = None /\ m.done = FALSE
  /\ \/ k = "free" /\ Sole(Q, "mqtt", StartRequest("mqtt", mt[m.up], m.up))
     \/ k = "free" /\ Sole(Q, "mqtt", StartResponse("mqtt", FALSE))
     \/ /\ k = "free" /\ Sole(Q, "mqtt", StartResponse("mqtt", TRUE))
        /\ Own(h, "mqtt", m.up, "pending")
     \/ k = "granted" /\ Quiet(Q, "mqtt") /\ Own(h, "mqtt", m.up, "pending")
     \/ k = "asked" /\ Sole(Q, "mqtt", RequestDriver("mqtt")) /\ Own(h, "mqtt", m.up, "pending")
     \/ k = "reset" /\ Quiet(Q, "mqtt")

MqttWaits(m, Q, h, k, mt) ==
  /\ m.state = "driver" /\ m.pc = "idle" /\ m.done = FALSE
  /\ \/ k = "free" /\ Sole(Q, "mqtt", RequestDriver("mqtt")) /\ Own(h, "mqtt", m.up, "pending")
     \/ /\ k = "free" /\ Sole(Q, "mqtt", DriverResponse("mqtt", mt[m.up]))
        /\ Own(h, "mqtt", m.up, "active")
     \/ /\ k \in {"open", "opened"} /\ Quiet(Q, "mqtt") /\ m.driver = mt[m.up]
        /\ Own(h, "mqtt", m.up, "active")
     \/ k = "reset" /\ Quiet(Q, "mqtt")

MqttSends(m, Q, h, d, k, g, mt) ==
  /\ m.state = "active" /\ k = "free" /\ Quiet(Q, "mqtt") /\ m.driver = mt[m.up]
  /\ \/ /\ m.pc \in {"idle", "append"} /\ m.done = TRUE
        /\ "mqtt" \notin g => Own(h, "mqtt", m.up, "active")
        /\ m.pc = "append" => d[m.driver].open = TRUE /\ m.offset < Chunks
     \/ /\ m.pc = "notify" /\ m.done = FALSE
        /\ Own(h, "mqtt", m.up, "active") /\ WholeAt(d, m.driver, m.up)
     \/ m.pc = "notified" /\ m.done = FALSE

MqttAwaits(m, Q, k) ==
  /\ m.state = "completing" /\ m.pc = "idle" /\ m.done = FALSE
  /\ k \in {"free", "reset"} /\ Quiet(Q, "mqtt")

\* The module has nothing more to do with the upload.
MqttOver(m, k) == m.pc = "notified" \/ m.state = "completing" \/ k = "reset"

MqttBusy(m, Q, h, k, g, mt) ==
  /\ m.up \in DOMAIN mt
  /\ "mqtt" \in g => m.pc = "idle"
  /\ \A x \in Q : Ends(x, "mqtt") => x.up < m.up \/ (x.up = m.up /\ MqttOver(m, k))
  /\ h.state # "idle" /\ h.source = "mqtt" => h.up <= m.up

MqttInv(m, Q, h, d, k, g, mt) ==
  \/ MqttFree(m, k)
  \/ /\ MqttBusy(m, Q, h, k, g, mt)
     /\ \/ MqttAsks(m, Q, h, k, mt) \/ MqttWaits(m, Q, h, k, mt)
        \/ MqttSends(m, Q, h, d, k, g, mt) \/ MqttAwaits(m, Q, k)

-----------------------------------------------------------------------------
(* The types.                                                               *)

File == [open : BOOLEAN, image : Seq(Nat \X (1..Chunks)), cut : BOOLEAN, left : BOOLEAN]

SessType(h) ==
  \/ h = NoSession
  \/ h \in [state : {"pending", "active", "complete"}, source : Sources, target : Targets,
            up : Nat \ {0}]

WebType(w) ==
  w \in [pc : {"idle", "start", "result", "driver", "open", "append", "notify"},
         busy : BOOLEAN, driver : Targets \cup {None}, seq : 0..Chunks,
         granted : BOOLEAN, startSem : BOOLEAN, driverSem : BOOLEAN,
         closed : BOOLEAN, next : 0..Chunks, up : Nat]

MqttType(m) ==
  m \in [pc : {"idle", "append", "notify", "notified", "away"},
         state : {"idle", "session", "driver", "active", "completing"},
         driver : Targets \cup {None}, done : BOOLEAN, offset : 0..Chunks, up : Nat]

MeantType(mt) == mt \in Seq(Targets) /\ Len(mt) <= LastUpload

Typed(q, h, k, d, mt, w, m, g) ==
  /\ q \in Seq(MessageType) /\ SessType(h)
  /\ k \in {"free", "granted", "asked", "open", "opened", "reset"}
  /\ d \in [Targets -> File] /\ MeantType(mt) /\ WebType(w) /\ MqttType(m)
  /\ g \in SUBSET Sources

Good(q, h, k, d, mt, w, m, g) ==
  /\ Typed(q, h, k, d, mt, w, m, g)
  /\ Ordered(q)
  /\ Mail(Held(q), h, d, mt)
  /\ SessOK(h, d, mt)
  /\ Opens(d, h, w, m, k)
  /\ Left(d, mt)
  /\ WebInv(w, Mine(Held(q), "web"), h, d, g, mt)
  /\ MqttInv(m, Mine(Held(q), "mqtt"), h, d, k, g, mt)

IInv == Good(inbox, sess, task, dev, meant, web, mqtt, gone)
-----------------------------------------------------------------------------
(* Messages.                                                                *)

\* What a message of each kind holds.
LEMMA Kinds ==
  ASSUME NEW x \in MessageType
  PROVE  /\ x.id \in {"StartRequest", "RequestDriver", "AbortRequest", "CompleteNotify",
                      "StartResponse", "DriverResponse", "Event"}
         /\ x.id = "StartRequest" => x.source \in Sources /\ x.target \in Targets /\ x.up \in Nat
         /\ x.id = "RequestDriver" => x.source \in Sources
         /\ x.id = "AbortRequest" => x.source \in Sources /\ x.up \in Nat
         /\ x.id = "CompleteNotify" =>
              x.source \in Sources /\ x.success \in BOOLEAN /\ x.up \in Nat
         /\ x.id = "StartResponse" => x.to \in Sources /\ x.accepted \in BOOLEAN
         /\ x.id = "DriverResponse" => x.to \in Sources /\ x.target \in Targets
<1>1. CASE x \in [id : {"StartRequest"}, source : Sources, target : Targets, up : Nat]  BY <1>1
<1>2. CASE x \in [id : {"RequestDriver"}, source : Sources]  BY <1>2
<1>3. CASE x \in [id : {"AbortRequest"}, source : Sources, up : Nat]  BY <1>3
<1>4. CASE x \in [id : {"CompleteNotify"}, source : Sources, success : BOOLEAN, up : Nat]
  BY <1>4
<1>5. CASE x \in [id : {"StartResponse"}, to : Sources, accepted : BOOLEAN]  BY <1>5
<1>6. CASE x \in [id : {"DriverResponse"}, to : Sources, target : Targets]  BY <1>6
<1>7. CASE x \in [id : {"Event"}, event : {"started", "aborted", "timeout", "complete"}]
  BY <1>7
<1> QED  BY <1>1, <1>2, <1>3, <1>4, <1>5, <1>6, <1>7 DEF MessageType

LEMMA StartRequestIs ==
  ASSUME NEW s \in Sources, NEW t \in Targets, NEW u \in Nat, NEW x, x = StartRequest(s, t, u)
  PROVE  /\ x \in MessageType
         /\ x.id = "StartRequest" /\ x.source = s /\ x.target = t /\ x.up = u
BY DEF StartRequest, MessageType

LEMMA RequestDriverIs ==
  ASSUME NEW s \in Sources, NEW x, x = RequestDriver(s)
  PROVE  x \in MessageType /\ x.id = "RequestDriver" /\ x.source = s
BY DEF RequestDriver, MessageType

LEMMA AbortRequestIs ==
  ASSUME NEW s \in Sources, NEW u \in Nat, NEW x, x = AbortRequest(s, u)
  PROVE  x \in MessageType /\ x.id = "AbortRequest" /\ x.source = s /\ x.up = u
BY DEF AbortRequest, MessageType

LEMMA NotifyIs ==
  ASSUME NEW s \in Sources, NEW b \in BOOLEAN, NEW u \in Nat, NEW x, x = Notify(s, b, u)
  PROVE  /\ x \in MessageType
         /\ x.id = "CompleteNotify" /\ x.source = s /\ x.success = b /\ x.up = u
BY DEF Notify, MessageType

LEMMA StartResponseIs ==
  ASSUME NEW s \in Sources, NEW b \in BOOLEAN, NEW x, x = StartResponse(s, b)
  PROVE  x \in MessageType /\ x.id = "StartResponse" /\ x.to = s /\ x.accepted = b
BY DEF StartResponse, MessageType

LEMMA DriverResponseIs ==
  ASSUME NEW s \in Sources, NEW t \in Targets, NEW x, x = DriverResponse(s, t)
  PROVE  x \in MessageType /\ x.id = "DriverResponse" /\ x.to = s /\ x.target = t
BY DEF DriverResponse, MessageType

LEMMA EventIs ==
  ASSUME NEW e \in {"started", "aborted", "timeout", "complete"}, NEW x, x = Event(e)
  PROVE  x \in MessageType /\ x.id = "Event"
BY DEF Event, MessageType

-----------------------------------------------------------------------------
(* The inbox.                                                               *)

\* Taking x off q leaves q1; adding x to q1 gives q2.
Takes(q, q1, x) ==
  /\ q1 \in Seq(MessageType) /\ x \in MessageType /\ Held(q) = Held(q1) \cup {x}
  /\ Ordered(q) => Ordered(q1) /\ \A y \in Held(q1) : Before(x, y)

Adds(q1, q2, x) ==
  /\ q2 \in Seq(MessageType) /\ Held(q2) = Held(q1) \cup {x}
  /\ Ordered(q1) /\ (\A y \in Held(q1) : Before(y, x)) => Ordered(q2)

LEMMA Taking ==
  ASSUME NEW q \in Seq(MessageType), q # <<>>
  PROVE  Takes(q, Tail(q), Head(q))
<1>1. PICK p : p = Tail(q)  OBVIOUS
<1>2. /\ p \in Seq(MessageType) /\ Len(q) \in Nat \ {0} /\ DOMAIN q = 1..Len(q)
      /\ Head(q) = q[1] /\ q[1] \in MessageType
  BY <1>1
<1>3. /\ Len(p) = Len(q) - 1 /\ DOMAIN p = 1..Len(p)
      /\ \A k \in 1..Len(p) : p[k] = q[k + 1]
  BY <1>1, <1>2
<1>4. Held(q) = Held(p) \cup {q[1]}
  <2>1. ASSUME NEW k \in DOMAIN q  PROVE q[k] \in Held(p) \cup {q[1]}
    <3>1. CASE k = 1  BY <3>1
    <3>2. CASE k # 1
      <4>1. k - 1 \in 1..Len(p) /\ (k - 1) + 1 = k  BY <1>2, <1>3, <3>2
      <4>2. p[k - 1] = q[k]  BY <1>3, <4>1
      <4> QED  BY <1>3, <4>1, <4>2 DEF Held
    <3> QED  BY <3>1, <3>2
  <2>2. ASSUME NEW k \in DOMAIN p  PROVE p[k] \in Held(q)
    <3>1. k + 1 \in DOMAIN q /\ p[k] = q[k + 1]  BY <1>2, <1>3
    <3> QED  BY <3>1 DEF Held
  <2>3. q[1] \in Held(q)  BY <1>2 DEF Held
  <2>4. \A z \in Held(q) : z \in Held(p) \cup {q[1]}  BY <2>1 DEF Held
  <2>5. \A z \in Held(p) : z \in Held(q)  BY <2>2 DEF Held
  <2> QED  BY <2>3, <2>4, <2>5
<1>5. ASSUME Ordered(q)  PROVE Ordered(p) /\ \A y \in Held(p) : Before(q[1], y)
  <2>1. ASSUME NEW i \in DOMAIN p, NEW j \in DOMAIN p, i < j  PROVE Before(p[i], p[j])
    <3>1. /\ i + 1 \in DOMAIN q /\ j + 1 \in DOMAIN q /\ i + 1 < j + 1
          /\ p[i] = q[i + 1] /\ p[j] = q[j + 1]
      BY <1>2, <1>3, <2>1
    <3> QED  BY <1>5, <3>1 DEF Ordered
  <2>2. ASSUME NEW j \in DOMAIN p  PROVE Before(q[1], p[j])
    <3>1. 1 \in DOMAIN q /\ j + 1 \in DOMAIN q /\ 1 < j + 1 /\ p[j] = q[j + 1]
      BY <1>2, <1>3, <2>2
    <3> QED  BY <1>5, <3>1 DEF Ordered
  <2> QED  BY <2>1, <2>2 DEF Ordered, Held
<1> QED  BY <1>1, <1>2, <1>4, <1>5 DEF Takes

LEMMA Adding ==
  ASSUME NEW q \in Seq(MessageType), NEW x \in MessageType
  PROVE  Adds(q, Append(q, x), x)
<1>1. PICK p : p = Append(q, x)  OBVIOUS
<1>2. /\ p \in Seq(MessageType) /\ Len(q) \in Nat /\ DOMAIN q = 1..Len(q)
      /\ Len(p) = Len(q) + 1 /\ DOMAIN p = 1..Len(p) /\ p[Len(q) + 1] = x
      /\ \A k \in 1..Len(q) : p[k] = q[k]
  BY <1>1
<1>3. Held(p) = Held(q) \cup {x}
  <2>1. ASSUME NEW k \in DOMAIN p  PROVE p[k] \in Held(q) \cup {x}
    <3>1. k \in DOMAIN q \/ k = Len(q) + 1  BY <1>2
    <3> QED  BY <1>2, <3>1 DEF Held
  <2>2. ASSUME NEW k \in DOMAIN q  PROVE q[k] \in Held(p)
    <3>1. k \in DOMAIN p /\ p[k] = q[k]  BY <1>2
    <3> QED  BY <3>1 DEF Held
  <2>3. x \in Held(p)
    <3>1. Len(q) + 1 \in DOMAIN p  BY <1>2
    <3> QED  BY <1>2, <3>1 DEF Held
  <2>4. \A z \in Held(p) : z \in Held(q) \cup {x}  BY <2>1 DEF Held
  <2>5. \A z \in Held(q) : z \in Held(p)  BY <2>2 DEF Held
  <2> QED  BY <2>3, <2>4, <2>5
<1>4. ASSUME Ordered(q), \A y \in Held(q) : Before(y, x)  PROVE Ordered(p)
  <2>1. ASSUME NEW i \in DOMAIN p, NEW j \in DOMAIN p, i < j  PROVE Before(p[i], p[j])
    <3>1. i \in DOMAIN q /\ p[i] = q[i]  BY <1>2, <2>1
    <3>2. CASE j \in DOMAIN q
      <4>1. p[j] = q[j]  BY <1>2, <3>2
      <4> QED  BY <1>4, <2>1, <3>1, <3>2, <4>1 DEF Ordered
    <3>3. CASE j = Len(q) + 1
      <4>1. p[j] = x /\ q[i] \in Held(q)  BY <1>2, <3>1, <3>3 DEF Held
      <4> QED  BY <1>4, <3>1, <4>1
    <3> QED  BY <1>2, <3>2, <3>3
  <2> QED  BY <2>1 DEF Ordered
<1> QED  BY <1>1, <1>2, <1>3, <1>4 DEF Adds

\* The answers a handler gives, added to what is left of the inbox.
LEMMA Answers ==
  ASSUME NEW q \in Seq(MessageType), NEW x \in MessageType, NEW y \in MessageType
  PROVE  q \o <<>> = q /\ q \o <<x>> = Append(q, x) /\ q \o <<x, y>> = Append(Append(q, x), y)
<1>1. q \o <<>> = q  OBVIOUS
<1>2. q \o <<x>> = Append(q, x)
  <2>1. <<x>> \in Seq(MessageType) /\ Len(<<x>>) = 1 /\ <<x>>[1] = x  OBVIOUS
  <2>2. q \o <<x>> \in Seq(MessageType) /\ Len(q \o <<x>>) = Len(q) + 1  BY <2>1
  <2>3. Append(q, x) \in Seq(MessageType) /\ Len(Append(q, x)) = Len(q) + 1  OBVIOUS
  <2>4. ASSUME NEW k \in 1..(Len(q) + 1)  PROVE (q \o <<x>>)[k] = Append(q, x)[k]
    <3>1. k \in 1..Len(q) \/ k = Len(q) + 1  OBVIOUS
    <3> QED  BY <2>1, <3>1
  <2> QED  BY <2>2, <2>3, <2>4
<1>3. q \o <<x, y>> = Append(Append(q, x), y)
  <2>1. <<x, y>> \in Seq(MessageType) /\ Len(<<x, y>>) = 2 /\ <<x, y>>[1] = x /\ <<x, y>>[2] = y
    OBVIOUS
  <2>2. PICK p : p = q \o <<x, y>>  OBVIOUS
  <2>3. p \in Seq(MessageType) /\ Len(p) = Len(q) + 2  BY <2>1, <2>2
  <2>4. PICK r : r = Append(q, x)  OBVIOUS
  <2>5. /\ r \in Seq(MessageType) /\ Len(r) = Len(q) + 1 /\ r[Len(q) + 1] = x
        /\ \A k \in 1..Len(q) : r[k] = q[k]
    BY <2>4
  <2>6. PICK z : z = Append(r, y)  OBVIOUS
  <2>7. /\ z \in Seq(MessageType) /\ Len(z) = Len(q) + 2 /\ z[Len(q) + 2] = y
        /\ \A k \in 1..(Len(q) + 1) : z[k] = r[k]
    BY <2>5, <2>6
  <2>8. /\ \A k \in 1..Len(q) : p[k] = q[k]
        /\ p[Len(q) + 1] = x /\ p[Len(q) + 2] = y
    BY <2>1, <2>2
  <2>9. ASSUME NEW k \in 1..(Len(q) + 2)  PROVE p[k] = z[k]
    <3>1. k \in 1..Len(q) \/ k = Len(q) + 1 \/ k = Len(q) + 2  OBVIOUS
    <3> QED  BY <2>5, <2>7, <2>8, <3>1
  <2>10. p = z  BY <2>3, <2>7, <2>9
  <2> QED  BY <2>2, <2>4, <2>6, <2>10
<1> QED  BY <1>1, <1>2, <1>3

-----------------------------------------------------------------------------
(* The messages of one source.                                              *)

\* Of the messages Q of s only what it says when it is over may be missing from Q2.
Kept(Q, Q2, s) == Q2 \subseteq Q /\ \A x \in Q : Asks(x, s) => x \in Q2

LEMMA AsksOnce ==
  ASSUME NEW x, NEW s, NEW r, Asks(x, s)
  PROVE  ~Ends(x, r) /\ (Asks(x, r) => r = s) /\ x.id # "Event"
BY DEF Asks, Ends

LEMMA MineTaken ==
  ASSUME NEW q, NEW q1, NEW x, Takes(q, q1, x), NEW s, ~Asks(x, s)
  PROVE  /\ Kept(Mine(Held(q), s), Mine(Held(q1), s), s)
         /\ ~Ends(x, s) => Mine(Held(q1), s) = Mine(Held(q), s)
BY DEF Takes, Mine, Kept

LEMMA MineAdded ==
  ASSUME NEW q, NEW q1, NEW x, Adds(q, q1, x), NEW s, ~Asks(x, s), ~Ends(x, s)
  PROVE  Mine(Held(q1), s) = Mine(Held(q), s)
BY DEF Adds, Mine

LEMMA AskTaken ==
  ASSUME NEW q, NEW q1, NEW x, Takes(q, q1, x), Ordered(q), NEW s \in Sources, Asks(x, s)
  PROVE  /\ Quiet(Mine(Held(q1), s), s) /\ x \in Mine(Held(q), s)
         /\ Mine(Held(q1), s) \subseteq Mine(Held(q), s)
<1>1. \A y \in Held(q1) : ~Asks(y, s)  BY DEF Takes, Before
<1> QED  BY <1>1 DEF Takes, Mine, Quiet

LEMMA AskAdded ==
  ASSUME NEW q, NEW q1, NEW x, Adds(q, q1, x), NEW s, Asks(x, s), Quiet(Mine(Held(q), s), s)
  PROVE  /\ Sole(Mine(Held(q1), s), s, x)
         /\ \A y \in Mine(Held(q1), s) : Ends(y, s) => y \in Mine(Held(q), s)
<1>1. ~Ends(x, s)  BY AsksOnce
<1> QED  BY <1>1 DEF Adds, Mine, Quiet, Sole

LEMMA EndAdded ==
  ASSUME NEW q, NEW q1, NEW x, Adds(q, q1, x), NEW s, Ends(x, s)
  PROVE  Mine(Held(q1), s) = Mine(Held(q), s) \cup {x} /\ ~Asks(x, s)
BY DEF Adds, Mine, Asks, Ends

\* What may be added to the inbox.
LEMMA EventBefore == ASSUME NEW z, NEW x, x.id = "Event"  PROVE Before(z, x)
BY DEF Before, Asks, Ends

LEMMA AskBefore ==
  ASSUME NEW H, NEW x, NEW s, Asks(x, s), Quiet(Mine(H, s), s)
  PROVE  \A z \in H : Before(z, x)
<1>1. ASSUME NEW z \in H, NEW r \in Sources  PROVE ~(Asks(z, r) /\ Asks(x, r))
  <2>1. ASSUME Asks(z, r), Asks(x, r)  PROVE FALSE
    <3>1. r = s  BY <2>1, AsksOnce
    <3> QED  BY <2>1, <3>1 DEF Quiet, Mine
  <2> QED  BY <2>1
<1>2. \A r : ~Ends(x, r)  BY AsksOnce
<1> QED  BY <1>1, <1>2 DEF Before

LEMMA EndBefore ==
  ASSUME NEW H, NEW x, NEW s, Ends(x, s),
         \A z \in H : z.id = "StartRequest" /\ z.source = s =>
           z.up <= x.up /\ (x.id = "CompleteNotify" => x.success = FALSE)
  PROVE  \A z \in H : Before(z, x)
<1>1. \A r : ~Asks(x, r)  BY DEF Asks, Ends
<1>2. \A r : Ends(x, r) => r = s  BY DEF Ends
<1> QED  BY <1>1, <1>2 DEF Before

\* The session of a quiet source is not being asked for.
LEMMA QuietStart ==
  ASSUME NEW H, NEW s, Quiet(Mine(H, s), s)
  PROVE  \A z \in H : ~(z.id = "StartRequest" /\ z.source = s)
BY DEF Quiet, Mine, Asks

-----------------------------------------------------------------------------
(* What does not disturb the parts of the invariant.                        *)

Extends(mt, mt2) == DOMAIN mt \subseteq DOMAIN mt2 /\ \A u \in DOMAIN mt : mt2[u] = mt[u]

\* A file that is not open is left alone.
Spares(d, d2) == \A t \in Targets : d[t].open = FALSE => d2[t] = d[t]

LEMMA WholeSpared ==
  ASSUME NEW d, NEW d2, Spares(d, d2), NEW t \in Targets, NEW u, WholeAt(d, t, u)
  PROVE  WholeAt(d2, t, u)
BY DEF Spares, WholeAt

\* The same session, further on, or none.
GoesOn(h, h2) ==
  \/ h2.state = "idle"
  \/ /\ h.state # "idle" /\ h2.source = h.source /\ h2.up = h.up
     /\ h.state \in {"active", "complete"} => h2.state \in {"active", "complete"}

NoSuccess(H, h) ==
  \A x \in H : ~(x.id = "CompleteNotify" /\ x.success = TRUE /\ x.source = h.source
                 /\ x.up = h.up)

LEMMA MailFrame ==
  ASSUME NEW H, NEW h, NEW d, NEW mt, Mail(H, h, d, mt), NEW h2, NEW d2, NEW mt2,
         GoesOn(h, h2), Spares(d, d2) \/ NoSuccess(H, h), Extends(mt, mt2),
         mt \in Seq(Targets)
  PROVE  Mail(H, h2, d2, mt2)
<1> SUFFICES ASSUME NEW x \in H  PROVE Fits(x, h2, d2, mt2)  BY DEF Mail
<1>1. Fits(x, h, d, mt)  BY DEF Mail
<1>2. x.id = "StartRequest" =>
        /\ x.up \in DOMAIN mt2 /\ x.target = mt2[x.up]
        /\ h2.state # "idle" /\ h2.source = x.source => h2.up < x.up
  BY <1>1 DEF Fits, GoesOn, Extends
<1>3. x.id \in {"AbortRequest", "CompleteNotify"} =>
        /\ x.up \in DOMAIN mt2
        /\ h2.state # "idle" /\ h2.source = x.source => h2.up <= x.up
  BY <1>1 DEF Fits, GoesOn, Extends
<1>4. ASSUME x.id = "CompleteNotify", x.success = TRUE, h2.state # "idle", h2.source = x.source
      PROVE  /\ h2.up = x.up /\ h2.state \in {"active", "complete"}
             /\ WholeAt(d2, mt2[x.up], x.up)
  <2>1. /\ h.state # "idle" /\ h2.source = h.source /\ h2.up = h.up
        /\ h.state \in {"active", "complete"} => h2.state \in {"active", "complete"}
    BY <1>4 DEF GoesOn
  <2>2. /\ h.up = x.up /\ h.state \in {"active", "complete"} /\ WholeAt(d, mt[x.up], x.up)
    BY <1>1, <1>4, <2>1 DEF Fits
  <2>3. x.up \in DOMAIN mt  BY <1>1, <1>4 DEF Fits
  <2>4. mt2[x.up] = mt[x.up] /\ mt[x.up] \in Targets  BY <2>3 DEF Extends
  <2>5. Spares(d, d2)  BY <1>4, <2>1, <2>2 DEF NoSuccess
  <2> QED  BY <2>1, <2>2, <2>4, <2>5, WholeSpared
<1> QED  BY <1>2, <1>3, <1>4 DEF Fits

LEMMA MailLess ==
  ASSUME NEW H, NEW H2, NEW h, NEW d, NEW mt, Mail(H, h, d, mt), H2 \subseteq H
  PROVE  Mail(H2, h, d, mt)
BY DEF Mail

LEMMA MailMore ==
  ASSUME NEW H, NEW h, NEW d, NEW mt, Mail(H, h, d, mt), NEW x, Fits(x, h, d, mt)
  PROVE  Mail(H \cup {x}, h, d, mt)
BY DEF Mail

LEMMA SessFrame ==
  ASSUME NEW h, NEW d, NEW mt, SessOK(h, d, mt), NEW d2, NEW mt2, Extends(mt, mt2),
         Spares(d, d2) \/ h.state # "complete", mt \in Seq(Targets)
  PROVE  SessOK(h, d2, mt2)
<1>1. h.state # "idle" => h.up \in DOMAIN mt2 /\ h.target = mt2[h.up] /\ h.target \in Targets
  BY DEF SessOK, Extends
<1>2. h.state = "complete" => WholeAt(d2, h.target, h.up)
  BY <1>1, WholeSpared DEF SessOK
<1> QED  BY <1>1, <1>2 DEF SessOK

LEMMA LeftFrame ==
  ASSUME NEW d, NEW mt, Left(d, mt), NEW mt2, Extends(mt, mt2)
  PROVE  Left(d, mt2)
BY DEF Left, Extends

\* The drivers when one file changes.
LEMMA LeftChanged ==
  ASSUME NEW d, NEW mt, Left(d, mt), NEW d2, NEW t \in Targets,
         \A r \in Targets : r # t => d2[r] = d[r],
         \/ d2[t].open = TRUE \/ d2[t].image = <<>> \/ d2[t] = d[t]
         \/ \E u \in DOMAIN mt : d2[t].image = Image(u, Chunks)
  PROVE  Left(d2, mt)
<1> SUFFICES ASSUME NEW r \in Targets
             PROVE  \/ d2[r].open = TRUE \/ d2[r].cut = TRUE \/ d2[r].image = <<>>
                    \/ \E u \in DOMAIN mt : d2[r].image = Image(u, Chunks)
  BY DEF Left
<1>1. CASE r # t  BY <1>1 DEF Left
<1>2. CASE r = t  BY <1>2 DEF Left
<1> QED  BY <1>1, <1>2

LEMMA OpensFrame ==
  ASSUME NEW d, NEW h, NEW w, NEW m, NEW k, Opens(d, h, w, m, k), NEW w2, NEW m2, NEW k2,
         \A t \in Targets, u \in Nat : \A im :
           h.source = "web" /\ WebWrites(w, u, t, im) => WebWrites(w2, u, t, im),
         \A t \in Targets, u \in Nat : \A im :
           h.source = "mqtt" /\ MqttWrites(m, k, u, t, im) => MqttWrites(m2, k2, u, t, im),
         h.up \in Nat
  PROVE  Opens(d, h, w2, m2, k2)
BY DEF Opens

\* What a step of others leaves to the web server.
WebSpared(w, h, d, d2) ==
  h.source = "web" => Spares(d, d2) /\ (w.pc = "append" => d2[w.driver].open = d[w.driver].open)

KeepsOwn(h, h2, s, u) ==
  \A st \in {"pending", "active"} : Own(h, s, u, st) => Own(h2, s, u, st)

LEMMA SoleKept ==
  ASSUME NEW Q, NEW Q2, NEW s, Kept(Q, Q2, s)
  PROVE  /\ Quiet(Q, s) => Quiet(Q2, s)
         /\ \A x : Asks(x, s) /\ Sole(Q, s, x) => Sole(Q2, s, x)
BY DEF Kept, Quiet, Sole

LEMMA AskKinds ==
  ASSUME NEW s \in Sources
  PROVE  /\ \A t, u : Asks(StartRequest(s, t, u), s)
         /\ Asks(RequestDriver(s), s)
         /\ \A b : Asks(StartResponse(s, b), s)
         /\ \A t : Asks(DriverResponse(s, t), s)
BY DEF Asks, StartRequest, RequestDriver, StartResponse, DriverResponse

LEMMA WebKeeps ==
  ASSUME NEW w, NEW Q, NEW h, NEW d, NEW g, NEW mt, WebInv(w, Q, h, d, g, mt),
         NEW Q2, NEW h2, NEW d2, NEW g2, NEW mt2,
         Kept(Q, Q2, "web"), w.busy = TRUE /\ "web" \notin g => KeepsOwn(h, h2, "web", w.up),
         WebSpared(w, h, d, d2), "web" \in g2 <=> "web" \in g, Extends(mt, mt2),
         mt \in Seq(Targets)
  PROVE  WebInv(w, Q2, h2, d2, g2, mt2)
<1>1. /\ Quiet(Q, "web") => Quiet(Q2, "web")
      /\ \A x : Asks(x, "web") /\ Sole(Q, "web", x) => Sole(Q2, "web", x)
  BY SoleKept
<1>2. "web" \in Sources  BY DEF Sources
<1>3. CASE WebFree(w, Q, g)  BY <1>1, <1>3 DEF WebInv, WebFree
<1>4. CASE WebBusy(w, Q, g, mt) /\ ~WebFree(w, Q, g)
  <2>1. w.up \in DOMAIN mt /\ mt2[w.up] = mt[w.up] /\ mt[w.up] \in Targets
    BY <1>4 DEF WebBusy, Extends
  <2>2. WebBusy(w, Q2, g2, mt2)  BY <1>4 DEF WebBusy, Extends, Kept
  <2>3. w.pc # "idle" => KeepsOwn(h, h2, "web", w.up)  BY <1>4 DEF WebBusy
  <2>4. /\ \A b : Sole(Q, "web", StartResponse("web", b))
             => Sole(Q2, "web", StartResponse("web", b))
        /\ Sole(Q, "web", StartRequest("web", mt[w.up], w.up))
             => Sole(Q2, "web", StartRequest("web", mt2[w.up], w.up))
        /\ Sole(Q, "web", RequestDriver("web")) => Sole(Q2, "web", RequestDriver("web"))
        /\ Sole(Q, "web", DriverResponse("web", mt[w.up]))
             => Sole(Q2, "web", DriverResponse("web", mt2[w.up]))
    BY <1>1, <1>2, <2>1, AskKinds
  <2>5. CASE WebAsks(w, Q, h, mt)
    <3>1. WebAsks(w, Q2, h2, mt2)  BY <1>1, <2>3, <2>4, <2>5 DEF WebAsks, KeepsOwn
    <3> QED  BY <2>2, <3>1 DEF WebInv
  <2>6. CASE WebKnows(w, Q, h)
    <3>1. WebKnows(w, Q2, h2)  BY <1>1, <2>3, <2>6 DEF WebKnows, KeepsOwn
    <3> QED  BY <2>2, <3>1 DEF WebInv
  <2>7. CASE WebWaits(w, Q, h, mt)
    <3>1. WebWaits(w, Q2, h2, mt2)  BY <1>1, <2>1, <2>3, <2>4, <2>7 DEF WebWaits, KeepsOwn
    <3> QED  BY <2>2, <3>1 DEF WebInv
  <2>8. CASE WebOpens(w, Q, h, mt)
    <3>1. WebOpens(w, Q2, h2, mt2)  BY <1>1, <2>1, <2>3, <2>8 DEF WebOpens, KeepsOwn
    <3> QED  BY <2>2, <3>1 DEF WebInv
  <2>9. CASE WebSends(w, Q, h, d, g, mt)
    <3>1. w.pc = "append" => h.source = "web"  BY <1>4, <2>9 DEF WebSends, WebBusy, Own
    <3>2. WebSends(w, Q2, h2, d2, g2, mt2)
      BY <1>1, <1>4, <2>1, <2>9, <3>1 DEF WebSends, KeepsOwn, WebSpared, WebBusy
    <3> QED  BY <2>2, <3>2 DEF WebInv
  <2>10. CASE WebCloses(w, Q, h, d, mt)
    <3>1. h.source = "web"  BY <2>10 DEF WebCloses, Own
    <3>2. w.closed = TRUE => WholeAt(d2, w.driver, w.up)
      BY <2>1, <2>10, <3>1, WholeSpared DEF WebCloses, WebSpared
    <3>3. WebCloses(w, Q2, h2, d2, mt2)
      BY <1>1, <2>1, <2>3, <2>10, <3>2 DEF WebCloses, KeepsOwn
    <3> QED  BY <2>2, <3>3 DEF WebInv
  <2> QED  BY <1>4, <2>5, <2>6, <2>7, <2>8, <2>9, <2>10 DEF WebInv
<1>5. WebFree(w, Q, g) \/ WebBusy(w, Q, g, mt)  BY DEF WebInv
<1> QED  BY ONLY <1>3, <1>4, <1>5

MqttSpared(m, h, d, d2) ==
  h.source = "mqtt" => Spares(d, d2) /\ (m.pc = "append" => d2[m.driver].open = d[m.driver].open)

\* The stages in which the module counts on the session.
MqttClaims(m, Q, k, g) ==
  ~MqttOver(m, k) /\ ~(k = "free" /\ Quiet(Q, "mqtt") /\ "mqtt" \in g)

LEMMA MqttKeeps ==
  ASSUME NEW m, NEW Q, NEW h, NEW d, NEW k, NEW g, NEW mt, MqttInv(m, Q, h, d, k, g, mt),
         NEW Q2, NEW h2, NEW d2, NEW g2, NEW mt2,
         Kept(Q, Q2, "mqtt"), MqttClaims(m, Q, k, g) => KeepsOwn(h, h2, "mqtt", m.up),
         h2.state # "idle" /\ h2.source = "mqtt"
           => h.state # "idle" /\ h.source = "mqtt" /\ h2.up = h.up,
         MqttSpared(m, h, d, d2), "mqtt" \in g2 <=> "mqtt" \in g, Extends(mt, mt2),
         mt \in Seq(Targets)
  PROVE  MqttInv(m, Q2, h2, d2, k, g2, mt2)
<1>1. /\ Quiet(Q, "mqtt") => Quiet(Q2, "mqtt")
      /\ \A x : Asks(x, "mqtt") /\ Sole(Q, "mqtt", x) => Sole(Q2, "mqtt", x)
  BY SoleKept
<1>2. "mqtt" \in Sources  BY DEF Sources
<1>3. CASE MqttFree(m, k)  BY <1>3 DEF MqttInv
<1>4. CASE MqttBusy(m, Q, h, k, g, mt) /\ ~MqttFree(m, k)
  <2>1. m.up \in DOMAIN mt /\ mt2[m.up] = mt[m.up] /\ mt[m.up] \in Targets
    BY <1>4 DEF MqttBusy, Extends
  <2>2. MqttBusy(m, Q2, h2, k, g2, mt2)  BY <1>4 DEF MqttBusy, Extends, Kept
  <2>3. /\ \A b : Sole(Q, "mqtt", StartResponse("mqtt", b))
             => Sole(Q2, "mqtt", StartResponse("mqtt", b))
        /\ Sole(Q, "mqtt", StartRequest("mqtt", mt[m.up], m.up))
             => Sole(Q2, "mqtt", StartRequest("mqtt", mt2[m.up], m.up))
        /\ Sole(Q, "mqtt", RequestDriver("mqtt")) => Sole(Q2, "mqtt", RequestDriver("mqtt"))
        /\ Sole(Q, "mqtt", DriverResponse("mqtt", mt[m.up]))
             => Sole(Q2, "mqtt", DriverResponse("mqtt", mt2[m.up]))
    BY <1>1, <1>2, <2>1, AskKinds
  <2>4. \A x : Asks(x, "mqtt") /\ Sole(Q, "mqtt", x) => ~Quiet(Q, "mqtt")  BY DEF Sole, Quiet
  <2>5. /\ \A b : Sole(Q, "mqtt", StartResponse("mqtt", b)) => ~Quiet(Q, "mqtt")
        /\ Sole(Q, "mqtt", RequestDriver("mqtt")) => ~Quiet(Q, "mqtt")
        /\ Sole(Q, "mqtt", DriverResponse("mqtt", mt[m.up])) => ~Quiet(Q, "mqtt")
    BY <1>2, <2>4, AskKinds
  <2>6. CASE MqttAsks(m, Q, h, k, mt)
    <3>1. MqttAsks(m, Q2, h2, k, mt2)
      BY <1>1, <2>3, <2>5, <2>6 DEF MqttAsks, KeepsOwn, MqttClaims, MqttOver
    <3> QED  BY <2>2, <3>1 DEF MqttInv
  <2>7. CASE MqttWaits(m, Q, h, k, mt)
    <3>1. MqttWaits(m, Q2, h2, k, mt2)
      BY <1>1, <2>1, <2>3, <2>5, <2>7 DEF MqttWaits, KeepsOwn, MqttClaims, MqttOver
    <3> QED  BY <2>2, <3>1 DEF MqttInv
  <2>8. CASE MqttSends(m, Q, h, d, k, g, mt)
    <3>1. m.pc \in {"append", "notify"} => "mqtt" \notin g  BY <1>4 DEF MqttBusy
    <3>2. m.pc \in {"append", "notify"} => h.source = "mqtt"  BY <2>8, <3>1 DEF MqttSends, Own
    <3>3. m.pc # "notified" /\ "mqtt" \notin g => KeepsOwn(h, h2, "mqtt", m.up)
      BY <2>8 DEF MqttSends, MqttClaims, MqttOver
    <3>4. m.pc = "append" => d2[m.driver].open = d[m.driver].open  BY <3>2 DEF MqttSpared
    <3>5. m.pc = "notify" => Spares(d, d2)  BY <3>2 DEF MqttSpared
    <3>6. m.pc = "notify" => WholeAt(d2, m.driver, m.up)
      BY <2>1, <2>8, <3>5, WholeSpared DEF MqttSends
    <3>7. CASE m.pc \in {"idle", "append"}
      BY <1>1, <2>1, <2>2, <2>8, <3>1, <3>3, <3>4, <3>7 DEF MqttInv, MqttSends, KeepsOwn
    <3>8. CASE m.pc = "notify"
      BY <1>1, <2>1, <2>2, <2>8, <3>1, <3>3, <3>6, <3>8 DEF MqttInv, MqttSends, KeepsOwn
    <3>9. CASE m.pc = "notified"
      BY <1>1, <2>1, <2>2, <2>8, <3>9 DEF MqttInv, MqttSends
    <3> QED  BY <2>8, <3>7, <3>8, <3>9 DEF MqttSends
  <2>9. CASE MqttAwaits(m, Q, k)
    <3>1. MqttAwaits(m, Q2, k)  BY <1>1, <2>9 DEF MqttAwaits
    <3> QED  BY <2>2, <3>1 DEF MqttInv
  <2> QED  BY <1>4, <2>6, <2>7, <2>8, <2>9 DEF MqttInv
<1>5. MqttFree(m, k) \/ MqttBusy(m, Q, h, k, g, mt)  BY DEF MqttInv
<1> QED  BY ONLY <1>3, <1>4, <1>5

-----------------------------------------------------------------------------
(* The drivers.                                                             *)

LEMMA NoFileIs ==
  NoFile \in File /\ NoFile.open = FALSE /\ NoFile.image = <<>> /\ NoFile.cut = FALSE
<1>1. <<>> \in Seq(Nat \X (1..Chunks))  OBVIOUS
<1> QED  BY <1>1 DEF NoFile, File

\* Whatever a delete leaves is beside the image.
LEMMA UndeletedIs ==
  ASSUME dev \in [Targets -> File], NEW t \in Targets
  PROVE  Undeleted(t) \in SUBSET BOOLEAN
<1>1. dev[t] \in File  BY DEF File
<1>2. (dev[t].left \/ dev[t].open \/ dev[t].image # <<>>) \in BOOLEAN  OBVIOUS
<1> QED  BY <1>2 DEF Undeleted

LEMMA OpenedIs ==
  ASSUME dev \in [Targets -> File], NEW t \in Targets, NEW d, d \in Opened(t)
  PROVE  /\ d \in [Targets -> File] /\ \A r \in Targets : r # t => d[r] = dev[r]
         /\ d[t].open = TRUE /\ d[t].image = <<>>
<1>0. PICK l \in BOOLEAN : d = [dev EXCEPT ![t] = [NoFile EXCEPT !.open = TRUE, !.left = l]]
  BY UndeletedIs DEF Opened
<1>1. PICK f : f = [NoFile EXCEPT !.open = TRUE, !.left = l]  OBVIOUS
<1>2. f \in File /\ f.open = TRUE /\ f.image = <<>>  BY <1>0, <1>1, NoFileIs DEF File
<1>3. d = [dev EXCEPT ![t] = f]  BY <1>0, <1>1
<1> QED  BY <1>2, <1>3

LEMMA ClosedIs ==
  ASSUME dev \in [Targets -> File], NEW t \in Targets, NEW d, d = Closed(t)
  PROVE  /\ d \in [Targets -> File] /\ \A r \in Targets : r # t => d[r] = dev[r]
         /\ d[t].open = FALSE /\ d[t].image = dev[t].image
         /\ Spares(dev, d) /\ (dev[t].open = FALSE => d = dev)
<1>1. PICK e, f : e = dev[t] /\ f = [e EXCEPT !.open = FALSE]  OBVIOUS
<1>2. e \in File  BY <1>1
<1>3. f \in File /\ f.open = FALSE /\ f.image = e.image /\ (e.open = FALSE => f = e)
  BY <1>1, <1>2 DEF File
<1>4. d = [dev EXCEPT ![t] = f]  BY <1>1 DEF Closed
<1>5. /\ d \in [Targets -> File] /\ (\A r \in Targets : r # t => d[r] = dev[r]) /\ d[t] = f
  BY <1>3, <1>4
<1>6. dev[t].open = FALSE => d = dev
  <2>1. ASSUME dev[t].open = FALSE  PROVE \A r \in Targets : d[r] = dev[r]
    BY <1>1, <1>3, <1>5, <2>1
  <2>2. d = [r \in Targets |-> d[r]] /\ dev = [r \in Targets |-> dev[r]]  BY <1>5
  <2> QED  BY <2>1, <2>2
<1>7. Spares(dev, d)  BY <1>1, <1>3, <1>5 DEF Spares
<1> QED  BY <1>1, <1>3, <1>5, <1>6, <1>7

LEMMA WrittenIs ==
  ASSUME dev \in [Targets -> File], NEW t \in Targets, NEW u \in Nat, NEW n \in 1..Chunks,
         NEW d, d = Written(t, u, n)
  PROVE  /\ d \in [Targets -> File] /\ \A r \in Targets : r # t => d[r] = dev[r]
         /\ d[t].open = dev[t].open /\ d[t].image = Append(dev[t].image, <<u, n>>)
<1>1. PICK e, y, f : e = dev[t] /\ y = <<u, n>> /\ f = [e EXCEPT !.image = Append(e.image, y)]
  OBVIOUS
<1>2. e \in File  BY <1>1
<1>3. y \in Nat \X (1..Chunks)  BY <1>1
<1>4. Append(e.image, y) \in Seq(Nat \X (1..Chunks))  BY <1>2, <1>3 DEF File
<1>5. f \in File /\ f.open = e.open /\ f.image = Append(e.image, y)  BY <1>1, <1>2, <1>4 DEF File
<1>6. d = [dev EXCEPT ![t] = f]
  <2>1. d = [dev EXCEPT ![t] = [dev[t] EXCEPT !.image = Append(dev[t].image, <<u, n>>)]]
    BY DEF Written
  <2> QED  BY <1>1, <2>1
<1> QED  BY <1>1, <1>5, <1>6

LEMMA RefusedIs ==
  ASSUME dev \in [Targets -> File], NEW t \in Targets, NEW d, d = Refused(t)
  PROVE  /\ d \in [Targets -> File] /\ \A r \in Targets : r # t => d[r] = dev[r]
         /\ d[t].open = FALSE /\ d[t].image = <<>>
         /\ dev[t].open = TRUE => Spares(dev, d)
<1>1. d = [dev EXCEPT ![t] = NoFile]  BY DEF Refused
<1>2. d \in [Targets -> File] /\ (\A r \in Targets : r # t => d[r] = dev[r]) /\ d[t] = NoFile
  BY <1>1, NoFileIs
<1>3. dev[t].open = TRUE => Spares(dev, d)  BY <1>2 DEF Spares
<1> QED  BY <1>2, <1>3, NoFileIs

LEMMA ErasedIs ==
  ASSUME dev \in [Targets -> File], NEW t \in Targets, NEW d, d \in Erased(t)
  PROVE  /\ d \in [Targets -> File] /\ \A r \in Targets : r # t => d[r] = dev[r]
         /\ d[t].open = FALSE /\ (d[t].image = <<>> \/ d[t] = dev[t])
         /\ Spares(dev, d) /\ (dev[t].open = FALSE => d = dev)
<1>1. dev[t].open \in BOOLEAN  BY DEF File
<1>2. CASE dev[t].open = TRUE
  <2>1. PICK l \in BOOLEAN : d = [dev EXCEPT ![t] = [NoFile EXCEPT !.left = l]]
    BY <1>2, UndeletedIs DEF Erased
  <2>2. PICK f : f = [NoFile EXCEPT !.left = l]  OBVIOUS
  <2>3. f \in File /\ f.open = FALSE /\ f.image = <<>>  BY <2>1, <2>2, NoFileIs DEF File
  <2>4. d = [dev EXCEPT ![t] = f]  BY <2>1, <2>2
  <2>5. d \in [Targets -> File] /\ (\A r \in Targets : r # t => d[r] = dev[r]) /\ d[t] = f
    BY <2>3, <2>4
  <2> QED  BY <1>2, <2>3, <2>5 DEF Spares
<1>3. CASE dev[t].open = FALSE
  <2>1. d = dev  BY <1>3 DEF Erased
  <2> QED  BY <1>3, <2>1 DEF Spares
<1> QED  BY <1>1, <1>2, <1>3

LEMMA ImageEmpty == ASSUME NEW u  PROVE Image(u, 0) = <<>>
BY DEF Image

LEMMA ImageGrows ==
  ASSUME NEW u \in Nat, NEW n \in Nat
  PROVE  Append(Image(u, n), <<u, n + 1>>) = Image(u, n + 1)
<1>1. PICK S : S = Nat \X Nat  OBVIOUS
<1>2. PICK f : f = Image(u, n)  OBVIOUS
<1>3. f = [k \in 1..n |-> <<u, k>>]  BY <1>2 DEF Image
<1>4. \A k \in 1..n : <<u, k>> \in S  BY <1>1
<1>5. f \in [1..n -> S]  BY <1>3, <1>4
<1>6. f \in Seq(S) /\ Len(f) = n  BY <1>5
<1>7. PICK x : x = <<u, n + 1>>  OBVIOUS
<1>8. x \in S  BY <1>1, <1>7
<1>9. PICK z : z = Append(f, x)  OBVIOUS
<1>10. /\ z \in Seq(S) /\ Len(z) = n + 1 /\ DOMAIN z = 1..(n + 1) /\ z[n + 1] = x
       /\ \A k \in 1..n : z[k] = f[k]
  BY <1>6, <1>8, <1>9
<1>11. \A k \in 1..n : f[k] = <<u, k>>  BY <1>3
<1>12. \A k \in 1..(n + 1) : z[k] = <<u, k>>
  <2>1. ASSUME NEW k \in 1..(n + 1)  PROVE z[k] = <<u, k>>
    <3>1. k \in 1..n \/ k = n + 1  OBVIOUS
    <3> QED  BY <1>7, <1>10, <1>11, <3>1
  <2> QED  BY <2>1
<1>13. z \in [1..(n + 1) -> S]  BY <1>10
<1>14. z = [k \in 1..(n + 1) |-> <<u, k>>]  BY <1>12, <1>13
<1>15. Append(Image(u, n), <<u, n + 1>>) = z  BY <1>2, <1>7, <1>9
<1> QED  BY <1>14, <1>15 DEF Image

-----------------------------------------------------------------------------
(* What the invariant says of a state.                                      *)

LEMMA Parts ==
  ASSUME IInv
  PROVE  /\ inbox \in Seq(MessageType) /\ SessType(sess) /\ dev \in [Targets -> File]
         /\ task \in {"free", "granted", "asked", "open", "opened", "reset"}
         /\ MeantType(meant) /\ meant \in Seq(Targets) /\ WebType(web) /\ MqttType(mqtt)
         /\ gone \in SUBSET Sources /\ Ordered(inbox)
         /\ Mail(Held(inbox), sess, dev, meant) /\ SessOK(sess, dev, meant)
         /\ Opens(dev, sess, web, mqtt, task) /\ Left(dev, meant)
         /\ WebInv(web, Mine(Held(inbox), "web"), sess, dev, gone, meant)
         /\ MqttInv(mqtt, Mine(Held(inbox), "mqtt"), sess, dev, task, gone, meant)
BY DEF IInv, Good, Typed, MeantType

LEMMA SessFacts ==
  ASSUME IInv
  PROVE  /\ sess.up \in Nat /\ sess.state \in {"idle", "pending", "active", "complete"}
         /\ sess.state # "idle" =>
              /\ sess \in [state : {"pending", "active", "complete"}, source : Sources,
                           target : Targets, up : Nat \ {0}]
              /\ sess.source \in Sources /\ sess.target \in Targets
              /\ sess.up \in DOMAIN meant /\ sess.target = meant[sess.up]
         /\ sess.state = "idle" => sess = NoSession
<1>1. SessType(sess) /\ SessOK(sess, dev, meant)  BY Parts
<1>2. CASE sess = NoSession  BY <1>2 DEF NoSession
<1>3. CASE sess # NoSession  BY <1>1, <1>3 DEF SessType, SessOK
<1> QED  BY <1>2, <1>3

\* The uploads are numbers, their targets are targets.
LEMMA MeantFacts ==
  ASSUME NEW mt \in Seq(Targets)
  PROVE  /\ DOMAIN mt = 1..Len(mt) /\ Len(mt) \in Nat
         /\ \A u \in DOMAIN mt : u \in Nat \ {0} /\ mt[u] \in Targets /\ mt[u] # None
<1>1. \A u \in DOMAIN mt : u \in Nat \ {0} /\ mt[u] \in Targets  OBVIOUS
<1> QED  BY <1>1, OtaAssumption

LEMMA MeantGrows ==
  ASSUME NEW mt \in Seq(Targets), NEW t \in Targets, NEW mt2, mt2 = Append(mt, t)
  PROVE  /\ mt2 \in Seq(Targets) /\ Extends(mt, mt2) /\ Len(mt2) = Len(mt) + 1
         /\ Len(mt) + 1 \in DOMAIN mt2 /\ mt2[Len(mt) + 1] = t
BY DEF Extends

\* Where the HTTP thread is tells the stage.
LEMMA WebStages ==
  ASSUME NEW w, NEW Q, NEW h, NEW d, NEW g, NEW mt, WebInv(w, Q, h, d, g, mt)
  PROVE  /\ w.pc = "start" => WebBusy(w, Q, g, mt) /\ WebAsks(w, Q, h, mt)
         /\ w.pc = "result" => WebBusy(w, Q, g, mt) /\ WebKnows(w, Q, h)
         /\ w.pc = "driver" => WebBusy(w, Q, g, mt) /\ WebWaits(w, Q, h, mt)
         /\ w.pc = "open" => WebBusy(w, Q, g, mt) /\ WebOpens(w, Q, h, mt)
         /\ w.pc = "idle" /\ w.busy = TRUE => WebBusy(w, Q, g, mt) /\ WebSends(w, Q, h, d, g, mt)
         /\ w.pc = "append" => WebBusy(w, Q, g, mt) /\ WebSends(w, Q, h, d, g, mt)
         /\ w.pc = "notify" => WebBusy(w, Q, g, mt) /\ WebCloses(w, Q, h, d, mt)
         /\ w.busy = FALSE => WebFree(w, Q, g)
BY DEF WebInv, WebFree, WebBusy, WebAsks, WebKnows, WebWaits, WebOpens, WebSends, WebCloses

LEMMA Itself ==
  /\ \A Q, s : Kept(Q, Q, s)
  /\ \A d : Spares(d, d)
  /\ \A mt : Extends(mt, mt)
  /\ \A h, s, u : KeepsOwn(h, h, s, u)
  /\ \A h : GoesOn(h, h)
BY DEF Kept, Spares, Extends, KeepsOwn, GoesOn

\* Nothing changes but what the web server keeps.
LEMMA WebAlone ==
  ASSUME IInv, UNCHANGED <<inbox, sess, task, dev, meant, mqtt, gone>>,
         NEW w, w = web', WebType(w),
         WebInv(w, Mine(Held(inbox), "web"), sess, dev, gone, meant),
         \A t \in Targets, u \in Nat : \A im :
           sess.source = "web" /\ WebWrites(web, u, t, im) => WebWrites(w, u, t, im)
  PROVE  IInv'
<1>1. Opens(dev, sess, w, mqtt, task)  BY Parts, SessFacts, OpensFrame
<1> QED  BY <1>1 DEF IInv, Good, Typed

\* The web server goes on, perhaps with a message, perhaps with another file.
LEMMA WebMoves ==
  ASSUME IInv, UNCHANGED <<sess, task, mqtt, gone>>, NEW q, q = inbox', NEW d, d = dev',
         NEW w, w = web', NEW mt, mt = meant',
         q \in Seq(MessageType), d \in [Targets -> File], MeantType(mt), WebType(w), Ordered(q),
         Kept(Mine(Held(inbox), "mqtt"), Mine(Held(q), "mqtt"), "mqtt"), Extends(meant, mt),
         Mail(Held(q), sess, d, mt), SessOK(sess, d, mt), Opens(d, sess, w, mqtt, task),
         Left(d, mt), WebInv(w, Mine(Held(q), "web"), sess, d, gone, mt),
         MqttSpared(mqtt, sess, dev, d)
  PROVE  IInv'
<1>1. MqttInv(mqtt, Mine(Held(q), "mqtt"), sess, d, task, gone, mt)
  <2>1. PICK Q, Q2 : Q = Mine(Held(inbox), "mqtt") /\ Q2 = Mine(Held(q), "mqtt")  OBVIOUS
  <2>2. /\ MqttInv(mqtt, Q, sess, dev, task, gone, meant) /\ Kept(Q, Q2, "mqtt")
        /\ KeepsOwn(sess, sess, "mqtt", mqtt.up) /\ meant \in Seq(Targets)
    BY <2>1, Parts, Itself
  <2>3. MqttInv(mqtt, Q2, sess, d, task, gone, mt)  BY <2>2, MqttKeeps
  <2> QED  BY <2>1, <2>3
<1>2. Typed(q, sess, task, d, mt, w, mqtt, gone)  BY Parts DEF Typed
<1> QED  BY <1>1, <1>2 DEF IInv, Good

-----------------------------------------------------------------------------
(* The steps of the web server.                                             *)

LEMMA WebTakesStart ==
  ASSUME IInv, WebTakeStart, UNCHANGED <<mqttVars, gone>>
  PROVE  IInv'
<1>1. /\ web.pc = "start" /\ web.startSem = TRUE
      /\ UNCHANGED <<inbox, sess, task, dev, meant, mqtt, gone>>
      /\ web' = [web EXCEPT !.pc = "result", !.startSem = FALSE] /\ WebType(web)
  BY Parts DEF WebTakeStart, At, WebFrame, mqttVars, WebType
<1>2. PICK w : w = web'  OBVIOUS
<1>3. /\ WebType(w) /\ w.pc = "result" /\ w.startSem = FALSE /\ w.busy = web.busy /\ w.up = web.up
      /\ w.granted = web.granted /\ w.driverSem = web.driverSem /\ w.seq = web.seq
      /\ w.next = web.next
  BY <1>1, <1>2 DEF WebType
<1>4. PICK Q : Q = Mine(Held(inbox), "web")  OBVIOUS
<1>5. WebBusy(web, Q, gone, meant) /\ WebAsks(web, Q, sess, meant)
  BY <1>1, <1>4, Parts, WebStages
<1>6. WebBusy(w, Q, gone, meant)  BY <1>1, <1>3, <1>5 DEF WebBusy
<1>7. WebKnows(w, Q, sess)
  BY <1>1, <1>3, <1>5 DEF WebAsks, WebKnows, NoSems, Fresh
<1>8. WebInv(w, Q, sess, dev, gone, meant)  BY <1>6, <1>7 DEF WebInv
<1> QED  BY <1>1, <1>2, <1>3, <1>4, <1>8, WebAlone DEF WebWrites

LEMMA WebIsRefused ==
  ASSUME IInv, WebRefused, UNCHANGED <<mqttVars, gone>>
  PROVE  IInv'
<1>1. /\ web.pc = "result" /\ UNCHANGED <<inbox, sess, task, dev, meant, mqtt, gone>>
      /\ web' = [web EXCEPT !.pc = "idle", !.busy = FALSE] /\ WebType(web)
  BY Parts DEF WebRefused, At, WebFrame, mqttVars, GivesUp
<1>2. PICK w : w = web'  OBVIOUS
<1>3. /\ WebType(w) /\ w.pc = "idle" /\ w.startSem = web.startSem /\ w.busy = FALSE
      /\ w.driverSem = web.driverSem
  BY <1>1, <1>2 DEF WebType
<1>4. PICK Q : Q = Mine(Held(inbox), "web")  OBVIOUS
<1>5. WebBusy(web, Q, gone, meant) /\ WebKnows(web, Q, sess)
  BY <1>1, <1>4, Parts, WebStages
<1>6. WebFree(w, Q, gone)  BY <1>1, <1>3, <1>5 DEF WebBusy, WebKnows, WebFree, NoSems
<1>7. WebInv(w, Q, sess, dev, gone, meant)  BY <1>6 DEF WebInv
<1> QED  BY <1>1, <1>2, <1>3, <1>4, <1>7, WebAlone DEF WebWrites

LEMMA WebTakesDriver ==
  ASSUME IInv, WebTakeDriver, UNCHANGED <<mqttVars, gone>>
  PROVE  IInv'
<1>1. /\ web.pc = "driver" /\ web.driverSem = TRUE
      /\ UNCHANGED <<inbox, sess, task, dev, meant, mqtt, gone>>
      /\ web' = [web EXCEPT !.pc = "open", !.driverSem = FALSE] /\ WebType(web)
  BY Parts DEF WebTakeDriver, At, WebFrame, mqttVars, WebType
<1>2. PICK w : w = web'  OBVIOUS
<1>3. /\ WebType(w) /\ w.pc = "open" /\ w.startSem = web.startSem /\ w.busy = web.busy
      /\ w.up = web.up
      /\ w.driver = web.driver /\ w.driverSem = FALSE /\ w.seq = web.seq /\ w.next = web.next
  BY <1>1, <1>2 DEF WebType
<1>4. PICK Q : Q = Mine(Held(inbox), "web")  OBVIOUS
<1>5. WebBusy(web, Q, gone, meant) /\ WebWaits(web, Q, sess, meant)
  BY <1>1, <1>4, Parts, WebStages
<1>6. WebBusy(w, Q, gone, meant)  BY <1>1, <1>3, <1>5 DEF WebBusy
<1>7. WebOpens(w, Q, sess, meant)
  BY <1>1, <1>3, <1>5 DEF WebWaits, WebOpens, NoSems, Fresh
<1>8. WebInv(w, Q, sess, dev, gone, meant)  BY <1>6, <1>7 DEF WebInv
<1> QED  BY <1>1, <1>2, <1>3, <1>4, <1>8, WebAlone DEF WebWrites

\* An answer is waited for as long as it is underway.
LEMMA WebNeverGivesUp ==
  ASSUME IInv, GivesUpWaiting, "late" \notin Faults
  PROVE  FALSE
<1>1. /\ ~Underway("web") /\ \/ web.pc = "start" /\ web.startSem = FALSE
                             \/ web.pc = "driver" /\ web.driverSem = FALSE
  BY Parts DEF GivesUpWaiting, WebTimeout, At, WebType
<1>2. PICK Q : Q = Mine(Held(inbox), "web")  OBVIOUS
<1>3. /\ web.pc = "start" => WebAsks(web, Q, sess, meant)
      /\ web.pc = "driver" => WebWaits(web, Q, sess, meant)
  BY <1>2, Parts, WebStages
<1>4. \A x : Asks(x, "web") /\ Sole(Q, "web", x) => ~Quiet(Q, "web")  BY DEF Sole, Quiet
<1>5. "web" \in Sources  BY DEF Sources
<1>6. /\ \A b : Sole(Q, "web", StartResponse("web", b)) => ~Quiet(Q, "web")
      /\ Sole(Q, "web", StartRequest("web", meant[web.up], web.up)) => ~Quiet(Q, "web")
      /\ Sole(Q, "web", RequestDriver("web")) => ~Quiet(Q, "web")
      /\ Sole(Q, "web", DriverResponse("web", meant[web.up])) => ~Quiet(Q, "web")
  BY <1>4, <1>5, AskKinds
<1>7. ~Quiet(Q, "web")  BY <1>1, <1>3, <1>6 DEF WebAsks, WebWaits
<1>8. PICK x \in Q : Asks(x, "web")  BY <1>7 DEF Quiet
<1>9. PICK i \in DOMAIN inbox : x = inbox[i]  BY <1>2, <1>8 DEF Mine, Held
<1> QED  BY <1>1, <1>8, <1>9 DEF Asks, Underway

\* A message of s is posted.
LEMMA Posting ==
  ASSUME IInv, NEW s \in Sources, NEW r \in Sources, r # s, NEW x \in MessageType,
         Asks(x, s) \/ Ends(x, s), NEW q, q = Append(inbox, x)
  PROVE  /\ q \in Seq(MessageType) /\ Adds(inbox, q, x) /\ Held(q) = Held(inbox) \cup {x}
         /\ Kept(Mine(Held(inbox), r), Mine(Held(q), r), r)
<1>1. q \in Seq(MessageType) /\ Adds(inbox, q, x)  BY Parts, Adding
<1>2. ~Asks(x, r) /\ ~Ends(x, r)
  <2>1. CASE Asks(x, s)  BY <2>1, AsksOnce
  <2>2. CASE Ends(x, s)  BY <2>2 DEF Asks, Ends
  <2> QED  BY <2>1, <2>2
<1>3. Mine(Held(q), r) = Mine(Held(inbox), r)  BY <1>1, <1>2, MineAdded
<1> QED  BY <1>1, <1>3, Itself DEF Adds

\* Its request is the next message of a quiet source.
LEMMA PostingAsk ==
  ASSUME IInv, NEW s \in Sources, NEW x \in MessageType, Asks(x, s), NEW q, q = Append(inbox, x),
         Quiet(Mine(Held(inbox), s), s)
  PROVE  /\ Ordered(q) /\ Sole(Mine(Held(q), s), s, x)
         /\ \A y \in Mine(Held(q), s) : Ends(y, s) => y \in Mine(Held(inbox), s)
<1>1. Adds(inbox, q, x)  BY Parts, Adding
<1>2. \A z \in Held(inbox) : Before(z, x)  BY AskBefore
<1>3. Ordered(q)  BY <1>1, <1>2, Parts DEF Adds
<1> QED  BY <1>1, <1>3, AskAdded

\* A quiet source says that its upload is over.
LEMMA PostingEnd ==
  ASSUME IInv, NEW s \in Sources, NEW x \in MessageType, Ends(x, s), NEW q, q = Append(inbox, x),
         Quiet(Mine(Held(inbox), s), s)
  PROVE  /\ Ordered(q) /\ Quiet(Mine(Held(q), s), s)
         /\ Mine(Held(q), s) = Mine(Held(inbox), s) \cup {x}
<1>1. Adds(inbox, q, x)  BY Parts, Adding
<1>2. \A z \in Held(inbox) : ~(z.id = "StartRequest" /\ z.source = s)  BY QuietStart
<1>3. \A z \in Held(inbox) : Before(z, x)  BY <1>2, EndBefore
<1>4. Ordered(q)  BY <1>1, <1>3, Parts DEF Adds
<1>5. Mine(Held(q), s) = Mine(Held(inbox), s) \cup {x} /\ ~Asks(x, s)  BY <1>1, EndAdded
<1>6. Quiet(Mine(Held(q), s), s)  BY <1>5 DEF Quiet
<1> QED  BY <1>4, <1>5, <1>6

\* What a source said when an upload was over names an upload.
LEMMA EndsFit ==
  ASSUME IInv, NEW s, NEW x \in Mine(Held(inbox), s), Ends(x, s)
  PROVE  /\ x \in Held(inbox) /\ x.up \in DOMAIN meant
         /\ sess.state # "idle" /\ sess.source = s => sess.up <= x.up
<1>1. x \in Held(inbox)  BY DEF Mine
<1>2. Fits(x, sess, dev, meant)  BY <1>1, Parts DEF Mail
<1> QED  BY <1>1, <1>2 DEF Fits, Ends

LEMMA WebStarts ==
  ASSUME IInv, NEW t \in Targets, WebStart(t), UNCHANGED <<mqttVars, gone>>
  PROVE  IInv'
<1>1. /\ web.pc = "idle" /\ web.busy = FALSE /\ UNCHANGED <<sess, task, dev, mqtt, gone>>
      /\ Len(meant) < LastUpload /\ meant' = Append(meant, t)
      /\ web' = [web EXCEPT !.pc = "start", !.busy = TRUE, !.seq = 0, !.driver = None,
                            !.next = 0, !.up = Len(meant) + 1]
      /\ inbox' = Append(inbox, StartRequest("web", t, Len(meant) + 1)) /\ WebType(web)
  BY Parts DEF WebStart, At, WebFrame, mqttVars, Post, WebType
<1>2. PICK w, q, mt, u, x : /\ w = web' /\ q = inbox' /\ mt = meant' /\ u = Len(meant) + 1
                            /\ x = StartRequest("web", t, u)
  OBVIOUS
<1>3. /\ meant \in Seq(Targets) /\ Len(meant) \in Nat /\ DOMAIN meant = 1..Len(meant)
      /\ u \in Nat \ {0}
  BY <1>2, Parts, MeantFacts
<1>4. /\ mt \in Seq(Targets) /\ Extends(meant, mt) /\ u \in DOMAIN mt /\ mt[u] = t
      /\ Len(mt) = Len(meant) + 1
  BY <1>1, <1>2, <1>3, MeantGrows
<1>5. MeantType(mt)  BY <1>1, <1>3, <1>4, OtaAssumption DEF MeantType
<1>6. web' = [web EXCEPT !.pc = "start", !.busy = TRUE, !.seq = 0, !.driver = None,
                         !.next = 0, !.up = u]
  BY <1>1, <1>2
<1>7. /\ WebType(w) /\ w.pc = "start" /\ w.startSem = web.startSem /\ w.busy = TRUE /\ w.up = u
      /\ w.driverSem = web.driverSem /\ w.seq = 0 /\ w.next = 0
  <2>1. 0 \in 0..Chunks /\ None \in Targets \cup {None} /\ u \in Nat
    BY <1>3, OtaAssumption
  <2>2. w = [web EXCEPT !.pc = "start", !.busy = TRUE, !.seq = 0, !.driver = None,
                        !.next = 0, !.up = u]
    BY <1>2, <1>6
  <2>3. w = [pc |-> "start", busy |-> TRUE, driver |-> None, seq |-> 0, granted |-> web.granted,
             startSem |-> web.startSem, driverSem |-> web.driverSem, closed |-> web.closed,
             next |-> 0, up |-> u]
    BY <1>1, <2>2 DEF WebType
  <2>4. /\ web.granted \in BOOLEAN /\ web.startSem \in BOOLEAN /\ web.driverSem \in BOOLEAN
        /\ web.closed \in BOOLEAN
    BY <1>1 DEF WebType
  <2> QED  BY <2>1, <2>3, <2>4 DEF WebType
<1>8. "web" \in Sources /\ "mqtt" \in Sources  BY DEF Sources
<1>9. x \in MessageType /\ x.id = "StartRequest" /\ x.source = "web" /\ x.target = t /\ x.up = u
  BY <1>2, <1>3, <1>8, StartRequestIs
<1>10. Asks(x, "web") /\ q = Append(inbox, x)  BY <1>1, <1>2, <1>9 DEF Asks
<1>11. PICK Q, Q2 : Q = Mine(Held(inbox), "web") /\ Q2 = Mine(Held(q), "web")  OBVIOUS
<1>12. WebFree(web, Q, gone)  BY <1>1, <1>11, Parts, WebStages
<1>13. /\ q \in Seq(MessageType) /\ Held(q) = Held(inbox) \cup {x}
       /\ Kept(Mine(Held(inbox), "mqtt"), Mine(Held(q), "mqtt"), "mqtt")
  BY <1>8, <1>9, <1>10, Posting
<1>14. Ordered(q) /\ Sole(Q2, "web", x) /\ \A y \in Q2 : Ends(y, "web") => y \in Q
  BY <1>8, <1>9, <1>10, <1>11, <1>12, PostingAsk DEF WebFree
<1>15. Mail(Held(q), sess, dev, mt)
  <2>1. Mail(Held(inbox), sess, dev, mt)  BY <1>3, <1>4, Parts, Itself, MailFrame
  <2>2. sess.state # "idle" => sess.up < u  BY <1>2, <1>3, SessFacts
  <2>3. Fits(x, sess, dev, mt)  BY <1>4, <1>9, <2>2 DEF Fits
  <2> QED  BY <1>13, <2>1, <2>3, MailMore
<1>16. SessOK(sess, dev, mt) /\ Left(dev, mt)
  BY <1>3, <1>4, Parts, Itself, SessFrame, LeftFrame
<1>17. Opens(dev, sess, w, mqtt, task)
  <2>1. \A v \in Targets, n \in Nat : \A im :
          sess.source = "web" /\ WebWrites(web, n, v, im) => WebWrites(w, n, v, im)
    BY <1>1 DEF WebWrites
  <2> QED  BY <2>1, Parts, SessFacts, OpensFrame
<1>18. WebInv(w, Q2, sess, dev, gone, mt)
  <2>1. ASSUME NEW y \in Q2, Ends(y, "web")  PROVE y.up < u
    <3>1. y \in Q  BY <1>14, <2>1
    <3>2. y.up \in DOMAIN meant  BY <1>11, <2>1, <3>1, EndsFit
    <3> QED  BY <1>2, <1>3, <3>2
  <2>2. WebBusy(w, Q2, gone, mt)  BY <1>4, <1>7, <1>12, <2>1 DEF WebBusy, WebFree
  <2>3. x = StartRequest("web", mt[w.up], w.up)  BY <1>2, <1>4, <1>7
  <2>4. WebAsks(w, Q2, sess, mt)
    BY <1>7, <1>12, <1>14, <2>3 DEF WebAsks, WebFree, NoSems, Fresh
  <2> QED  BY <2>2, <2>4 DEF WebInv
<1>19. MqttSpared(mqtt, sess, dev, dev)  BY Itself DEF MqttSpared
<1> QED
  BY <1>1, <1>2, <1>4, <1>5, <1>7, <1>11, <1>13, <1>14, <1>15, <1>16, <1>17, <1>18, <1>19,
     Parts, WebMoves

LEMMA WebIsGranted ==
  ASSUME IInv, WebGranted, UNCHANGED <<mqttVars, gone>>
  PROVE  IInv'
<1>1. /\ web.pc = "result" /\ web.granted = TRUE /\ UNCHANGED <<sess, task, dev, meant, mqtt, gone>>
      /\ web' = [web EXCEPT !.pc = "driver"]
      /\ inbox' = Append(inbox, RequestDriver("web")) /\ WebType(web)
  BY Parts DEF WebGranted, At, WebFrame, mqttVars, Post, WebType
<1>2. PICK w, q, x : w = web' /\ q = inbox' /\ x = RequestDriver("web")  OBVIOUS
<1>3. /\ WebType(w) /\ w.pc = "driver" /\ w.startSem = web.startSem /\ w.busy = web.busy
      /\ w.up = web.up /\ w.driverSem = web.driverSem /\ w.seq = web.seq /\ w.next = web.next
  BY <1>1, <1>2 DEF WebType
<1>4. "web" \in Sources /\ "mqtt" \in Sources  BY DEF Sources
<1>5. x \in MessageType /\ x.id = "RequestDriver" /\ x.source = "web"
  BY <1>2, <1>4, RequestDriverIs
<1>6. Asks(x, "web") /\ q = Append(inbox, x)  BY <1>1, <1>2, <1>5 DEF Asks
<1>7. PICK Q, Q2 : Q = Mine(Held(inbox), "web") /\ Q2 = Mine(Held(q), "web")  OBVIOUS
<1>8. WebBusy(web, Q, gone, meant) /\ WebKnows(web, Q, sess)  BY <1>1, <1>7, Parts, WebStages
<1>9. /\ q \in Seq(MessageType) /\ Held(q) = Held(inbox) \cup {x}
      /\ Kept(Mine(Held(inbox), "mqtt"), Mine(Held(q), "mqtt"), "mqtt")
  BY <1>4, <1>5, <1>6, Posting
<1>10. Ordered(q) /\ Sole(Q2, "web", x) /\ \A y \in Q2 : Ends(y, "web") => y \in Q
  BY <1>4, <1>5, <1>6, <1>7, <1>8, PostingAsk DEF WebKnows
<1>11. Mail(Held(q), sess, dev, meant)
  <2>1. Fits(x, sess, dev, meant)  BY <1>5 DEF Fits
  <2> QED  BY <1>9, <2>1, Parts, MailMore
<1>12. Opens(dev, sess, w, mqtt, task)
  <2>1. \A v \in Targets, n \in Nat : \A im :
          sess.source = "web" /\ WebWrites(web, n, v, im) => WebWrites(w, n, v, im)
    BY <1>1 DEF WebWrites
  <2> QED  BY <2>1, Parts, SessFacts, OpensFrame
<1>13. WebInv(w, Q2, sess, dev, gone, meant)
  <2>1. WebBusy(w, Q2, gone, meant)  BY <1>1, <1>3, <1>8, <1>10 DEF WebBusy
  <2>2. WebWaits(w, Q2, sess, meant)
    BY <1>1, <1>2, <1>3, <1>8, <1>10 DEF WebWaits, WebKnows, NoSems, Fresh
  <2> QED  BY <2>1, <2>2 DEF WebInv
<1>14. MqttSpared(mqtt, sess, dev, dev) /\ Extends(meant, meant)  BY Itself DEF MqttSpared
<1> QED
  BY <1>1, <1>2, <1>3, <1>7, <1>9, <1>10, <1>11, <1>12, <1>13, <1>14, Parts, WebMoves

\* What is open when the web server has the driver.
LEMMA WebFile ==
  ASSUME IInv, Own(sess, "web", web.up, "active"),
         WebBusy(web, Mine(Held(inbox), "web"), gone, meant)
  PROVE  /\ sess.target = meant[web.up] /\ sess.target \in Targets /\ web.up \in DOMAIN meant
         /\ web.up \in Nat \ {0}
         /\ \A t \in Targets : dev[t].open = TRUE =>
              /\ t = sess.target /\ web.pc \in {"idle", "append"} /\ web.driver = t
              /\ dev[t].image = Image(web.up, web.seq)
         /\ \A x \in Mine(Held(inbox), "web") : Ends(x, "web") => FALSE
<1>1. sess.state # "idle" /\ sess.source = "web" /\ sess.up = web.up  BY DEF Own
<1>2. sess.target = meant[web.up] /\ sess.target \in Targets /\ web.up \in DOMAIN meant
  BY <1>1, SessFacts
<1>3. web.up \in Nat \ {0}  BY <1>2, Parts, MeantFacts
<1>4. \A t \in Targets : dev[t].open = TRUE =>
        /\ t = sess.target /\ web.pc \in {"idle", "append"} /\ web.driver = t
        /\ dev[t].image = Image(web.up, web.seq)
  BY <1>1, Parts DEF Opens, WebWrites
<1>5. ASSUME NEW x \in Mine(Held(inbox), "web"), Ends(x, "web")  PROVE FALSE
  <2>1. x.up < web.up /\ web.up <= x.up /\ x.up \in DOMAIN meant
    BY <1>1, <1>5, EndsFit DEF WebBusy
  <2>2. x.up \in Nat  BY <2>1, Parts, MeantFacts
  <2> QED  BY <1>3, <2>1, <2>2
<1> QED  BY <1>2, <1>3, <1>4, <1>5

\* The web server opens the file.
LEMMA WebHasOpened ==
  ASSUME IInv, WebOpen, UNCHANGED <<mqttVars, gone>>
  PROVE  IInv'
<1>1. web.pc = "open" /\ UNCHANGED <<inbox, sess, task, meant, mqtt, gone>> /\ WebType(web)
  BY Parts DEF WebOpen, At, WebFrame, mqttVars
<1>2. PICK Q : Q = Mine(Held(inbox), "web")  OBVIOUS
<1>3. WebBusy(web, Q, gone, meant) /\ WebOpens(web, Q, sess, meant)
  BY <1>1, <1>2, Parts, WebStages
<1>4. PICK t : t = web.driver  OBVIOUS
<1>5. /\ t = sess.target /\ t = meant[web.up] /\ t \in Targets /\ web.up \in DOMAIN meant
      /\ web.up \in Nat \ {0} /\ sess.up = web.up /\ sess.source = "web" /\ sess.state = "active"
  BY <1>2, <1>3, <1>4, WebFile DEF WebOpens, Own
<1>6. t # None  BY <1>5, OtaAssumption
<1>7. dev' \in Opened(t) /\ web' = [web EXCEPT !.pc = "idle"]
  BY <1>1, <1>4, <1>6 DEF WebOpen
<1>8. PICK w, d : w = web' /\ d = dev'  OBVIOUS
<1>9. /\ d \in [Targets -> File] /\ \A r \in Targets : r # t => d[r] = dev[r]
      /\ d[t].open = TRUE /\ d[t].image = <<>>
  <2>1. dev \in [Targets -> File] /\ t \in Targets /\ d \in Opened(t)  BY <1>5, <1>7, <1>8, Parts
  <2> QED  BY ONLY <2>1, OpenedIs
<1>10. /\ WebType(w) /\ w.pc = "idle" /\ w.startSem = web.startSem /\ w.busy = web.busy
       /\ w.up = web.up /\ w.driverSem = web.driverSem /\ w.seq = web.seq /\ w.next = web.next
       /\ w.driver = t
  BY <1>1, <1>4, <1>7, <1>8 DEF WebType
<1>11. Mail(Held(inbox), sess, d, meant)
  <2>1. ASSUME NEW x \in Held(inbox), x.id = "CompleteNotify", x.success = TRUE,
               x.source = sess.source, x.up = sess.up
        PROVE  FALSE
    <3>1. Ends(x, "web") /\ x \in Mine(Held(inbox), "web")  BY <1>5, <2>1 DEF Ends, Mine
    <3> QED  BY <1>2, <1>3, <3>1, WebFile DEF WebOpens
  <2>2. NoSuccess(Held(inbox), sess)  BY <2>1 DEF NoSuccess
  <2> QED  BY <2>2, Parts, Itself, MailFrame
<1>12. SessOK(sess, d, meant)  BY <1>5, Parts, Itself, SessFrame
<1>13. Left(d, meant)
  <2>1. t \in Targets /\ Left(dev, meant) /\ \A r \in Targets : r # t => d[r] = dev[r]
    BY <1>5, <1>9, Parts
  <2>2. \/ d[t].open = TRUE \/ d[t].image = <<>> \/ d[t] = dev[t]
        \/ \E v \in DOMAIN meant : d[t].image = Image(v, Chunks)
    BY <1>9
  <2> QED  BY ONLY <2>1, <2>2, LeftChanged
<1>14. Opens(d, sess, w, mqtt, task)
  <2>1. WebWrites(w, sess.up, t, d[t].image)
    BY <1>3, <1>5, <1>9, <1>10, ImageEmpty DEF WebWrites, WebOpens, WebBusy, Fresh
  <2>2. ASSUME NEW r \in Targets, d[r].open = TRUE  PROVE r = t
    <3>1. ASSUME r # t  PROVE FALSE
      <4>1. dev[r].open = TRUE  BY <1>9, <2>2, <3>1
      <4> QED  BY <1>2, <1>3, <1>5, <3>1, <4>1, WebFile DEF WebOpens
    <3> QED  BY <3>1
  <2> QED  BY <1>5, <2>1, <2>2 DEF Opens
<1>15. WebInv(w, Q, sess, d, gone, meant)
  <2>1. WebBusy(w, Q, gone, meant)  BY <1>3, <1>10 DEF WebBusy
  <2>2. WebSends(w, Q, sess, d, gone, meant)
    BY <1>3, <1>5, <1>10 DEF WebSends, WebOpens, NoSems, Fresh
  <2> QED  BY <2>1, <2>2 DEF WebInv
<1>16. MqttSpared(mqtt, sess, dev, d)  BY <1>5 DEF MqttSpared
<1>17. /\ Kept(Mine(Held(inbox), "mqtt"), Mine(Held(inbox), "mqtt"), "mqtt")
       /\ Extends(meant, meant)
  BY Itself
<1> QED
  BY <1>1, <1>2, <1>8, <1>9, <1>10, <1>11, <1>12, <1>13, <1>14, <1>15, <1>16, <1>17, Parts, WebMoves

\* The upload is over, with success or without.
LEMMA WebEndsIt ==
  ASSUME IInv, UNCHANGED <<sess, task, meant, mqtt, gone>>,
         WebBusy(web, Mine(Held(inbox), "web"), gone, meant), NoSems(web),
         web.pc # "idle" \/ "web" \notin gone,
         Quiet(Mine(Held(inbox), "web"), "web"), Own(sess, "web", web.up, "active"),
         NEW b \in BOOLEAN, inbox' = Append(inbox, Notify("web", b, web.up)),
         NEW w, w = web', WebType(w), w.pc = "idle", w.busy = FALSE, NoSems(w),
         NEW d, d = dev', d \in [Targets -> File], Spares(dev, d), Left(d, meant),
         \A t \in Targets : d[t].open = FALSE,
         b = TRUE => WholeAt(d, meant[web.up], web.up)
  PROVE  IInv'
<1>1. PICK q, x : q = inbox' /\ x = Notify("web", b, web.up)  OBVIOUS
<1>2. "web" \in Sources /\ "mqtt" \in Sources  BY DEF Sources
<1>3. web.up \in DOMAIN meant /\ web.up \in Nat  BY WebFile
<1>4. /\ x \in MessageType /\ x.id = "CompleteNotify" /\ x.source = "web" /\ x.success = b
      /\ x.up = web.up
  BY <1>1, <1>2, <1>3, NotifyIs
<1>5. Ends(x, "web") /\ q = Append(inbox, x)  BY <1>1, <1>4 DEF Ends
<1>6. /\ q \in Seq(MessageType) /\ Held(q) = Held(inbox) \cup {x}
      /\ Kept(Mine(Held(inbox), "mqtt"), Mine(Held(q), "mqtt"), "mqtt")
  <2>1. /\ IInv /\ "web" \in Sources /\ "mqtt" \in Sources /\ "mqtt" # "web"
        /\ x \in MessageType /\ Ends(x, "web") /\ q = Append(inbox, x)
    BY <1>2, <1>4, <1>5
  <2> QED  BY ONLY <2>1, Posting
<1>7. Ordered(q) /\ Quiet(Mine(Held(q), "web"), "web")
  BY <1>2, <1>4, <1>5, PostingEnd
<1>8. Mail(Held(q), sess, d, meant)
  <2>1. Mail(Held(inbox), sess, d, meant)  BY Parts, Itself, MailFrame
  <2>2. Fits(x, sess, d, meant)  BY <1>3, <1>4 DEF Fits, Own
  <2> QED  BY <1>6, <2>1, <2>2, MailMore
<1>9. SessOK(sess, d, meant)  BY Parts, Itself, SessFrame
<1>10. Opens(d, sess, w, mqtt, task)  BY DEF Opens
<1>11. "web" \notin gone  BY DEF WebBusy
<1>12. WebInv(w, Mine(Held(q), "web"), sess, d, gone, meant)
  BY <1>7, <1>11 DEF WebInv, WebFree
<1>13. MqttSpared(mqtt, sess, dev, d) /\ Extends(meant, meant)  BY Itself DEF MqttSpared, Own
<1> QED
  BY <1>1, <1>6, <1>7, <1>8, <1>9, <1>10, <1>12, <1>13, Parts, WebMoves

\* No file is open but where the web server writes.
LEMMA WebNothingOpen ==
  ASSUME IInv, Own(sess, "web", web.up, "active"),
         WebBusy(web, Mine(Held(inbox), "web"), gone, meant)
  PROVE  /\ web.pc \notin {"idle", "append"} => \A t \in Targets : dev[t].open = FALSE
         /\ \A t \in Targets : t # sess.target => dev[t].open = FALSE
<1>1. \A t \in Targets : dev[t].open \in BOOLEAN  BY Parts DEF File
<1> QED  BY <1>1, WebFile

LEMMA WebCannotOpen ==
  ASSUME IInv, WebOpenFails, UNCHANGED <<mqttVars, gone>>
  PROVE  IInv'
<1>1. /\ web.pc = "open" /\ UNCHANGED <<sess, task, dev, meant, mqtt, gone>> /\ WebType(web)
      /\ web' = [web EXCEPT !.pc = "idle", !.busy = FALSE]
      /\ inbox' = Append(inbox, Notify("web", FALSE, web.up))
  BY Parts DEF WebOpenFails, At, WebFrame, mqttVars, GivesUp, Post
<1>2. PICK w : w = web'  OBVIOUS
<1>3. /\ WebType(w) /\ w.pc = "idle" /\ w.startSem = web.startSem /\ w.busy = FALSE
      /\ w.driverSem = web.driverSem
  BY <1>1, <1>2 DEF WebType
<1>4. /\ WebBusy(web, Mine(Held(inbox), "web"), gone, meant)
      /\ WebOpens(web, Mine(Held(inbox), "web"), sess, meant)
  BY <1>1, Parts, WebStages
<1>5. /\ NoSems(web) /\ NoSems(w) /\ Quiet(Mine(Held(inbox), "web"), "web")
      /\ Own(sess, "web", web.up, "active")
  BY <1>3, <1>4 DEF WebOpens, NoSems
<1>6. \A t \in Targets : dev[t].open = FALSE  BY <1>1, <1>4, <1>5, WebNothingOpen
<1>7. PICK b \in BOOLEAN : b = FALSE  OBVIOUS
<1>8. inbox' = Append(inbox, Notify("web", b, web.up))  BY <1>1, <1>7
<1>9. b = TRUE => WholeAt(dev, meant[web.up], web.up)  BY <1>7
<1>10. dev' = dev /\ Spares(dev, dev)  BY <1>1, Itself
<1> QED
  BY <1>1, <1>2, <1>3, <1>4, <1>5, <1>6, <1>8, <1>9, <1>10, Parts, WebEndsIt

\* A chunk cannot be written: the file is removed.
LEMMA WebWriteFailed ==
  ASSUME IInv, WriteFailed, WebFrame, UNCHANGED <<mqttVars, gone>>,
         web.pc \in {"idle", "append"}, web.busy = TRUE, "web" \notin gone
  PROVE  IInv'
<1>1. /\ UNCHANGED <<sess, task, meant, mqtt, gone>> /\ WebType(web)
      /\ web' = [web EXCEPT !.pc = "idle", !.busy = FALSE, !.seq = 0]
      /\ inbox' = Append(inbox, Notify("web", FALSE, web.up))
      /\ dev' \in Erased(web.driver)
  <2>1. web' = [[web EXCEPT !.pc = "idle", !.busy = FALSE] EXCEPT !.seq = 0]
    BY DEF WriteFailed, GivesUp
  <2>2. PICK v : v = web  OBVIOUS
  <2>3. v \in [pc : {"idle", "start", "result", "driver", "open", "append", "notify"},
         busy : BOOLEAN, driver : Targets \cup {None}, seq : 0..Chunks,
         granted : BOOLEAN, startSem : BOOLEAN, driverSem : BOOLEAN,
         closed : BOOLEAN, next : 0..Chunks, up : Nat]
    BY <2>2, Parts DEF WebType
  <2>4. [[v EXCEPT !.pc = "idle", !.busy = FALSE] EXCEPT !.seq = 0]
          = [v EXCEPT !.pc = "idle", !.busy = FALSE, !.seq = 0]
    BY <2>3
  <2> QED  BY <2>1, <2>2, <2>4, Parts DEF WriteFailed, WebFrame, mqttVars, Post
<1>2. PICK w, d : w = web' /\ d = dev'  OBVIOUS
<1>3. /\ WebType(w) /\ w.pc = "idle" /\ w.startSem = web.startSem /\ w.busy = FALSE
      /\ w.driverSem = web.driverSem
  <2>1. 0 \in 0..Chunks  BY OtaAssumption
  <2> QED  BY <1>1, <1>2, <2>1 DEF WebType
<1>4. /\ WebBusy(web, Mine(Held(inbox), "web"), gone, meant)
      /\ WebSends(web, Mine(Held(inbox), "web"), sess, dev, gone, meant)
  BY Parts, WebStages
<1>5. /\ NoSems(web) /\ NoSems(w) /\ Quiet(Mine(Held(inbox), "web"), "web")
      /\ Own(sess, "web", web.up, "active")
  BY <1>3, <1>4 DEF WebSends, NoSems
<1>6. web.driver = sess.target /\ sess.target \in Targets
  BY <1>4, <1>5, WebFile DEF WebSends
<1>7. PICK t : t = web.driver  OBVIOUS
<1>8. /\ d \in [Targets -> File] /\ \A r \in Targets : r # t => d[r] = dev[r]
      /\ d[t].open = FALSE /\ (d[t].image = <<>> \/ d[t] = dev[t])
      /\ Spares(dev, d)
  <2>1. d \in Erased(t) /\ t \in Targets /\ dev \in [Targets -> File]
    BY <1>1, <1>2, <1>6, <1>7, Parts
  <2> QED  BY ONLY <2>1, ErasedIs
<1>9. \A r \in Targets : d[r].open = FALSE
  <2>1. \A r \in Targets : r # t => dev[r].open = FALSE  BY <1>4, <1>5, <1>6, <1>7, WebNothingOpen
  <2>2. d[t].open = FALSE  BY <1>8
  <2> QED  BY <1>8, <2>1, <2>2
<1>10. Left(d, meant)
  <2>1. t \in Targets /\ Left(dev, meant) /\ \A r \in Targets : r # t => d[r] = dev[r]
    BY <1>6, <1>7, <1>8, Parts
  <2>2. \/ d[t].open = TRUE \/ d[t].image = <<>> \/ d[t] = dev[t]
        \/ \E v \in DOMAIN meant : d[t].image = Image(v, Chunks)
    BY <1>8
  <2> QED  BY ONLY <2>1, <2>2, LeftChanged
<1>11. PICK b \in BOOLEAN : b = FALSE  OBVIOUS
<1>12. inbox' = Append(inbox, Notify("web", b, web.up))  BY <1>1, <1>11
<1>13. b = TRUE => WholeAt(d, meant[web.up], web.up)  BY <1>11
<1>14. web.pc # "idle" \/ "web" \notin gone  OBVIOUS
<1>15. d \in [Targets -> File] /\ Spares(dev, d)  BY <1>8
<1> QED
  BY ONLY IInv, <1>1, <1>2, <1>3, <1>4, <1>5, <1>9, <1>10, <1>12, <1>13, <1>14, <1>15, WebEndsIt

\* A chunk comes, in order or not.
LEMMA WebHears ==
  ASSUME IInv, WebOutOfOrder \/ WebChunk, "web" \notin gone, UNCHANGED <<mqttVars, gone>>
  PROVE  IInv'
<1>1. /\ web.pc = "idle" /\ web.busy = TRUE /\ WebType(web) /\ web.next < Chunks
      /\ UNCHANGED <<inbox, sess, task, dev, meant, mqtt, gone>>
  BY Parts DEF WebOutOfOrder, WebChunk, At, WebFrame, mqttVars, WebType
<1>2. PICK Q : Q = Mine(Held(inbox), "web")  OBVIOUS
<1>3. WebBusy(web, Q, gone, meant) /\ WebSends(web, Q, sess, dev, gone, meant)
  BY <1>1, <1>2, Parts, WebStages
<1>4. PICK w : w = web'  OBVIOUS
<1>5. CASE WebOutOfOrder
  <2>1. web' = [web EXCEPT !.next = web.seq]  BY <1>5 DEF WebOutOfOrder
  <2>2. /\ WebType(w) /\ w.pc = "idle" /\ w.startSem = web.startSem /\ w.busy = web.busy
        /\ w.up = web.up /\ w.driverSem = web.driverSem /\ w.seq = web.seq /\ w.next = web.seq
        /\ w.driver = web.driver
    BY <1>1, <1>4, <2>1 DEF WebType
  <2>3. WebBusy(w, Q, gone, meant)  BY <1>3, <2>2 DEF WebBusy
  <2>4. WebSends(w, Q, sess, dev, gone, meant)
    BY <1>3, <2>2 DEF WebSends, NoSems
  <2>5. WebInv(w, Q, sess, dev, gone, meant)  BY <2>3, <2>4 DEF WebInv
  <2>6. \A v \in Targets, n \in Nat : \A im :
          sess.source = "web" /\ WebWrites(web, n, v, im) => WebWrites(w, n, v, im)
    BY <2>2 DEF WebWrites
  <2> QED  BY <1>1, <1>2, <1>4, <2>2, <2>5, <2>6, WebAlone
<1>6. CASE WebChunk
  <2>1. web' = [web EXCEPT !.pc = "append"] /\ web.next = web.seq /\ dev[web.driver].open
    BY <1>6 DEF WebChunk, InOrder
  <2>2. /\ WebType(w) /\ w.pc = "append" /\ w.startSem = web.startSem /\ w.busy = web.busy
        /\ w.up = web.up /\ w.driverSem = web.driverSem /\ w.seq = web.seq /\ w.next = web.next
        /\ w.driver = web.driver
    BY <1>1, <1>4, <2>1 DEF WebType
  <2>3. WebBusy(w, Q, gone, meant)  BY <1>3, <2>2 DEF WebBusy
  <2>4. dev[web.driver].open = TRUE
    <3>1. web.driver \in Targets  BY <1>3, Parts, MeantFacts DEF WebSends, WebBusy
    <3> QED  BY <2>1, <3>1, Parts DEF File
  <2>5. WebSends(w, Q, sess, dev, gone, meant)
    BY <1>1, <1>3, <2>1, <2>2, <2>4 DEF WebSends, NoSems
  <2>6. WebInv(w, Q, sess, dev, gone, meant)  BY <2>3, <2>5 DEF WebInv
  <2>7. \A v \in Targets, n \in Nat : \A im :
          sess.source = "web" /\ WebWrites(web, n, v, im) => WebWrites(w, n, v, im)
    BY <2>2 DEF WebWrites
  <2> QED  BY <1>1, <1>2, <1>4, <2>2, <2>6, <2>7, WebAlone
<1> QED  BY <1>5, <1>6

LEMMA WebAppends ==
  ASSUME IInv, WebAppend, UNCHANGED <<mqttVars, gone>>
  PROVE  IInv'
<1>1. web.pc = "append" /\ WebType(web) /\ UNCHANGED <<inbox, sess, task, meant, mqtt, gone>>
  BY Parts DEF WebAppend, At, WebFrame, mqttVars
<1>2. PICK Q : Q = Mine(Held(inbox), "web")  OBVIOUS
<1>3. /\ WebBusy(web, Q, gone, meant) /\ WebSends(web, Q, sess, dev, gone, meant)
      /\ "web" \notin gone
  BY <1>1, <1>2, Parts, WebStages DEF WebBusy
<1>4. Own(sess, "web", web.up, "active")  BY <1>3 DEF WebSends
<1>5. PICK t, u, n : t = web.driver /\ u = web.up /\ n = web.next  OBVIOUS
<1>6. /\ t = sess.target /\ t = meant[u] /\ t \in Targets /\ u \in DOMAIN meant
      /\ u \in Nat \ {0} /\ sess.up = u /\ sess.source = "web" /\ sess.state = "active"
  BY <1>2, <1>3, <1>4, <1>5, WebFile DEF WebSends, Own
<1>7. /\ n \in Nat /\ n < Chunks /\ n + 1 \in 1..Chunks /\ web.seq = n /\ dev[t].open = TRUE
      /\ n \in 0..Chunks /\ n + 1 \in 0..Chunks
  BY <1>1, <1>3, <1>5, OtaAssumption DEF WebSends, WebType
<1>8. dev[t].image = Image(u, n)  BY <1>2, <1>3, <1>4, <1>5, <1>6, <1>7, WebFile
<1>9. PICK w, d : w = web' /\ d = dev'  OBVIOUS
<1>10. d = Written(t, u, n + 1)  BY <1>5, <1>9 DEF WebAppend
<1>11. /\ d \in [Targets -> File] /\ \A r \in Targets : r # t => d[r] = dev[r]
       /\ d[t].open = TRUE /\ d[t].image = Append(dev[t].image, <<u, n + 1>>)
  <2>1. /\ dev \in [Targets -> File] /\ t \in Targets /\ u \in Nat /\ n + 1 \in 1..Chunks
        /\ d = Written(t, u, n + 1)
    BY <1>6, <1>7, <1>10, Parts
  <2>2. PICK k : k = n + 1  OBVIOUS
  <2>3. /\ dev \in [Targets -> File] /\ t \in Targets /\ u \in Nat /\ k \in 1..Chunks
        /\ d = Written(t, u, k)
    BY <2>1, <2>2
  <2>4. /\ d \in [Targets -> File] /\ \A r \in Targets : r # t => d[r] = dev[r]
        /\ d[t].open = dev[t].open /\ d[t].image = Append(dev[t].image, <<u, k>>)
    BY ONLY <2>3, WrittenIs
  <2> QED  BY <1>7, <2>2, <2>4
<1>12. d[t].image = Image(u, n + 1)
  <2>1. u \in Nat /\ n \in Nat  BY <1>6, <1>7
  <2>2. Append(Image(u, n), <<u, n + 1>>) = Image(u, n + 1)  BY ONLY <2>1, ImageGrows
  <2> QED  BY <1>8, <1>11, <2>2
<1>13. PICK c \in {n, n + 1} : web' = [web EXCEPT !.pc = "idle", !.seq = n + 1, !.next = c]
  BY <1>5 DEF WebAppend
<1>14. /\ WebType(w) /\ w.pc = "idle" /\ w.startSem = web.startSem /\ w.busy = web.busy
       /\ w.up = u /\ w.driverSem = web.driverSem /\ w.seq = n + 1 /\ w.next = c
       /\ w.driver = t
  BY <1>1, <1>5, <1>7, <1>9, <1>13 DEF WebType
<1>15. Spares(dev, d)
  <2>1. \A r \in Targets : dev[r].open = FALSE => r # t  BY <1>7
  <2> QED  BY <1>11, <2>1 DEF Spares
<1>16. Mail(Held(inbox), sess, d, meant)  BY <1>15, Parts, Itself, MailFrame
<1>17. SessOK(sess, d, meant)  BY <1>15, Parts, Itself, SessFrame
<1>18. Left(d, meant)
  <2>1. t \in Targets /\ Left(dev, meant) /\ \A r \in Targets : r # t => d[r] = dev[r]
    BY <1>6, <1>11, Parts
  <2>2. \/ d[t].open = TRUE \/ d[t].image = <<>> \/ d[t] = dev[t]
        \/ \E v \in DOMAIN meant : d[t].image = Image(v, Chunks)
    BY <1>11
  <2> QED  BY ONLY <2>1, <2>2, LeftChanged
<1>19. Opens(d, sess, w, mqtt, task)
  <2>1. WebWrites(w, sess.up, t, d[t].image)
    BY <1>3, <1>6, <1>12, <1>14 DEF WebWrites, WebBusy
  <2>2. ASSUME NEW r \in Targets, d[r].open = TRUE  PROVE r = t
    <3>1. ASSUME r # t  PROVE FALSE
      <4>1. dev[r].open = TRUE  BY <1>11, <2>2, <3>1
      <4> QED  BY <1>2, <1>3, <1>4, <1>6, <3>1, <4>1, WebFile
    <3> QED  BY <3>1
  <2> QED  BY <1>6, <2>1, <2>2 DEF Opens
<1>20. WebInv(w, Q, sess, d, gone, meant)
  <2>1. WebBusy(w, Q, gone, meant)  BY <1>3, <1>5, <1>14 DEF WebBusy
  <2>2. w.seq = w.next \/ w.seq = w.next + 1  BY <1>7, <1>13, <1>14
  <2>3. WebSends(w, Q, sess, d, gone, meant)
    BY <1>3, <1>4, <1>5, <1>6, <1>14, <2>2 DEF WebSends, NoSems
  <2> QED  BY <2>1, <2>3 DEF WebInv
<1>21. MqttSpared(mqtt, sess, dev, d)  BY <1>6 DEF MqttSpared
<1>22. /\ Kept(Mine(Held(inbox), "mqtt"), Mine(Held(inbox), "mqtt"), "mqtt")
       /\ Extends(meant, meant)
  BY Itself
<1> QED
  BY <1>1, <1>2, <1>9, <1>11, <1>14, <1>16, <1>17, <1>18, <1>19, <1>20, <1>21, <1>22, Parts,
     WebMoves

\* The file is closed: what the web server says next is what it found.
LEMMA WebIsClosed ==
  ASSUME IInv, WebFrame, inbox' = inbox, UNCHANGED <<mqttVars, gone>>, "web" \notin gone, Closing,
         NEW b \in BOOLEAN, web' = [web EXCEPT !.pc = "notify", !.closed = b],
         NEW d, d = dev', d \in [Targets -> File], Spares(dev, d),
         \A r \in Targets : r # web.driver => d[r] = dev[r],
         d[web.driver].open = FALSE,
         \/ b = TRUE /\ dev[web.driver].open = TRUE /\ d[web.driver].image = dev[web.driver].image
         \/ b = FALSE /\ (d[web.driver].image = <<>> \/ d[web.driver] = dev[web.driver])
  PROVE  IInv'
<1>1. /\ web.pc = "idle" /\ web.busy = TRUE /\ web.next = Chunks /\ WebType(web)
      /\ UNCHANGED <<inbox, sess, task, meant, mqtt, gone>>
  BY Parts DEF Closing, At, WebFrame, mqttVars, WebType
<1>2. PICK Q : Q = Mine(Held(inbox), "web")  OBVIOUS
<1>3. WebBusy(web, Q, gone, meant) /\ WebSends(web, Q, sess, dev, gone, meant)
  BY <1>1, <1>2, Parts, WebStages
<1>4. Own(sess, "web", web.up, "active")  BY <1>3 DEF WebSends
<1>5. PICK t, u : t = web.driver /\ u = web.up  OBVIOUS
<1>6. /\ t = sess.target /\ t = meant[u] /\ t \in Targets /\ u \in DOMAIN meant
      /\ u \in Nat \ {0} /\ sess.up = u /\ sess.source = "web" /\ sess.state = "active"
  BY <1>2, <1>3, <1>4, <1>5, WebFile DEF WebSends, Own
<1>7. PICK w : w = web'  OBVIOUS
<1>8. /\ WebType(w) /\ w.pc = "notify" /\ w.startSem = web.startSem /\ w.busy = web.busy
      /\ w.up = u /\ w.driverSem = web.driverSem /\ w.driver = t /\ w.closed = b
  BY <1>1, <1>5, <1>7 DEF WebType
<1>9. web.seq = Chunks  BY <1>1, <1>3, OtaAssumption DEF WebSends, WebType
<1>10. b = TRUE => WholeAt(d, t, u)
  <2>1. ASSUME b = TRUE  PROVE dev[t].image = Image(u, Chunks)
    <3>1. dev[t].open = TRUE  BY <1>5, <2>1
    <3> QED  BY <1>2, <1>3, <1>4, <1>5, <1>6, <1>9, <3>1, WebFile
  <2>2. b = TRUE => d[t].image = dev[t].image  BY <1>5
  <2>3. d[t].open = FALSE  BY <1>5
  <2> QED  BY <2>1, <2>2, <2>3 DEF WholeAt
<1>11. Mail(Held(inbox), sess, d, meant)  BY Parts, Itself, MailFrame
<1>12. SessOK(sess, d, meant)  BY Parts, Itself, SessFrame
<1>13. Left(d, meant)
  <2>1. \/ d[t].image = <<>> \/ d[t] = dev[t]
        \/ \E v \in DOMAIN meant : d[t].image = Image(v, Chunks)
    BY <1>5, <1>6, <1>10 DEF WholeAt
  <2>2. \A r \in Targets : r # t => d[r] = dev[r]  BY <1>5
  <2>3. \/ d[t].open = TRUE \/ d[t].image = <<>> \/ d[t] = dev[t]
        \/ \E v \in DOMAIN meant : d[t].image = Image(v, Chunks)
    BY <2>1
  <2>4. Left(dev, meant) /\ t \in Targets  BY <1>6, Parts
  <2> QED  BY ONLY <2>2, <2>3, <2>4, LeftChanged
<1>14. Opens(d, sess, w, mqtt, task)
  <2>1. \A r \in Targets : r # t => d[r] = dev[r]  BY <1>5
  <2>2. d[t].open = FALSE  BY <1>5
  <2>3. t = sess.target /\ Opens(dev, sess, web, mqtt, task)  BY <1>6, Parts
  <2>4. \A r \in Targets : d[r].open # TRUE
    <3>1. \A r \in Targets : dev[r].open = TRUE => r = t  BY <2>3 DEF Opens
    <3> QED  BY <2>1, <2>2, <3>1
  <2> QED  BY <2>4 DEF Opens
<1>15. WebInv(w, Q, sess, d, gone, meant)
  <2>1. WebBusy(w, Q, gone, meant)  BY <1>3, <1>5, <1>8 DEF WebBusy
  <2>2. WebCloses(w, Q, sess, d, meant)
    BY <1>3, <1>4, <1>5, <1>6, <1>8, <1>10 DEF WebSends, WebCloses, NoSems
  <2> QED  BY <2>1, <2>2 DEF WebInv
<1>16. MqttSpared(mqtt, sess, dev, d)  BY <1>6 DEF MqttSpared
<1>17. /\ Kept(Mine(Held(inbox), "mqtt"), Mine(Held(inbox), "mqtt"), "mqtt")
       /\ Extends(meant, meant)
  BY Itself
<1> QED
  BY <1>1, <1>2, <1>7, <1>8, <1>11, <1>12, <1>13, <1>14, <1>15, <1>16, <1>17, Parts, WebMoves

LEMMA WebDriverIs ==
  ASSUME IInv, web.pc \in {"idle", "append"}, web.busy = TRUE
  PROVE  web.driver \in Targets /\ dev[web.driver].open \in BOOLEAN
<1>1. PICK Q : Q = Mine(Held(inbox), "web")  OBVIOUS
<1>2. WebBusy(web, Q, gone, meant) /\ WebSends(web, Q, sess, dev, gone, meant)
  BY <1>1, Parts, WebStages
<1>3. web.driver \in Targets  BY <1>2, Parts, MeantFacts DEF WebSends, WebBusy
<1> QED  BY <1>3, Parts DEF File

LEMMA WebHasClosed ==
  ASSUME IInv, WebClose \/ (WebCloseFails /\ "web" \notin gone), "web" \notin gone,
         UNCHANGED <<mqttVars, gone>>
  PROVE  IInv'
<1>1. Closing /\ WebFrame /\ inbox' = inbox  BY DEF WebClose, WebCloseFails
<1>2. web.pc = "idle" /\ web.busy = TRUE  BY <1>1, Parts DEF Closing, At, WebType
<1>3. PICK t, d : t = web.driver /\ d = dev'  OBVIOUS
<1>4. t \in Targets /\ dev[t].open \in BOOLEAN  BY <1>2, <1>3, WebDriverIs
<1>5. CASE WebClose
  <2>1. d = Closed(t) /\ web' = [web EXCEPT !.pc = "notify", !.closed = dev[t].open]
    BY <1>3, <1>5 DEF WebClose
  <2>2. /\ d \in [Targets -> File] /\ \A r \in Targets : r # t => d[r] = dev[r]
        /\ d[t].open = FALSE /\ d[t].image = dev[t].image
        /\ Spares(dev, d) /\ (dev[t].open = FALSE => d = dev)
    <3>1. d = Closed(t) /\ t \in Targets /\ dev \in [Targets -> File]  BY <1>4, <2>1, Parts
    <3> QED  BY ONLY <3>1, ClosedIs
  <2>3. PICK b \in BOOLEAN : b = dev[t].open  BY <1>4
  <2>4. web' = [web EXCEPT !.pc = "notify", !.closed = b]  BY <2>1, <2>3
  <2>5. \/ b = TRUE /\ dev[t].open = TRUE /\ d[t].image = dev[t].image
        \/ b = FALSE /\ (d[t].image = <<>> \/ d[t] = dev[t])
    BY <2>2, <2>3
  <2> QED  BY <1>1, <1>3, <2>2, <2>4, <2>5, WebIsClosed
<1>6. CASE WebCloseFails
  <2>1. d = Refused(t) /\ dev[t].open = TRUE
    BY <1>3, <1>4, <1>6 DEF WebCloseFails
  <2>2. /\ d \in [Targets -> File] /\ \A r \in Targets : r # t => d[r] = dev[r]
        /\ d[t].open = FALSE /\ d[t].image = <<>> /\ Spares(dev, d)
    <3>1. d = Refused(t) /\ t \in Targets /\ dev \in [Targets -> File]  BY <1>4, <2>1, Parts
    <3>2. /\ d \in [Targets -> File] /\ \A r \in Targets : r # t => d[r] = dev[r]
          /\ d[t].open = FALSE /\ d[t].image = <<>>
          /\ dev[t].open = TRUE => Spares(dev, d)
      BY ONLY <3>1, RefusedIs
    <3> QED  BY <2>1, <3>2
  <2>3. PICK b \in BOOLEAN : b = FALSE  OBVIOUS
  <2>4. web' = [web EXCEPT !.pc = "notify", !.closed = b]  BY <1>6, <2>3 DEF WebCloseFails
  <2>5. \/ b = TRUE /\ dev[t].open = TRUE /\ d[t].image = dev[t].image
        \/ b = FALSE /\ (d[t].image = <<>> \/ d[t] = dev[t])
    BY <2>2, <2>3
  <2> QED  BY <1>1, <1>3, <2>2, <2>4, <2>5, WebIsClosed
<1> QED  BY <1>5, <1>6

LEMMA WebNotifies ==
  ASSUME IInv, WebNotify, UNCHANGED <<mqttVars, gone>>
  PROVE  IInv'
<1>1. /\ web.pc = "notify" /\ UNCHANGED <<sess, task, dev, meant, mqtt, gone>> /\ WebType(web)
      /\ inbox' = Append(inbox, Notify("web", web.closed, web.up))
  BY Parts DEF WebNotify, At, WebFrame, mqttVars, Post
<1>2. PICK w : w = web'  OBVIOUS
<1>3. /\ WebType(w) /\ w.pc = "idle" /\ w.startSem = web.startSem /\ w.busy = FALSE
      /\ w.driverSem = web.driverSem
  <2>1. 0 \in 0..Chunks  BY OtaAssumption
  <2>2. w = [[web EXCEPT !.pc = "idle", !.busy = FALSE] EXCEPT !.seq = 0]
    BY <1>2 DEF WebNotify, GivesUp
  <2> QED  BY <1>1, <2>1, <2>2 DEF WebType
<1>4. /\ WebBusy(web, Mine(Held(inbox), "web"), gone, meant)
      /\ WebCloses(web, Mine(Held(inbox), "web"), sess, dev, meant)
  BY <1>1, Parts, WebStages
<1>5. /\ NoSems(web) /\ NoSems(w) /\ Quiet(Mine(Held(inbox), "web"), "web")
      /\ Own(sess, "web", web.up, "active")
  BY <1>3, <1>4 DEF WebCloses, NoSems
<1>6. \A t \in Targets : dev[t].open = FALSE  BY <1>1, <1>4, <1>5, WebNothingOpen
<1>7. PICK b \in BOOLEAN : b = web.closed  BY <1>1 DEF WebType
<1>8. inbox' = Append(inbox, Notify("web", b, web.up))  BY <1>1, <1>7
<1>9. b = TRUE => WholeAt(dev, meant[web.up], web.up)  BY <1>4, <1>7 DEF WebCloses
<1>10. dev' = dev /\ Spares(dev, dev)  BY <1>1, Itself
<1> QED
  BY <1>1, <1>2, <1>3, <1>4, <1>5, <1>6, <1>8, <1>9, <1>10, Parts, WebEndsIt

LEMMA WebStops ==
  ASSUME IInv, (WebChunkClosed /\ "web" \notin gone) \/ WebAppendFails, UNCHANGED <<mqttVars, gone>>
  PROVE  IInv'
<1>1. WriteFailed /\ WebFrame  BY DEF WebChunkClosed, WebAppendFails
<1>2. web.pc \in {"idle", "append"} /\ (web.pc = "idle" => web.busy = TRUE /\ "web" \notin gone)
  BY Parts DEF WebChunkClosed, WebAppendFails, At, WebType
<1>3. web.pc = "append" => web.busy = TRUE /\ "web" \notin gone
  <2>1. PICK Q : Q = Mine(Held(inbox), "web")  OBVIOUS
  <2>2. web.pc = "append" => WebBusy(web, Q, gone, meant)  BY <2>1, Parts, WebStages
  <2> QED  BY <2>2 DEF WebBusy
<1> QED  BY <1>1, <1>2, <1>3, WebWriteFailed

-----------------------------------------------------------------------------
(* The conversation of a source with OtaModule.                             *)

\* What x says of the upload u of s is so.
Conv(x, s, u, h, mt) ==
  \/ x = StartRequest(s, mt[u], u)
  \/ x = StartResponse(s, FALSE)
  \/ x = StartResponse(s, TRUE) /\ Own(h, s, u, "pending")
  \/ x = RequestDriver(s) /\ Own(h, s, u, "pending")
  \/ x = DriverResponse(s, mt[u]) /\ Own(h, s, u, "active")

LEMMA ConvIs ==
  ASSUME NEW x, NEW s \in Sources, NEW u, NEW h, NEW mt, Conv(x, s, u, h, mt)
  PROVE  /\ x.id \in {"StartRequest", "StartResponse", "RequestDriver", "DriverResponse"}
         /\ x.id = "StartRequest" => x.source = s /\ x.target = mt[u] /\ x.up = u
         /\ x.id = "StartResponse" =>
              x.to = s /\ x.accepted \in BOOLEAN /\ (x.accepted = TRUE => Own(h, s, u, "pending"))
         /\ x.id = "RequestDriver" => x.source = s /\ Own(h, s, u, "pending")
         /\ x.id = "DriverResponse" => x.to = s /\ x.target = mt[u] /\ Own(h, s, u, "active")
<1>1. CASE x = StartRequest(s, mt[u], u)  BY <1>1 DEF StartRequest
<1>2. CASE x = StartResponse(s, FALSE)  BY <1>2 DEF StartResponse
<1>3. CASE x = StartResponse(s, TRUE) /\ Own(h, s, u, "pending")  BY <1>3 DEF StartResponse
<1>4. CASE x = RequestDriver(s) /\ Own(h, s, u, "pending")  BY <1>4 DEF RequestDriver
<1>5. CASE x = DriverResponse(s, mt[u]) /\ Own(h, s, u, "active")  BY <1>5 DEF DriverResponse
<1> QED  BY <1>1, <1>2, <1>3, <1>4, <1>5 DEF Conv

WebAt(w, x) ==
  /\ NoSems(w) /\ Fresh(w)
  /\ x.id \in {"StartRequest", "StartResponse"} => w.pc = "start"
  /\ x.id \in {"RequestDriver", "DriverResponse"} => w.pc = "driver"

\* The message that is queued of the conversation of the web server fits what it waits for.
LEMMA WebTold ==
  ASSUME NEW w, NEW Q, NEW h, NEW d, NEW g, NEW mt, WebInv(w, Q, h, d, g, mt), NEW x \in Q,
         Asks(x, "web")
  PROVE  WebBusy(w, Q, g, mt) /\ WebAt(w, x) /\ Conv(x, "web", w.up, h, mt)
<1>1. ~Quiet(Q, "web")  BY DEF Quiet
<1>2. WebBusy(w, Q, g, mt) /\ (WebAsks(w, Q, h, mt) \/ WebWaits(w, Q, h, mt))
  BY <1>1 DEF WebInv, WebFree, WebKnows, WebOpens, WebSends, WebCloses
<1>3. \A y : Sole(Q, "web", y) => x = y  BY DEF Sole
<1>4. CASE WebAsks(w, Q, h, mt)
  <2>1. w.pc = "start" /\ NoSems(w) /\ Fresh(w)  BY <1>1, <1>4 DEF WebAsks, NoSems
  <2>2. \/ x = StartRequest("web", mt[w.up], w.up) \/ x = StartResponse("web", FALSE)
        \/ x = StartResponse("web", TRUE) /\ Own(h, "web", w.up, "pending")
    BY <1>1, <1>3, <1>4 DEF WebAsks
  <2>3. x.id \in {"StartRequest", "StartResponse"}  BY <2>2 DEF StartRequest, StartResponse
  <2> QED  BY <1>2, <2>1, <2>2, <2>3 DEF Conv, WebAt
<1>5. CASE WebWaits(w, Q, h, mt)
  <2>1. w.pc = "driver" /\ NoSems(w) /\ Fresh(w)  BY <1>1, <1>5 DEF WebWaits, NoSems
  <2>2. \/ x = RequestDriver("web") /\ Own(h, "web", w.up, "pending")
        \/ x = DriverResponse("web", mt[w.up]) /\ Own(h, "web", w.up, "active")
    BY <1>1, <1>3, <1>5 DEF WebWaits
  <2>3. x.id \in {"RequestDriver", "DriverResponse"}  BY <2>2 DEF RequestDriver, DriverResponse
  <2> QED  BY <1>2, <2>1, <2>2, <2>3 DEF Conv, WebAt
<1> QED  BY <1>2, <1>4, <1>5

\* A message of the conversation is followed by another.
LEMMA WebReply ==
  ASSUME NEW w, NEW Q, NEW h, NEW d, NEW g, NEW mt, WebInv(w, Q, h, d, g, mt), NEW x \in Q,
         Asks(x, "web"), NEW Q2, NEW x2, Sole(Q2, "web", x2),
         \A y \in Q2 : Ends(y, "web") => y \in Q,
         NEW h2, Conv(x2, "web", w.up, h2, mt), WebAt(w, x2)
  PROVE  WebInv(w, Q2, h2, d, g, mt)
<1>1. WebBusy(w, Q, g, mt)  BY WebTold
<1>2. WebBusy(w, Q2, g, mt)  BY <1>1 DEF WebBusy
<1>3. CASE x2.id \in {"StartRequest", "StartResponse"}
  <2>1. \/ x2 = StartRequest("web", mt[w.up], w.up) \/ x2 = StartResponse("web", FALSE)
        \/ x2 = StartResponse("web", TRUE) /\ Own(h2, "web", w.up, "pending")
    <3>1. x2 # RequestDriver("web")  BY <1>3 DEF RequestDriver
    <3>2. x2 # DriverResponse("web", mt[w.up])  BY <1>3 DEF DriverResponse
    <3> QED  BY <3>1, <3>2 DEF Conv
  <2>2. WebAsks(w, Q2, h2, mt)  BY <1>3, <2>1 DEF WebAsks, WebAt, NoSems
  <2> QED  BY <1>2, <2>2 DEF WebInv
<1>4. CASE x2.id \in {"RequestDriver", "DriverResponse"}
  <2>1. \/ x2 = RequestDriver("web") /\ Own(h2, "web", w.up, "pending")
        \/ x2 = DriverResponse("web", mt[w.up]) /\ Own(h2, "web", w.up, "active")
    BY <1>4 DEF Conv, StartRequest, StartResponse
  <2>2. WebWaits(w, Q2, h2, mt)  BY <1>4, <2>1 DEF WebWaits, WebAt, NoSems
  <2> QED  BY <1>2, <2>2 DEF WebInv
<1>5. x2.id \in {"StartRequest", "StartResponse", "RequestDriver", "DriverResponse"}
  <2>1. "web" \in Sources  BY DEF Sources
  <2> QED  BY <2>1, ConvIs
<1> QED  BY <1>3, <1>4, <1>5

\* The task takes a message.
LEMMA Taken ==
  ASSUME IInv, inbox # <<>>, NEW q, q = Tail(inbox), NEW x, x = Head(inbox)
  PROVE  /\ Takes(inbox, q, x) /\ q \in Seq(MessageType) /\ Ordered(q) /\ x \in MessageType
         /\ x \in Held(inbox) /\ Held(q) \subseteq Held(inbox)
         /\ \A y \in Held(q) : Before(x, y)
         /\ Mail(Held(q), sess, dev, meant)
<1>1. Takes(inbox, q, x)  BY Parts, Taking
<1>2. /\ q \in Seq(MessageType) /\ Ordered(q) /\ x \in MessageType
      /\ x \in Held(inbox) /\ Held(q) \subseteq Held(inbox)
      /\ \A y \in Held(q) : Before(x, y)
  BY <1>1, Parts DEF Takes
<1>3. Mail(Held(q), sess, dev, meant)  BY <1>2, Parts, MailLess
<1> QED  BY <1>1, <1>2, <1>3

LEMMA WebIsAnswered ==
  ASSUME IInv, WebAnswered, UNCHANGED <<mqttVars, gone>>
  PROVE  IInv'
<1>1. /\ inbox # <<>> /\ Head(inbox).id \in {"StartResponse", "DriverResponse"}
      /\ Head(inbox).to = "web" /\ inbox' = Tail(inbox) \o <<>>
      /\ web' = IF Head(inbox).id = "StartResponse"
                THEN [web EXCEPT !.granted = Head(inbox).accepted, !.startSem = TRUE]
                ELSE [web EXCEPT !.driver = Head(inbox).target, !.driverSem = TRUE]
      /\ UNCHANGED <<sess, task, dev, meant, mqtt, gone>> /\ WebType(web)
  BY Parts DEF WebAnswered, Message, Answer, WebFrame, mqttVars
<1>2. PICK q, x, w : q = Tail(inbox) /\ x = Head(inbox) /\ w = web'  OBVIOUS
<1>3. /\ Takes(inbox, q, x) /\ q \in Seq(MessageType) /\ Ordered(q) /\ x \in MessageType
      /\ x \in Held(inbox) /\ Held(q) \subseteq Held(inbox)
      /\ Mail(Held(q), sess, dev, meant)
  BY <1>1, <1>2, Taken
<1>4. inbox' = q  BY <1>1, <1>2, <1>3
<1>5. "web" \in Sources /\ "mqtt" \in Sources  BY DEF Sources
<1>6. Asks(x, "web") /\ ~Asks(x, "mqtt")  BY <1>1, <1>2 DEF Asks
<1>7. PICK Q, Q2 : Q = Mine(Held(inbox), "web") /\ Q2 = Mine(Held(q), "web")  OBVIOUS
<1>8. Quiet(Q2, "web") /\ x \in Q /\ Q2 \subseteq Q
  BY <1>3, <1>5, <1>6, <1>7, Parts, AskTaken
<1>9. Kept(Mine(Held(inbox), "mqtt"), Mine(Held(q), "mqtt"), "mqtt")  BY <1>3, <1>6, MineTaken
<1>10. WebBusy(web, Q, gone, meant) /\ WebAt(web, x) /\ Conv(x, "web", web.up, sess, meant)
  <2>1. WebInv(web, Q, sess, dev, gone, meant)  BY <1>7, Parts
  <2> QED  BY ONLY <1>6, <1>8, <2>1, WebTold
<1>11. /\ x.id = "StartResponse" => x.accepted \in BOOLEAN
            /\ (x.accepted = TRUE => Own(sess, "web", web.up, "pending"))
       /\ x.id = "DriverResponse" => x.target = meant[web.up] /\ Own(sess, "web", web.up, "active")
  <2>1. PICK v, h, mt : v = web.up /\ h = sess /\ mt = meant  OBVIOUS
  <2>2. "web" \in Sources /\ Conv(x, "web", v, h, mt)  BY <1>5, <1>10, <2>1
  <2>3. /\ x.id = "StartResponse" =>
             x.to = "web" /\ x.accepted \in BOOLEAN /\
             (x.accepted = TRUE => Own(h, "web", v, "pending"))
        /\ x.id = "DriverResponse" => x.to = "web" /\ x.target = mt[v] /\ Own(h, "web", v, "active")
    BY ONLY <2>2, ConvIs
  <2> QED  BY <2>1, <2>3
<1>12. WebType(w) /\ WebInv(w, Q2, sess, dev, gone, meant) /\ w.pc \notin {"idle", "append"}
       /\ web.pc \notin {"idle", "append"}
  <2>1. CASE x.id = "StartResponse"
    <3>1. w = [web EXCEPT !.granted = x.accepted, !.startSem = TRUE]  BY <1>1, <1>2, <2>1
    <3>2. /\ WebType(w) /\ w.pc = "start" /\ w.startSem = TRUE /\ w.busy = web.busy
          /\ w.up = web.up /\ w.driverSem = FALSE /\ w.seq = web.seq /\ w.next = web.next
          /\ w.granted = x.accepted /\ web.pc = "start"
      BY <1>1, <1>10, <1>11, <2>1, <3>1 DEF WebType, WebAt, NoSems
    <3>3. WebBusy(w, Q2, gone, meant)  BY <1>8, <1>10, <3>2 DEF WebBusy
    <3>4. WebAsks(w, Q2, sess, meant)
      BY <1>8, <1>10, <1>11, <2>1, <3>2 DEF WebAsks, WebAt, Fresh
    <3> QED  BY <3>2, <3>3, <3>4 DEF WebInv
  <2>2. CASE x.id = "DriverResponse"
    <3>1. w = [web EXCEPT !.driver = x.target, !.driverSem = TRUE]  BY <1>1, <1>2, <2>2
    <3>2. x.target \in Targets  BY <1>3, <2>2, Kinds
    <3>3. /\ WebType(w) /\ w.pc = "driver" /\ w.startSem = FALSE /\ w.busy = web.busy
          /\ w.up = web.up /\ w.driverSem = TRUE /\ w.seq = web.seq /\ w.next = web.next
          /\ w.driver = x.target /\ web.pc = "driver"
      BY <1>1, <1>10, <1>11, <2>2, <3>1, <3>2 DEF WebType, WebAt, NoSems
    <3>4. WebBusy(w, Q2, gone, meant)  BY <1>8, <1>10, <3>3 DEF WebBusy
    <3>5. WebWaits(w, Q2, sess, meant)
      BY <1>8, <1>10, <1>11, <2>2, <3>3 DEF WebWaits, WebAt, Fresh
    <3> QED  BY <3>3, <3>4, <3>5 DEF WebInv
  <2> QED  BY <1>1, <1>2, <2>1, <2>2
<1>13. Opens(dev, sess, w, mqtt, task)
  <2>1. \A v \in Targets, n \in Nat : \A im :
          sess.source = "web" /\ WebWrites(web, n, v, im) => WebWrites(w, n, v, im)
    BY <1>12 DEF WebWrites
  <2> QED  BY <2>1, Parts, SessFacts, OpensFrame
<1>14. MqttSpared(mqtt, sess, dev, dev) /\ Extends(meant, meant)  BY Itself DEF MqttSpared
<1> QED
  BY <1>1, <1>2, <1>3, <1>4, <1>7, <1>9, <1>12, <1>13, <1>14, Parts, WebMoves

-----------------------------------------------------------------------------
(* What the invariant says of the MQTT module.                              *)

LEMMA MqttStages ==
  ASSUME NEW m, NEW Q, NEW h, NEW d, NEW k, NEW g, NEW mt, MqttInv(m, Q, h, d, k, g, mt)
  PROVE  /\ m.state = "idle" => MqttFree(m, k)
         /\ m.state # "idle" => MqttBusy(m, Q, h, k, g, mt)
         /\ m.state = "session" => MqttAsks(m, Q, h, k, mt)
         /\ m.state = "driver" => MqttWaits(m, Q, h, k, mt)
         /\ m.state = "active" => MqttSends(m, Q, h, d, k, g, mt)
         /\ m.state = "completing" => MqttAwaits(m, Q, k)
         /\ m.state \in {"idle", "session", "driver", "active", "completing"}
<1>1. CASE MqttFree(m, k)  BY <1>1 DEF MqttFree
<1>2. CASE ~MqttFree(m, k)
  <2>1. /\ MqttBusy(m, Q, h, k, g, mt)
        /\ \/ MqttAsks(m, Q, h, k, mt) \/ MqttWaits(m, Q, h, k, mt)
           \/ MqttSends(m, Q, h, d, k, g, mt) \/ MqttAwaits(m, Q, k)
    BY <1>2 DEF MqttInv
  <2>2. CASE MqttAsks(m, Q, h, k, mt)
    <3>1. m.state = "session"  BY <2>2 DEF MqttAsks
    <3> QED  BY <2>1, <2>2, <3>1
  <2>3. CASE MqttWaits(m, Q, h, k, mt)
    <3>1. m.state = "driver"  BY <2>3 DEF MqttWaits
    <3> QED  BY <2>1, <2>3, <3>1
  <2>4. CASE MqttSends(m, Q, h, d, k, g, mt)
    <3>1. m.state = "active"  BY <2>4 DEF MqttSends
    <3> QED  BY <2>1, <2>4, <3>1
  <2>5. CASE MqttAwaits(m, Q, k)
    <3>1. m.state = "completing"  BY <2>5 DEF MqttAwaits
    <3> QED  BY <2>1, <2>5, <3>1
  <2> QED  BY <2>1, <2>2, <2>3, <2>4, <2>5
<1> QED  BY <1>1, <1>2

MqttAt(m, k, x) ==
  /\ m.pc = "idle" /\ m.done = FALSE
  /\ x.id \in {"StartRequest", "StartResponse"} =>
       m.state = "session" /\ k = "free" /\ m.driver = None
  /\ x.id = "DriverResponse" => m.state = "driver" /\ k = "free"
  /\ x.id = "RequestDriver" => \/ m.state = "session" /\ k = "asked" /\ m.driver = None
                               \/ m.state = "driver" /\ k = "free"

\* The message that is queued of the conversation of the MQTT module fits what it waits for,
\* unless the module has given up the upload.
LEMMA MqttTold ==
  ASSUME NEW m, NEW Q, NEW h, NEW d, NEW k, NEW g, NEW mt, MqttInv(m, Q, h, d, k, g, mt),
         NEW x \in Q, Asks(x, "mqtt"), ~MqttFree(m, k)
  PROVE  MqttBusy(m, Q, h, k, g, mt) /\ MqttAt(m, k, x) /\ Conv(x, "mqtt", m.up, h, mt)
<1>1. ~Quiet(Q, "mqtt")  BY DEF Quiet
<1>2. MqttBusy(m, Q, h, k, g, mt) /\ (MqttAsks(m, Q, h, k, mt) \/ MqttWaits(m, Q, h, k, mt))
  BY <1>1 DEF MqttInv, MqttSends, MqttAwaits
<1>3. \A y : Sole(Q, "mqtt", y) => x = y  BY DEF Sole
<1>4. CASE MqttAsks(m, Q, h, k, mt)
  <2>1. m.pc = "idle" /\ m.done = FALSE /\ m.state = "session" /\ m.driver = None
    BY <1>4 DEF MqttAsks
  <2>2. \/ k = "free" /\ x = StartRequest("mqtt", mt[m.up], m.up)
        \/ k = "free" /\ x = StartResponse("mqtt", FALSE)
        \/ k = "free" /\ x = StartResponse("mqtt", TRUE) /\ Own(h, "mqtt", m.up, "pending")
        \/ k = "asked" /\ x = RequestDriver("mqtt") /\ Own(h, "mqtt", m.up, "pending")
    BY <1>1, <1>3, <1>4 DEF MqttAsks
  <2>3. Conv(x, "mqtt", m.up, h, mt)  BY <2>2 DEF Conv
  <2>4. MqttAt(m, k, x)
    <3>1. CASE k = "free"
      <4>1. x.id \in {"StartRequest", "StartResponse"}
        BY <2>2, <3>1 DEF StartRequest, StartResponse
      <4> QED  BY <2>1, <3>1, <4>1 DEF MqttAt
    <3>2. CASE k = "asked"
      <4>1. x.id = "RequestDriver"  BY <2>2, <3>2 DEF RequestDriver
      <4> QED  BY <2>1, <3>2, <4>1 DEF MqttAt
    <3> QED  BY <2>2, <3>1, <3>2
  <2> QED  BY <1>2, <2>3, <2>4
<1>5. CASE MqttWaits(m, Q, h, k, mt)
  <2>1. m.pc = "idle" /\ m.done = FALSE /\ m.state = "driver"  BY <1>5 DEF MqttWaits
  <2>2. /\ k = "free"
        /\ \/ x = RequestDriver("mqtt") /\ Own(h, "mqtt", m.up, "pending")
           \/ x = DriverResponse("mqtt", mt[m.up]) /\ Own(h, "mqtt", m.up, "active")
    BY <1>1, <1>3, <1>5 DEF MqttWaits
  <2>3. Conv(x, "mqtt", m.up, h, mt)  BY <2>2 DEF Conv
  <2>4. x.id \in {"RequestDriver", "DriverResponse"}  BY <2>2 DEF RequestDriver, DriverResponse
  <2> QED  BY <1>2, <2>1, <2>2, <2>3, <2>4 DEF MqttAt
<1> QED  BY <1>2, <1>4, <1>5

LEMMA MqttReply ==
  ASSUME NEW m, NEW Q, NEW h, NEW d, NEW g, NEW mt, MqttInv(m, Q, h, d, "free", g, mt),
         NEW x \in Q, Asks(x, "mqtt"), NEW Q2, NEW x2, Sole(Q2, "mqtt", x2),
         \A y \in Q2 : Ends(y, "mqtt") => y \in Q,
         NEW h2, ~MqttFree(m, "free") =>
                   /\ Conv(x2, "mqtt", m.up, h2, mt) /\ MqttAt(m, "free", x2)
                   /\ h2.state # "idle" /\ h2.source = "mqtt" => h2.up <= m.up
  PROVE  MqttInv(m, Q2, h2, d, "free", g, mt)
<1>1. CASE MqttFree(m, "free")  BY <1>1 DEF MqttInv
<1>2. CASE ~MqttFree(m, "free")
  <2>1. MqttBusy(m, Q, h, "free", g, mt)  BY <1>2, MqttTold
  <2>2. MqttBusy(m, Q2, h2, "free", g, mt)  BY <1>2, <2>1 DEF MqttBusy
  <2>3. Conv(x2, "mqtt", m.up, h2, mt) /\ MqttAt(m, "free", x2)  BY <1>2
  <2>4. CASE x2.id \in {"StartRequest", "StartResponse"}
    <3>1. x2 # RequestDriver("mqtt")  BY <2>4 DEF RequestDriver
    <3>2. x2 # DriverResponse("mqtt", mt[m.up])  BY <2>4 DEF DriverResponse
    <3>3. \/ x2 = StartRequest("mqtt", mt[m.up], m.up) \/ x2 = StartResponse("mqtt", FALSE)
          \/ x2 = StartResponse("mqtt", TRUE) /\ Own(h2, "mqtt", m.up, "pending")
      BY <2>3, <3>1, <3>2 DEF Conv
    <3>4. MqttAsks(m, Q2, h2, "free", mt)  BY <2>3, <2>4, <3>3 DEF MqttAsks, MqttAt
    <3> QED  BY <2>2, <3>4 DEF MqttInv
  <2>5. CASE x2.id \in {"RequestDriver", "DriverResponse"}
    <3>1. x2 # StartRequest("mqtt", mt[m.up], m.up)  BY <2>5 DEF StartRequest
    <3>2. \A b : x2 # StartResponse("mqtt", b)  BY <2>5 DEF StartResponse
    <3>3. \/ x2 = RequestDriver("mqtt") /\ Own(h2, "mqtt", m.up, "pending")
          \/ x2 = DriverResponse("mqtt", mt[m.up]) /\ Own(h2, "mqtt", m.up, "active")
      BY <2>3, <3>1, <3>2 DEF Conv
    <3>4. MqttWaits(m, Q2, h2, "free", mt)  BY <2>3, <2>5, <3>3 DEF MqttWaits, MqttAt
    <3> QED  BY <2>2, <3>4 DEF MqttInv
  <2>6. x2.id \in {"StartRequest", "StartResponse", "RequestDriver", "DriverResponse"}
    <3>1. "mqtt" \in Sources  BY DEF Sources
    <3> QED  BY <2>3, <3>1, ConvIs
  <2> QED  BY <2>4, <2>5, <2>6
<1> QED  BY <1>1, <1>2

\* The MQTT module goes on, in either thread.
LEMMA MqttMoves ==
  ASSUME IInv, UNCHANGED <<sess, web>>, NEW q, q = inbox', NEW k, k = task', NEW d, d = dev',
         NEW m, m = mqtt', NEW mt, mt = meant', NEW g, g = gone',
         q \in Seq(MessageType), d \in [Targets -> File], MeantType(mt), MqttType(m), Ordered(q),
         k \in {"free", "granted", "asked", "open", "opened", "reset"}, g \in SUBSET Sources,
         "web" \in g <=> "web" \in gone,
         Kept(Mine(Held(inbox), "web"), Mine(Held(q), "web"), "web"), Extends(meant, mt),
         Mail(Held(q), sess, d, mt), SessOK(sess, d, mt), Opens(d, sess, web, m, k),
         Left(d, mt), MqttInv(m, Mine(Held(q), "mqtt"), sess, d, k, g, mt),
         WebSpared(web, sess, dev, d)
  PROVE  IInv'
<1>1. WebInv(web, Mine(Held(q), "web"), sess, d, g, mt)
  <2>1. PICK Q, Q2 : Q = Mine(Held(inbox), "web") /\ Q2 = Mine(Held(q), "web")  OBVIOUS
  <2>2. /\ WebInv(web, Q, sess, dev, gone, meant) /\ Kept(Q, Q2, "web")
        /\ KeepsOwn(sess, sess, "web", web.up) /\ meant \in Seq(Targets)
    BY <2>1, Parts, Itself
  <2>3. WebInv(web, Q2, sess, d, g, mt)  BY <2>2, WebKeeps
  <2> QED  BY <2>1, <2>3
<1>2. Typed(q, sess, k, d, mt, web, m, g)  BY Parts DEF Typed
<1> QED  BY <1>1, <1>2 DEF IInv, Good

\* What is open when the MQTT module has the driver.
LEMMA MqttFile ==
  ASSUME IInv, Own(sess, "mqtt", mqtt.up, "active"),
         MqttBusy(mqtt, Mine(Held(inbox), "mqtt"), sess, task, gone, meant)
  PROVE  /\ sess.target = meant[mqtt.up] /\ sess.target \in Targets /\ mqtt.up \in DOMAIN meant
         /\ mqtt.up \in Nat \ {0}
         /\ \A t \in Targets : dev[t].open = TRUE =>
              t = sess.target /\ MqttWrites(mqtt, task, mqtt.up, t, dev[t].image)
         /\ ~MqttOver(mqtt, task) =>
              \A x \in Mine(Held(inbox), "mqtt") : Ends(x, "mqtt") => FALSE
<1>1. sess.state # "idle" /\ sess.source = "mqtt" /\ sess.up = mqtt.up  BY DEF Own
<1>2. sess.target = meant[mqtt.up] /\ sess.target \in Targets /\ mqtt.up \in DOMAIN meant
  BY <1>1, SessFacts
<1>3. mqtt.up \in Nat \ {0}  BY <1>2, Parts, MeantFacts
<1>4. \A t \in Targets : dev[t].open = TRUE =>
        t = sess.target /\ MqttWrites(mqtt, task, mqtt.up, t, dev[t].image)
  BY <1>1, Parts DEF Opens
<1>5. ASSUME NEW x \in Mine(Held(inbox), "mqtt"), Ends(x, "mqtt"), ~MqttOver(mqtt, task)
      PROVE FALSE
  <2>1. x.up < mqtt.up /\ mqtt.up <= x.up /\ x.up \in DOMAIN meant
    BY <1>1, <1>5, EndsFit DEF MqttBusy
  <2>2. x.up \in Nat  BY <2>1, Parts, MeantFacts
  <2> QED  BY <1>3, <2>1, <2>2
<1> QED  BY <1>2, <1>3, <1>4, <1>5

\* Between two uploads.
Idles(m) == m = MqttReset \/ m = [MqttReset EXCEPT !.pc = "away"]

LEMMA IdlesIs ==
  ASSUME NEW m, Idles(m)
  PROVE  MqttType(m) /\ MqttFree(m, "free")
<1>1. None \in Targets \cup {None} /\ 0 \in 0..Chunks /\ 0 \in Nat  BY OtaAssumption
<1>2. CASE m = MqttReset  BY <1>1, <1>2 DEF MqttReset, MqttType, MqttFree
<1>3. CASE m = [MqttReset EXCEPT !.pc = "away"]
  BY <1>1, <1>3 DEF MqttReset, MqttType, MqttFree
<1> QED  BY <1>2, <1>3 DEF Idles

\* The files when the MQTT module leaves them.
Quits(d, d2, h, w, mt) ==
  /\ d2 \in [Targets -> File] /\ Spares(d, d2) /\ Left(d2, mt) /\ WebSpared(w, h, d, d2)
  /\ \A t \in Targets : d2[t].open = TRUE => d2[t] = d[t] /\ h.source # "mqtt"

LEMMA QuitsNothing ==
  ASSUME IInv, task \in {"free", "reset"}, mqtt.state \in {"session", "driver", "completing"}
  PROVE  Quits(dev, dev, sess, web, meant)
<1>1. WebSpared(web, sess, dev, dev) /\ Spares(dev, dev)  BY Itself DEF WebSpared
<1>2. ASSUME NEW t \in Targets, dev[t].open = TRUE, sess.source = "mqtt"  PROVE FALSE
  <2>1. MqttWrites(mqtt, task, sess.up, t, dev[t].image)  BY <1>2, Parts DEF Opens
  <2> QED  BY <2>1 DEF MqttWrites
<1> QED  BY <1>1, <1>2, Parts DEF Quits

LEMMA QuitsFile ==
  ASSUME IInv, mqtt.state = "active", NEW t, t = mqtt.driver, NEW d, d \in [Targets -> File],
         \A r \in Targets : r # t => d[r] = dev[r],
         d[t].open = FALSE, d[t].image = <<>> \/ d[t] = dev[t], Spares(dev, d),
         web.pc # "append" \/ sess.source = "mqtt"
  PROVE  Quits(dev, d, sess, web, meant)
<1>1. WebSpared(web, sess, dev, d)  BY DEF WebSpared
<1>2. t \in Targets
  <2>1. PICK Q : Q = Mine(Held(inbox), "mqtt")  OBVIOUS
  <2>2. MqttInv(mqtt, Q, sess, dev, task, gone, meant)  BY <2>1, Parts
  <2>3. /\ MqttBusy(mqtt, Q, sess, task, gone, meant)
        /\ MqttSends(mqtt, Q, sess, dev, task, gone, meant)
    BY <2>2, MqttStages
  <2> QED  BY <2>3, Parts, MeantFacts DEF MqttBusy, MqttSends
<1>3. Left(d, meant)
  <2>1. t \in Targets /\ Left(dev, meant) /\ \A r \in Targets : r # t => d[r] = dev[r]
    BY <1>2, Parts
  <2>2. \/ d[t].open = TRUE \/ d[t].image = <<>> \/ d[t] = dev[t]
        \/ \E v \in DOMAIN meant : d[t].image = Image(v, Chunks)
    OBVIOUS
  <2> QED  BY ONLY <2>1, <2>2, LeftChanged
<1>4. ASSUME NEW r \in Targets, d[r].open = TRUE  PROVE d[r] = dev[r] /\ sess.source # "mqtt"
  <2>1. r # t  BY <1>4
  <2>2. d[r] = dev[r] /\ dev[r].open = TRUE  BY <1>4, <2>1
  <2>3. ASSUME sess.source = "mqtt"  PROVE FALSE
    <3>1. MqttWrites(mqtt, task, sess.up, r, dev[r].image)  BY <2>2, <2>3, Parts DEF Opens
    <3> QED  BY <2>1, <3>1 DEF MqttWrites
  <2> QED  BY <2>2, <2>3
<1> QED  BY <1>1, <1>3, <1>4 DEF Quits

LEMMA MqttIsReset ==
  ASSUME IInv, UNCHANGED <<sess, meant, web>>, task' = "free", NEW m, m = mqtt', Idles(m),
         NEW d, d = dev', Quits(dev, d, sess, web, meant), NEW q, q = inbox',
         q \in Seq(MessageType), Ordered(q), Mail(Held(q), sess, d, meant),
         Kept(Mine(Held(inbox), "web"), Mine(Held(q), "web"), "web"),
         NEW g, g = gone', g \in SUBSET Sources, "web" \in g <=> "web" \in gone
  PROVE  IInv'
<1>1. PICK k : k = task' /\ k = "free"  OBVIOUS
<1>2. MqttType(m) /\ MqttFree(m, k)  BY <1>1, IdlesIs
<1>3. MqttInv(m, Mine(Held(q), "mqtt"), sess, d, k, g, meant)  BY <1>2 DEF MqttInv
<1>4. Opens(d, sess, web, m, k)
  <2>1. ASSUME NEW t \in Targets, d[t].open = TRUE
        PROVE  /\ sess.state = "active" /\ sess.target = t /\ sess.source # "mqtt"
               /\ sess.source = "web" => WebWrites(web, sess.up, t, d[t].image)
    <3>1. d[t] = dev[t] /\ dev[t].open = TRUE /\ sess.source # "mqtt"  BY <2>1 DEF Quits
    <3> QED  BY <3>1, Parts DEF Opens
  <2> QED  BY <2>1 DEF Opens
<1>5. SessOK(sess, d, meant)  BY Parts, Itself, SessFrame DEF Quits
<1>6. Extends(meant, meant) /\ MeantType(meant)  BY Parts, Itself
<1>7. d \in [Targets -> File] /\ Left(d, meant) /\ WebSpared(web, sess, dev, d)  BY DEF Quits
<1> QED  BY <1>1, <1>2, <1>3, <1>4, <1>5, <1>6, <1>7, MqttMoves

\* It says that its upload is over, and forgets it.
LEMMA MqttPosts ==
  ASSUME IInv, mqtt.state # "idle", NEW x \in MessageType, Ends(x, "mqtt"), x.up = mqtt.up,
         x.id = "CompleteNotify" /\ x.success = TRUE =>
           /\ mqtt.pc = "notify" /\ mqtt.state = "active"
           /\ Own(sess, "mqtt", mqtt.up, "active") /\ WholeAt(dev, meant[mqtt.up], mqtt.up),
         x.id = "CompleteNotify" => Quiet(Mine(Held(inbox), "mqtt"), "mqtt"),
         NEW q, q = Append(inbox, x), NEW d, Spares(dev, d)
  PROVE  /\ q \in Seq(MessageType) /\ Ordered(q) /\ Mail(Held(q), sess, d, meant)
         /\ Kept(Mine(Held(inbox), "web"), Mine(Held(q), "web"), "web")
         /\ Mine(Held(q), "mqtt") = Mine(Held(inbox), "mqtt") \cup {x}
<1>1. "web" \in Sources /\ "mqtt" \in Sources  BY DEF Sources
<1>2. /\ q \in Seq(MessageType) /\ Adds(inbox, q, x) /\ Held(q) = Held(inbox) \cup {x}
      /\ Kept(Mine(Held(inbox), "web"), Mine(Held(q), "web"), "web")
  <2>1. /\ IInv /\ "web" \in Sources /\ "mqtt" \in Sources /\ "web" # "mqtt"
        /\ x \in MessageType /\ Ends(x, "mqtt") /\ q = Append(inbox, x)
    BY <1>1
  <2> QED  BY ONLY <2>1, Posting
<1>3. Mine(Held(q), "mqtt") = Mine(Held(inbox), "mqtt") \cup {x}
  <2>1. PICK p : p = inbox  OBVIOUS
  <2>2. Adds(p, q, x) /\ Ends(x, "mqtt")  BY <1>2, <2>1
  <2>3. Mine(Held(q), "mqtt") = Mine(Held(p), "mqtt") \cup {x} /\ ~Asks(x, "mqtt")
    BY ONLY <2>2, EndAdded
  <2> QED  BY <2>1, <2>3
<1>4. PICK Q : Q = Mine(Held(inbox), "mqtt")  OBVIOUS
<1>5. MqttInv(mqtt, Q, sess, dev, task, gone, meant)  BY <1>4, Parts
<1>6. MqttBusy(mqtt, Q, sess, task, gone, meant) /\ ~MqttFree(mqtt, task)
  BY <1>5, MqttStages DEF MqttFree
<1>7. ASSUME NEW z \in Held(inbox), z.id = "StartRequest", z.source = "mqtt"
      PROVE  z.up <= x.up /\ (x.id = "CompleteNotify" => x.success = FALSE)
  <2>1. Asks(z, "mqtt")  BY <1>7 DEF Asks
  <2>2. z \in Q  BY <1>4, <2>1 DEF Mine
  <2>3. Conv(z, "mqtt", mqtt.up, sess, meant)  BY ONLY <1>5, <1>6, <2>1, <2>2, MqttTold
  <2>4. z.up = mqtt.up
    <3>1. PICK u, h, mt : u = mqtt.up /\ h = sess /\ mt = meant  OBVIOUS
    <3>2. "mqtt" \in Sources /\ Conv(z, "mqtt", u, h, mt)  BY <1>1, <2>3, <3>1
    <3>3. z.id = "StartRequest"  BY <1>7
    <3>4. z.up = u
      BY ONLY <3>2, <3>3 DEF Conv, StartRequest, StartResponse, RequestDriver, DriverResponse
    <3> QED  BY <3>1, <3>4
  <2>5. mqtt.up \in Nat  BY Parts DEF MqttType
  <2>6. x.id # "CompleteNotify"  BY <1>4, <2>1, <2>2 DEF Quiet
  <2> QED  BY <2>4, <2>5, <2>6
<1>8. \A z \in Held(inbox) : Before(z, x)  BY <1>7, EndBefore
<1>9. Ordered(q)  BY <1>2, <1>8, Parts DEF Adds
<1>10. Mail(Held(inbox), sess, d, meant)  BY Parts, Itself, MailFrame
<1>11. Fits(x, sess, d, meant)
  <2>1. mqtt.up \in DOMAIN meant /\ meant[mqtt.up] \in Targets
    BY <1>6, Parts, MeantFacts DEF MqttBusy
  <2>2. sess.state # "idle" /\ sess.source = "mqtt" => sess.up <= mqtt.up
    BY <1>6 DEF MqttBusy
  <2>3. x.id = "CompleteNotify" /\ x.success = TRUE =>
          /\ sess.up = x.up /\ sess.state \in {"active", "complete"}
          /\ WholeAt(d, meant[x.up], x.up)
    <3>1. ASSUME x.id = "CompleteNotify", x.success = TRUE
          PROVE  sess.up = mqtt.up /\ sess.state = "active" /\ WholeAt(d, meant[mqtt.up], mqtt.up)
      <4>1. Own(sess, "mqtt", mqtt.up, "active") /\ WholeAt(dev, meant[mqtt.up], mqtt.up)
        BY <3>1
      <4>2. WholeAt(d, meant[mqtt.up], mqtt.up)  BY <2>1, <4>1, WholeSpared
      <4> QED  BY <4>1, <4>2 DEF Own
    <3> QED  BY <3>1
  <2>4. x.id # "StartRequest" /\ x.source = "mqtt"  BY DEF Ends
  <2>5. /\ x.up \in DOMAIN meant
        /\ sess.state # "idle" /\ sess.source = x.source => sess.up <= x.up
    BY <2>1, <2>2, <2>4
  <2> QED  BY ONLY <2>3, <2>4, <2>5 DEF Fits
<1>12. Mail(Held(q), sess, d, meant)  BY <1>2, <1>10, <1>11, MailMore
<1> QED  BY <1>2, <1>3, <1>9, <1>12

LEMMA MqttEndsIt ==
  ASSUME IInv, UNCHANGED <<sess, meant, web>>, task' = "free", mqtt.state # "idle",
         NEW m, m = mqtt', Idles(m), NEW d, d = dev', Quits(dev, d, sess, web, meant),
         NEW x \in MessageType, Ends(x, "mqtt"), x.up = mqtt.up,
         x.id = "CompleteNotify" => x.success = FALSE /\ Quiet(Mine(Held(inbox), "mqtt"), "mqtt"),
         inbox' = Append(inbox, x),
         NEW g, g = gone', g \in SUBSET Sources, "web" \in g <=> "web" \in gone
  PROVE  IInv'
<1>1. PICK q : q = inbox'  OBVIOUS
<1>2. Spares(dev, d)  BY DEF Quits
<1>3. /\ q \in Seq(MessageType) /\ Ordered(q) /\ Mail(Held(q), sess, d, meant)
      /\ Kept(Mine(Held(inbox), "web"), Mine(Held(q), "web"), "web")
  BY <1>1, <1>2, MqttPosts
<1> QED  BY <1>1, <1>3, MqttIsReset

-----------------------------------------------------------------------------
(* The steps of the thread of the MQTT client.                              *)

\* What is not underway is not queued.
LEMMA NotUnderway ==
  ASSUME NEW s, ~Underway(s)
  PROVE  Quiet(Mine(Held(inbox), s), s)
BY DEF Underway, Quiet, Mine, Held, Asks

\* Nothing changes but where the MQTT module is.
LEMMA MqttAlone ==
  ASSUME IInv, UNCHANGED <<inbox, sess, dev, meant, web, gone>>,
         NEW m, m = mqtt', MqttType(m), NEW k, k = task',
         k \in {"free", "granted", "asked", "open", "opened", "reset"},
         MqttInv(m, Mine(Held(inbox), "mqtt"), sess, dev, k, gone, meant),
         \A t \in Targets, u \in Nat : \A im :
           sess.source = "mqtt" /\ MqttWrites(mqtt, task, u, t, im) => MqttWrites(m, k, u, t, im)
  PROVE  IInv'
<1>1. Opens(dev, sess, web, m, k)
  <2>1. \A t \in Targets, u \in Nat : \A im :
          sess.source = "web" /\ WebWrites(web, u, t, im) => WebWrites(web, u, t, im)
    OBVIOUS
  <2>2. sess.up \in Nat /\ Opens(dev, sess, web, mqtt, task)  BY Parts, SessFacts
  <2> QED  BY <2>1, <2>2, OpensFrame
<1>2. IInv  OBVIOUS
<1> QED  BY <1>1, <1>2 DEF IInv, Good, Typed

\* Half way in a call, the thread has the driver.
LEMMA MqttInCall ==
  ASSUME IInv, mqtt.pc \in {"append", "notify", "notified"}
  PROVE  /\ MqttBusy(mqtt, Mine(Held(inbox), "mqtt"), sess, task, gone, meant)
         /\ MqttSends(mqtt, Mine(Held(inbox), "mqtt"), sess, dev, task, gone, meant)
         /\ "mqtt" \notin gone
<1>1. PICK Q : Q = Mine(Held(inbox), "mqtt")  OBVIOUS
<1>2. MqttInv(mqtt, Q, sess, dev, task, gone, meant)  BY <1>1, Parts
<1>3. /\ MqttBusy(mqtt, Q, sess, task, gone, meant)
      /\ MqttSends(mqtt, Q, sess, dev, task, gone, meant)
  BY <1>2 DEF MqttInv, MqttFree, MqttAsks, MqttWaits, MqttAwaits
<1> QED  BY <1>1, <1>3 DEF MqttBusy

\* Who writes has the session, and what is open is what was written.
LEMMA MqttWriter ==
  ASSUME IInv, mqtt.state = "active", "mqtt" \notin gone, mqtt.pc \in {"idle", "append"}
  PROVE  /\ MqttBusy(mqtt, Mine(Held(inbox), "mqtt"), sess, task, gone, meant)
         /\ Own(sess, "mqtt", mqtt.up, "active") /\ task = "free" /\ mqtt.done = TRUE
         /\ Quiet(Mine(Held(inbox), "mqtt"), "mqtt")
         /\ mqtt.driver = sess.target /\ mqtt.driver = meant[mqtt.up]
         /\ mqtt.driver \in Targets /\ mqtt.up \in DOMAIN meant /\ mqtt.up \in Nat \ {0}
         /\ dev[mqtt.driver].open \in BOOLEAN
         /\ mqtt.pc = "append" => dev[mqtt.driver].open = TRUE /\ mqtt.offset < Chunks
         /\ dev[mqtt.driver].open = TRUE =>
              dev[mqtt.driver].image = Image(mqtt.up, mqtt.offset)
         /\ \A t \in Targets : dev[t].open = TRUE => t = mqtt.driver
         /\ \A x \in Mine(Held(inbox), "mqtt") : Ends(x, "mqtt") => FALSE
<1>1. PICK Q : Q = Mine(Held(inbox), "mqtt")  OBVIOUS
<1>2. MqttInv(mqtt, Q, sess, dev, task, gone, meant)  BY <1>1, Parts
<1>3. /\ MqttBusy(mqtt, Q, sess, task, gone, meant)
      /\ MqttSends(mqtt, Q, sess, dev, task, gone, meant)
  BY <1>2, MqttStages
<1>4. /\ Own(sess, "mqtt", mqtt.up, "active") /\ task = "free" /\ mqtt.done = TRUE
      /\ Quiet(Q, "mqtt")
      /\ mqtt.driver = meant[mqtt.up]
      /\ mqtt.pc = "append" => dev[mqtt.driver].open = TRUE /\ mqtt.offset < Chunks
  BY <1>3 DEF MqttSends
<1>5. ~MqttOver(mqtt, task)  BY <1>4 DEF MqttOver
<1>6. /\ sess.target = meant[mqtt.up] /\ sess.target \in Targets /\ mqtt.up \in DOMAIN meant
      /\ mqtt.up \in Nat \ {0}
      /\ \A t \in Targets : dev[t].open = TRUE =>
           t = sess.target /\ MqttWrites(mqtt, task, mqtt.up, t, dev[t].image)
      /\ \A x \in Q : Ends(x, "mqtt") => FALSE
  BY <1>1, <1>3, <1>4, <1>5, MqttFile
<1>7. dev[mqtt.driver].open \in BOOLEAN  BY <1>4, <1>6, Parts DEF File
<1>8. dev[mqtt.driver].open = TRUE => dev[mqtt.driver].image = Image(mqtt.up, mqtt.offset)
  BY <1>4, <1>6 DEF MqttWrites
<1> QED  BY <1>1, <1>3, <1>4, <1>6, <1>7, <1>8

LEMMA MqttStarts ==
  ASSUME IInv, NEW t \in Targets, MqttStart(t), Caught, "late" \notin Faults,
         UNCHANGED webVars, gone' = gone \ {"mqtt"}
  PROVE  IInv'
<1>1. /\ mqtt.pc = "idle" /\ mqtt.state = "idle" /\ UNCHANGED <<sess, task, dev, web>>
      /\ Len(meant) < LastUpload /\ meant' = Append(meant, t)
      /\ mqtt' = [mqtt EXCEPT !.state = "session", !.up = Len(meant) + 1]
      /\ inbox' = Append(inbox, StartRequest("mqtt", t, Len(meant) + 1)) /\ MqttType(mqtt)
  BY Parts DEF MqttStart, ThreadIdle, webVars, Post
<1>2. PICK m, q, mt, u, x, g : /\ m = mqtt' /\ q = inbox' /\ mt = meant' /\ u = Len(meant) + 1
                               /\ x = StartRequest("mqtt", t, u) /\ g = gone'
  OBVIOUS
<1>3. /\ meant \in Seq(Targets) /\ Len(meant) \in Nat /\ DOMAIN meant = 1..Len(meant)
      /\ u \in Nat \ {0}
  BY <1>2, Parts, MeantFacts
<1>4. /\ mt \in Seq(Targets) /\ Extends(meant, mt) /\ u \in DOMAIN mt /\ mt[u] = t
      /\ Len(mt) = Len(meant) + 1
  BY <1>1, <1>2, <1>3, MeantGrows
<1>5. MeantType(mt)  BY <1>1, <1>3, <1>4, OtaAssumption DEF MeantType
<1>6. "web" \in Sources /\ "mqtt" \in Sources /\ g \in SUBSET Sources
      /\ ("web" \in g <=> "web" \in gone) /\ "mqtt" \notin g
  BY <1>2, Parts DEF Sources
<1>7. /\ MqttType(m) /\ m.pc = "idle" /\ m.state = "session" /\ m.up = u
      /\ m.driver = mqtt.driver /\ m.done = mqtt.done
  BY <1>1, <1>2, <1>3 DEF MqttType
<1>8. PICK Q, Q2 : Q = Mine(Held(inbox), "mqtt") /\ Q2 = Mine(Held(q), "mqtt")  OBVIOUS
<1>9. Quiet(Q, "mqtt") /\ task = "free"  BY <1>8, NotUnderway DEF Caught
<1>10. MqttFree(mqtt, task)
  <2>1. MqttInv(mqtt, Q, sess, dev, task, gone, meant)  BY <1>8, Parts
  <2> QED  BY <1>1, <2>1, MqttStages
<1>11. x \in MessageType /\ x.id = "StartRequest" /\ x.source = "mqtt" /\ x.target = t /\ x.up = u
  BY <1>2, <1>3, <1>6, StartRequestIs
<1>12. Asks(x, "mqtt") /\ q = Append(inbox, x)  BY <1>1, <1>2, <1>11 DEF Asks
<1>13. /\ q \in Seq(MessageType) /\ Held(q) = Held(inbox) \cup {x}
       /\ Kept(Mine(Held(inbox), "web"), Mine(Held(q), "web"), "web")
  BY <1>6, <1>11, <1>12, Posting
<1>14. Ordered(q) /\ Sole(Q2, "mqtt", x) /\ \A y \in Q2 : Ends(y, "mqtt") => y \in Q
  BY <1>6, <1>8, <1>9, <1>11, <1>12, PostingAsk
<1>15. sess.state # "idle" => sess.up < u  BY <1>2, <1>3, SessFacts
<1>16. Mail(Held(q), sess, dev, mt)
  <2>1. Mail(Held(inbox), sess, dev, mt)  BY <1>3, <1>4, Parts, Itself, MailFrame
  <2>2. Fits(x, sess, dev, mt)  BY <1>4, <1>11, <1>15 DEF Fits
  <2> QED  BY <1>13, <2>1, <2>2, MailMore
<1>17. SessOK(sess, dev, mt) /\ Left(dev, mt)
  BY <1>3, <1>4, Parts, Itself, SessFrame, LeftFrame
<1>18. Opens(dev, sess, web, m, task)
  <2>1. \A v \in Targets, n \in Nat : \A im : ~MqttWrites(mqtt, task, n, v, im)
    BY <1>1 DEF MqttWrites
  <2>2. Opens(dev, sess, web, mqtt, task) /\ sess.up \in Nat  BY Parts, SessFacts
  <2> QED  BY <2>1, <2>2 DEF Opens
<1>19. MqttInv(m, Q2, sess, dev, task, g, mt)
  <2>1. ASSUME NEW y \in Q2, Ends(y, "mqtt")  PROVE y.up < u
    <3>1. y \in Q  BY <1>14, <2>1
    <3>2. y.up \in DOMAIN meant  BY <1>8, <2>1, <3>1, EndsFit
    <3> QED  BY <1>2, <1>3, <3>2
  <2>2. sess.state # "idle" => sess.up <= u  BY <1>3, <1>15, SessFacts
  <2>3. MqttBusy(m, Q2, sess, task, g, mt)  BY <1>4, <1>6, <1>7, <2>1, <2>2 DEF MqttBusy
  <2>4. x = StartRequest("mqtt", mt[m.up], m.up)  BY <1>2, <1>4, <1>7
  <2>5. MqttAsks(m, Q2, sess, task, mt)
    BY <1>7, <1>9, <1>10, <1>14, <2>4 DEF MqttAsks, MqttFree
  <2> QED  BY <2>3, <2>5 DEF MqttInv
<1>20. WebSpared(web, sess, dev, dev)  BY Itself DEF WebSpared
<1> QED
  BY <1>1, <1>2, <1>4, <1>5, <1>6, <1>7, <1>8, <1>13, <1>14, <1>16, <1>17, <1>18, <1>19,
     <1>20, Parts, MqttMoves

LEMMA MqttHears ==
  ASSUME IInv, NEW n, MqttChunk(n), "mqtt" \notin gone, UNCHANGED webVars, gone' = gone
  PROVE  IInv'
<1>1. /\ mqtt.pc = "idle" /\ mqtt.state = "active" /\ n = mqtt.offset /\ n < Chunks
      /\ dev[mqtt.driver].open /\ mqtt' = [mqtt EXCEPT !.pc = "append"] /\ MqttType(mqtt)
      /\ UNCHANGED <<inbox, sess, task, dev, meant, web, gone>>
  BY Parts DEF MqttChunk, Chunk, Expected, ThreadIdle, MqttFrame, webVars
<1>2. PICK Q, m, k : Q = Mine(Held(inbox), "mqtt") /\ m = mqtt' /\ k = task'  OBVIOUS
<1>3. /\ MqttBusy(mqtt, Q, sess, task, gone, meant) /\ Own(sess, "mqtt", mqtt.up, "active")
      /\ task = "free" /\ mqtt.done = TRUE /\ Quiet(Q, "mqtt") /\ mqtt.driver = meant[mqtt.up]
      /\ dev[mqtt.driver].open \in BOOLEAN
  BY <1>1, <1>2, MqttWriter
<1>4. /\ MqttType(m) /\ m.pc = "append" /\ m.state = "active" /\ m.done = mqtt.done
      /\ m.driver = mqtt.driver /\ m.up = mqtt.up /\ m.offset = mqtt.offset
  BY <1>1, <1>2 DEF MqttType
<1>5. k = "free"  BY <1>1, <1>2, <1>3
<1>6. MqttBusy(m, Q, sess, k, gone, meant)
  BY <1>1, <1>3, <1>4, <1>5 DEF MqttBusy, MqttOver
<1>7. MqttSends(m, Q, sess, dev, k, gone, meant)  BY <1>1, <1>3, <1>4, <1>5 DEF MqttSends
<1>8. MqttInv(m, Q, sess, dev, k, gone, meant)  BY <1>6, <1>7 DEF MqttInv
<1>9. \A t \in Targets, u \in Nat : \A im :
        sess.source = "mqtt" /\ MqttWrites(mqtt, task, u, t, im) => MqttWrites(m, k, u, t, im)
  BY <1>1, <1>4 DEF MqttWrites
<1> QED  BY <1>1, <1>2, <1>4, <1>5, <1>8, <1>9, MqttAlone

LEMMA MqttAppends ==
  ASSUME IInv, MqttAppend, UNCHANGED <<webVars, gone>>
  PROVE  IInv'
<1>1. mqtt.pc = "append" /\ MqttType(mqtt) /\ UNCHANGED <<inbox, sess, task, meant, web, gone>>
  BY Parts DEF MqttAppend, MqttFrame, webVars
<1>2. PICK Q : Q = Mine(Held(inbox), "mqtt")  OBVIOUS
<1>3. MqttSends(mqtt, Q, sess, dev, task, gone, meant) /\ "mqtt" \notin gone
  BY <1>1, <1>2, MqttInCall
<1>4. mqtt.state = "active"  BY <1>3 DEF MqttSends
<1>5. PICK t, u, n : t = mqtt.driver /\ u = mqtt.up /\ n = mqtt.offset  OBVIOUS
<1>6. /\ MqttBusy(mqtt, Q, sess, task, gone, meant)
      /\ Own(sess, "mqtt", u, "active") /\ task = "free" /\ mqtt.done = TRUE
      /\ Quiet(Q, "mqtt") /\ t = sess.target /\ t = meant[u] /\ t \in Targets
      /\ u \in DOMAIN meant /\ u \in Nat \ {0} /\ dev[t].open = TRUE /\ n < Chunks
      /\ dev[t].image = Image(u, n)
      /\ \A r \in Targets : dev[r].open = TRUE => r = t
      /\ \A x \in Q : Ends(x, "mqtt") => FALSE
  BY <1>1, <1>2, <1>3, <1>4, <1>5, MqttWriter
<1>7. n \in Nat /\ n + 1 \in 1..Chunks /\ n + 1 \in 0..Chunks
  BY <1>1, <1>5, <1>6, OtaAssumption DEF MqttType
<1>8. PICK m, d : m = mqtt' /\ d = dev'  OBVIOUS
<1>9. d = Written(t, u, n + 1) /\ m = [mqtt EXCEPT !.pc = "idle", !.offset = n + 1]
  BY <1>5, <1>8 DEF MqttAppend
<1>10. /\ d \in [Targets -> File] /\ \A r \in Targets : r # t => d[r] = dev[r]
       /\ d[t].open = TRUE /\ d[t].image = Append(dev[t].image, <<u, n + 1>>)
  <2>1. PICK v : v = n + 1  OBVIOUS
  <2>2. /\ d = Written(t, u, v) /\ t \in Targets /\ u \in Nat /\ v \in 1..Chunks
        /\ dev \in [Targets -> File]
    BY <1>6, <1>7, <1>9, <2>1, Parts
  <2>3. /\ d \in [Targets -> File] /\ \A r \in Targets : r # t => d[r] = dev[r]
        /\ d[t].open = dev[t].open /\ d[t].image = Append(dev[t].image, <<u, v>>)
    BY ONLY <2>2, WrittenIs
  <2> QED  BY <1>6, <2>1, <2>3
<1>11. d[t].image = Image(u, n + 1)
  <2>1. u \in Nat /\ n \in Nat  BY <1>6, <1>7
  <2>2. Append(Image(u, n), <<u, n + 1>>) = Image(u, n + 1)  BY ONLY <2>1, ImageGrows
  <2> QED  BY <1>6, <1>10, <2>2
<1>12. /\ MqttType(m) /\ m.pc = "idle" /\ m.state = "active" /\ m.done = mqtt.done
       /\ m.driver = t /\ m.up = u /\ m.offset = n + 1
  BY <1>1, <1>4, <1>5, <1>7, <1>9 DEF MqttType
<1>13. Spares(dev, d)
  <2>1. \A r \in Targets : dev[r].open = FALSE => r # t  BY <1>6
  <2> QED  BY <1>10, <2>1 DEF Spares
<1>14. Mail(Held(inbox), sess, d, meant) /\ SessOK(sess, d, meant)
  BY <1>13, Parts, Itself, MailFrame, SessFrame
<1>15. Left(d, meant)
  <2>1. t \in Targets /\ Left(dev, meant) /\ \A r \in Targets : r # t => d[r] = dev[r]
    BY <1>6, <1>10, Parts
  <2>2. \/ d[t].open = TRUE \/ d[t].image = <<>> \/ d[t] = dev[t]
        \/ \E v \in DOMAIN meant : d[t].image = Image(v, Chunks)
    BY <1>10
  <2> QED  BY ONLY <2>1, <2>2, LeftChanged
<1>16. Opens(d, sess, web, m, task)
  <2>1. sess.state = "active" /\ sess.source = "mqtt" /\ sess.up = u  BY <1>6 DEF Own
  <2>2. MqttWrites(m, task, u, t, d[t].image)  BY <1>11, <1>12 DEF MqttWrites
  <2>3. \A r \in Targets : d[r].open = TRUE => r = t  BY <1>6, <1>10
  <2> QED  BY <1>6, <2>1, <2>2, <2>3 DEF Opens
<1>17. MqttInv(m, Q, sess, d, task, gone, meant)
  <2>1. MqttBusy(m, Q, sess, task, gone, meant)  BY <1>5, <1>6, <1>12 DEF MqttBusy
  <2>2. MqttSends(m, Q, sess, d, task, gone, meant)  BY <1>6, <1>12 DEF MqttSends
  <2> QED  BY <2>1, <2>2 DEF MqttInv
<1>18. WebSpared(web, sess, dev, d)  BY <1>6 DEF WebSpared, Own
<1>19. /\ Kept(Mine(Held(inbox), "web"), Mine(Held(inbox), "web"), "web")
       /\ Extends(meant, meant)
  BY Itself
<1> QED
  BY <1>1, <1>2, <1>8, <1>10, <1>12, <1>14, <1>15, <1>16, <1>17, <1>18, <1>19, Parts, MqttMoves

LEMMA MqttCloses ==
  ASSUME IInv, MqttClose, "mqtt" \notin gone, UNCHANGED webVars, gone' = gone
  PROVE  IInv'
<1>1. /\ mqtt.pc = "idle" /\ mqtt.state = "active" /\ mqtt.offset = Chunks /\ MqttType(mqtt)
      /\ dev[mqtt.driver].open /\ UNCHANGED <<inbox, sess, task, meant, web, gone>>
  BY Parts DEF MqttClose, Completing, ThreadIdle, MqttFrame, webVars
<1>2. PICK Q : Q = Mine(Held(inbox), "mqtt")  OBVIOUS
<1>3. PICK t, u : t = mqtt.driver /\ u = mqtt.up  OBVIOUS
<1>4. /\ MqttBusy(mqtt, Q, sess, task, gone, meant)
      /\ Own(sess, "mqtt", u, "active") /\ task = "free"
      /\ Quiet(Q, "mqtt") /\ t = sess.target /\ t = meant[u] /\ t \in Targets
      /\ u \in DOMAIN meant /\ dev[t].open \in BOOLEAN
      /\ dev[t].open = TRUE => dev[t].image = Image(u, Chunks)
      /\ \A r \in Targets : dev[r].open = TRUE => r = t
      /\ \A x \in Q : Ends(x, "mqtt") => FALSE
  BY <1>1, <1>2, <1>3, MqttWriter
<1>5. dev[t].open = TRUE /\ dev[t].image = Image(u, Chunks)  BY <1>1, <1>3, <1>4
<1>6. PICK m, d : m = mqtt' /\ d = dev'  OBVIOUS
<1>7. d = Closed(t) /\ m = [mqtt EXCEPT !.pc = "notify", !.done = FALSE]
  BY <1>3, <1>6 DEF MqttClose
<1>8. /\ d \in [Targets -> File] /\ \A r \in Targets : r # t => d[r] = dev[r]
      /\ d[t].open = FALSE /\ d[t].image = dev[t].image
      /\ Spares(dev, d) /\ (dev[t].open = FALSE => d = dev)
  <2>1. d = Closed(t) /\ t \in Targets /\ dev \in [Targets -> File]  BY <1>4, <1>7, Parts
  <2> QED  BY ONLY <2>1, ClosedIs
<1>9. /\ MqttType(m) /\ m.pc = "notify" /\ m.state = "active" /\ m.done = FALSE
      /\ m.driver = t /\ m.up = u
  BY <1>1, <1>3, <1>7 DEF MqttType
<1>10. Mail(Held(inbox), sess, d, meant) /\ SessOK(sess, d, meant)
  BY <1>8, Parts, Itself, MailFrame, SessFrame
<1>11. Left(d, meant)
  <2>1. t \in Targets /\ Left(dev, meant) /\ \A r \in Targets : r # t => d[r] = dev[r]
    BY <1>4, <1>8, Parts
  <2>2. \/ d[t].open = TRUE \/ d[t].image = <<>> \/ d[t] = dev[t]
        \/ \E v \in DOMAIN meant : d[t].image = Image(v, Chunks)
    BY <1>4, <1>5, <1>8
  <2> QED  BY ONLY <2>1, <2>2, LeftChanged
<1>12. Opens(d, sess, web, m, task)
  <2>1. \A r \in Targets : d[r].open # TRUE  BY <1>4, <1>8
  <2> QED  BY <2>1 DEF Opens
<1>13. MqttInv(m, Q, sess, d, task, gone, meant)
  <2>1. MqttBusy(m, Q, sess, task, gone, meant)  BY <1>1, <1>3, <1>4, <1>9 DEF MqttBusy
  <2>2. WholeAt(d, t, u)  BY <1>5, <1>8 DEF WholeAt
  <2>3. MqttSends(m, Q, sess, d, task, gone, meant)  BY <1>4, <1>9, <2>2 DEF MqttSends
  <2> QED  BY <2>1, <2>3 DEF MqttInv
<1>14. WebSpared(web, sess, dev, d)  BY <1>4 DEF WebSpared, Own
<1>15. /\ Kept(Mine(Held(inbox), "web"), Mine(Held(inbox), "web"), "web")
       /\ Extends(meant, meant)
  BY Itself
<1> QED
  BY <1>1, <1>2, <1>6, <1>8, <1>9, <1>10, <1>11, <1>12, <1>13, <1>14, <1>15, Parts, MqttMoves

LEMMA MqttNotifies ==
  ASSUME IInv, MqttNotify, UNCHANGED <<webVars, gone>>
  PROVE  IInv'
<1>1. /\ mqtt.pc = "notify" /\ MqttType(mqtt) /\ mqtt' = [mqtt EXCEPT !.pc = "notified"]
      /\ UNCHANGED <<sess, task, dev, meant, web, gone>>
      /\ inbox' = Append(inbox, Notify("mqtt", TRUE, mqtt.up))
  BY Parts DEF MqttNotify, MqttFrame, webVars, Post
<1>2. PICK Q : Q = Mine(Held(inbox), "mqtt")  OBVIOUS
<1>3. /\ MqttBusy(mqtt, Q, sess, task, gone, meant)
      /\ MqttSends(mqtt, Q, sess, dev, task, gone, meant)
  BY <1>1, <1>2, MqttInCall
<1>4. /\ mqtt.state = "active" /\ mqtt.done = FALSE /\ Own(sess, "mqtt", mqtt.up, "active")
      /\ WholeAt(dev, meant[mqtt.up], mqtt.up) /\ Quiet(Q, "mqtt") /\ task = "free"
      /\ mqtt.driver = meant[mqtt.up]
  BY <1>1, <1>3 DEF MqttSends
<1>5. PICK b \in BOOLEAN : b = TRUE  OBVIOUS
<1>6. PICK m, q, x : m = mqtt' /\ q = inbox' /\ x = Notify("mqtt", b, mqtt.up)  OBVIOUS
<1>7. x \in MessageType /\ x.id = "CompleteNotify" /\ x.source = "mqtt" /\ x.success = b
      /\ x.up = mqtt.up
  <2>1. mqtt.up \in Nat /\ "mqtt" \in Sources  BY <1>1 DEF MqttType, Sources
  <2> QED  BY <1>6, <2>1, NotifyIs
<1>8. Ends(x, "mqtt") /\ q = Append(inbox, x)  BY <1>1, <1>5, <1>6, <1>7 DEF Ends
<1>9. /\ q \in Seq(MessageType) /\ Ordered(q) /\ Mail(Held(q), sess, dev, meant)
      /\ Kept(Mine(Held(inbox), "web"), Mine(Held(q), "web"), "web")
      /\ Mine(Held(q), "mqtt") = Mine(Held(inbox), "mqtt") \cup {x}
  BY <1>1, <1>2, <1>4, <1>7, <1>8, Itself, MqttPosts
<1>10. /\ MqttType(m) /\ m.pc = "notified" /\ m.state = "active" /\ m.done = FALSE
       /\ m.driver = mqtt.driver /\ m.up = mqtt.up
  BY <1>1, <1>4, <1>6 DEF MqttType
<1>11. PICK Q2 : Q2 = Mine(Held(q), "mqtt")  OBVIOUS
<1>12. Q2 = Q \cup {x} /\ ~Asks(x, "mqtt")  BY <1>2, <1>7, <1>9, <1>11 DEF Asks
<1>13. MqttInv(m, Q2, sess, dev, task, gone, meant)
  <2>1. "mqtt" \notin gone  BY <1>1, <1>3 DEF MqttBusy
  <2>2. MqttBusy(m, Q2, sess, task, gone, meant)
    BY <1>3, <1>7, <1>10, <1>12, <2>1 DEF MqttBusy, MqttOver
  <2>3. Quiet(Q2, "mqtt")  BY <1>4, <1>12 DEF Quiet
  <2>4. MqttSends(m, Q2, sess, dev, task, gone, meant)  BY <1>4, <1>10, <2>3 DEF MqttSends
  <2> QED  BY <2>2, <2>4 DEF MqttInv
<1>14. Opens(dev, sess, web, m, task)
  <2>1. \A v \in Targets, n \in Nat : \A im : ~MqttWrites(mqtt, task, n, v, im)
    BY <1>1, <1>4 DEF MqttWrites
  <2>2. Opens(dev, sess, web, mqtt, task) /\ sess.up \in Nat  BY Parts, SessFacts
  <2> QED  BY <2>1, <2>2 DEF Opens
<1>15. WebSpared(web, sess, dev, dev) /\ Extends(meant, meant)  BY Itself DEF WebSpared
<1> QED
  BY <1>1, <1>6, <1>9, <1>10, <1>11, <1>13, <1>14, <1>15, Parts, MqttMoves

LEMMA MqttCompletes ==
  ASSUME IInv, MqttCompleting, UNCHANGED <<webVars, gone>>
  PROVE  IInv'
<1>1. /\ mqtt.pc = "notified" /\ MqttType(mqtt)
      /\ mqtt' = [mqtt EXCEPT !.pc = "idle", !.state = "completing"]
      /\ UNCHANGED <<inbox, sess, task, dev, meant, web, gone>>
  BY Parts DEF MqttCompleting, MqttFrame, webVars
<1>2. PICK Q, m, k : Q = Mine(Held(inbox), "mqtt") /\ m = mqtt' /\ k = task'  OBVIOUS
<1>3. /\ MqttBusy(mqtt, Q, sess, task, gone, meant)
      /\ MqttSends(mqtt, Q, sess, dev, task, gone, meant)
  BY <1>1, <1>2, MqttInCall
<1>4. k = "free" /\ Quiet(Q, "mqtt") /\ mqtt.done = FALSE  BY <1>1, <1>2, <1>3 DEF MqttSends
<1>5. /\ MqttType(m) /\ m.pc = "idle" /\ m.state = "completing" /\ m.done = FALSE
      /\ m.up = mqtt.up
  BY <1>1, <1>2, <1>4 DEF MqttType
<1>6. MqttBusy(m, Q, sess, k, gone, meant)  BY <1>3, <1>5 DEF MqttBusy, MqttOver
<1>7. MqttAwaits(m, Q, k)  BY <1>4, <1>5 DEF MqttAwaits
<1>8. MqttInv(m, Q, sess, dev, k, gone, meant)  BY <1>6, <1>7 DEF MqttInv
<1>9. \A t \in Targets, u \in Nat : \A im :
        sess.source = "mqtt" /\ MqttWrites(mqtt, task, u, t, im) => MqttWrites(m, k, u, t, im)
  <2>1. mqtt.state = "active"  BY <1>3 DEF MqttSends
  <2> QED  BY <1>1, <2>1 DEF MqttWrites
<1> QED  BY <1>1, <1>2, <1>4, <1>5, <1>8, <1>9, MqttAlone

LEMMA MqttReconnects ==
  ASSUME IInv, MqttReconnect, UNCHANGED <<webVars, gone>>
  PROVE  IInv'
<1>1. /\ mqtt.pc = "away" /\ MqttType(mqtt) /\ mqtt' = [mqtt EXCEPT !.pc = "idle"]
      /\ UNCHANGED <<inbox, sess, task, dev, meant, web, gone>>
  BY Parts DEF MqttReconnect, MqttFrame, webVars
<1>2. PICK Q, m, k : Q = Mine(Held(inbox), "mqtt") /\ m = mqtt' /\ k = task'  OBVIOUS
<1>3. MqttFree(mqtt, task)
  <2>1. MqttInv(mqtt, Q, sess, dev, task, gone, meant)  BY <1>2, Parts
  <2> QED  BY <1>1, <2>1 DEF MqttInv, MqttAsks, MqttWaits, MqttSends, MqttAwaits
<1>4. /\ MqttType(m) /\ m.pc = "idle" /\ m.state = mqtt.state /\ m.done = mqtt.done
      /\ m.up = mqtt.up /\ m.driver = mqtt.driver /\ m.offset = mqtt.offset
  BY <1>1, <1>2 DEF MqttType
<1>5. MqttFree(m, k) /\ k = "free"  BY <1>1, <1>2, <1>3, <1>4 DEF MqttFree
<1>6. MqttInv(m, Q, sess, dev, k, gone, meant)  BY <1>5 DEF MqttInv
<1>7. \A t \in Targets, u \in Nat : \A im :
        sess.source = "mqtt" /\ MqttWrites(mqtt, task, u, t, im) => MqttWrites(m, k, u, t, im)
  BY <1>3 DEF MqttWrites, MqttFree
<1> QED  BY <1>1, <1>2, <1>4, <1>5, <1>6, <1>7, MqttAlone

\* What becomes of gone when the MQTT module ends an upload.
LEMMA GoneIs ==
  ASSUME IInv, NEW g, g = gone \/ g = gone \ {"mqtt"}
  PROVE  g \in SUBSET Sources /\ ("web" \in g <=> "web" \in gone)
BY Parts

\* A chunk cannot be written: the file is removed, the session given up.
LEMMA MqttStops ==
  ASSUME IInv, MqttWriteFailed, MqttFrame, UNCHANGED webVars, gone' = gone \ {"mqtt"},
         mqtt.state = "active", mqtt.pc \in {"idle", "append"}, "mqtt" \notin gone
  PROVE  IInv'
<1>1. PICK t, d, x, m, g : /\ t = mqtt.driver /\ d = dev' /\ x = AbortRequest("mqtt", mqtt.up)
                           /\ m = mqtt' /\ g = gone'
  OBVIOUS
<1>2. /\ d \in Erased(t) /\ inbox' = Append(inbox, x) /\ m = MqttReset
      /\ UNCHANGED <<sess, task, meant, web>>
  BY <1>1 DEF MqttWriteFailed, MqttFrame, webVars, Post
<1>3. /\ Own(sess, "mqtt", mqtt.up, "active") /\ task = "free" /\ t \in Targets
      /\ mqtt.up \in Nat
  BY <1>1, MqttWriter
<1>4. /\ d \in [Targets -> File] /\ \A r \in Targets : r # t => d[r] = dev[r]
      /\ d[t].open = FALSE /\ (d[t].image = <<>> \/ d[t] = dev[t])
      /\ Spares(dev, d)
  <2>1. d \in Erased(t) /\ t \in Targets /\ dev \in [Targets -> File]  BY <1>2, <1>3, Parts
  <2> QED  BY ONLY <2>1, ErasedIs
<1>5. Quits(dev, d, sess, web, meant)  BY <1>1, <1>3, <1>4, QuitsFile DEF Own
<1>6. "mqtt" \in Sources  BY DEF Sources
<1>7. x \in MessageType /\ x.id = "AbortRequest" /\ x.source = "mqtt" /\ x.up = mqtt.up
  BY <1>1, <1>3, <1>6, AbortRequestIs
<1>8. Ends(x, "mqtt") /\ x.id # "CompleteNotify"  BY <1>7 DEF Ends
<1>9. g \in SUBSET Sources /\ ("web" \in g <=> "web" \in gone)  BY <1>1, GoneIs
<1>10. Idles(m) /\ task' = "free"  BY <1>2, <1>3 DEF Idles
<1> QED  BY <1>1, <1>2, <1>5, <1>7, <1>8, <1>9, <1>10, MqttEndsIt

LEMMA MqttFailsToWrite ==
  ASSUME IInv,
         ((\E n \in 0..Chunks : MqttChunkClosed(n)) /\ "mqtt" \notin gone) \/ MqttAppendFails,
         UNCHANGED webVars, gone' = gone \ {"mqtt"}
  PROVE  IInv'
<1>1. CASE MqttAppendFails
  <2>1. mqtt.pc = "append" /\ MqttWriteFailed /\ MqttFrame  BY <1>1 DEF MqttAppendFails
  <2>2. mqtt.state = "active" /\ "mqtt" \notin gone  BY <2>1, MqttInCall DEF MqttSends
  <2> QED  BY <2>1, <2>2, MqttStops
<1>2. CASE (\E n \in 0..Chunks : MqttChunkClosed(n)) /\ "mqtt" \notin gone
  <2>1. /\ mqtt.pc = "idle" /\ mqtt.state = "active" /\ MqttWriteFailed /\ MqttFrame
        /\ "mqtt" \notin gone
    BY <1>2 DEF MqttChunkClosed, Chunk, ThreadIdle
  <2> QED  BY <2>1, MqttStops
<1> QED  BY <1>1, <1>2

\* The upload cannot be completed: the file is removed or was closed already.
LEMMA MqttCannotComplete ==
  ASSUME IInv, MqttCorrupt \/ MqttCloseClosed \/ MqttCloseFails, UNCHANGED webVars,
         gone' = gone \ {"mqtt"}, "mqtt" \notin gone
  PROVE  IInv'
<1>1. PICK b \in BOOLEAN : b = FALSE  OBVIOUS
<1>2. PICK t, d, x, m, g : /\ t = mqtt.driver /\ d = dev' /\ x = Notify("mqtt", b, mqtt.up)
                           /\ m = mqtt' /\ g = gone'
  OBVIOUS
<1>3. /\ mqtt.pc = "idle" /\ mqtt.state = "active" /\ inbox' = Append(inbox, x)
      /\ m = MqttReset /\ UNCHANGED <<sess, task, meant, web>>
  BY <1>1, <1>2 DEF MqttCorrupt, MqttCloseClosed, MqttCloseFails, Completing, ThreadIdle,
                    MqttGivesUp, MqttFrame, webVars, Post
<1>4. /\ Own(sess, "mqtt", mqtt.up, "active") /\ task = "free" /\ t \in Targets
      /\ mqtt.up \in Nat /\ Quiet(Mine(Held(inbox), "mqtt"), "mqtt")
      /\ dev[t].open \in BOOLEAN
  BY <1>2, <1>3, MqttWriter
<1>5. /\ d \in [Targets -> File] /\ \A r \in Targets : r # t => d[r] = dev[r]
      /\ d[t].open = FALSE /\ (d[t].image = <<>> \/ d[t] = dev[t])
      /\ Spares(dev, d)
  <2>1. t \in Targets /\ dev \in [Targets -> File]  BY <1>4, Parts
  <2>2. CASE MqttCorrupt
    <3>1. d \in Erased(t)  BY <1>2, <2>2 DEF MqttCorrupt
    <3> QED  BY ONLY <2>1, <3>1, ErasedIs
  <2>3. CASE MqttCloseClosed
    <3>1. d = dev /\ dev[t].open = FALSE  BY <1>2, <1>4, <2>3 DEF MqttCloseClosed
    <3> QED  BY <2>1, <3>1 DEF Spares
  <2>4. CASE MqttCloseFails
    <3>1. d = Refused(t) /\ t \in Targets /\ dev \in [Targets -> File]
      BY <1>2, <2>1, <2>4 DEF MqttCloseFails
    <3>2. /\ d \in [Targets -> File] /\ \A r \in Targets : r # t => d[r] = dev[r]
          /\ d[t].open = FALSE /\ d[t].image = <<>>
          /\ dev[t].open = TRUE => Spares(dev, d)
      BY ONLY <3>1, RefusedIs
    <3>3. dev[t].open = TRUE  BY <1>2, <1>4, <2>4 DEF MqttCloseFails
    <3> QED  BY <3>2, <3>3
  <2> QED  BY <2>2, <2>3, <2>4
<1>6. Quits(dev, d, sess, web, meant)  BY <1>2, <1>3, <1>4, <1>5, QuitsFile DEF Own
<1>7. "mqtt" \in Sources  BY DEF Sources
<1>8. x \in MessageType /\ x.id = "CompleteNotify" /\ x.source = "mqtt" /\ x.success = b
      /\ x.up = mqtt.up
  BY <1>2, <1>4, <1>7, NotifyIs
<1>9. Ends(x, "mqtt") /\ x.success = FALSE  BY <1>1, <1>8 DEF Ends
<1>10. g \in SUBSET Sources /\ ("web" \in g <=> "web" \in gone)  BY <1>2, GoneIs
<1>11. Idles(m) /\ task' = "free"  BY <1>3, <1>4 DEF Idles
<1> QED  BY <1>2, <1>3, <1>4, <1>6, <1>8, <1>9, <1>10, <1>11, MqttEndsIt

\* What an abort, or a lost connection, does to the files.
LEMMA MqttErasedIs ==
  ASSUME IInv, mqtt.state # "idle", task = "free", mqtt.pc = "idle", web.pc # "append",
         NEW d, d \in MqttErased
  PROVE  Quits(dev, d, sess, web, meant)
<1>1. PICK Q : Q = Mine(Held(inbox), "mqtt")  OBVIOUS
<1>2. MqttInv(mqtt, Q, sess, dev, task, gone, meant)  BY <1>1, Parts
<1>3. CASE mqtt.state = "active"
  <2>1. /\ MqttBusy(mqtt, Q, sess, task, gone, meant)
        /\ MqttSends(mqtt, Q, sess, dev, task, gone, meant)
    BY <1>2, <1>3, MqttStages
  <2>2. mqtt.driver \in Targets /\ mqtt.driver # None /\ mqtt.done = TRUE
    BY <2>1, Parts, MeantFacts DEF MqttBusy, MqttSends
  <2>3. PICK t : t = mqtt.driver  OBVIOUS
  <2>4. d \in Erased(t) /\ t \in Targets /\ dev \in [Targets -> File]
    BY <2>2, <2>3, Parts DEF MqttErased
  <2>5. /\ d \in [Targets -> File] /\ \A r \in Targets : r # t => d[r] = dev[r]
        /\ d[t].open = FALSE /\ (d[t].image = <<>> \/ d[t] = dev[t])
        /\ Spares(dev, d)
    BY ONLY <2>4, ErasedIs
  <2> QED  BY <1>3, <2>3, <2>5, QuitsFile
<1>4. CASE mqtt.state # "active"
  <2>1. mqtt.state \in {"session", "driver", "completing"}  BY <1>2, <1>4, MqttStages
  <2>2. mqtt.done = FALSE
    BY <1>2, <2>1, MqttStages DEF MqttAsks, MqttWaits, MqttAwaits
  <2>3. d = dev  BY <2>2 DEF MqttErased
  <2> QED  BY <2>1, <2>3, QuitsNothing
<1> QED  BY <1>3, <1>4

LEMMA MqttAborts ==
  ASSUME IInv, Apart, "race" \notin Faults, MqttAbort \/ MqttDisconnected, UNCHANGED webVars,
         gone' = gone \ {"mqtt"}
  PROVE  IInv'
<1>1. /\ task = "free" /\ web.pc # "append" /\ mqtt.pc = "idle" /\ mqtt.state # "idle"
      /\ UNCHANGED <<sess, task, meant, web>>
  BY DEF Apart, At, MqttAbort, MqttDisconnected, ThreadIdle, MqttFrame, webVars
<1>2. PICK d, x, m, g : /\ d = dev' /\ x = AbortRequest("mqtt", mqtt.up) /\ m = mqtt' /\ g = gone'
  OBVIOUS
<1>3. Idles(m) /\ task' = "free"  BY <1>1, <1>2 DEF Idles, MqttAbort, MqttDisconnected
<1>4. g \in SUBSET Sources /\ ("web" \in g <=> "web" \in gone)  BY <1>2, GoneIs
<1>5. \/ d \in MqttErased /\ inbox' = Append(inbox, x)
      \/ d = dev /\ inbox' = inbox /\ mqtt.state \notin {"active", "completing"}
  BY <1>2 DEF MqttAbort, MqttDisconnected, Post
<1>6. CASE d \in MqttErased /\ inbox' = Append(inbox, x)
  <2>1. Quits(dev, d, sess, web, meant)  BY <1>1, <1>6, MqttErasedIs
  <2>2. "mqtt" \in Sources /\ mqtt.up \in Nat  BY Parts DEF Sources, MqttType
  <2>3. x \in MessageType /\ x.id = "AbortRequest" /\ x.source = "mqtt" /\ x.up = mqtt.up
    BY <1>2, <2>2, AbortRequestIs
  <2>4. Ends(x, "mqtt") /\ x.id # "CompleteNotify"  BY <2>3 DEF Ends
  <2> QED  BY <1>1, <1>2, <1>3, <1>4, <1>6, <2>1, <2>3, <2>4, MqttEndsIt
<1>7. CASE d = dev /\ inbox' = inbox /\ mqtt.state \notin {"active", "completing"}
  <2>1. mqtt.state \in {"session", "driver"}  BY <1>1, <1>7, Parts DEF MqttType
  <2>2. Quits(dev, d, sess, web, meant)  BY <1>1, <1>7, <2>1, QuitsNothing
  <2>3. /\ inbox \in Seq(MessageType) /\ Ordered(inbox) /\ Mail(Held(inbox), sess, d, meant)
        /\ Kept(Mine(Held(inbox), "web"), Mine(Held(inbox), "web"), "web")
    BY <1>7, Parts, Itself
  <2> QED  BY <1>1, <1>2, <1>3, <1>4, <1>7, <2>2, <2>3, MqttIsReset
<1> QED  BY <1>5, <1>6, <1>7

-----------------------------------------------------------------------------
(* The steps of the MQTT module in the shared task.                         *)

\* A message for the MQTT module, or for nobody, is taken.
LEMMA MqttTakes ==
  ASSUME IInv, inbox # <<>>, inbox' = Tail(inbox) \o <<>>,
         UNCHANGED <<sess, dev, meant, web, gone>>,
         NEW x, x = Head(inbox), ~Asks(x, "web"), ~Ends(x, "web"),
         NEW m, m = mqtt', MqttType(m), NEW k, k = task',
         k \in {"free", "granted", "asked", "open", "opened", "reset"},
         MqttInv(m, Mine(Held(Tail(inbox)), "mqtt"), sess, dev, k, gone, meant),
         \A t \in Targets, u \in Nat : \A im :
           sess.source = "mqtt" /\ MqttWrites(mqtt, task, u, t, im) => MqttWrites(m, k, u, t, im)
  PROVE  IInv'
<1>1. PICK q : q = Tail(inbox)  OBVIOUS
<1>2. /\ Takes(inbox, q, x) /\ q \in Seq(MessageType) /\ Ordered(q)
      /\ Mail(Held(q), sess, dev, meant)
  BY <1>1, Taken
<1>3. inbox' = q  BY <1>1, <1>2
<1>4. Kept(Mine(Held(inbox), "web"), Mine(Held(q), "web"), "web")  BY <1>2, MineTaken
<1>5. Opens(dev, sess, web, m, k)
  <2>1. \A t \in Targets, u \in Nat : \A im :
          sess.source = "web" /\ WebWrites(web, u, t, im) => WebWrites(web, u, t, im)
    OBVIOUS
  <2>2. sess.up \in Nat /\ Opens(dev, sess, web, mqtt, task)  BY Parts, SessFacts
  <2> QED  BY <2>1, <2>2, OpensFrame
<1>6. WebSpared(web, sess, dev, dev) /\ Extends(meant, meant)  BY Itself DEF WebSpared
<1>7. /\ SessOK(sess, dev, meant) /\ Left(dev, meant) /\ MeantType(meant)
      /\ dev \in [Targets -> File] /\ gone \in SUBSET Sources
  BY Parts
<1> QED  BY <1>1, <1>2, <1>3, <1>4, <1>5, <1>6, <1>7, MqttMoves

\* An answer to the MQTT module is taken.
LEMMA AnswerTaken ==
  ASSUME IInv, NEW x, x = Head(inbox), inbox # <<>>, task = "free", x.to = "mqtt",
         x.id \in {"StartResponse", "DriverResponse"}, NEW q, q = Tail(inbox)
  PROVE  /\ ~Asks(x, "web") /\ ~Ends(x, "web") /\ x \in MessageType
         /\ Quiet(Mine(Held(q), "mqtt"), "mqtt")
         /\ Mine(Held(q), "mqtt") \subseteq Mine(Held(inbox), "mqtt")
         /\ \/ MqttFree(mqtt, task)
            \/ /\ MqttBusy(mqtt, Mine(Held(inbox), "mqtt"), sess, task, gone, meant)
               /\ MqttAt(mqtt, task, x)
               /\ x.id = "StartResponse" =>
                    x.accepted \in BOOLEAN
                    /\ (x.accepted = TRUE => Own(sess, "mqtt", mqtt.up, "pending"))
               /\ x.id = "DriverResponse" =>
                    x.target = meant[mqtt.up] /\ Own(sess, "mqtt", mqtt.up, "active")
<1>1. Asks(x, "mqtt") /\ ~Asks(x, "web") /\ ~Ends(x, "web")  BY DEF Asks, Ends
<1>2. "mqtt" \in Sources  BY DEF Sources
<1>3. Takes(inbox, q, x) /\ x \in MessageType  BY Taken
<1>4. PICK p : p = inbox  OBVIOUS
<1>5. PICK Q, Q2 : Q = Mine(Held(p), "mqtt") /\ Q2 = Mine(Held(q), "mqtt")  OBVIOUS
<1>6. Quiet(Q2, "mqtt") /\ x \in Q /\ Q2 \subseteq Q
  <2>1. Takes(p, q, x) /\ Ordered(p)  BY <1>3, <1>4, Parts
  <2>2. /\ Quiet(Mine(Held(q), "mqtt"), "mqtt") /\ x \in Mine(Held(p), "mqtt")
        /\ Mine(Held(q), "mqtt") \subseteq Mine(Held(p), "mqtt")
    BY ONLY <1>1, <1>2, <2>1, AskTaken
  <2> QED  BY <1>5, <2>2
<1>7. CASE MqttFree(mqtt, task)  BY <1>1, <1>3, <1>4, <1>5, <1>6, <1>7
<1>8. CASE ~MqttFree(mqtt, task)
  <2>1. MqttInv(mqtt, Q, sess, dev, task, gone, meant)  BY <1>4, <1>5, Parts
  <2>2. /\ MqttBusy(mqtt, Q, sess, task, gone, meant) /\ MqttAt(mqtt, task, x)
        /\ Conv(x, "mqtt", mqtt.up, sess, meant)
    BY ONLY <1>1, <1>6, <1>8, <2>1, MqttTold
  <2>3. PICK u, h, mt : u = mqtt.up /\ h = sess /\ mt = meant  OBVIOUS
  <2>4. "mqtt" \in Sources /\ Conv(x, "mqtt", u, h, mt)  BY <1>2, <2>2, <2>3
  <2>5. /\ x.id = "StartResponse" =>
             x.to = "mqtt" /\ x.accepted \in BOOLEAN /\
             (x.accepted = TRUE => Own(h, "mqtt", u, "pending"))
        /\ x.id = "DriverResponse" => x.to = "mqtt" /\ x.target = mt[u]
             /\ Own(h, "mqtt", u, "active")
    BY ONLY <2>4, ConvIs
  <2> QED  BY <1>1, <1>3, <1>4, <1>5, <1>6, <2>2, <2>3, <2>5
<1> QED  BY <1>7, <1>8

LEMMA SessionIsAnswered ==
  ASSUME IInv, SessionAnswered, UNCHANGED <<webVars, gone>>
  PROVE  IInv'
<1>1. /\ task = "free" /\ inbox # <<>> /\ Head(inbox).id = "StartResponse"
      /\ Head(inbox).to = "mqtt" /\ inbox' = Tail(inbox) \o <<>>
      /\ task' = IF mqtt.state # "session" THEN "free"
                 ELSE IF Head(inbox).accepted THEN "granted" ELSE "reset"
      /\ UNCHANGED <<sess, dev, meant, mqtt, web, gone>> /\ MqttType(mqtt)
  BY Parts DEF SessionAnswered, ForMqtt, Receives, Message, Answer, TaskGoes, webVars
<1>2. PICK x, q, m, k : x = Head(inbox) /\ q = Tail(inbox) /\ m = mqtt' /\ k = task'  OBVIOUS
<1>3. PICK Q, Q2 : Q = Mine(Held(inbox), "mqtt") /\ Q2 = Mine(Held(q), "mqtt")  OBVIOUS
<1>4. /\ ~Asks(x, "web") /\ ~Ends(x, "web") /\ x \in MessageType
      /\ Quiet(Q2, "mqtt") /\ Q2 \subseteq Q
      /\ \/ MqttFree(mqtt, task)
         \/ /\ MqttBusy(mqtt, Q, sess, task, gone, meant) /\ MqttAt(mqtt, task, x)
            /\ x.accepted \in BOOLEAN
            /\ x.accepted = TRUE => Own(sess, "mqtt", mqtt.up, "pending")
  BY <1>1, <1>2, <1>3, AnswerTaken
<1>5. m = mqtt  BY <1>1, <1>2
<1>6. CASE MqttFree(mqtt, task)
  <2>0. mqtt.state = "idle" /\ task = "free"  BY <1>6 DEF MqttFree
  <2>1. k = "free"  BY <1>1, <1>2, <2>0
  <2>2. MqttFree(m, k)  BY <1>5, <1>6, <2>0, <2>1
  <2>3. MqttInv(m, Q2, sess, dev, k, gone, meant)  BY <2>2 DEF MqttInv
  <2>4. \A t \in Targets, u \in Nat : \A im :
          sess.source = "mqtt" /\ MqttWrites(mqtt, task, u, t, im) => MqttWrites(m, k, u, t, im)
    BY <1>6 DEF MqttWrites, MqttFree
  <2> QED  BY <1>1, <1>2, <1>3, <1>4, <1>5, <2>1, <2>3, <2>4, MqttTakes
<1>7. CASE ~MqttFree(mqtt, task)
  <2>1. /\ MqttBusy(mqtt, Q, sess, task, gone, meant) /\ MqttAt(mqtt, task, x)
        /\ x.accepted \in BOOLEAN
        /\ x.accepted = TRUE => Own(sess, "mqtt", mqtt.up, "pending")
    BY <1>4, <1>7
  <2>2. mqtt.state = "session" /\ mqtt.pc = "idle" /\ mqtt.done = FALSE /\ mqtt.driver = None
    BY <1>1, <1>2, <2>1 DEF MqttAt
  <2>3. /\ k \in {"granted", "reset"}
        /\ k = "granted" => x.accepted = TRUE
    <3>1. x.accepted = TRUE => k = "granted"  BY <1>1, <1>2, <2>2
    <3>2. x.accepted = FALSE => k = "reset"  BY <1>1, <1>2, <2>2
    <3> QED  BY <2>1, <3>1, <3>2
  <2>4. MqttBusy(m, Q2, sess, k, gone, meant)
    BY <1>1, <1>4, <1>5, <2>1, <2>2 DEF MqttBusy, MqttOver
  <2>5. MqttAsks(m, Q2, sess, k, meant)  BY <1>4, <1>5, <2>1, <2>2, <2>3 DEF MqttAsks
  <2>6. MqttInv(m, Q2, sess, dev, k, gone, meant)  BY <2>4, <2>5 DEF MqttInv
  <2>7. \A t \in Targets, u \in Nat : \A im :
          sess.source = "mqtt" /\ MqttWrites(mqtt, task, u, t, im) => MqttWrites(m, k, u, t, im)
    BY <2>2 DEF MqttWrites
  <2> QED  BY <1>1, <1>2, <1>3, <1>4, <1>5, <2>3, <2>6, <2>7, MqttTakes
<1> QED  BY <1>6, <1>7

LEMMA DriverIsAnswered ==
  ASSUME IInv, DriverAnswered, UNCHANGED <<webVars, gone>>
  PROVE  IInv'
<1>1. /\ task = "free" /\ inbox # <<>> /\ Head(inbox).id = "DriverResponse"
      /\ Head(inbox).to = "mqtt" /\ inbox' = Tail(inbox) \o <<>>
      /\ UNCHANGED <<sess, dev, meant, web, gone>> /\ MqttType(mqtt)
      /\ \/ mqtt.state = "driver" /\ task' = "open"
            /\ mqtt' = [mqtt EXCEPT !.driver = Head(inbox).target]
         \/ mqtt.state # "driver" /\ task' = "free" /\ mqtt' = mqtt
  BY Parts DEF DriverAnswered, ForMqtt, Receives, Message, Answer, TaskGoes, webVars
<1>2. PICK x, q, m, k : x = Head(inbox) /\ q = Tail(inbox) /\ m = mqtt' /\ k = task'  OBVIOUS
<1>3. PICK Q, Q2 : Q = Mine(Held(inbox), "mqtt") /\ Q2 = Mine(Held(q), "mqtt")  OBVIOUS
<1>4. /\ ~Asks(x, "web") /\ ~Ends(x, "web") /\ x \in MessageType
      /\ Quiet(Q2, "mqtt") /\ Q2 \subseteq Q
      /\ \/ MqttFree(mqtt, task)
         \/ /\ MqttBusy(mqtt, Q, sess, task, gone, meant) /\ MqttAt(mqtt, task, x)
            /\ x.target = meant[mqtt.up] /\ Own(sess, "mqtt", mqtt.up, "active")
  BY <1>1, <1>2, <1>3, AnswerTaken
<1>5. CASE MqttFree(mqtt, task)
  <2>1. k = "free" /\ m = mqtt  BY <1>1, <1>2, <1>5 DEF MqttFree
  <2>2. MqttFree(m, k)  BY <1>1, <1>5, <2>1
  <2>3. MqttInv(m, Q2, sess, dev, k, gone, meant)  BY <2>2 DEF MqttInv
  <2>4. \A t \in Targets, u \in Nat : \A im :
          sess.source = "mqtt" /\ MqttWrites(mqtt, task, u, t, im) => MqttWrites(m, k, u, t, im)
    BY <1>5 DEF MqttWrites, MqttFree
  <2> QED  BY <1>1, <1>2, <1>3, <1>4, <2>1, <2>3, <2>4, MqttTakes
<1>6. CASE ~MqttFree(mqtt, task)
  <2>1. /\ MqttBusy(mqtt, Q, sess, task, gone, meant) /\ MqttAt(mqtt, task, x)
        /\ x.target = meant[mqtt.up] /\ Own(sess, "mqtt", mqtt.up, "active")
    BY <1>4, <1>6
  <2>2. mqtt.state = "driver" /\ mqtt.pc = "idle" /\ mqtt.done = FALSE
    BY <1>1, <1>2, <2>1 DEF MqttAt
  <2>3. k = "open" /\ m = [mqtt EXCEPT !.driver = x.target]  BY <1>1, <1>2, <2>2
  <2>4. x.target \in Targets  BY <1>1, <1>2, <1>4, Kinds
  <2>5. /\ MqttType(m) /\ m.pc = "idle" /\ m.state = "driver" /\ m.done = FALSE
        /\ m.driver = x.target /\ m.up = mqtt.up
    BY <1>1, <2>2, <2>3, <2>4 DEF MqttType
  <2>6. MqttBusy(m, Q2, sess, k, gone, meant)
    BY <1>1, <1>4, <2>1, <2>2, <2>5 DEF MqttBusy, MqttOver
  <2>7. MqttWaits(m, Q2, sess, k, meant)  BY <1>4, <2>1, <2>3, <2>5 DEF MqttWaits
  <2>8. MqttInv(m, Q2, sess, dev, k, gone, meant)  BY <2>6, <2>7 DEF MqttInv
  <2>9. \A t \in Targets, u \in Nat : \A im :
          sess.source = "mqtt" /\ MqttWrites(mqtt, task, u, t, im) => MqttWrites(m, k, u, t, im)
    BY <1>1, <2>2 DEF MqttWrites
  <2> QED  BY <1>1, <1>2, <1>3, <1>4, <2>3, <2>5, <2>8, <2>9, MqttTakes
<1> QED  BY <1>5, <1>6

LEMMA EventHasArrived ==
  ASSUME IInv, EventArrives, UNCHANGED <<webVars, gone>>
  PROVE  IInv'
<1>1. /\ task = "free" /\ inbox # <<>> /\ Head(inbox).id = "Event"
      /\ inbox' = Tail(inbox) \o <<>>
      /\ UNCHANGED <<sess, dev, meant, mqtt, web, gone>> /\ MqttType(mqtt)
      /\ \/ mqtt.state = "completing" /\ task' = "reset"
         \/ mqtt.state # "completing" /\ task' = "free"
  BY Parts DEF EventArrives, Receives, Message, Answer, TaskGoes, webVars
<1>2. PICK x, q, m, k : x = Head(inbox) /\ q = Tail(inbox) /\ m = mqtt' /\ k = task'  OBVIOUS
<1>3. ~Asks(x, "web") /\ ~Ends(x, "web") /\ ~Asks(x, "mqtt") /\ ~Ends(x, "mqtt")
  BY <1>1, <1>2 DEF Asks, Ends
<1>4. PICK Q, Q2 : Q = Mine(Held(inbox), "mqtt") /\ Q2 = Mine(Held(q), "mqtt")  OBVIOUS
<1>5. Q2 = Q
  <2>1. Takes(inbox, q, x)  BY <1>1, <1>2, Taken
  <2> QED  BY <1>3, <1>4, <2>1, MineTaken
<1>6. MqttInv(mqtt, Q, sess, dev, task, gone, meant)  BY <1>4, Parts
<1>7. MqttInv(m, Q2, sess, dev, k, gone, meant)
  <2>1. CASE mqtt.state # "completing"  BY <1>1, <1>2, <1>5, <1>6, <2>1
  <2>2. CASE mqtt.state = "completing"
    <3>1. k = "reset" /\ m = mqtt  BY <1>1, <1>2, <2>2
    <3>2. MqttBusy(mqtt, Q, sess, task, gone, meant) /\ MqttAwaits(mqtt, Q, task)
      BY <1>6, <2>2, MqttStages
    <3>3. MqttBusy(m, Q, sess, k, gone, meant)  BY <2>2, <3>1, <3>2 DEF MqttBusy, MqttOver
    <3>4. MqttAwaits(m, Q, k)  BY <3>1, <3>2 DEF MqttAwaits
    <3> QED  BY <1>5, <3>3, <3>4 DEF MqttInv
  <2> QED  BY <2>1, <2>2
<1>8. \A t \in Targets, u \in Nat : \A im :
        sess.source = "mqtt" /\ MqttWrites(mqtt, task, u, t, im) => MqttWrites(m, k, u, t, im)
  BY <1>1, <1>2 DEF MqttWrites
<1>9. k \in {"free", "granted", "asked", "open", "opened", "reset"} /\ MqttType(m)
  BY <1>1, <1>2
<1> QED  BY <1>1, <1>2, <1>3, <1>4, <1>7, <1>8, <1>9, MqttTakes

LEMMA DriverIsAskedFor ==
  ASSUME IInv, MqttAsksDriver, UNCHANGED <<webVars, gone>>
  PROVE  IInv'
<1>1. /\ task = "granted" /\ task' = "asked" /\ MqttType(mqtt)
      /\ UNCHANGED <<sess, dev, meant, mqtt, web, gone>>
      /\ inbox' = Append(inbox, RequestDriver("mqtt"))
  BY Parts DEF MqttAsksDriver, TaskGoes, Post, webVars
<1>2. PICK q, x, m, k : q = inbox' /\ x = RequestDriver("mqtt") /\ m = mqtt' /\ k = task'  OBVIOUS
<1>3. PICK Q, Q2 : Q = Mine(Held(inbox), "mqtt") /\ Q2 = Mine(Held(q), "mqtt")  OBVIOUS
<1>4. MqttInv(mqtt, Q, sess, dev, task, gone, meant)  BY <1>3, Parts
<1>5. MqttBusy(mqtt, Q, sess, task, gone, meant) /\ MqttAsks(mqtt, Q, sess, task, meant)
  BY <1>1, <1>4 DEF MqttInv, MqttFree, MqttWaits, MqttSends, MqttAwaits
<1>6. Quiet(Q, "mqtt") /\ Own(sess, "mqtt", mqtt.up, "pending")  BY <1>1, <1>5 DEF MqttAsks
<1>7. "web" \in Sources /\ "mqtt" \in Sources  BY DEF Sources
<1>8. x \in MessageType /\ x.id = "RequestDriver" /\ x.source = "mqtt"
  BY <1>2, <1>7, RequestDriverIs
<1>9. Asks(x, "mqtt") /\ q = Append(inbox, x)  BY <1>1, <1>2, <1>8 DEF Asks
<1>10. /\ q \in Seq(MessageType) /\ Held(q) = Held(inbox) \cup {x}
       /\ Kept(Mine(Held(inbox), "web"), Mine(Held(q), "web"), "web")
  BY <1>7, <1>8, <1>9, Posting
<1>11. Ordered(q) /\ Sole(Q2, "mqtt", x) /\ \A y \in Q2 : Ends(y, "mqtt") => y \in Q
  BY <1>3, <1>6, <1>7, <1>8, <1>9, PostingAsk
<1>12. Mail(Held(q), sess, dev, meant)
  <2>1. Fits(x, sess, dev, meant)  BY <1>8 DEF Fits
  <2> QED  BY <1>10, <2>1, Parts, MailMore
<1>13. k = "asked" /\ m = mqtt /\ mqtt.state = "session"  BY <1>1, <1>2, <1>5 DEF MqttAsks
<1>14. MqttInv(m, Q2, sess, dev, k, gone, meant)
  <2>1. MqttBusy(m, Q2, sess, k, gone, meant)
    BY <1>1, <1>5, <1>11, <1>13 DEF MqttBusy, MqttOver
  <2>2. MqttAsks(m, Q2, sess, k, meant)  BY <1>2, <1>5, <1>6, <1>11, <1>13 DEF MqttAsks
  <2> QED  BY <2>1, <2>2 DEF MqttInv
<1>15. Opens(dev, sess, web, m, k)
  <2>1. \A v \in Targets, n \in Nat : \A im : ~MqttWrites(mqtt, task, n, v, im)
    BY <1>13 DEF MqttWrites
  <2>2. Opens(dev, sess, web, mqtt, task) /\ sess.up \in Nat  BY Parts, SessFacts
  <2> QED  BY <2>1, <2>2 DEF Opens
<1>16. WebSpared(web, sess, dev, dev) /\ Extends(meant, meant)  BY Itself DEF WebSpared
<1>17. k \in {"free", "granted", "asked", "open", "opened", "reset"} /\ MqttType(m)
  BY <1>1, <1>13
<1> QED
  BY <1>1, <1>2, <1>3, <1>10, <1>11, <1>12, <1>14, <1>15, <1>16, <1>17, Parts, MqttMoves

LEMMA DriverWasAskedFor ==
  ASSUME IInv, MqttAsked, UNCHANGED <<webVars, gone>>
  PROVE  IInv'
<1>1. /\ task = "asked" /\ task' = "free" /\ MqttType(mqtt)
      /\ mqtt' = [mqtt EXCEPT !.state = "driver"]
      /\ UNCHANGED <<inbox, sess, dev, meant, web, gone>>
  BY Parts DEF MqttAsked, TaskGoes, webVars
<1>2. PICK Q, m, k : Q = Mine(Held(inbox), "mqtt") /\ m = mqtt' /\ k = task'  OBVIOUS
<1>3. MqttInv(mqtt, Q, sess, dev, task, gone, meant)  BY <1>2, Parts
<1>4. MqttBusy(mqtt, Q, sess, task, gone, meant) /\ MqttAsks(mqtt, Q, sess, task, meant)
  BY <1>1, <1>3 DEF MqttInv, MqttFree, MqttWaits, MqttSends, MqttAwaits
<1>5. /\ Sole(Q, "mqtt", RequestDriver("mqtt")) /\ Own(sess, "mqtt", mqtt.up, "pending")
      /\ mqtt.state = "session" /\ mqtt.pc = "idle" /\ mqtt.done = FALSE
  BY <1>1, <1>4 DEF MqttAsks
<1>6. /\ MqttType(m) /\ m.pc = "idle" /\ m.state = "driver" /\ m.done = FALSE /\ m.up = mqtt.up
  BY <1>1, <1>2, <1>5 DEF MqttType
<1>7. k = "free"  BY <1>1, <1>2
<1>8. MqttBusy(m, Q, sess, k, gone, meant)
  BY <1>1, <1>4, <1>5, <1>6, <1>7 DEF MqttBusy, MqttOver
<1>9. MqttWaits(m, Q, sess, k, meant)  BY <1>5, <1>6, <1>7 DEF MqttWaits
<1>10. MqttInv(m, Q, sess, dev, k, gone, meant)  BY <1>8, <1>9 DEF MqttInv
<1>11. \A t \in Targets, u \in Nat : \A im :
         sess.source = "mqtt" /\ MqttWrites(mqtt, task, u, t, im) => MqttWrites(m, k, u, t, im)
  BY <1>5 DEF MqttWrites
<1> QED  BY <1>1, <1>2, <1>6, <1>7, <1>10, <1>11, MqttAlone

\* The task is about to open the file.
LEMMA MqttOpensFile ==
  ASSUME IInv, task \in {"open", "opened"}
  PROVE  /\ MqttBusy(mqtt, Mine(Held(inbox), "mqtt"), sess, task, gone, meant)
         /\ mqtt.state = "driver" /\ mqtt.pc = "idle" /\ mqtt.done = FALSE
         /\ Quiet(Mine(Held(inbox), "mqtt"), "mqtt") /\ Own(sess, "mqtt", mqtt.up, "active")
         /\ mqtt.driver = meant[mqtt.up] /\ mqtt.driver = sess.target
         /\ mqtt.driver \in Targets /\ mqtt.driver # None /\ mqtt.up \in DOMAIN meant
         /\ mqtt.up \in Nat \ {0}
         /\ \A t \in Targets : dev[t].open = TRUE => t = sess.target
         /\ task = "open" => \A t \in Targets : dev[t].open = FALSE
         /\ \A x \in Mine(Held(inbox), "mqtt") : Ends(x, "mqtt") => FALSE
<1>1. PICK Q : Q = Mine(Held(inbox), "mqtt")  OBVIOUS
<1>2. MqttInv(mqtt, Q, sess, dev, task, gone, meant)  BY <1>1, Parts
<1>3. MqttBusy(mqtt, Q, sess, task, gone, meant) /\ MqttWaits(mqtt, Q, sess, task, meant)
  BY <1>2 DEF MqttInv, MqttFree, MqttAsks, MqttSends, MqttAwaits
<1>4. /\ mqtt.state = "driver" /\ mqtt.pc = "idle" /\ mqtt.done = FALSE
      /\ Quiet(Q, "mqtt") /\ Own(sess, "mqtt", mqtt.up, "active") /\ mqtt.driver = meant[mqtt.up]
  BY <1>3 DEF MqttWaits
<1>5. ~MqttOver(mqtt, task)  BY <1>4 DEF MqttOver
<1>6. /\ sess.target = meant[mqtt.up] /\ sess.target \in Targets /\ mqtt.up \in DOMAIN meant
      /\ mqtt.up \in Nat \ {0}
      /\ \A t \in Targets : dev[t].open = TRUE =>
           t = sess.target /\ MqttWrites(mqtt, task, mqtt.up, t, dev[t].image)
      /\ \A x \in Q : Ends(x, "mqtt") => FALSE
  BY <1>1, <1>3, <1>4, <1>5, MqttFile
<1>7. mqtt.driver # None  BY <1>4, <1>6, OtaAssumption
<1>8. task = "open" => \A t \in Targets : dev[t].open = FALSE
  <2>1. \A t \in Targets : dev[t].open \in BOOLEAN  BY Parts DEF File
  <2>2. task = "open" => \A t \in Targets : dev[t].open # TRUE
    BY <1>4, <1>6 DEF MqttWrites
  <2> QED  BY <2>1, <2>2
<1> QED  BY <1>1, <1>3, <1>4, <1>6, <1>7, <1>8

LEMMA MqttHasOpened ==
  ASSUME IInv, MqttOpen, UNCHANGED <<webVars, gone>>
  PROVE  IInv'
<1>1. /\ task = "open" /\ task' = "opened" /\ MqttType(mqtt) /\ dev' \in Opened(mqtt.driver)
      /\ UNCHANGED <<inbox, sess, meant, mqtt, web, gone>>
  BY Parts DEF MqttOpen, TaskGoes, webVars
<1>2. PICK Q, m, k, d : Q = Mine(Held(inbox), "mqtt") /\ m = mqtt' /\ k = task' /\ d = dev'
  OBVIOUS
<1>3. PICK t, u : t = mqtt.driver /\ u = mqtt.up  OBVIOUS
<1>4. /\ MqttBusy(mqtt, Q, sess, task, gone, meant)
      /\ mqtt.state = "driver" /\ mqtt.pc = "idle" /\ mqtt.done = FALSE
      /\ Quiet(Q, "mqtt") /\ Own(sess, "mqtt", u, "active")
      /\ t = meant[u] /\ t = sess.target /\ t \in Targets /\ u \in DOMAIN meant
      /\ \A r \in Targets : dev[r].open = FALSE
      /\ \A x \in Q : Ends(x, "mqtt") => FALSE
  BY <1>1, <1>2, <1>3, MqttOpensFile
<1>5. /\ d \in [Targets -> File] /\ \A r \in Targets : r # t => d[r] = dev[r]
      /\ d[t].open = TRUE /\ d[t].image = <<>>
  <2>1. d \in Opened(t) /\ t \in Targets /\ dev \in [Targets -> File]
    BY <1>1, <1>2, <1>3, <1>4, Parts
  <2> QED  BY ONLY <2>1, OpenedIs
<1>6. sess.state = "active" /\ sess.source = "mqtt" /\ sess.up = u  BY <1>4 DEF Own
<1>7. k = "opened" /\ m = mqtt  BY <1>1, <1>2
<1>8. Mail(Held(inbox), sess, d, meant)
  <2>1. ASSUME NEW x \in Held(inbox), x.id = "CompleteNotify", x.success = TRUE,
               x.source = sess.source, x.up = sess.up
        PROVE  FALSE
    <3>1. Ends(x, "mqtt") /\ x \in Q  BY <1>2, <1>6, <2>1 DEF Ends, Mine
    <3> QED  BY <1>4, <3>1
  <2>2. NoSuccess(Held(inbox), sess)  BY <2>1 DEF NoSuccess
  <2> QED  BY <2>2, Parts, Itself, MailFrame
<1>9. SessOK(sess, d, meant)  BY <1>6, Parts, Itself, SessFrame
<1>10. Left(d, meant)
  <2>1. t \in Targets /\ Left(dev, meant) /\ \A r \in Targets : r # t => d[r] = dev[r]
    BY <1>4, <1>5, Parts
  <2>2. \/ d[t].open = TRUE \/ d[t].image = <<>> \/ d[t] = dev[t]
        \/ \E v \in DOMAIN meant : d[t].image = Image(v, Chunks)
    BY <1>5
  <2> QED  BY ONLY <2>1, <2>2, LeftChanged
<1>11. Opens(d, sess, web, m, k)
  <2>1. MqttWrites(m, k, u, t, d[t].image)
    BY <1>3, <1>4, <1>5, <1>7, ImageEmpty DEF MqttWrites
  <2>2. \A r \in Targets : d[r].open = TRUE => r = t  BY <1>4, <1>5
  <2> QED  BY <1>4, <1>6, <2>1, <2>2 DEF Opens
<1>12. MqttInv(m, Q, sess, d, k, gone, meant)
  <2>1. MqttBusy(m, Q, sess, k, gone, meant)  BY <1>1, <1>4, <1>7 DEF MqttBusy, MqttOver
  <2>2. MqttWaits(m, Q, sess, k, meant)  BY <1>3, <1>4, <1>7 DEF MqttWaits
  <2> QED  BY <2>1, <2>2 DEF MqttInv
<1>13. WebSpared(web, sess, dev, d)  BY <1>6 DEF WebSpared
<1>14. /\ Kept(Mine(Held(inbox), "web"), Mine(Held(inbox), "web"), "web")
       /\ Extends(meant, meant)
  BY Itself
<1>15. k \in {"free", "granted", "asked", "open", "opened", "reset"} /\ MqttType(m)
  BY <1>1, <1>7
<1> QED
  BY <1>1, <1>2, <1>5, <1>8, <1>9, <1>10, <1>11, <1>12, <1>13, <1>14, <1>15, Parts, MqttMoves

LEMMA MqttCannotOpen ==
  ASSUME IInv, MqttOpenFails, UNCHANGED webVars, gone' = gone \ {"mqtt"}
  PROVE  IInv'
<1>1. /\ task = "open" /\ task' = "reset" /\ MqttType(mqtt)
      /\ UNCHANGED <<sess, dev, meant, mqtt, web>>
      /\ inbox' = Append(inbox, AbortRequest("mqtt", mqtt.up))
  BY Parts DEF MqttOpenFails, TaskGoes, Post, webVars
<1>2. PICK q, x, m, k, g : /\ q = inbox' /\ x = AbortRequest("mqtt", mqtt.up) /\ m = mqtt'
                           /\ k = task' /\ g = gone'
  OBVIOUS
<1>3. PICK Q, Q2 : Q = Mine(Held(inbox), "mqtt") /\ Q2 = Mine(Held(q), "mqtt")  OBVIOUS
<1>4. /\ MqttBusy(mqtt, Q, sess, task, gone, meant)
      /\ mqtt.state = "driver" /\ mqtt.pc = "idle" /\ mqtt.done = FALSE
      /\ Quiet(Q, "mqtt") /\ Own(sess, "mqtt", mqtt.up, "active") /\ mqtt.up \in Nat
      /\ \A r \in Targets : dev[r].open = FALSE
  BY <1>1, <1>3, MqttOpensFile
<1>5. x \in MessageType /\ x.id = "AbortRequest" /\ x.source = "mqtt" /\ x.up = mqtt.up
  <2>1. "mqtt" \in Sources  BY DEF Sources
  <2> QED  BY <1>2, <1>4, <2>1, AbortRequestIs
<1>6. Ends(x, "mqtt") /\ ~Asks(x, "mqtt") /\ x.id # "CompleteNotify" /\ q = Append(inbox, x)
  BY <1>1, <1>2, <1>5 DEF Ends, Asks
<1>7. /\ q \in Seq(MessageType) /\ Ordered(q) /\ Mail(Held(q), sess, dev, meant)
      /\ Kept(Mine(Held(inbox), "web"), Mine(Held(q), "web"), "web")
      /\ Mine(Held(q), "mqtt") = Mine(Held(inbox), "mqtt") \cup {x}
  BY <1>4, <1>5, <1>6, Itself, MqttPosts
<1>8. g \in SUBSET Sources /\ ("web" \in g <=> "web" \in gone) /\ "mqtt" \notin g
  BY <1>1, <1>2, GoneIs
<1>9. k = "reset" /\ m = mqtt  BY <1>1, <1>2
<1>10. MqttInv(m, Q2, sess, dev, k, g, meant)
  <2>1. Q2 = Q \cup {x}  BY <1>3, <1>7
  <2>2. MqttBusy(m, Q2, sess, k, g, meant)
    BY <1>4, <1>5, <1>8, <1>9, <2>1 DEF MqttBusy, MqttOver
  <2>3. MqttWaits(m, Q2, sess, k, meant)  BY <1>4, <1>6, <1>9, <2>1 DEF MqttWaits, Quiet
  <2> QED  BY <2>2, <2>3 DEF MqttInv
<1>11. Opens(dev, sess, web, m, k)  BY <1>4 DEF Opens
<1>12. WebSpared(web, sess, dev, dev) /\ Extends(meant, meant)  BY Itself DEF WebSpared
<1>13. k \in {"free", "granted", "asked", "open", "opened", "reset"} /\ MqttType(m)
  BY <1>1, <1>9
<1> QED
  BY <1>1, <1>2, <1>3, <1>7, <1>8, <1>10, <1>11, <1>12, <1>13, Parts, MqttMoves

LEMMA MqttIsActive ==
  ASSUME IInv, MqttActive, UNCHANGED <<webVars, gone>>
  PROVE  IInv'
<1>1. /\ task = "opened" /\ task' = "free" /\ MqttType(mqtt)
      /\ mqtt' = [mqtt EXCEPT !.state = "active", !.done = TRUE, !.offset = 0]
      /\ UNCHANGED <<inbox, sess, dev, meant, web, gone>>
  BY Parts DEF MqttActive, TaskGoes, webVars
<1>2. PICK Q, m, k : Q = Mine(Held(inbox), "mqtt") /\ m = mqtt' /\ k = task'  OBVIOUS
<1>3. /\ MqttBusy(mqtt, Q, sess, task, gone, meant)
      /\ mqtt.state = "driver" /\ mqtt.pc = "idle" /\ mqtt.done = FALSE
      /\ Quiet(Q, "mqtt") /\ Own(sess, "mqtt", mqtt.up, "active") /\ mqtt.driver = meant[mqtt.up]
  BY <1>1, <1>2, MqttOpensFile
<1>4. /\ MqttType(m) /\ m.pc = "idle" /\ m.state = "active" /\ m.done = TRUE /\ m.up = mqtt.up
      /\ m.driver = mqtt.driver /\ m.offset = 0
  <2>1. 0 \in 0..Chunks  BY OtaAssumption
  <2> QED  BY <1>1, <1>2, <1>3, <2>1 DEF MqttType
<1>5. k = "free"  BY <1>1, <1>2
<1>6. MqttBusy(m, Q, sess, k, gone, meant)
  BY <1>1, <1>3, <1>4, <1>5 DEF MqttBusy, MqttOver
<1>7. MqttSends(m, Q, sess, dev, k, gone, meant)  BY <1>3, <1>4, <1>5 DEF MqttSends
<1>8. MqttInv(m, Q, sess, dev, k, gone, meant)  BY <1>6, <1>7 DEF MqttInv
<1>9. \A t \in Targets, u \in Nat : \A im :
        sess.source = "mqtt" /\ MqttWrites(mqtt, task, u, t, im) => MqttWrites(m, k, u, t, im)
  BY <1>3, <1>4 DEF MqttWrites
<1> QED  BY <1>1, <1>2, <1>4, <1>5, <1>8, <1>9, MqttAlone

\* The task resets the module, which has no upload any more.
LEMMA MqttHasReset ==
  ASSUME IInv, MqttResets, UNCHANGED <<webVars, gone>>
  PROVE  IInv'
<1>1. /\ task = "reset" /\ task' = "free" /\ MqttType(mqtt)
      /\ mqtt' = [MqttReset EXCEPT !.pc = mqtt.pc]
      /\ UNCHANGED <<inbox, sess, dev, meant, web, gone>>
  BY Parts DEF MqttResets, TaskGoes, webVars
<1>2. PICK Q, m, d, q, g : /\ Q = Mine(Held(inbox), "mqtt") /\ m = mqtt' /\ d = dev'
                           /\ q = inbox' /\ g = gone'
  OBVIOUS
<1>3. MqttInv(mqtt, Q, sess, dev, task, gone, meant)  BY <1>2, Parts
<1>4. mqtt.state \in {"session", "driver", "completing"} /\ mqtt.pc = "idle"
  BY <1>1, <1>3 DEF MqttInv, MqttFree, MqttAsks, MqttWaits, MqttSends, MqttAwaits
<1>5. Idles(m)
  <2>1. m = MqttReset  BY <1>1, <1>2, <1>4 DEF MqttReset
  <2> QED  BY <2>1 DEF Idles
<1>6. Quits(dev, d, sess, web, meant)  BY <1>1, <1>2, <1>4, QuitsNothing
<1>7. /\ q \in Seq(MessageType) /\ Ordered(q) /\ Mail(Held(q), sess, d, meant)
      /\ Kept(Mine(Held(inbox), "web"), Mine(Held(q), "web"), "web")
      /\ g \in SUBSET Sources /\ ("web" \in g <=> "web" \in gone)
  BY <1>1, <1>2, Parts, Itself
<1> QED  BY <1>1, <1>2, <1>5, <1>6, <1>7, MqttIsReset

-----------------------------------------------------------------------------
(* The steps of OtaModule.                                                  *)

\* The session goes on or ends, and the sources are left what they count on.
LEMMA SessKeeps ==
  ASSUME IInv, UNCHANGED <<task, meant, web, mqtt, gone>>, NEW q, q = inbox', NEW h, h = sess',
         NEW d, d = dev', q \in Seq(MessageType), SessType(h), d \in [Targets -> File], Ordered(q),
         Mail(Held(q), h, d, meant), SessOK(h, d, meant), Opens(d, h, web, mqtt, task),
         Left(d, meant),
         Kept(Mine(Held(inbox), "web"), Mine(Held(q), "web"), "web"),
         Kept(Mine(Held(inbox), "mqtt"), Mine(Held(q), "mqtt"), "mqtt"),
         web.busy = TRUE /\ "web" \notin gone => KeepsOwn(sess, h, "web", web.up),
         MqttClaims(mqtt, Mine(Held(inbox), "mqtt"), task, gone) =>
           KeepsOwn(sess, h, "mqtt", mqtt.up),
         h.state # "idle" => sess.state # "idle" /\ h.source = sess.source /\ h.up = sess.up,
         WebSpared(web, sess, dev, d), MqttSpared(mqtt, sess, dev, d)
  PROVE  IInv'
<1>1. PICK Q, Q2, R, R2 : /\ Q = Mine(Held(inbox), "web") /\ Q2 = Mine(Held(q), "web")
                          /\ R = Mine(Held(inbox), "mqtt") /\ R2 = Mine(Held(q), "mqtt")
  OBVIOUS
<1>2. WebInv(web, Q2, h, d, gone, meant)
  <2>1. /\ WebInv(web, Q, sess, dev, gone, meant) /\ Kept(Q, Q2, "web")
        /\ web.busy = TRUE /\ "web" \notin gone => KeepsOwn(sess, h, "web", web.up)
        /\ WebSpared(web, sess, dev, d) /\ Extends(meant, meant) /\ meant \in Seq(Targets)
    BY <1>1, Parts, Itself
  <2> QED  BY ONLY <2>1, WebKeeps
<1>3. MqttInv(mqtt, R2, h, d, task, gone, meant)
  <2>1. /\ MqttInv(mqtt, R, sess, dev, task, gone, meant) /\ Kept(R, R2, "mqtt")
        /\ MqttClaims(mqtt, R, task, gone) => KeepsOwn(sess, h, "mqtt", mqtt.up)
        /\ h.state # "idle" /\ h.source = "mqtt" =>
             sess.state # "idle" /\ sess.source = "mqtt" /\ h.up = sess.up
        /\ MqttSpared(mqtt, sess, dev, d) /\ Extends(meant, meant) /\ meant \in Seq(Targets)
    BY <1>1, Parts, Itself
  <2> QED  BY ONLY <2>1, MqttKeeps
<1>4. Typed(q, h, task, d, meant, web, mqtt, gone)  BY Parts DEF Typed
<1> QED  BY <1>1, <1>2, <1>3, <1>4 DEF IInv, Good

\* An event is all that is added to the inbox.
EventIn(q, q2) ==
  /\ q2 \in Seq(MessageType) /\ Ordered(q2)
  /\ \A s : Mine(Held(q2), s) = Mine(Held(q), s)
  /\ \A h, d, mt : Mail(Held(q), h, d, mt) => Mail(Held(q2), h, d, mt)

LEMMA EventAdded ==
  ASSUME NEW q \in Seq(MessageType), Ordered(q),
         NEW e \in {"started", "aborted", "timeout", "complete"}, NEW q2, q2 = Append(q, Event(e))
  PROVE  EventIn(q, q2)
<1>1. PICK x : x = Event(e)  OBVIOUS
<1>2. x \in MessageType /\ x.id = "Event"  BY <1>1, EventIs
<1>3. Adds(q, q2, x)  BY <1>1, <1>2, Adding
<1>4. Held(q2) = Held(q) \cup {x}  BY <1>3 DEF Adds
<1>5. \A z \in Held(q) : Before(z, x)  BY <1>2, EventBefore
<1>6. q2 \in Seq(MessageType) /\ Ordered(q2)  BY <1>3, <1>5 DEF Adds
<1>7. \A s : ~Asks(x, s) /\ ~Ends(x, s)  BY <1>2 DEF Asks, Ends
<1>8. \A s : Mine(Held(q2), s) = Mine(Held(q), s)  BY <1>4, <1>7 DEF Mine
<1>9. \A h, d, mt : Fits(x, h, d, mt)  BY <1>2 DEF Fits
<1>10. \A h, d, mt : Mail(Held(q), h, d, mt) => Mail(Held(q2), h, d, mt)
  BY <1>4, <1>9 DEF Mail
<1> QED  BY <1>6, <1>8, <1>10 DEF EventIn

\* What a source said when it gave up an upload is not about one it is at.
LEMMA EndIsPast ==
  ASSUME IInv, NEW x \in Held(inbox), Ends(x, sess.source), sess.state # "idle"
  PROVE  /\ web.busy = TRUE /\ "web" \notin gone => ~(sess.source = "web" /\ sess.up = web.up)
         /\ MqttClaims(mqtt, Mine(Held(inbox), "mqtt"), task, gone) =>
              ~(sess.source = "mqtt" /\ sess.up = mqtt.up)
<1>1. sess.up \in Nat \ {0} /\ sess.up <= x.up /\ x.up \in Nat
  <2>1. x \in Mine(Held(inbox), sess.source)  BY DEF Mine
  <2>2. sess.up <= x.up /\ x.up \in DOMAIN meant  BY <2>1, EndsFit
  <2>3. x.up \in Nat /\ sess.up \in Nat \ {0}  BY <2>2, Parts, SessFacts, MeantFacts
  <2> QED  BY <2>2, <2>3
<1>2. ASSUME web.busy = TRUE, sess.source = "web", sess.up = web.up  PROVE FALSE
  <2>1. PICK Q : Q = Mine(Held(inbox), "web")  OBVIOUS
  <2>2. WebInv(web, Q, sess, dev, gone, meant)  BY <2>1, Parts
  <2>3. WebBusy(web, Q, gone, meant)  BY <1>2, <2>2 DEF WebInv, WebFree
  <2>4. x \in Q /\ Ends(x, "web")  BY <1>2, <2>1 DEF Mine
  <2> QED  BY <1>1, <1>2, <2>3, <2>4 DEF WebBusy
<1>3. ASSUME ~MqttOver(mqtt, task), sess.source = "mqtt", sess.up = mqtt.up  PROVE FALSE
  <2>1. PICK Q : Q = Mine(Held(inbox), "mqtt")  OBVIOUS
  <2>2. MqttInv(mqtt, Q, sess, dev, task, gone, meant)  BY <2>1, Parts
  <2>3. ~MqttFree(mqtt, task)  BY <1>1, <1>3 DEF MqttFree
  <2>4. MqttBusy(mqtt, Q, sess, task, gone, meant)  BY <2>2, <2>3 DEF MqttInv
  <2>5. x \in Q /\ Ends(x, "mqtt")  BY <1>3, <2>1 DEF Mine
  <2> QED  BY <1>1, <1>3, <2>4, <2>5 DEF MqttBusy
<1> QED  BY <1>2, <1>3 DEF MqttClaims

\* The session is given up, and nobody was at its upload.
LEMMA SessEnds ==
  ASSUME IInv, UNCHANGED <<task, meant, web, mqtt, gone>>, task = "free",
         sess.state \in {"pending", "active"}, sess' = NoSession, dev' \in Erased(sess.target),
         NEW p, p \in Seq(MessageType), Ordered(p), Mail(Held(p), sess, dev, meant),
         Kept(Mine(Held(inbox), "web"), Mine(Held(p), "web"), "web"),
         Kept(Mine(Held(inbox), "mqtt"), Mine(Held(p), "mqtt"), "mqtt"),
         inbox' = p \o <<Event("aborted")>>,
         web.busy = TRUE /\ "web" \notin gone => ~(sess.source = "web" /\ sess.up = web.up),
         MqttClaims(mqtt, Mine(Held(inbox), "mqtt"), task, gone) =>
           ~(sess.source = "mqtt" /\ sess.up = mqtt.up)
  PROVE  IInv'
<1>1. PICK q, h, d, t : q = inbox' /\ h = sess' /\ d = dev' /\ t = sess.target  OBVIOUS
<1>2. PICK e \in {"started", "aborted", "timeout", "complete"} : e = "aborted"  OBVIOUS
<1>3. q = Append(p, Event(e))
  <2>1. Event("aborted") \in MessageType  BY EventIs
  <2>2. p \o <<Event("aborted")>> = Append(p, Event("aborted"))  BY <2>1, Answers
  <2> QED  BY <1>1, <1>2, <2>2
<1>4. /\ q \in Seq(MessageType) /\ Ordered(q)
      /\ \A s : Mine(Held(q), s) = Mine(Held(p), s)
      /\ Mail(Held(q), sess, dev, meant)
  <2>1. p \in Seq(MessageType) /\ Ordered(p) /\ q = Append(p, Event(e))  BY <1>3
  <2>2. EventIn(p, q)  BY ONLY <2>1, EventAdded
  <2> QED  BY <2>2 DEF EventIn
<1>5. t \in Targets /\ sess.source \in Sources  BY <1>1, SessFacts
<1>6. /\ d \in [Targets -> File] /\ \A r \in Targets : r # t => d[r] = dev[r]
      /\ d[t].open = FALSE /\ (d[t].image = <<>> \/ d[t] = dev[t])
      /\ Spares(dev, d)
  <2>1. d \in Erased(t) /\ t \in Targets /\ dev \in [Targets -> File]  BY <1>1, <1>5, Parts
  <2> QED  BY ONLY <2>1, ErasedIs
<1>7. h = NoSession /\ h.state = "idle"  BY <1>1 DEF NoSession
<1>8. Mail(Held(q), h, d, meant)
  <2>1. GoesOn(sess, h) /\ Extends(meant, meant) /\ meant \in Seq(Targets)
    BY <1>7, Parts, Itself DEF GoesOn
  <2> QED  BY <1>4, <1>6, <2>1, MailFrame
<1>9. SessOK(h, d, meant) /\ SessType(h)  BY <1>7 DEF SessOK, SessType
<1>10. Opens(d, h, web, mqtt, task)
  <2>1. \A r \in Targets : dev[r].open = TRUE => r = t  BY <1>1, Parts DEF Opens
  <2>2. \A r \in Targets : d[r].open # TRUE  BY <1>6, <2>1
  <2> QED  BY <2>2 DEF Opens
<1>11. Left(d, meant)
  <2>1. t \in Targets /\ Left(dev, meant) /\ \A r \in Targets : r # t => d[r] = dev[r]
    BY <1>5, <1>6, Parts
  <2>2. \/ d[t].open = TRUE \/ d[t].image = <<>> \/ d[t] = dev[t]
        \/ \E v \in DOMAIN meant : d[t].image = Image(v, Chunks)
    BY <1>6
  <2> QED  BY ONLY <2>1, <2>2, LeftChanged
<1>12. WebSpared(web, sess, dev, d)
  <2>1. ASSUME sess.source = "web", web.pc = "append"  PROVE FALSE
    <3>1. PICK Q : Q = Mine(Held(inbox), "web")  OBVIOUS
    <3>2. WebBusy(web, Q, gone, meant) /\ WebSends(web, Q, sess, dev, gone, meant)
      BY <2>1, <3>1, Parts, WebStages
    <3>3. "web" \notin gone /\ web.busy = TRUE  BY <2>1, <3>2 DEF WebBusy
    <3>4. sess.up = web.up  BY <3>2, <3>3 DEF WebSends, Own
    <3> QED  BY <2>1, <3>3, <3>4
  <2> QED  BY <1>6, <2>1 DEF WebSpared
<1>13. MqttSpared(mqtt, sess, dev, d)
  <2>1. ASSUME sess.source = "mqtt", mqtt.pc = "append"  PROVE FALSE
    <3>1. PICK Q : Q = Mine(Held(inbox), "mqtt")  OBVIOUS
    <3>2. MqttSends(mqtt, Q, sess, dev, task, gone, meant) /\ "mqtt" \notin gone
      BY <2>1, <3>1, MqttInCall
    <3>3. sess.up = mqtt.up /\ mqtt.state = "active"  BY <2>1, <3>2 DEF MqttSends, Own
    <3>4. MqttClaims(mqtt, Q, task, gone)  BY <2>1, <3>2, <3>3 DEF MqttClaims, MqttOver
    <3> QED  BY <2>1, <3>1, <3>3, <3>4
  <2> QED  BY <1>6, <2>1 DEF MqttSpared
<1>14. /\ web.busy = TRUE /\ "web" \notin gone => KeepsOwn(sess, h, "web", web.up)
       /\ MqttClaims(mqtt, Mine(Held(inbox), "mqtt"), task, gone) =>
            KeepsOwn(sess, h, "mqtt", mqtt.up)
  BY DEF KeepsOwn, Own
<1>15. /\ Kept(Mine(Held(inbox), "web"), Mine(Held(q), "web"), "web")
       /\ Kept(Mine(Held(inbox), "mqtt"), Mine(Held(q), "mqtt"), "mqtt")
  BY <1>4
<1> QED
  BY <1>1, <1>4, <1>6, <1>7, <1>8, <1>9, <1>10, <1>11, <1>12, <1>13, <1>14, <1>15, SessKeeps

\* An end is taken off the inbox.
LEMMA EndTaken ==
  ASSUME IInv, inbox # <<>>, NEW x, x = Head(inbox), NEW q, q = Tail(inbox),
         x.id \in {"AbortRequest", "CompleteNotify"}
  PROVE  /\ q \in Seq(MessageType) /\ Ordered(q) /\ Mail(Held(q), sess, dev, meant)
         /\ x \in Held(inbox) /\ x \in MessageType /\ Ends(x, x.source) /\ q \o <<>> = q
         /\ Kept(Mine(Held(inbox), "web"), Mine(Held(q), "web"), "web")
         /\ Kept(Mine(Held(inbox), "mqtt"), Mine(Held(q), "mqtt"), "mqtt")
<1>1. /\ Takes(inbox, q, x) /\ q \in Seq(MessageType) /\ Ordered(q) /\ x \in MessageType
      /\ x \in Held(inbox) /\ Mail(Held(q), sess, dev, meant)
  BY Taken
<1>2. Ends(x, x.source) /\ ~Asks(x, "web") /\ ~Asks(x, "mqtt")  BY DEF Ends, Asks
<1>3. /\ Kept(Mine(Held(inbox), "web"), Mine(Held(q), "web"), "web")
      /\ Kept(Mine(Held(inbox), "mqtt"), Mine(Held(q), "mqtt"), "mqtt")
  BY <1>1, <1>2, MineTaken
<1> QED  BY <1>1, <1>2, <1>3

\* A message is taken, nothing else happens to the session.
LEMMA SessStays ==
  ASSUME IInv, UNCHANGED <<sess, dev, task, meant, web, mqtt, gone>>, NEW q, q = inbox',
         q \in Seq(MessageType), Ordered(q), Mail(Held(q), sess, dev, meant),
         Kept(Mine(Held(inbox), "web"), Mine(Held(q), "web"), "web"),
         Kept(Mine(Held(inbox), "mqtt"), Mine(Held(q), "mqtt"), "mqtt")
  PROVE  IInv'
<1>1. PICK h, d : h = sess' /\ d = dev'  OBVIOUS
<1>2. h = sess /\ d = dev  BY <1>1
<1>3. /\ SessType(h) /\ d \in [Targets -> File] /\ SessOK(h, d, meant)
      /\ Opens(d, h, web, mqtt, task) /\ Left(d, meant) /\ Mail(Held(q), h, d, meant)
  BY <1>2, Parts
<1>4. /\ KeepsOwn(sess, h, "web", web.up) /\ KeepsOwn(sess, h, "mqtt", mqtt.up)
      /\ WebSpared(web, sess, dev, d) /\ MqttSpared(mqtt, sess, dev, d)
  BY <1>2, Itself DEF WebSpared, MqttSpared
<1> QED  BY <1>1, <1>2, <1>3, <1>4, SessKeeps

LEMMA SessIsAborted ==
  ASSUME IInv, AbortRequested, UNCHANGED <<webVars, mqttVars, gone>>
  PROVE  IInv'
<1>1. /\ task = "free" /\ inbox # <<>> /\ Head(inbox).id = "AbortRequest"
      /\ UNCHANGED <<task, meant, web, mqtt, gone>>
  BY DEF AbortRequested, Receives, webVars, mqttVars
<1>2. PICK x, q : x = Head(inbox) /\ q = Tail(inbox)  OBVIOUS
<1>3. /\ q \in Seq(MessageType) /\ Ordered(q) /\ Mail(Held(q), sess, dev, meant)
      /\ x \in Held(inbox) /\ x \in MessageType /\ Ends(x, x.source) /\ q \o <<>> = q
      /\ Kept(Mine(Held(inbox), "web"), Mine(Held(q), "web"), "web")
      /\ Kept(Mine(Held(inbox), "mqtt"), Mine(Held(q), "mqtt"), "mqtt")
  BY <1>1, <1>2, EndTaken
<1>4. CASE Aborts
  <2>1. /\ sess.source = x.source /\ sess.state \in {"pending", "active"}
        /\ sess' = NoSession /\ dev' \in Erased(sess.target) /\ inbox' = q \o <<Event("aborted")>>
    BY <1>2, <1>4 DEF AbortRequested, Aborts, Owns, Message, Abandon
  <2>2. /\ web.busy = TRUE /\ "web" \notin gone => ~(sess.source = "web" /\ sess.up = web.up)
        /\ MqttClaims(mqtt, Mine(Held(inbox), "mqtt"), task, gone) =>
             ~(sess.source = "mqtt" /\ sess.up = mqtt.up)
    <3>1. x \in Held(inbox) /\ Ends(x, sess.source) /\ sess.state # "idle"  BY <1>3, <2>1
    <3> QED  BY ONLY IInv, <3>1, EndIsPast
  <2> QED  BY <1>1, <1>3, <2>1, <2>2, SessEnds
<1>5. CASE ~Aborts
  <2>1. inbox' = q /\ UNCHANGED <<sess, dev>>
    BY <1>2, <1>3, <1>5 DEF AbortRequested, Answer
  <2> QED  BY <1>1, <1>3, <2>1, SessStays
<1> QED  BY <1>4, <1>5

LEMMA SessIsCompleted ==
  ASSUME IInv, CompleteNotified, UNCHANGED <<webVars, mqttVars, gone>>
  PROVE  IInv'
<1>1. /\ task = "free" /\ inbox # <<>> /\ Head(inbox).id = "CompleteNotify"
      /\ UNCHANGED <<task, meant, web, mqtt, gone>>
  BY DEF CompleteNotified, Receives, webVars, mqttVars
<1>2. PICK x, q : x = Head(inbox) /\ q = Tail(inbox)  OBVIOUS
<1>3. /\ q \in Seq(MessageType) /\ Ordered(q) /\ Mail(Held(q), sess, dev, meant)
      /\ x \in Held(inbox) /\ x \in MessageType /\ Ends(x, x.source) /\ q \o <<>> = q
      /\ Kept(Mine(Held(inbox), "web"), Mine(Held(q), "web"), "web")
      /\ Kept(Mine(Held(inbox), "mqtt"), Mine(Held(q), "mqtt"), "mqtt")
  BY <1>1, <1>2, EndTaken
<1>4. x.success \in BOOLEAN  BY <1>1, <1>2, <1>3, Kinds
<1>5. CASE Completes
  <2>1. sess.source = x.source /\ sess.state = "active"
    BY <1>2, <1>5 DEF Completes, Owns, Message
  <2>2. /\ web.busy = TRUE /\ "web" \notin gone => ~(sess.source = "web" /\ sess.up = web.up)
        /\ MqttClaims(mqtt, Mine(Held(inbox), "mqtt"), task, gone) =>
             ~(sess.source = "mqtt" /\ sess.up = mqtt.up)
    <3>1. x \in Held(inbox) /\ Ends(x, sess.source) /\ sess.state # "idle"  BY <1>3, <2>1
    <3> QED  BY ONLY IInv, <3>1, EndIsPast
  <2>3. CASE x.success = FALSE
    <3>1. /\ sess' = NoSession /\ dev' \in Erased(sess.target)
          /\ inbox' = q \o <<Event("aborted")>>
      BY <1>2, <1>5, <2>3 DEF CompleteNotified, Message, Abandon
    <3> QED  BY <1>1, <1>3, <2>1, <2>2, <3>1, SessEnds
  <2>4. CASE x.success = TRUE
    <3>1. /\ sess' = [sess EXCEPT !.state = "complete"] /\ dev' = dev
          /\ inbox' = q \o <<Event("complete")>>
      BY <1>2, <1>5, <2>4 DEF CompleteNotified, Message, Answer
    <3>2. PICK p, h, d : p = inbox' /\ h = sess' /\ d = dev'  OBVIOUS
    <3>3. PICK e \in {"started", "aborted", "timeout", "complete"} : e = "complete"  OBVIOUS
    <3>4. p = Append(q, Event(e))
      <4>1. Event("complete") \in MessageType  BY EventIs
      <4>2. q \o <<Event("complete")>> = Append(q, Event("complete"))  BY <1>3, <4>1, Answers
      <4> QED  BY <3>1, <3>2, <3>3, <4>2
    <3>5. /\ p \in Seq(MessageType) /\ Ordered(p)
          /\ \A s : Mine(Held(p), s) = Mine(Held(q), s)
          /\ Mail(Held(p), sess, dev, meant)
      <4>1. q \in Seq(MessageType) /\ Ordered(q) /\ p = Append(q, Event(e))  BY <1>3, <3>4
      <4>2. EventIn(q, p)  BY ONLY <4>1, EventAdded
      <4> QED  BY <1>3, <4>2 DEF EventIn
    <3>6. /\ sess \in [state : {"pending", "active", "complete"}, source : Sources,
                       target : Targets, up : Nat \ {0}]
          /\ sess.up \in DOMAIN meant /\ sess.target = meant[sess.up] /\ sess.target \in Targets
      BY <2>1, SessFacts
    <3>7. /\ SessType(h) /\ h.state = "complete" /\ h.source = sess.source /\ h.up = sess.up
          /\ h.target = sess.target
      BY <3>1, <3>2, <3>6 DEF SessType
    <3>8. WholeAt(dev, sess.target, sess.up)
      <4>1. Fits(x, sess, dev, meant)  BY <1>3, Parts DEF Mail
      <4>2. sess.up = x.up /\ WholeAt(dev, meant[x.up], x.up)
        BY <1>1, <1>2, <2>1, <2>4, <4>1 DEF Fits
      <4> QED  BY <3>6, <4>2
    <3>9. d = dev  BY <3>1, <3>2
    <3>10. SessOK(h, d, meant)  BY <3>6, <3>7, <3>8, <3>9 DEF SessOK
    <3>11. Mail(Held(p), h, d, meant)
      <4>1. /\ GoesOn(sess, h) /\ Spares(dev, d) /\ Extends(meant, meant)
            /\ meant \in Seq(Targets)
        BY <2>1, <3>7, <3>9, Parts, Itself DEF GoesOn
      <4> QED  BY <3>5, <4>1, MailFrame
    <3>12. Opens(d, h, web, mqtt, task)
      <4>1. \A r \in Targets : dev[r].open = TRUE => r = sess.target  BY Parts DEF Opens
      <4>2. dev[sess.target].open = FALSE  BY <3>8 DEF WholeAt
      <4>3. \A r \in Targets : d[r].open # TRUE  BY <3>9, <4>1, <4>2
      <4> QED  BY <4>3 DEF Opens
    <3>13. /\ web.busy = TRUE /\ "web" \notin gone => KeepsOwn(sess, h, "web", web.up)
           /\ MqttClaims(mqtt, Mine(Held(inbox), "mqtt"), task, gone) =>
                KeepsOwn(sess, h, "mqtt", mqtt.up)
      BY <2>2 DEF KeepsOwn, Own
    <3>14. /\ WebSpared(web, sess, dev, d) /\ MqttSpared(mqtt, sess, dev, d)
           /\ Left(d, meant) /\ d \in [Targets -> File]
      BY <3>9, Parts, Itself DEF WebSpared, MqttSpared
    <3>15. /\ Kept(Mine(Held(inbox), "web"), Mine(Held(p), "web"), "web")
           /\ Kept(Mine(Held(inbox), "mqtt"), Mine(Held(p), "mqtt"), "mqtt")
      BY <1>3, <3>5
    <3>16. h.state # "idle" => sess.state # "idle" /\ h.source = sess.source /\ h.up = sess.up
      BY <2>1, <3>7
    <3> QED
      BY <1>1, <3>2, <3>5, <3>7, <3>10, <3>11, <3>12, <3>13, <3>14, <3>15, <3>16, SessKeeps
  <2> QED  BY <1>4, <2>3, <2>4
<1>6. CASE ~Completes
  <2>1. inbox' = q /\ UNCHANGED <<sess, dev>>
    BY <1>2, <1>3, <1>6 DEF CompleteNotified, Answer
  <2> QED  BY <1>1, <1>3, <2>1, SessStays
<1> QED  BY <1>5, <1>6

LEMMA SessSettles ==
  ASSUME IInv, Settle, UNCHANGED <<webVars, mqttVars, gone>>
  PROVE  IInv'
<1>1. /\ sess.state = "complete" /\ sess' = NoSession
      /\ UNCHANGED <<inbox, task, dev, meant, web, mqtt, gone>>
  BY DEF Settle, webVars, mqttVars
<1>2. PICK q, h, d : q = inbox' /\ h = sess' /\ d = dev'  OBVIOUS
<1>3. q = inbox /\ h = NoSession /\ d = dev /\ h.state = "idle"  BY <1>1, <1>2 DEF NoSession
<1>4. Mail(Held(q), h, d, meant)
  <2>1. /\ GoesOn(sess, h) /\ Spares(dev, d) /\ Extends(meant, meant) /\ meant \in Seq(Targets)
        /\ Mail(Held(q), sess, dev, meant)
    BY <1>3, Parts, Itself DEF GoesOn
  <2> QED  BY <2>1, MailFrame
<1>5. SessType(h) /\ SessOK(h, d, meant)  BY <1>3 DEF SessType, SessOK
<1>6. Opens(d, h, web, mqtt, task)
  <2>1. \A r \in Targets : d[r].open # TRUE  BY <1>1, <1>3, Parts DEF Opens
  <2> QED  BY <2>1 DEF Opens
<1>7. /\ q \in Seq(MessageType) /\ Ordered(q) /\ d \in [Targets -> File] /\ Left(d, meant)
      /\ Kept(Mine(Held(inbox), "web"), Mine(Held(q), "web"), "web")
      /\ Kept(Mine(Held(inbox), "mqtt"), Mine(Held(q), "mqtt"), "mqtt")
      /\ WebSpared(web, sess, dev, d) /\ MqttSpared(mqtt, sess, dev, d)
  BY <1>3, Parts, Itself DEF WebSpared, MqttSpared
<1>8. KeepsOwn(sess, h, "web", web.up) /\ KeepsOwn(sess, h, "mqtt", mqtt.up)
  BY <1>1 DEF KeepsOwn, Own
<1> QED  BY <1>1, <1>2, <1>3, <1>4, <1>5, <1>6, <1>7, <1>8, SessKeeps

LEMMA SessTimesOut ==
  ASSUME IInv, TimesOut, UNCHANGED <<webVars, mqttVars, gone>>,
         "silent" \notin Faults, "late" \notin Faults
  PROVE  IInv'
<1>1. /\ ~Working /\ ~Underway(sess.source) /\ task = "free"
      /\ sess.state \in {"pending", "active"} /\ UNCHANGED <<task, meant, web, mqtt, gone>>
      /\ sess' = NoSession /\ dev' \in Erased(sess.target)
      /\ inbox' = Append(inbox, Event("timeout")) \o <<Event("aborted")>>
  BY DEF TimesOut, Overdue, Watched, Abandon, webVars, mqttVars
<1>2. PICK e \in {"started", "aborted", "timeout", "complete"} : e = "timeout"  OBVIOUS
<1>3. PICK p : p = Append(inbox, Event(e))  OBVIOUS
<1>4. /\ p \in Seq(MessageType) /\ Ordered(p)
      /\ \A s : Mine(Held(p), s) = Mine(Held(inbox), s)
      /\ Mail(Held(p), sess, dev, meant)
  <2>1. inbox \in Seq(MessageType) /\ Ordered(inbox) /\ p = Append(inbox, Event(e))
    BY <1>3, Parts
  <2>2. EventIn(inbox, p)  BY ONLY <2>1, EventAdded
  <2> QED  BY <2>2, Parts DEF EventIn
<1>5. inbox' = p \o <<Event("aborted")>>  BY <1>1, <1>2, <1>3
<1>6. web.busy = TRUE /\ "web" \notin gone => ~(sess.source = "web" /\ sess.up = web.up)
  BY <1>1 DEF Working
<1>7. ASSUME MqttClaims(mqtt, Mine(Held(inbox), "mqtt"), task, gone),
             sess.source = "mqtt", sess.up = mqtt.up
      PROVE  FALSE
  <2>1. "mqtt" \in gone  BY <1>1, <1>7 DEF Working
  <2>2. Quiet(Mine(Held(inbox), "mqtt"), "mqtt")  BY <1>1, <1>7, NotUnderway
  <2> QED  BY <1>1, <1>7, <2>1, <2>2 DEF MqttClaims
<1>8. /\ Kept(Mine(Held(inbox), "web"), Mine(Held(p), "web"), "web")
      /\ Kept(Mine(Held(inbox), "mqtt"), Mine(Held(p), "mqtt"), "mqtt")
  BY <1>4, Itself
<1> QED  BY <1>1, <1>4, <1>5, <1>6, <1>7, <1>8, SessEnds

\* The answer y, and perhaps an event, is all that is added to q.
Replies(q, q2, s, y) ==
  /\ q2 \in Seq(MessageType) /\ Ordered(q2)
  /\ Sole(Mine(Held(q2), s), s, y)
  /\ \A z \in Mine(Held(q2), s) : Ends(z, s) => z \in Mine(Held(q), s)
  /\ \A r \in Sources : r # s => Mine(Held(q2), r) = Mine(Held(q), r)
  /\ \A h, d, mt : Mail(Held(q), h, d, mt) => Mail(Held(q2), h, d, mt)

LEMMA Replying ==
  ASSUME NEW q \in Seq(MessageType), Ordered(q), NEW s \in Sources, NEW y \in MessageType,
         Asks(y, s), y.id \in {"StartResponse", "DriverResponse"},
         Quiet(Mine(Held(q), s), s), NEW q2, q2 = Append(q, y)
  PROVE  Replies(q, q2, s, y)
<1>1. Adds(q, q2, y)  BY Adding
<1>2. Held(q2) = Held(q) \cup {y}  BY <1>1 DEF Adds
<1>3. \A z \in Held(q) : Before(z, y)  BY AskBefore
<1>4. q2 \in Seq(MessageType) /\ Ordered(q2)  BY <1>1, <1>3 DEF Adds
<1>5. /\ Sole(Mine(Held(q2), s), s, y)
      /\ \A z \in Mine(Held(q2), s) : Ends(z, s) => z \in Mine(Held(q), s)
  BY <1>1, AskAdded
<1>6. ASSUME NEW r \in Sources, r # s  PROVE Mine(Held(q2), r) = Mine(Held(q), r)
  <2>1. ~Asks(y, r) /\ ~Ends(y, r)  BY <1>6, AsksOnce
  <2> QED  BY <1>2, <2>1 DEF Mine
<1>7. \A h, d, mt : Fits(y, h, d, mt)  BY DEF Fits
<1>8. \A h, d, mt : Mail(Held(q), h, d, mt) => Mail(Held(q2), h, d, mt)
  BY <1>2, <1>7 DEF Mail
<1> QED  BY <1>4, <1>5, <1>6, <1>8 DEF Replies

LEMMA EventReplied ==
  ASSUME NEW q, NEW q2, NEW q3, NEW s \in Sources, NEW y, Replies(q, q2, s, y), EventIn(q2, q3)
  PROVE  Replies(q, q3, s, y)
BY DEF Replies, EventIn

\* What a request x says of the upload u of s is so.
Heard(x, s, u, h) ==
  /\ x.id = "StartRequest" => x.up = u
  /\ x.id = "RequestDriver" => Own(h, s, u, "pending")

\* What the next message x of the conversation with s says is so; q is left of the inbox.
AskedBy(x, q, s) ==
  /\ q \in Seq(MessageType) /\ Ordered(q) /\ Mail(Held(q), sess, dev, meant)
  /\ x \in MessageType /\ x.source = s /\ Fits(x, sess, dev, meant)
  /\ Quiet(Mine(Held(q), s), s) /\ Mine(Held(q), s) \subseteq Mine(Held(inbox), s)
  /\ x \in Mine(Held(inbox), s)
  /\ \A z \in Held(q) : Before(x, z)
  /\ \A r \in Sources : r # s => Mine(Held(q), r) = Mine(Held(inbox), r)
  /\ s = "web" => WebAt(web, x) /\ Heard(x, "web", web.up, sess)
  /\ s = "mqtt" /\ ~MqttFree(mqtt, task) =>
       MqttAt(mqtt, task, x) /\ Heard(x, "mqtt", mqtt.up, sess)

LEMMA Asked ==
  ASSUME IInv, task = "free", inbox # <<>>, NEW x, x = Head(inbox), NEW q, q = Tail(inbox),
         NEW s \in Sources, Asks(x, s), x.id \in {"StartRequest", "RequestDriver"}
  PROVE  AskedBy(x, q, s)
<1>1. /\ Takes(inbox, q, x) /\ q \in Seq(MessageType) /\ Ordered(q) /\ x \in MessageType
      /\ x \in Held(inbox) /\ Mail(Held(q), sess, dev, meant)
      /\ \A z \in Held(q) : Before(x, z)
  BY Taken
<1>2. x.source = s /\ Fits(x, sess, dev, meant)  BY <1>1, Parts DEF Asks, Mail
<1>3. PICK p : p = inbox  OBVIOUS
<1>4. /\ Quiet(Mine(Held(q), s), s) /\ Mine(Held(q), s) \subseteq Mine(Held(inbox), s)
      /\ x \in Mine(Held(inbox), s)
  <2>1. Takes(p, q, x) /\ Ordered(p) /\ Asks(x, s)  BY <1>1, <1>3, Parts
  <2>2. /\ Quiet(Mine(Held(q), s), s) /\ x \in Mine(Held(p), s)
        /\ Mine(Held(q), s) \subseteq Mine(Held(p), s)
    BY ONLY <2>1, AskTaken
  <2> QED  BY <1>3, <2>2
<1>5. ASSUME NEW r \in Sources, r # s  PROVE Mine(Held(q), r) = Mine(Held(inbox), r)
  <2>1. ~Asks(x, r) /\ ~Ends(x, r)  BY <1>5, AsksOnce
  <2>2. Takes(p, q, x)  BY <1>1, <1>3
  <2>3. Mine(Held(q), r) = Mine(Held(p), r)  BY ONLY <2>1, <2>2, MineTaken
  <2> QED  BY <1>3, <2>3
<1>6. ASSUME NEW r \in Sources, NEW u, Conv(x, r, u, sess, meant)
      PROVE  Heard(x, r, u, sess)
  <2>1. PICK h, mt : h = sess /\ mt = meant  OBVIOUS
  <2>2. Conv(x, r, u, h, mt)  BY <1>6, <2>1
  <2>3. /\ x.id \in {"StartRequest", "StartResponse", "RequestDriver", "DriverResponse"}
        /\ x.id = "StartRequest" => x.source = r /\ x.target = mt[u] /\ x.up = u
        /\ x.id = "StartResponse" =>
             x.to = r /\ x.accepted \in BOOLEAN /\ (x.accepted = TRUE => Own(h, r, u, "pending"))
        /\ x.id = "RequestDriver" => x.source = r /\ Own(h, r, u, "pending")
        /\ x.id = "DriverResponse" => x.to = r /\ x.target = mt[u] /\ Own(h, r, u, "active")
    <3>1. r \in Sources  BY <1>6
    <3> QED  BY ONLY <2>2, <3>1, ConvIs
  <2> QED  BY <2>1, <2>3 DEF Heard
<1>7. CASE s = "web"
  <2>1. PICK Q, u : Q = Mine(Held(inbox), "web") /\ u = web.up  OBVIOUS
  <2>2. WebInv(web, Q, sess, dev, gone, meant) /\ x \in Q /\ Asks(x, "web")
    BY <1>4, <1>7, <2>1, Parts
  <2>3. WebAt(web, x) /\ Conv(x, "web", web.up, sess, meant)  BY ONLY <2>2, WebTold
  <2>4. Heard(x, "web", u, sess)  BY <1>6, <1>7, <2>1, <2>3
  <2> QED  BY <1>1, <1>2, <1>4, <1>5, <1>7, <2>1, <2>3, <2>4 DEF AskedBy
<1>8. CASE s = "mqtt"
  <2>1. PICK Q, u : Q = Mine(Held(inbox), "mqtt") /\ u = mqtt.up  OBVIOUS
  <2>2. MqttInv(mqtt, Q, sess, dev, task, gone, meant) /\ x \in Q /\ Asks(x, "mqtt")
    BY <1>4, <1>8, <2>1, Parts
  <2>3. ASSUME ~MqttFree(mqtt, task)
        PROVE  MqttAt(mqtt, task, x) /\ Heard(x, "mqtt", u, sess)
    <3>1. MqttAt(mqtt, task, x) /\ Conv(x, "mqtt", mqtt.up, sess, meant)
      BY ONLY <2>2, <2>3, MqttTold
    <3> QED  BY <1>6, <1>8, <2>1, <3>1
  <2> QED  BY <1>1, <1>2, <1>4, <1>5, <1>8, <2>1, <2>3 DEF AskedBy
<1> QED  BY <1>7, <1>8 DEF Sources

\* The request x of s is answered with y; the session is then h.
LEMMA SessAnswers ==
  ASSUME IInv, UNCHANGED <<task, dev, meant, web, mqtt, gone>>, task = "free", inbox # <<>>,
         NEW x, x = Head(inbox), NEW q, q = Tail(inbox), NEW s \in Sources, Asks(x, s),
         x.id \in {"StartRequest", "RequestDriver"}, NEW y, NEW q2, q2 = inbox',
         Replies(q, q2, s, y), NEW h, h = sess', SessType(h), Mail(Held(q), h, dev, meant),
         SessOK(h, dev, meant), Opens(dev, h, web, mqtt, task),
         y.id = IF x.id = "StartRequest" THEN "StartResponse" ELSE "DriverResponse",
         \/ sess.state = "idle" /\ h.source = s
         \/ h.state # "idle" => sess.state # "idle" /\ h.source = sess.source /\ h.up = sess.up,
         \A r \in Sources : r # s => \A u : KeepsOwn(sess, h, r, u),
         s = "web" => Conv(y, "web", web.up, h, meant),
         s = "mqtt" /\ ~MqttFree(mqtt, task) =>
           /\ Conv(y, "mqtt", mqtt.up, h, meant)
           /\ h.state # "idle" /\ h.source = "mqtt" => h.up <= mqtt.up
  PROVE  IInv'
<1>1. /\ Mine(Held(q), s) \subseteq Mine(Held(inbox), s) /\ x \in Mine(Held(inbox), s)
      /\ \A r \in Sources : r # s => Mine(Held(q), r) = Mine(Held(inbox), r)
      /\ s = "web" => WebAt(web, x) /\ Heard(x, "web", web.up, sess)
      /\ s = "mqtt" /\ ~MqttFree(mqtt, task) =>
           MqttAt(mqtt, task, x) /\ Heard(x, "mqtt", mqtt.up, sess)
  <2>1. /\ IInv /\ task = "free" /\ inbox # <<>> /\ x = Head(inbox) /\ q = Tail(inbox)
        /\ s \in Sources /\ Asks(x, s) /\ x.id \in {"StartRequest", "RequestDriver"}
    OBVIOUS
  <2>2. AskedBy(x, q, s)  BY ONLY <2>1, Asked
  <2> QED  BY <2>2 DEF AskedBy
<1>2. PICK Q, Q2, R, R2 : /\ Q = Mine(Held(inbox), "web") /\ Q2 = Mine(Held(q2), "web")
                          /\ R = Mine(Held(inbox), "mqtt") /\ R2 = Mine(Held(q2), "mqtt")
  OBVIOUS
<1>3. /\ q2 \in Seq(MessageType) /\ Ordered(q2) /\ Sole(Mine(Held(q2), s), s, y)
      /\ \A z \in Mine(Held(q2), s) : Ends(z, s) => z \in Mine(Held(inbox), s)
      /\ \A r \in Sources : r # s => Mine(Held(q2), r) = Mine(Held(inbox), r)
      /\ Mail(Held(q2), h, dev, meant)
  BY <1>1 DEF Replies
<1>4. "web" \in Sources /\ "mqtt" \in Sources  BY DEF Sources
<1>5. WebInv(web, Q, sess, dev, gone, meant) /\ MqttInv(mqtt, R, sess, dev, task, gone, meant)
  BY <1>2, Parts
<1>6. /\ WebSpared(web, sess, dev, dev) /\ MqttSpared(mqtt, sess, dev, dev)
      /\ Extends(meant, meant) /\ Kept(Q, Q, "web") /\ Kept(R, R, "mqtt") /\ meant \in Seq(Targets)
  BY Parts, Itself DEF WebSpared, MqttSpared
<1>7. CASE s = "web"
  <2>1. WebInv(web, Q2, h, dev, gone, meant)
    <3>1. WebAt(web, y)  BY <1>1, <1>7 DEF WebAt
    <3>2. /\ WebInv(web, Q, sess, dev, gone, meant) /\ x \in Q /\ Asks(x, "web")
          /\ Sole(Q2, "web", y) /\ \A z \in Q2 : Ends(z, "web") => z \in Q
      BY <1>1, <1>2, <1>3, <1>5, <1>7
    <3>3. Conv(y, "web", web.up, h, meant)  BY <1>7
    <3> QED  BY ONLY <3>1, <3>2, <3>3, WebReply
  <2>2. MqttInv(mqtt, R2, h, dev, task, gone, meant)
    <3>1. R2 = R  BY <1>2, <1>3, <1>4, <1>7
    <3>2. KeepsOwn(sess, h, "mqtt", mqtt.up)  BY <1>4, <1>7
    <3>3. h.state # "idle" /\ h.source = "mqtt" =>
            sess.state # "idle" /\ sess.source = "mqtt" /\ h.up = sess.up
      BY <1>7
    <3>4. MqttInv(mqtt, R, h, dev, task, gone, meant)
      BY ONLY <1>5, <1>6, <3>2, <3>3, MqttKeeps
    <3> QED  BY <3>1, <3>4
  <2> QED  BY <1>2, <1>3, <2>1, <2>2, Parts DEF IInv, Good, Typed
<1>8. CASE s = "mqtt"
  <2>1. MqttInv(mqtt, R2, h, dev, task, gone, meant)
    <3>1. /\ MqttInv(mqtt, R, sess, dev, "free", gone, meant) /\ x \in R /\ Asks(x, "mqtt")
          /\ Sole(R2, "mqtt", y) /\ \A z \in R2 : Ends(z, "mqtt") => z \in R
      BY <1>1, <1>2, <1>3, <1>5, <1>8
    <3>2. ~MqttFree(mqtt, "free") =>
            /\ Conv(y, "mqtt", mqtt.up, h, meant) /\ MqttAt(mqtt, "free", y)
            /\ h.state # "idle" /\ h.source = "mqtt" => h.up <= mqtt.up
      <4>1. ASSUME ~MqttFree(mqtt, "free")
            PROVE  /\ Conv(y, "mqtt", mqtt.up, h, meant)
                   /\ h.state # "idle" /\ h.source = "mqtt" => h.up <= mqtt.up
        BY <1>8, <4>1
      <4>2. ASSUME ~MqttFree(mqtt, "free")  PROVE MqttAt(mqtt, "free", y)
        <5>1. MqttAt(mqtt, "free", x)  BY <1>1, <1>8, <4>2
        <5> QED  BY <5>1 DEF MqttAt
      <4> QED  BY <4>1, <4>2
    <3>3. MqttInv(mqtt, R2, h, dev, "free", gone, meant)  BY ONLY <3>1, <3>2, MqttReply
    <3> QED  BY <3>3
  <2>2. WebInv(web, Q2, h, dev, gone, meant)
    <3>1. Q2 = Q  BY <1>2, <1>3, <1>4, <1>8
    <3>2. web.busy = TRUE /\ "web" \notin gone => KeepsOwn(sess, h, "web", web.up)
      BY <1>4, <1>8
    <3>3. WebInv(web, Q, h, dev, gone, meant)  BY ONLY <1>5, <1>6, <3>2, WebKeeps
    <3> QED  BY <3>1, <3>3
  <2> QED  BY <1>2, <1>3, <2>1, <2>2, Parts DEF IInv, Good, Typed
<1> QED  BY <1>7, <1>8 DEF Sources

LEMMA StartIsAccepted ==
  ASSUME IInv, StartAccepted, UNCHANGED <<webVars, mqttVars, gone>>
  PROVE  IInv'
<1>1. /\ task = "free" /\ inbox # <<>> /\ Head(inbox).id = "StartRequest" /\ sess.state = "idle"
      /\ UNCHANGED <<task, dev, meant, web, mqtt, gone>>
  BY DEF StartAccepted, Receives, webVars, mqttVars
<1>2. PICK x, q, s, u : /\ x = Head(inbox) /\ q = Tail(inbox) /\ s = x.source /\ u = x.up
  OBVIOUS
<1>3. x \in MessageType /\ s \in Sources /\ x.id = "StartRequest" /\ Asks(x, s)
  <2>1. x \in MessageType  BY <1>1, <1>2, Taken
  <2> QED  BY <1>1, <1>2, <2>1, Kinds DEF Asks
<1>4. AskedBy(x, q, s)
  <2>1. /\ IInv /\ task = "free" /\ inbox # <<>> /\ x = Head(inbox) /\ q = Tail(inbox)
        /\ s \in Sources /\ Asks(x, s) /\ x.id \in {"StartRequest", "RequestDriver"}
    BY <1>1, <1>2, <1>3
  <2> QED  BY ONLY <2>1, Asked
<1>5. /\ q \in Seq(MessageType) /\ Ordered(q) /\ Mail(Held(q), sess, dev, meant)
      /\ Fits(x, sess, dev, meant) /\ Quiet(Mine(Held(q), s), s)
      /\ \A z \in Held(q) : Before(x, z)
      /\ s = "web" => Heard(x, "web", web.up, sess)
      /\ s = "mqtt" /\ ~MqttFree(mqtt, task) => Heard(x, "mqtt", mqtt.up, sess)
  BY <1>4 DEF AskedBy
<1>6. /\ u \in DOMAIN meant /\ x.target = meant[u] /\ u \in Nat \ {0} /\ x.target \in Targets
  <2>1. u \in DOMAIN meant /\ x.target = meant[u]  BY <1>2, <1>3, <1>5 DEF Fits
  <2> QED  BY <2>1, Parts, MeantFacts
<1>7. PICK y, q2, h : y = StartResponse(s, TRUE) /\ q2 = inbox' /\ h = sess'  OBVIOUS
<1>8. y \in MessageType /\ y.id = "StartResponse" /\ y.to = s /\ Asks(y, s)
  <2>1. y \in MessageType /\ y.id = "StartResponse" /\ y.to = s
    BY <1>3, <1>7, StartResponseIs
  <2> QED  BY <2>1 DEF Asks
<1>9. q2 = Append(q, y)
  <2>1. q2 = q \o <<y>>  BY <1>2, <1>7 DEF StartAccepted, Answer, Message
  <2> QED  BY <1>5, <1>8, <2>1, Answers
<1>10. Replies(q, q2, s, y)  BY <1>3, <1>5, <1>8, <1>9, Replying
<1>11. h = [state |-> "pending", source |-> s, target |-> x.target, up |-> u]
  BY <1>2, <1>7 DEF StartAccepted, Message
<1>12. /\ h.state = "pending" /\ h.source = s /\ h.target = meant[u] /\ h.up = u
       /\ SessType(h)
  BY <1>3, <1>6, <1>11 DEF SessType
<1>13. SessOK(h, dev, meant)  BY <1>6, <1>12 DEF SessOK
<1>14. Opens(dev, h, web, mqtt, task)  BY <1>1, Parts DEF Opens
<1>15. Mail(Held(q), h, dev, meant)
  <2> SUFFICES ASSUME NEW z \in Held(q)  PROVE Fits(z, h, dev, meant)  BY DEF Mail
  <2>1. Fits(z, sess, dev, meant) /\ Before(x, z)  BY <1>5 DEF Mail
  <2>2. z.id = "StartRequest" => z.source # s
    BY <1>3, <2>1 DEF Before, Asks
  <2>3. z.id \in {"AbortRequest", "CompleteNotify"} /\ z.source = s =>
          u <= z.up /\ (z.id = "CompleteNotify" => z.success = FALSE)
    BY <1>2, <1>3, <2>1 DEF Before, Ends
  <2> QED  BY <1>12, <2>1, <2>2, <2>3 DEF Fits
<1>16. \A r \in Sources : r # s => \A v : KeepsOwn(sess, h, r, v)
  BY <1>1 DEF KeepsOwn, Own
<1>17. \A v : v = u => Conv(y, s, v, h, meant)
  BY <1>7, <1>12 DEF Conv, Own
<1>18. s = "web" => Conv(y, "web", web.up, h, meant)
  <2>1. s = "web" => web.up = u  BY <1>2, <1>3, <1>5 DEF Heard
  <2> QED  BY <1>17, <2>1
<1>19. s = "mqtt" /\ ~MqttFree(mqtt, task) =>
         /\ Conv(y, "mqtt", mqtt.up, h, meant)
         /\ h.state # "idle" /\ h.source = "mqtt" => h.up <= mqtt.up
  <2>1. s = "mqtt" /\ ~MqttFree(mqtt, task) => mqtt.up = u  BY <1>2, <1>3, <1>5 DEF Heard
  <2> QED  BY <1>6, <1>12, <1>17, <2>1
<1>20. /\ UNCHANGED <<task, dev, meant, web, mqtt, gone>> /\ task = "free" /\ inbox # <<>>
       /\ x = Head(inbox) /\ q = Tail(inbox) /\ s \in Sources /\ Asks(x, s)
       /\ x.id \in {"StartRequest", "RequestDriver"} /\ q2 = inbox' /\ h = sess'
       /\ y.id = IF x.id = "StartRequest" THEN "StartResponse" ELSE "DriverResponse"
       /\ sess.state = "idle" /\ h.source = s
  BY <1>1, <1>2, <1>3, <1>7, <1>8, <1>12
<1> QED
  BY ONLY ZenonT(60), IInv, <1>10, <1>12, <1>13, <1>14, <1>15, <1>16, <1>18, <1>19, <1>20,
          SessAnswers

LEMMA StartIsRejected ==
  ASSUME IInv, StartRejected, UNCHANGED <<webVars, mqttVars, gone>>
  PROVE  IInv'
<1>1. /\ task = "free" /\ inbox # <<>> /\ Head(inbox).id = "StartRequest" /\ sess.state # "idle"
      /\ UNCHANGED <<sess, task, dev, meant, web, mqtt, gone>>
  BY DEF StartRejected, Receives, webVars, mqttVars
<1>2. PICK x, q, s : x = Head(inbox) /\ q = Tail(inbox) /\ s = x.source  OBVIOUS
<1>3. x \in MessageType /\ s \in Sources /\ x.id = "StartRequest" /\ Asks(x, s)
  <2>1. x \in MessageType  BY <1>1, <1>2, Taken
  <2> QED  BY <1>1, <1>2, <2>1, Kinds DEF Asks
<1>4. AskedBy(x, q, s)
  <2>1. /\ IInv /\ task = "free" /\ inbox # <<>> /\ x = Head(inbox) /\ q = Tail(inbox)
        /\ s \in Sources /\ Asks(x, s) /\ x.id \in {"StartRequest", "RequestDriver"}
    BY <1>1, <1>2, <1>3
  <2> QED  BY ONLY <2>1, Asked
<1>5. /\ q \in Seq(MessageType) /\ Ordered(q) /\ Mail(Held(q), sess, dev, meant)
      /\ Fits(x, sess, dev, meant) /\ Quiet(Mine(Held(q), s), s)
      /\ s = "mqtt" /\ ~MqttFree(mqtt, task) => Heard(x, "mqtt", mqtt.up, sess)
  BY <1>4 DEF AskedBy
<1>6. PICK y, q2, h : y = StartResponse(s, FALSE) /\ q2 = inbox' /\ h = sess'  OBVIOUS
<1>7. y \in MessageType /\ y.id = "StartResponse" /\ y.to = s /\ Asks(y, s)
  <2>1. y \in MessageType /\ y.id = "StartResponse" /\ y.to = s
    BY <1>3, <1>6, StartResponseIs
  <2> QED  BY <2>1 DEF Asks
<1>8. q2 = Append(q, y)
  <2>1. q2 = q \o <<y>>  BY <1>2, <1>6 DEF StartRejected, Answer, Message
  <2> QED  BY <1>5, <1>7, <2>1, Answers
<1>9. Replies(q, q2, s, y)  BY <1>3, <1>5, <1>7, <1>8, Replying
<1>10. h = sess  BY <1>1, <1>6
<1>11. /\ SessType(h) /\ SessOK(h, dev, meant) /\ Opens(dev, h, web, mqtt, task)
       /\ Mail(Held(q), h, dev, meant)
       /\ \A r \in Sources : r # s => \A u : KeepsOwn(sess, h, r, u)
       /\ h.state # "idle" => sess.state # "idle" /\ h.source = sess.source /\ h.up = sess.up
  BY <1>5, <1>10, Parts, Itself
<1>12. \A u : Conv(y, s, u, h, meant)  BY <1>6 DEF Conv
<1>13. s = "web" => Conv(y, "web", web.up, h, meant)  BY <1>12
<1>14. s = "mqtt" /\ ~MqttFree(mqtt, task) =>
         /\ Conv(y, "mqtt", mqtt.up, h, meant)
         /\ h.state # "idle" /\ h.source = "mqtt" => h.up <= mqtt.up
  <2>1. MqttInv(mqtt, Mine(Held(inbox), "mqtt"), sess, dev, task, gone, meant)  BY Parts
  <2>2. ~MqttFree(mqtt, task) => (sess.state # "idle" /\ sess.source = "mqtt" => sess.up <= mqtt.up)
    BY <2>1 DEF MqttInv, MqttBusy
  <2> QED  BY <1>10, <1>12, <2>2
<1>15. /\ UNCHANGED <<task, dev, meant, web, mqtt, gone>> /\ task = "free" /\ inbox # <<>>
       /\ x = Head(inbox) /\ q = Tail(inbox) /\ s \in Sources /\ Asks(x, s)
       /\ x.id \in {"StartRequest", "RequestDriver"} /\ q2 = inbox' /\ h = sess'
       /\ y.id = IF x.id = "StartRequest" THEN "StartResponse" ELSE "DriverResponse"
  BY <1>1, <1>2, <1>3, <1>6, <1>7
<1> QED  BY ONLY ZenonT(60), IInv, <1>9, <1>11, <1>13, <1>14, <1>15, SessAnswers

LEMMA DriverIsGranted ==
  ASSUME IInv, DriverRequested, GrantsDriver, UNCHANGED <<webVars, mqttVars, gone>>
  PROVE  IInv'
<1>1. /\ task = "free" /\ inbox # <<>> /\ Head(inbox).id = "RequestDriver"
      /\ sess.state = "pending" /\ sess' = [sess EXCEPT !.state = "active"]
      /\ UNCHANGED <<task, dev, meant, web, mqtt, gone>>
  BY DEF DriverRequested, Receives, GrantsDriver, webVars, mqttVars
<1>2. PICK x, q, s : x = Head(inbox) /\ q = Tail(inbox) /\ s = x.source  OBVIOUS
<1>3. x \in MessageType /\ s \in Sources /\ x.id = "RequestDriver" /\ Asks(x, s)
  <2>1. x \in MessageType  BY <1>1, <1>2, Taken
  <2> QED  BY <1>1, <1>2, <2>1, Kinds DEF Asks
<1>4. sess.source = s  BY <1>2 DEF GrantsDriver, Owns, Message
<1>5. AskedBy(x, q, s)
  <2>1. /\ IInv /\ task = "free" /\ inbox # <<>> /\ x = Head(inbox) /\ q = Tail(inbox)
        /\ s \in Sources /\ Asks(x, s) /\ x.id \in {"StartRequest", "RequestDriver"}
    BY <1>1, <1>2, <1>3
  <2> QED  BY ONLY <2>1, Asked
<1>6. /\ q \in Seq(MessageType) /\ Ordered(q) /\ Mail(Held(q), sess, dev, meant)
      /\ Quiet(Mine(Held(q), s), s)
      /\ s = "web" => Heard(x, "web", web.up, sess)
      /\ s = "mqtt" /\ ~MqttFree(mqtt, task) => Heard(x, "mqtt", mqtt.up, sess)
  BY <1>5 DEF AskedBy
<1>7. PICK t, y, q2, h : /\ t = sess.target /\ y = DriverResponse(s, t) /\ q2 = inbox'
                         /\ h = sess'
  OBVIOUS
<1>8. PICK e \in {"started", "aborted", "timeout", "complete"} : e = "started"  OBVIOUS
<1>9. PICK p : p = Append(q, y)  OBVIOUS
<1>10. /\ sess \in [state : {"pending", "active", "complete"}, source : Sources,
                    target : Targets, up : Nat \ {0}]
       /\ sess.up \in DOMAIN meant /\ t = meant[sess.up] /\ t \in Targets
  BY <1>1, <1>7, SessFacts
<1>11. y \in MessageType /\ y.id = "DriverResponse" /\ y.to = s /\ Asks(y, s)
  <2>1. y \in MessageType /\ y.id = "DriverResponse" /\ y.to = s
    BY <1>3, <1>7, <1>10, DriverResponseIs
  <2> QED  BY <2>1 DEF Asks
<1>12. Replies(q, p, s, y)  BY <1>3, <1>6, <1>9, <1>11, Replying
<1>13. q2 = Append(p, Event(e))
  <2>1. PICK z : z = Event(e)  OBVIOUS
  <2>2. z \in MessageType  BY <2>1, EventIs
  <2>3. q2 = q \o <<y, z>>
    BY <1>2, <1>4, <1>7, <1>8, <2>1 DEF DriverRequested, Answer
  <2>4. q2 = Append(p, z)  BY <1>6, <1>9, <1>11, <2>2, <2>3, Answers
  <2> QED  BY <2>1, <2>4
<1>14. Replies(q, q2, s, y)
  <2>1. p \in Seq(MessageType) /\ Ordered(p)  BY <1>12 DEF Replies
  <2>2. EventIn(p, q2)  BY <1>13, <2>1, EventAdded
  <2> QED  BY ONLY <1>3, <1>12, <2>2, EventReplied
<1>15. /\ h.state = "active" /\ h.source = s /\ h.target = t /\ h.up = sess.up
       /\ SessType(h)
  BY <1>1, <1>4, <1>7, <1>10 DEF SessType
<1>16. SessOK(h, dev, meant)  BY <1>10, <1>15 DEF SessOK
<1>17. Opens(dev, h, web, mqtt, task)  BY <1>1, Parts DEF Opens
<1>18. Mail(Held(q), h, dev, meant)
  <2>1. /\ GoesOn(sess, h) /\ Spares(dev, dev) /\ Extends(meant, meant)
        /\ meant \in Seq(Targets)
    BY <1>1, <1>4, <1>15, Parts, Itself DEF GoesOn
  <2> QED  BY <1>6, <2>1, MailFrame
<1>19. \A r \in Sources : r # s => \A u : KeepsOwn(sess, h, r, u)
  BY <1>4 DEF KeepsOwn, Own
<1>20. \A u : Own(sess, s, u, "pending") => u = sess.up /\ Conv(y, s, u, h, meant)
  BY <1>7, <1>10, <1>15 DEF Conv, Own
<1>21. s = "web" => Conv(y, "web", web.up, h, meant)
  <2>1. s = "web" => Own(sess, s, web.up, "pending")  BY <1>3, <1>6 DEF Heard
  <2> QED  BY <1>20, <2>1
<1>22. s = "mqtt" /\ ~MqttFree(mqtt, task) =>
         /\ Conv(y, "mqtt", mqtt.up, h, meant)
         /\ h.state # "idle" /\ h.source = "mqtt" => h.up <= mqtt.up
  <2>1. s = "mqtt" /\ ~MqttFree(mqtt, task) => Own(sess, s, mqtt.up, "pending")
    BY <1>3, <1>6 DEF Heard
  <2> QED  BY <1>10, <1>15, <1>20, <2>1
<1>23. /\ UNCHANGED <<task, dev, meant, web, mqtt, gone>> /\ task = "free" /\ inbox # <<>>
       /\ x = Head(inbox) /\ q = Tail(inbox) /\ s \in Sources /\ Asks(x, s)
       /\ x.id \in {"StartRequest", "RequestDriver"} /\ q2 = inbox' /\ h = sess'
       /\ y.id = IF x.id = "StartRequest" THEN "StartResponse" ELSE "DriverResponse"
       /\ h.state # "idle" => sess.state # "idle" /\ h.source = sess.source /\ h.up = sess.up
  BY <1>1, <1>2, <1>3, <1>4, <1>7, <1>11, <1>15
<1> QED
  BY ONLY ZenonT(60), IInv, <1>14, <1>15, <1>16, <1>17, <1>18, <1>19, <1>21, <1>22, <1>23,
          SessAnswers

\* A request that is not granted is one of a source that gave the upload up.
LEMMA DriverIsRequested ==
  ASSUME IInv, DriverRequested, UNCHANGED <<webVars, mqttVars, gone>>
  PROVE  IInv'
<1>1. CASE GrantsDriver  BY <1>1, DriverIsGranted
<1>2. CASE ~GrantsDriver
  <2>1. /\ task = "free" /\ inbox # <<>> /\ Head(inbox).id = "RequestDriver"
        /\ UNCHANGED <<sess, task, dev, meant, web, mqtt, gone>>
    BY <1>2 DEF DriverRequested, Receives, webVars, mqttVars
  <2>2. PICK x, q, s : x = Head(inbox) /\ q = Tail(inbox) /\ s = x.source  OBVIOUS
  <2>3. x \in MessageType /\ s \in Sources /\ x.id = "RequestDriver" /\ Asks(x, s)
    <3>1. x \in MessageType  BY <2>1, <2>2, Taken
    <3> QED  BY <2>1, <2>2, <3>1, Kinds DEF Asks
  <2>4. AskedBy(x, q, s)
    <3>1. /\ IInv /\ task = "free" /\ inbox # <<>> /\ x = Head(inbox) /\ q = Tail(inbox)
          /\ s \in Sources /\ Asks(x, s) /\ x.id \in {"StartRequest", "RequestDriver"}
      BY <2>1, <2>2, <2>3
    <3> QED  BY ONLY <3>1, Asked
  <2>5. /\ q \in Seq(MessageType) /\ Ordered(q) /\ Mail(Held(q), sess, dev, meant)
        /\ \A r \in Sources : r # s => Mine(Held(q), r) = Mine(Held(inbox), r)
        /\ s = "web" => Heard(x, "web", web.up, sess)
        /\ s = "mqtt" /\ ~MqttFree(mqtt, task) => Heard(x, "mqtt", mqtt.up, sess)
    BY <2>4 DEF AskedBy
  <2>6. \A u : ~Own(sess, s, u, "pending")
    BY <1>2, <2>2 DEF GrantsDriver, Owns, Message, Own
  <2>7. s = "mqtt" /\ MqttFree(mqtt, task)
    BY <2>3, <2>5, <2>6 DEF Heard, Sources
  <2>8. Mine(Held(q), "web") = Mine(Held(inbox), "web")  BY <2>5, <2>7 DEF Sources
  <2>9. inbox' = q
    <3>1. q \o <<>> = q  BY <2>5
    <3> QED  BY <1>2, <2>2, <3>1 DEF DriverRequested, Answer
  <2>10. MqttInv(mqtt, Mine(Held(q), "mqtt"), sess, dev, task, gone, meant)
    BY <2>7 DEF MqttInv
  <2>11. WebInv(web, Mine(Held(q), "web"), sess, dev, gone, meant)  BY <2>8, Parts
  <2> QED  BY <2>1, <2>5, <2>9, <2>10, <2>11, Parts DEF IInv, Good, Typed
<1> QED  BY <1>1, <1>2

-----------------------------------------------------------------------------
(* A client goes away, the device starts again.                             *)

LEMMA WebVanishes ==
  ASSUME IInv, At("idle"), web.busy, Vanishes("web")
  PROVE  IInv'
<1>1. web.pc = "idle" /\ gone' = gone \cup {"web"}
      /\ UNCHANGED <<inbox, sess, task, dev, meant, web, mqtt>>
  BY DEF At, Vanishes, sessVars, webVars, mqttVars
<1>2. PICK g, Q : g = gone' /\ Q = Mine(Held(inbox), "web")  OBVIOUS
<1>3. web.busy = TRUE  BY Parts DEF WebType
<1>4. "web" \in g /\ ("mqtt" \in g <=> "mqtt" \in gone) /\ g \in SUBSET Sources
  BY <1>1, <1>2, Parts DEF Sources
<1>5. WebInv(web, Q, sess, dev, g, meant)
  <2>1. WebBusy(web, Q, gone, meant) /\ WebSends(web, Q, sess, dev, gone, meant)
    BY <1>1, <1>2, <1>3, Parts, WebStages
  <2>2. WebBusy(web, Q, g, meant) /\ WebSends(web, Q, sess, dev, g, meant)
    BY <1>1, <1>4, <2>1 DEF WebBusy, WebSends
  <2> QED  BY <2>2 DEF WebInv
<1>6. MqttInv(mqtt, Mine(Held(inbox), "mqtt"), sess, dev, task, g, meant)
  <2>1. PICK R : R = Mine(Held(inbox), "mqtt")  OBVIOUS
  <2>2. /\ MqttInv(mqtt, R, sess, dev, task, gone, meant) /\ Kept(R, R, "mqtt")
        /\ KeepsOwn(sess, sess, "mqtt", mqtt.up) /\ MqttSpared(mqtt, sess, dev, dev)
        /\ "mqtt" \in g <=> "mqtt" \in gone
        /\ Extends(meant, meant) /\ meant \in Seq(Targets)
    BY <1>4, <2>1, Parts, Itself DEF MqttSpared
  <2>3. MqttInv(mqtt, R, sess, dev, task, g, meant)  BY ONLY <2>2, MqttKeeps
  <2> QED  BY <2>1, <2>3
<1> QED  BY <1>1, <1>2, <1>4, <1>5, <1>6, Parts DEF IInv, Good, Typed

LEMMA MqttVanishes ==
  ASSUME IInv, ThreadIdle, mqtt.state # "idle", Vanishes("mqtt")
  PROVE  IInv'
<1>1. mqtt.pc = "idle" /\ gone' = gone \cup {"mqtt"}
      /\ UNCHANGED <<inbox, sess, task, dev, meant, web, mqtt>>
  BY DEF ThreadIdle, Vanishes, sessVars, webVars, mqttVars
<1>2. PICK g, R : g = gone' /\ R = Mine(Held(inbox), "mqtt")  OBVIOUS
<1>3. "mqtt" \in g /\ ("web" \in g <=> "web" \in gone) /\ g \in SUBSET Sources
  BY <1>1, <1>2, Parts DEF Sources
<1>4. MqttInv(mqtt, R, sess, dev, task, g, meant)
  <2>1. MqttInv(mqtt, R, sess, dev, task, gone, meant) /\ ~MqttFree(mqtt, task)
    BY <1>2, Parts DEF MqttFree
  <2>2. MqttBusy(mqtt, R, sess, task, g, meant)
    BY <1>1, <2>1 DEF MqttInv, MqttBusy
  <2>3. CASE MqttSends(mqtt, R, sess, dev, task, gone, meant)
    <3>1. MqttSends(mqtt, R, sess, dev, task, g, meant)
      BY <1>1, <1>3, <2>3 DEF MqttSends
    <3> QED  BY <2>2, <3>1 DEF MqttInv
  <2>4. CASE \/ MqttAsks(mqtt, R, sess, task, meant) \/ MqttWaits(mqtt, R, sess, task, meant)
             \/ MqttAwaits(mqtt, R, task)
    BY <2>2, <2>4 DEF MqttInv
  <2> QED  BY <2>1, <2>3, <2>4 DEF MqttInv
<1>5. WebInv(web, Mine(Held(inbox), "web"), sess, dev, g, meant)
  <2>1. PICK Q : Q = Mine(Held(inbox), "web")  OBVIOUS
  <2>2. /\ WebInv(web, Q, sess, dev, gone, meant) /\ Kept(Q, Q, "web")
        /\ KeepsOwn(sess, sess, "web", web.up) /\ WebSpared(web, sess, dev, dev)
        /\ "web" \in g <=> "web" \in gone
        /\ Extends(meant, meant) /\ meant \in Seq(Targets)
    BY <1>3, <2>1, Parts, Itself DEF WebSpared
  <2>3. WebInv(web, Q, sess, dev, g, meant)  BY ONLY <2>2, WebKeeps
  <2> QED  BY <2>1, <2>3
<1> QED  BY <1>1, <1>2, <1>3, <1>4, <1>5, Parts DEF IInv, Good, Typed

\* With nothing queued and nothing in progress, all is well as long as the files are.
LEMMA AtRest ==
  ASSUME NEW q, q = <<>>, NEW h, h = NoSession, NEW k, k = "free", NEW d,
         d \in [Targets -> File], \A t \in Targets : d[t].open = FALSE, NEW mt, MeantType(mt),
         Left(d, mt), NEW w, w = NoUpload, NEW m, m = MqttReset, NEW g, g = {}
  PROVE  Good(q, h, k, d, mt, w, m, g)
<1>1. Held(q) = {} /\ q \in Seq(MessageType) /\ Ordered(q)  BY DEF Held, Ordered
<1>2. \A s : Mine(Held(q), s) = {}  BY <1>1 DEF Mine
<1>3. SessType(h) /\ h.state = "idle"  BY DEF SessType, NoSession
<1>4. WebType(w) /\ w.pc = "idle" /\ w.busy = FALSE /\ NoSems(w)
  <2>1. 0 \in 0..Chunks  BY OtaAssumption
  <2> QED  BY <2>1 DEF WebType, NoUpload, NoSems
<1>5. MqttType(m) /\ MqttFree(m, k)
  <2>1. 0 \in 0..Chunks  BY OtaAssumption
  <2> QED  BY <2>1 DEF MqttType, MqttReset, MqttFree
<1>6. Typed(q, h, k, d, mt, w, m, g)  BY <1>1, <1>3, <1>4, <1>5 DEF Typed
<1>7. Mail(Held(q), h, d, mt) /\ SessOK(h, d, mt) /\ Opens(d, h, w, m, k)
  BY <1>1, <1>3 DEF Mail, SessOK, Opens
<1>8. WebInv(w, Mine(Held(q), "web"), h, d, g, mt)
  BY <1>2, <1>4 DEF WebInv, WebFree, Quiet
<1>9. MqttInv(m, Mine(Held(q), "mqtt"), h, d, k, g, mt)  BY <1>5 DEF MqttInv
<1> QED  BY <1>1, <1>6, <1>7, <1>8, <1>9 DEF Good

LEMMA StartsWell == Init => IInv
<1> SUFFICES ASSUME Init  PROVE IInv  OBVIOUS
<1>1. /\ sess = NoSession /\ inbox = <<>> /\ task = "free" /\ dev = [t \in Targets |-> NoFile]
      /\ meant = <<>> /\ web = NoUpload /\ mqtt = MqttReset /\ gone = {}
  BY DEF Init, SessInit, WebInit, MqttInit
<1>2. /\ dev \in [Targets -> File]
      /\ \A t \in Targets : dev[t].open = FALSE /\ dev[t].image = <<>>
  BY <1>1, NoFileIs
<1>3. MeantType(meant)  BY <1>1, OtaAssumption DEF MeantType
<1>4. Left(dev, meant)  BY <1>2 DEF Left
<1> QED  BY ONLY <1>1, <1>2, <1>3, <1>4, AtRest DEF IInv

LEMMA RestartsWell ==
  ASSUME IInv, Restart
  PROVE  IInv'
<1>1. PICK q, h, k, d, mt, w, m, g : /\ q = inbox' /\ h = sess' /\ k = task' /\ d = dev'
                                     /\ mt = meant' /\ w = web' /\ m = mqtt' /\ g = gone'
  OBVIOUS
<1>2. /\ q = <<>> /\ h = NoSession /\ k = "free" /\ mt = meant /\ w = NoUpload
      /\ m = MqttReset /\ g = {}
      /\ d = [t \in Targets |-> [dev[t] EXCEPT !.open = FALSE, !.cut = @ \/ dev[t].open]]
  BY <1>1 DEF Restart, Restarts
<1>3. ASSUME NEW t \in Targets
      PROVE  /\ d[t] \in File /\ d[t].open = FALSE /\ d[t].image = dev[t].image
             /\ dev[t].open = TRUE \/ dev[t].cut = TRUE => d[t].cut = TRUE
  <2>1. PICK f : f = dev[t]  OBVIOUS
  <2>2. f \in File  BY <2>1, Parts
  <2>3. d[t] = [f EXCEPT !.open = FALSE, !.cut = f.cut \/ f.open]  BY <1>2, <2>1
  <2>4. f.cut \in BOOLEAN /\ f.open \in BOOLEAN  BY <2>2 DEF File
  <2>5. (f.cut \/ f.open) \in BOOLEAN  BY <2>4
  <2>6. d[t].open = FALSE /\ d[t].image = f.image /\ d[t].cut = (f.cut \/ f.open)
    BY <2>2, <2>3 DEF File
  <2>7. d[t] \in File  BY <2>2, <2>3, <2>5 DEF File
  <2>8. f.open = TRUE \/ f.cut = TRUE => d[t].cut = TRUE  BY <2>4, <2>6
  <2> QED  BY <2>1, <2>6, <2>7, <2>8
<1>4. d \in [Targets -> File]
  <2>1. d = [t \in Targets |-> d[t]]  BY <1>2
  <2> QED  BY <1>3, <2>1
<1>5. \A t \in Targets : d[t].open = FALSE  BY <1>3
<1>6. Left(d, mt)
  <2>1. Left(dev, mt)  BY <1>2, Parts
  <2>2. \A t \in Targets : /\ d[t].image = dev[t].image
                           /\ dev[t].open = TRUE \/ dev[t].cut = TRUE => d[t].cut = TRUE
    BY <1>3
  <2> QED  BY ONLY <2>1, <2>2 DEF Left
<1>7. MeantType(mt)  BY <1>2, Parts
<1>8. Good(q, h, k, d, mt, w, m, g)  BY ONLY <1>2, <1>4, <1>5, <1>6, <1>7, AtRest
<1> QED  BY <1>1, <1>8 DEF IInv

-----------------------------------------------------------------------------
(* The steps together.                                                      *)

\* The task gets through its inbox in time, a client that pauses is gone, and no thread
\* is half way in a handler when another gives up.
Timely == "late" \notin Faults /\ "silent" \notin Faults /\ "race" \notin Faults

LEMMA SessionKeeps ==
  ASSUME IInv, Session, UNCHANGED <<webVars, mqttVars, gone>>, Timely
  PROVE  IInv'
<1>1. CASE StartAccepted  BY <1>1, StartIsAccepted
<1>2. CASE StartRejected  BY <1>2, StartIsRejected
<1>3. CASE DriverRequested  BY <1>3, DriverIsRequested
<1>4. CASE AbortRequested  BY <1>4, SessIsAborted
<1>5. CASE CompleteNotified  BY <1>5, SessIsCompleted
<1>6. CASE Settle  BY <1>6, SessSettles
<1>7. CASE TimesOut  BY <1>7, SessTimesOut DEF Timely
<1> QED  BY <1>1, <1>2, <1>3, <1>4, <1>5, <1>6, <1>7 DEF Session, SessionStep

LEMMA WebInnerKeeps ==
  ASSUME IInv, WebAnswered \/ WebThread \/ GivesUpWaiting, UNCHANGED <<mqttVars, gone>>, Timely
  PROVE  IInv'
<1>1. CASE WebAnswered  BY <1>1, WebIsAnswered
<1>2. CASE WebTakeStart  BY <1>2, WebTakesStart
<1>3. CASE WebGranted  BY <1>3, WebIsGranted
<1>4. CASE WebRefused  BY <1>4, WebIsRefused
<1>5. CASE WebTakeDriver  BY <1>5, WebTakesDriver
<1>6. CASE WebOpen  BY <1>6, WebHasOpened
<1>7. CASE WebAppend  BY <1>7, WebAppends
<1>8. CASE WebNotify  BY <1>8, WebNotifies
<1>9. CASE GivesUpWaiting  BY <1>9, WebNeverGivesUp DEF Timely
<1> QED  BY <1>1, <1>2, <1>3, <1>4, <1>5, <1>6, <1>7, <1>8, <1>9 DEF WebThread

LEMMA MqttInnerKeeps ==
  ASSUME IInv, MqttTask \/ MqttThread \/ Reconnects, UNCHANGED <<webVars, gone>>
  PROVE  IInv'
<1>1. CASE SessionAnswered  BY <1>1, SessionIsAnswered
<1>2. CASE MqttAsksDriver  BY <1>2, DriverIsAskedFor
<1>3. CASE MqttAsked  BY <1>3, DriverWasAskedFor
<1>4. CASE DriverAnswered  BY <1>4, DriverIsAnswered
<1>5. CASE MqttOpen  BY <1>5, MqttHasOpened
<1>6. CASE MqttActive  BY <1>6, MqttIsActive
<1>7. CASE EventArrives  BY <1>7, EventHasArrived
<1>8. CASE MqttResets  BY <1>8, MqttHasReset
<1>9. CASE MqttAppend  BY <1>9, MqttAppends
<1>10. CASE MqttNotify  BY <1>10, MqttNotifies
<1>11. CASE MqttCompleting  BY <1>11, MqttCompletes
<1>12. CASE Reconnects  BY <1>12, MqttReconnects DEF Reconnects
<1> QED
  BY <1>1, <1>2, <1>3, <1>4, <1>5, <1>6, <1>7, <1>8, <1>9, <1>10, <1>11, <1>12
  DEF MqttTask, MqttThread

LEMMA WebOuterKeeps ==
  ASSUME IInv, (WebFails /\ UNCHANGED <<mqttVars, gone>>) \/ WebActs
  PROVE  IInv'
<1>1. UNCHANGED <<mqttVars, gone>>  BY DEF WebActs
<1>2. CASE WebOpenFails  BY <1>1, <1>2, WebCannotOpen
<1>3. CASE WebAppendFails  BY <1>1, <1>3, WebStops
<1>4. CASE "web" \notin gone /\ WebCloseFails  BY <1>1, <1>4, WebHasClosed
<1>5. CASE WebActs
  <2>1. "web" \notin gone  BY <1>5 DEF WebActs
  <2>2. ASSUME NEW t \in Targets, WebStart(t)  PROVE IInv'  BY <1>1, <2>2, WebStarts
  <2>3. CASE WebOutOfOrder \/ WebChunk  BY <1>1, <2>1, <2>3, WebHears
  <2>4. CASE WebChunkClosed  BY <1>1, <2>1, <2>4, WebStops
  <2>5. CASE WebClose  BY <1>1, <2>1, <2>5, WebHasClosed
  <2> QED  BY <1>5, <2>2, <2>3, <2>4, <2>5 DEF WebActs, WebClient
<1> QED  BY <1>2, <1>3, <1>4, <1>5 DEF WebFails

LEMMA MqttFailsKeeps ==
  ASSUME IInv, MqttFails, UNCHANGED webVars, gone' = gone \ {"mqtt"}, Timely
  PROVE  IInv'
<1>1. CASE MqttOpenFails  BY <1>1, MqttCannotOpen
<1>2. CASE MqttAppendFails  BY <1>2, MqttFailsToWrite
<1>3. CASE "mqtt" \notin gone /\ (MqttCorrupt \/ MqttCloseFails)  BY <1>3, MqttCannotComplete
<1>4. CASE Apart /\ MqttDisconnected  BY <1>4, MqttAborts DEF Timely
<1> QED  BY <1>1, <1>2, <1>3, <1>4 DEF MqttFails

LEMMA MqttActsKeeps ==
  ASSUME IInv, MqttActs, Timely
  PROVE  IInv'
<1>1. UNCHANGED webVars /\ gone' = gone \ {"mqtt"}  BY DEF MqttActs
<1>2. CASE mqtt.state = "idle"
  <2>1. Caught /\ \E t \in Targets : MqttStart(t)
    BY <1>2 DEF MqttActs, MqttTool, MqttChunk, MqttChunkClosed, Chunk, MqttClose,
                MqttCloseClosed, Completing
  <2>2. PICK t \in Targets : MqttStart(t)  BY <2>1
  <2> QED  BY <1>1, <2>1, <2>2, MqttStarts DEF Timely
<1>3. CASE mqtt.state # "idle"
  <2>1. "mqtt" \notin gone /\ gone' = gone  BY <1>1, <1>3 DEF MqttActs
  <2>2. ASSUME NEW n \in 0..Chunks, MqttChunk(n)  PROVE IInv'  BY <1>1, <2>1, <2>2, MqttHears
  <2>3. CASE \E n \in 0..Chunks : MqttChunkClosed(n)  BY <1>1, <2>1, <2>3, MqttFailsToWrite
  <2>4. CASE MqttClose  BY <1>1, <2>1, <2>4, MqttCloses
  <2>5. CASE MqttCloseClosed  BY <1>1, <2>1, <2>5, MqttCannotComplete
  <2>6. \A t \in Targets : ~MqttStart(t)  BY <1>3 DEF MqttStart
  <2> QED  BY <2>2, <2>3, <2>4, <2>5, <2>6 DEF MqttActs, MqttTool
<1> QED  BY <1>2, <1>3

LEMMA StepKeeps ==
  ASSUME IInv, [Next]_vars, Timely
  PROVE  IInv'
<1>1. CASE Inner  BY <1>1, SessionKeeps, WebInnerKeeps, MqttInnerKeeps DEF Inner
<1>2. CASE (WebFails /\ UNCHANGED <<mqttVars, gone>>) \/ WebActs  BY <1>2, WebOuterKeeps
<1>3. CASE MqttFails /\ UNCHANGED webVars /\ gone' = gone \ {"mqtt"}  BY <1>3, MqttFailsKeeps
<1>4. CASE MqttActs  BY <1>4, MqttActsKeeps
<1>5. CASE Abort  BY <1>5, MqttAborts DEF Abort, Timely
<1>6. CASE Vanish  BY <1>6, WebVanishes, MqttVanishes DEF Vanish
<1>7. CASE Restart  BY <1>7, RestartsWell
<1>8. CASE UNCHANGED vars
  BY <1>8 DEF vars, sessVars, webVars, mqttVars, IInv, Good, Typed
<1> QED  BY <1>1, <1>2, <1>3, <1>4, <1>5, <1>6, <1>7, <1>8 DEF Next, Outer

-----------------------------------------------------------------------------
(* What the invariant says of the properties.                               *)

\* Who writes a target has the session.
LEMMA WritersOwn ==
  ASSUME IInv, NEW t \in Targets, NEW s \in Writers(t)
  PROVE  s \in Sources /\ sess.source = s
<1>1. s \in Sources /\ s \notin gone  BY DEF Writers
<1>2. CASE s = "web"
  <2>1. web.busy = TRUE /\ web.pc \in {"idle", "append"}
    BY <1>2, Parts DEF Writers, WebType
  <2>2. PICK Q : Q = Mine(Held(inbox), "web")  OBVIOUS
  <2>3. WebSends(web, Q, sess, dev, gone, meant)  BY <2>1, <2>2, Parts, WebStages
  <2> QED  BY <1>1, <1>2, <2>3 DEF WebSends, Own
<1>3. CASE s = "mqtt"
  <2>1. mqtt.state = "active" /\ mqtt.pc \in {"idle", "append"} /\ "mqtt" \notin gone
    BY <1>1, <1>3 DEF Writers
  <2>2. Own(sess, "mqtt", mqtt.up, "active")  BY <2>1, MqttWriter
  <2> QED  BY <1>1, <1>3, <2>2 DEF Own
<1> QED  BY <1>1, <1>2, <1>3 DEF Sources

LEMMA HasOneWriter == ASSUME IInv  PROVE OneWriter
<1> SUFFICES ASSUME NEW t \in Targets  PROVE Cardinality(Writers(t)) <= 1  BY DEF OneWriter
<1>1. PICK W : W = Writers(t)  OBVIOUS
<1>2. \A s \in W : s = sess.source  BY <1>1, WritersOwn
<1>3. CASE W = {}
  <2>1. Cardinality(W) = 0  BY <1>3, FS_EmptySet
  <2> QED  BY <1>1, <2>1
<1>4. CASE W # {}
  <2>1. W = {sess.source}  BY <1>2, <1>4
  <2>2. Cardinality(W) = 1  BY <2>1, FS_Singleton
  <2> QED  BY <1>1, <2>2
<1> QED  BY <1>3, <1>4

LEMMA IsWholeWhenComplete == ASSUME IInv  PROVE CompleteIsWhole
<1> SUFFICES ASSUME sess.state = "complete"
             PROVE  /\ ~dev[sess.target].open
                    /\ \E u \in Uploads :
                         /\ meant[u] = sess.target
                         /\ dev[sess.target].image = [i \in 1..Chunks |-> <<u, i>>]
  BY DEF CompleteIsWhole
<1>1. /\ sess.up \in DOMAIN meant /\ sess.target = meant[sess.up]
      /\ WholeAt(dev, sess.target, sess.up)
  BY Parts DEF SessOK
<1> QED  BY <1>1 DEF Uploads, WholeAt, Image

LEMMA LeavesNoPart == ASSUME IInv  PROVE PartialRemoved
<1> SUFFICES ASSUME NEW t \in Targets
             PROVE  dev[t].open \/ dev[t].cut \/ dev[t].left \/ dev[t].image = <<>> \/ Whole(t)
  BY DEF PartialRemoved
<1>1. \/ dev[t].open = TRUE \/ dev[t].cut = TRUE \/ dev[t].image = <<>>
      \/ \E u \in DOMAIN meant : dev[t].image = Image(u, Chunks)
  BY Parts DEF Left
<1> QED  BY <1>1 DEF Whole, Uploads, Image

LEMMA IsGrantedWhenAccepted == ASSUME IInv  PROVE AcceptedIsGranted
<1> SUFFICES ASSUME web.pc = "driver"  PROVE sess.up = web.up
  BY DEF AcceptedIsGranted, At
<1>1. PICK Q : Q = Mine(Held(inbox), "web")  OBVIOUS
<1>2. WebWaits(web, Q, sess, meant)  BY <1>1, Parts, WebStages
<1> QED  BY <1>2 DEF WebWaits, Own

LEMMA NoneIsNull == ASSUME IInv  PROVE NeverNull
<1> SUFFICES ASSUME NullDriver  PROVE FALSE  BY DEF NeverNull
<1>1. PICK R : R = Mine(Held(inbox), "mqtt")  OBVIOUS
<1>2. MqttInv(mqtt, R, sess, dev, task, gone, meant)  BY <1>1, Parts
<1>3. ~MqttFree(mqtt, task)  BY DEF NullDriver, MqttFree
<1>4. \A u \in DOMAIN meant : meant[u] # None  BY Parts, MeantFacts
<1>5. mqtt.up \in DOMAIN meant  BY <1>2, <1>3 DEF MqttInv, MqttBusy
<1>6. MqttWaits(mqtt, R, sess, task, meant) \/ MqttSends(mqtt, R, sess, dev, task, gone, meant)
  BY <1>2, <1>3 DEF MqttInv, MqttAsks, MqttAwaits, NullDriver
<1>7. mqtt.driver = meant[mqtt.up]
  BY <1>6 DEF MqttWaits, MqttSends, NullDriver
<1> QED  BY <1>4, <1>5, <1>7 DEF NullDriver

LEMMA IsTyped == ASSUME IInv  PROVE TypeOK
<1>1. /\ inbox \in Seq(MessageType) /\ SessType(sess) /\ dev \in [Targets -> File]
      /\ task \in {"free", "granted", "asked", "open", "opened", "reset"}
      /\ MeantType(meant) /\ WebType(web) /\ MqttType(mqtt) /\ gone \in SUBSET Sources
  BY Parts
<1> QED  BY <1>1 DEF TypeOK, SessType, File, MeantType, WebType, MqttType

EndsOwn == (AbortRequested \/ CompleteNotified) /\ sess' # sess
             => Message.up \notin 1..(sess.up - 1)

LEMMA EndIsOwn == ASSUME IInv  PROVE [EndsOwn]_vars
<1> SUFFICES ASSUME AbortRequested \/ CompleteNotified, sess' # sess
             PROVE  Message.up \notin 1..(sess.up - 1)
  BY DEF EndsOwn
<1>1. PICK x : x = Head(inbox)  OBVIOUS
<1>2. inbox # <<>> /\ x.id \in {"AbortRequest", "CompleteNotify"}
  BY <1>1 DEF AbortRequested, CompleteNotified, Receives
<1>3. sess.source = x.source /\ sess.state # "idle"
  BY <1>1 DEF AbortRequested, CompleteNotified, Aborts, Completes, Owns, Message
<1>4. x \in Held(inbox)  BY <1>1, <1>2, Taken
<1>5. Ends(x, sess.source)  BY <1>2, <1>3 DEF Ends
<1>6. x \in Mine(Held(inbox), sess.source)  BY <1>4, <1>5 DEF Mine
<1>7. x.up \in DOMAIN meant /\ sess.up <= x.up  BY <1>3, <1>5, <1>6, EndsFit
<1>8. x.up \in Nat /\ sess.up \in Nat  BY <1>7, Parts, MeantFacts, SessFacts
<1>9. x.up \notin 1..(sess.up - 1)  BY ONLY <1>7, <1>8
<1> QED  BY <1>1, <1>9 DEF Message

-----------------------------------------------------------------------------
(* The theorems.  Each is about every set of targets, every number of chunks *)
(* and of uploads, and every set of faults but the three that Timely names.  *)

\* The inductive invariant: who is where in its upload, what is queued between it and
\* OtaModule, and what has been written to the target.
THEOREM UploadsInStep == ASSUME Timely  PROVE Spec => []IInv
<1>1. Init => IInv  BY StartsWell
<1>2. IInv /\ [Next]_vars => IInv'  BY StepKeeps
<1> QED  BY <1>1, <1>2, PTL DEF Spec

\* Every variable keeps its type: what handlers read of messages and sessions is there.
THEOREM UpdateTypeOK == ASSUME Timely  PROVE Spec => []TypeOK
<1>1. IInv => TypeOK  BY IsTyped
<1> QED  BY <1>1, UploadsInStep, PTL

\* What OtaModule announces as written and committed is one whole image meant for its
\* target, although chunks, aborts, ends and restarts of two sources interleave; ahead of it
\* there may only be what a delete that failed left.
THEOREM UpdateCompleteIsWhole == ASSUME Timely  PROVE Spec => []CompleteIsWhole
<1>1. IInv => CompleteIsWhole  BY IsWholeWhenComplete
<1> QED  BY <1>1, UploadsInStep, PTL

\* A file that nobody writes is absent or whole, unless a restart cut it or a delete of it
\* failed: every way out of an upload erases what it wrote, and none erases or reopens what a later upload writes.
THEOREM UpdatePartialRemoved == ASSUME Timely  PROVE Spec => []PartialRemoved
<1>1. IInv => PartialRemoved  BY LeavesNoPart
<1> QED  BY <1>1, UploadsInStep, PTL

\* No two sources write one target, although each keeps the driver it was given and writes
\* without asking OtaModule again.
THEOREM UpdateOneWriter == ASSUME Timely  PROVE Spec => []OneWriter
<1>1. IInv => OneWriter  BY HasOneWriter
<1> QED  BY <1>1, UploadsInStep, PTL

\* An upload of the web server that goes on as accepted is the one the session is for: the
\* answer it took from the semaphore is not that to an earlier request.
THEOREM UpdateAcceptedIsGranted == ASSUME Timely  PROVE Spec => []AcceptedIsGranted
<1>1. IInv => AcceptedIsGranted  BY IsGrantedWhenAccepted
<1> QED  BY <1>1, UploadsInStep, PTL

\* The shared task never calls through a driver that the MQTT thread cleared, as long as no
\* abort or lost connection comes in the middle of a handler.
THEOREM UpdateNeverNull == ASSUME Timely  PROVE Spec => []NeverNull
<1>1. IInv => NeverNull  BY NoneIsNull
<1> QED  BY <1>1, UploadsInStep, PTL

\* An abort or a completion that ends a session is not of an earlier upload of its source.
THEOREM UpdateEndsItsOwn == ASSUME Timely  PROVE Spec => EndsItsOwn
<1>1. IInv /\ [Next]_vars => [EndsOwn]_vars  BY EndIsOwn
<1> QED  BY <1>1, UploadsInStep, PTL DEF Spec, EndsItsOwn, EndsOwn

=============================================================================
