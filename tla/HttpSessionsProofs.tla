------------------------- MODULE HttpSessionsProofs -------------------------
(***************************************************************************)
(* The properties of HttpSessions, for every number of slots, targets,     *)
(* images, chunks and nozzles, while no task falls behind the timers.      *)
(*                                                                         *)
(* The inductive invariant says, of each of the two clients of the HTTP    *)
(* module, at which stage of its conversation it is (PrintTalk, OtaTalk):  *)
(* a stage fixes what the client keeps, what the module keeps of its       *)
(* session, what is queued between them and in which order.  It says which *)
(* message of the session manager is on its way to the web OTA client or   *)
(* back (SessTalk: one at most), and that what a target has been given is a *)
(* prefix of one upload's image, behind what a delete that failed may have  *)
(* left (DevTalk).                                                         *)
(*                                                                         *)
(* The predicates take the parts of the state as arguments, so that a step *)
(* of one component is a fact about the old and the new value of its part. *)
(***************************************************************************)
EXTENDS HttpSessions, WellFoundedInduction, TLAPS

-----------------------------------------------------------------------------
(* What is said of an inbox q, the session h and the mail m of a client c. *)

PrintJobs == [kind : Buttons, nozzle : Nozzles, sale : Nat]
OtaJobs   == [kind : {"check", "image"}, slot : DOMAIN Slots]

\* A queue is a sequence of whatever.
IsQueue(q) == \E S : q \in Seq(S)

\* Nothing of the client is queued; no request for a session is.
Silent(c, q)  == \A k \in DOMAIN q : q[k].from # c
NoStart(c, q) == \A k \in DOMAIN q : q[k].from = c => q[k].id # "Start"

\* The part p of the request for job j; the sink is the driver of target t, for upload u.
PartOf(c, p, j, t, u) == IF p = "sink" THEN Sink(c, t, u, j) ELSE Part(c, p, j)

\* After place lo the queue holds of the client the parts that are not yet among these,
\* perhaps others again, and the message that sends the request, last.
BurstLeft(c, q, lo, parts, j, t, u) ==
  \E e \in DOMAIN q :
    /\ lo < e /\ q[e] = Send(c)
    /\ \A k \in DOMAIN q : lo < k /\ q[k].from = c =>
         k = e \/ (k < e /\ \E p \in Needs(j) : q[k] = PartOf(c, p, j, t, u))
    /\ \A p \in Needs(j) : \/ [part |-> p, job |-> j] \in parts
                           \/ \E k \in DOMAIN q : lo < k /\ k < e /\ q[k] = PartOf(c, p, j, t, u)

PartsOf(parts, j) == \A x \in parts : \E p \in Needs(j) : x = [part |-> p, job |-> j]

\* The session was opened by the client for the job, and nothing is set.
Fresh(h, c, j) == h.state = "open" /\ h.owner = c /\ h.job = j /\ h.parts = {} /\ h.sink = NoSink

\* Some of the parts are set.
Partly(h, c, j, t, u) ==
  /\ h.state = "open" /\ h.owner = c /\ h.job = j /\ PartsOf(h.parts, j)
  /\ h.sink = IF [part |-> "sink", job |-> j] \in h.parts
              THEN [NoSink EXCEPT !.target = t, !.up = u] ELSE NoSink

\* The request is executed, whole.
Posted(h, c, j, t, u) ==
  /\ h.state = "executing" /\ h.owner = c /\ h.job = j
  /\ PartsOf(h.parts, j) /\ \A p \in Needs(j) : [part |-> p, job |-> j] \in h.parts
  /\ IF j.kind = "image" THEN h.sink.target = t /\ h.sink.up = u ELSE h.sink = NoSink

IsResult(x, j) ==
  /\ x.id = "Result" /\ x.job = j /\ x.ok \in BOOLEAN /\ x.body \in BOOLEAN
  /\ j.kind = "image" => ~x.body

-----------------------------------------------------------------------------
(* The conversation of the printing module: a is its job, s says whether    *)
(* it has the rest of a request still to send.  No answer reaches it.       *)

PrintRests(q, h, a, s) == a = None /\ ~s /\ h.owner # "print" /\ NoStart("print", q)

PrintAsks(q, h, a, s) ==
  /\ a # None /\ h.owner # "print"
  /\ \E k \in DOMAIN q :
       /\ q[k] = Start("print", a)
       /\ \A i \in DOMAIN q : q[i].from = "print" /\ q[i].id = "Start" => i = k
       /\ s => \A i \in DOMAIN q : k < i => q[i].from # "print"
       /\ ~s => BurstLeft("print", q, k, {}, a, None, 0)

PrintOpened(q, h, a, s) == a # None /\ s /\ Fresh(h, "print", a) /\ Silent("print", q)

PrintSets(q, h, a, s) ==
  /\ a # None /\ ~s /\ Partly(h, "print", a, None, 0)
  /\ BurstLeft("print", q, 0, h.parts, a, None, 0)

PrintPosts(q, h, a, s) ==
  a # None /\ ~s /\ Posted(h, "print", a, None, 0) /\ Silent("print", q)

\* The session was refused, or the request is over.
PrintEnds(q, h, a, s) == a # None /\ h.owner # "print" /\ NoStart("print", q)

PrintTalk(q, h, a, s) ==
  \/ PrintRests(q, h, a, s) \/ PrintAsks(q, h, a, s) \/ PrintOpened(q, h, a, s)
  \/ PrintSets(q, h, a, s) \/ PrintPosts(q, h, a, s) \/ PrintEnds(q, h, a, s)

-----------------------------------------------------------------------------
(* The conversation of the web OTA client, which may have forgotten it.     *)

\* The result of a download that was forgotten.
Stale(x) == x.id = "Result" /\ ~x.body

Streams(h) ==
  \E j \in OtaJobs, t \in Targets, u \in Nat : j.kind = "image" /\ Posted(h, "ota", j, t, u)

OtaQuiet(q, h, m) == Silent("ota", q) /\ h.owner # "ota" /\ m = <<>>

OtaAsks(q, h, m, j, stale) ==
  /\ \E k \in DOMAIN q : /\ q[k] = Start("ota", j)
                         /\ \A i \in DOMAIN q : q[i].from = "ota" => i = k
  /\ \/ h.owner # "ota" /\ m = <<>>
     \/ stale /\ h.owner # "ota" /\ Len(m) = 1 /\ Stale(m[1])
     \/ stale /\ Streams(h) /\ m = <<>>

Ends(m, ok, stale) ==
  \/ Len(m) = 1 /\ m[1] = Opening(ok)
  \/ stale /\ Len(m) = 2 /\ Stale(m[1]) /\ m[2] = Opening(ok)

OtaOpened(q, h, m, j, stale) == Silent("ota", q) /\ Fresh(h, "ota", j) /\ Ends(m, TRUE, stale)

OtaRefused(q, h, m, stale) == Silent("ota", q) /\ h.owner # "ota" /\ Ends(m, FALSE, stale)

OtaSets(q, h, m, j, t, u) ==
  Partly(h, "ota", j, t, u) /\ BurstLeft("ota", q, 0, h.parts, j, t, u) /\ m = <<>>

OtaExecutes(q, h, m, j, t, u) == Silent("ota", q) /\ Posted(h, "ota", j, t, u) /\ m = <<>>

OtaKnows(q, h, m, j) ==
  Silent("ota", q) /\ h.owner # "ota" /\ Len(m) = 1 /\ IsResult(m[1], j)

OtaLeaves(q, h, m, j) == Silent("ota", q) /\ Fresh(h, "ota", j) /\ m = <<>>

Starting(q, h, m, j, stale) ==
  OtaAsks(q, h, m, j, stale) \/ OtaOpened(q, h, m, j, stale) \/ OtaRefused(q, h, m, stale)

Sending(q, h, m, j, t, u) ==
  OtaSets(q, h, m, j, t, u) \/ OtaExecutes(q, h, m, j, t, u) \/ OtaKnows(q, h, m, j)

OtaTalk(q, h, m, o) ==
  \/ /\ o.state = "idle" /\ o.phase = "idle"
     /\ \/ OtaQuiet(q, h, m)
        \/ \E j \in OtaJobs, t \in Targets, u \in Nat :
             Starting(q, h, m, j, TRUE) \/ Sending(q, h, m, j, t, u) \/ OtaLeaves(q, h, m, j)
  \/ o.state = "check" /\ o.phase = "starting" /\ Starting(q, h, m, CheckJob(o.slot), TRUE)
  \/ o.state = "check" /\ o.phase = "executing" /\ Sending(q, h, m, CheckJob(o.slot), None, 0)
  \/ o.state \in {"session", "driver"} /\ OtaQuiet(q, h, m)
  \/ o.state = "download" /\ o.phase = "starting" /\ Starting(q, h, m, ImageJob(o.slot), FALSE)
  \/ o.state = "download" /\ o.phase = "executing"
     /\ o.driver \in Targets /\ Sending(q, h, m, ImageJob(o.slot), o.driver, o.up)

-----------------------------------------------------------------------------
(* The HTTP module and its timer.                                           *)

HttpTypes(h) ==
  /\ h = [state |-> h.state, owner |-> h.owner, job |-> h.job, parts |-> h.parts, sink |-> h.sink]
  /\ h.sink \in [target : Targets \cup {None}, up : Nat, next : 0..Chunks,
                 opened : BOOLEAN, error : BOOLEAN]
  /\ h.sink.next # 0 => h.sink.opened
  /\ h.state \in {"idle", "open", "executing"}
  /\ h.owner \in {"ota", "print", None} /\ (h.state = "idle" <=> h.owner = None)

\* The timer gives up only a session that the web OTA client has left.
TimerTalk(q, h, m, tm) ==
  /\ tm \in [armed : BOOLEAN, expired : BOOLEAN]
  /\ tm.armed => h.state = "open"
  /\ h.state = "open" => tm.armed \/ \E k \in DOMAIN q : q[k] = WakeUp
  /\ \A k \in DOMAIN q : q[k].id = "Wake" =>
       /\ q[k] = WakeUp /\ ~tm.armed /\ tm.expired
       /\ h.state = "open" /\ h.owner = "ota" /\ Silent("ota", q) /\ m = <<>>
       /\ \A i \in DOMAIN q : q[i].id = "Wake" => i = k

-----------------------------------------------------------------------------
(* The session of OtaModule: s, its inbox i, the web OTA client o and the   *)
(* targets mt the uploads were meant for.                                   *)

Links == {"StartRequest", "RequestDriver", "CompleteNotify", "StartResponse", "DriverResponse"}

Clear(i) == \A k \in DOMAIN i : i[k].id \notin Links

WholeAt(d, t, u) == ~d[t].open /\ d[t].image = [k \in 1..Chunks |-> <<u, k>>]

InState(s, state, mt) == s = [state |-> state, source |-> "ota", target |-> mt[Len(mt)], up |-> Len(mt)]

Link(m, s, o, mt, d) ==
  \/ m = StartRequest("ota", mt[Len(mt)], Len(mt)) /\ o.state \in {"session", "idle"}
  \/ m = StartResponse("ota", FALSE) /\ o.state \in {"session", "idle"}
  \/ m = StartResponse("ota", TRUE) /\ o.state \in {"session", "idle"} /\ InState(s, "pending", mt)
  \/ m = RequestDriver("ota") /\ o.state \in {"driver", "idle"} /\ InState(s, "pending", mt)
  \/ /\ m = DriverResponse("ota", mt[Len(mt)]) /\ o.state \in {"driver", "idle"}
     /\ InState(s, "active", mt)
  \/ /\ m = Notify("ota", FALSE, o.up) /\ o.state = "idle" /\ InState(s, "active", mt)
  \/ /\ m = Notify("ota", TRUE, o.up) /\ o.state = "idle" /\ InState(s, "active", mt)
     /\ WholeAt(d, mt[Len(mt)], Len(mt))

SessTalk(i, s, o, mt, d) ==
  \/ /\ Clear(i) /\ o.state \in {"idle", "check", "download"}
     /\ o.state = "download" => InState(s, "active", mt) /\ o.driver = mt[Len(mt)] /\ mt # <<>>
  \/ /\ mt # <<>>
     /\ \E k \in DOMAIN i : /\ \A l \in DOMAIN i : i[l].id \in Links => l = k
                            /\ i[k].id \in Links /\ Link(i[k], s, o, mt, d)

OtaTypes(o, mt) ==
  /\ o = [state |-> o.state, phase |-> o.phase, slot |-> o.slot, next |-> o.next, up |-> o.up,
          found |-> o.found, driver |-> o.driver]
  /\ o.slot \in DOMAIN Slots /\ o.next \in DOMAIN Slots
  /\ mt \in Seq(Targets) /\ o.up = Len(mt)
  /\ o.state \in {"session", "driver", "download"} => o.found = CheckJob(o.slot)

\* An image is being asked for, or written.
ImageAt(q, h) ==
  \/ \E k \in DOMAIN q : q[k].from = "ota" /\ q[k].id = "Start" /\ q[k].job.kind = "image"
  \/ h.owner = "ota" /\ h.job.kind = "image"

ImageTalk(q, h, i, s) == ImageAt(q, h) => Clear(i) /\ s.state \in {"idle", "active"}

\* What is written is a part of the image; what is whole is kept.
DevTalk(h, m, s, o, mt, d) ==
  /\ h.sink.target # None /\ h.sink.opened /\ d[h.sink.target].open =>
       d[h.sink.target].image = [k \in 1..h.sink.next |-> <<h.sink.up, k>>]
  /\ o.state = "download" /\ m # <<>> /\ m[Len(m)].id = "Result" /\ m[Len(m)].ok =>
       WholeAt(d, o.driver, o.up)
  /\ s.state # "idle" => s.source = "ota" /\ s.up \in DOMAIN mt /\ s.target = mt[s.up]
  /\ s.state = "complete" => WholeAt(d, s.target, s.up)

-----------------------------------------------------------------------------
(* The printing module.                                                     *)

PendingTypes(p) ==
  /\ p \in [Nozzles -> [job : PrintJobs, due : BOOLEAN] \cup {None}]
  /\ \A n \in Nozzles : p[n] # None => p[n].job.nozzle = n

SlotsTalk(p, a, nz) ==
  nz \in [Nozzles -> Nat] /\ PendingTypes(p) /\ a \in PrintJobs \cup {None}

MailTypes(ml) == DOMAIN ml = {"ota", "print"} /\ IsQueue(ml["ota"]) /\ IsQueue(ml["print"])

\* A message is a client's, or the callback's.
Senders(q) == \A k \in DOMAIN q : q[k].id # "Wake" => q[k].from \in {"ota", "print"}

\* What a driver holds.
TargetFile == [open : BOOLEAN, image : Seq(Nat \X Nat), cut : BOOLEAN, left : BOOLEAN]

DevTypes(d) == d \in [Targets -> TargetFile]

TalkInv ==
  /\ PrintTalk(asks, http, active, sending)
  /\ OtaTalk(asks, http, mail["ota"], ota)
  /\ HttpTypes(http) /\ TimerTalk(asks, http, mail["ota"], timer)
  /\ IsQueue(asks) /\ Senders(asks) /\ MailTypes(mail)
  /\ task = "free" /\ sending \in BOOLEAN

SessInv ==
  /\ OtaTypes(ota, meant)
  /\ SessTalk(inbox, sess, ota, meant, dev)
  /\ ImageTalk(asks, http, inbox, sess)
  /\ DevTalk(http, mail["ota"], sess, ota, meant, dev)
  /\ IsQueue(inbox) /\ DevTypes(dev)

SlotsInv == SlotsTalk(pending, active, nozzle)

BaseInv == TalkInv /\ SessInv /\ SlotsInv

-----------------------------------------------------------------------------
(* Queues.                                                                  *)

\* The first element is taken from q, which leaves q2.
Taken(q, q2) ==
  /\ Len(q) \in Nat \ {0} /\ DOMAIN q = 1..Len(q) /\ Head(q) = q[1]
  /\ Len(q2) = Len(q) - 1 /\ DOMAIN q2 = 1..Len(q2)
  /\ \A k \in 1..Len(q2) : q2[k] = q[k + 1]

\* The elements b are added to q, which makes q2.
Added(q, q2, b) ==
  /\ Len(q) \in Nat /\ Len(b) \in Nat /\ DOMAIN q = 1..Len(q) /\ DOMAIN b = 1..Len(b)
  /\ Len(q2) = Len(q) + Len(b) /\ DOMAIN q2 = 1..Len(q2)
  /\ \A k \in 1..Len(q) : q2[k] = q[k]
  /\ \A k \in 1..Len(b) : q2[Len(q) + k] = b[k]

\* What happens to the queue is none of the client's business.
Aside(q, q2, c) ==
  \/ q2 = q
  \/ Taken(q, q2) /\ q[1].from # c
  \/ \E b : Added(q, q2, b) /\ \A k \in 1..Len(b) : b[k].from # c

LEMMA QueueTail ==
  ASSUME NEW q, IsQueue(q), q # <<>>
  PROVE  IsQueue(Tail(q)) /\ Taken(q, Tail(q))
<1>1. PICK S : q \in Seq(S)  BY DEF IsQueue
<1>2. Tail(q) \in Seq(S) /\ Len(q) \in Nat \ {0} /\ DOMAIN q = 1..Len(q) /\ Head(q) = q[1]
  BY <1>1
<1>3. /\ Len(Tail(q)) = Len(q) - 1 /\ DOMAIN Tail(q) = 1..Len(Tail(q))
      /\ \A k \in 1..Len(Tail(q)) : Tail(q)[k] = q[k + 1]
  BY <1>1, <1>2
<1> QED  BY <1>2, <1>3 DEF IsQueue, Taken

LEMMA QueueConcat ==
  ASSUME NEW q, NEW b, IsQueue(q), IsQueue(b)
  PROVE  IsQueue(q \o b) /\ Added(q, q \o b, b)
<1>1. PICK S : q \in Seq(S)  BY DEF IsQueue
<1>2. PICK T : b \in Seq(T)  BY DEF IsQueue
<1>3. q \in Seq(S \cup T) /\ b \in Seq(S \cup T)  BY <1>1, <1>2
<1>4. q \o b \in Seq(S \cup T) /\ Len(q \o b) = Len(q) + Len(b)  BY <1>3
<1>5. \A k \in 1..Len(q) : (q \o b)[k] = q[k]  BY <1>3
<1>6. \A k \in 1..Len(b) : (q \o b)[Len(q) + k] = b[k]  BY <1>3
<1>7. /\ Len(q) \in Nat /\ Len(b) \in Nat /\ DOMAIN q = 1..Len(q) /\ DOMAIN b = 1..Len(b)
      /\ DOMAIN (q \o b) = 1..Len(q \o b)
  BY <1>3, <1>4
<1> QED  BY <1>4, <1>5, <1>6, <1>7 DEF IsQueue, Added

LEMMA QueueAppend ==
  ASSUME NEW q, NEW x, IsQueue(q)
  PROVE  IsQueue(Append(q, x)) /\ Added(q, Append(q, x), <<x>>)
<1>1. PICK S : q \in Seq(S)  BY DEF IsQueue
<1>2. q \in Seq(S \cup {x}) /\ x \in S \cup {x}  BY <1>1
<1>3. Append(q, x) \in Seq(S \cup {x}) /\ Len(Append(q, x)) = Len(q) + 1  BY <1>2
<1>4. \A k \in 1..Len(q) : Append(q, x)[k] = q[k]  BY <1>2
<1>5. Append(q, x)[Len(q) + 1] = x  BY <1>2
<1>6. Len(q) \in Nat /\ DOMAIN q = 1..Len(q) /\ DOMAIN Append(q, x) = 1..Len(Append(q, x))
  BY <1>2, <1>3
<1> QED  BY <1>3, <1>4, <1>5, <1>6 DEF IsQueue, Added

LEMMA AppendShort ==
  ASSUME NEW x, NEW y
  PROVE  /\ Append(<<>>, x) = <<x>> /\ Len(<<x>>) = 1 /\ <<x>>[1] = x
         /\ Len(Append(<<y>>, x)) = 2 /\ Append(<<y>>, x)[1] = y /\ Append(<<y>>, x)[2] = x
         /\ Tail(<<x>>) = <<>> /\ Head(<<x>>) = x
<1>1. <<>> \in Seq({x, y}) /\ <<y>> \in Seq({x, y}) /\ <<x>> \in Seq({x, y})  OBVIOUS
<1>2. /\ Len(<<x>>) = 1 /\ <<x>>[1] = x /\ Head(<<x>>) = x  OBVIOUS
<1>3. Append(<<>>, x) = <<x>>  OBVIOUS
<1>4. Len(Append(<<y>>, x)) = 2 /\ Append(<<y>>, x)[1] = y /\ Append(<<y>>, x)[2] = x
  BY <1>1
<1>5. Tail(<<x>>) = <<>>  OBVIOUS
<1> QED  BY <1>2, <1>3, <1>4, <1>5

LEMMA AppendSecond ==
  ASSUME NEW m, IsQueue(m), Len(m) = 1, NEW x
  PROVE  Len(Append(m, x)) = 2 /\ Append(m, x)[1] = m[1] /\ Append(m, x)[2] = x
<1>1. PICK S : m \in Seq(S)  BY DEF IsQueue
<1>2. m \in Seq(S \cup {x}) /\ x \in S \cup {x}  BY <1>1
<1>3. Len(Append(m, x)) = Len(m) + 1 /\ Append(m, x)[Len(m) + 1] = x  BY <1>2
<1>4. \A k \in 1..Len(m) : Append(m, x)[k] = m[k]  BY <1>2
<1> QED  BY <1>3, <1>4

LEMMA QueueFacts == ASSUME NEW q, IsQueue(q) PROVE Len(q) \in Nat /\ DOMAIN q = 1..Len(q)
BY DEF IsQueue

\* What is left of a request is not changed by what others ask for.
LEMMA BurstAside ==
  ASSUME NEW c, NEW q, NEW q2, NEW lo \in Nat, NEW parts, NEW j, NEW t, NEW u,
         BurstLeft(c, q, lo, parts, j, t, u), Aside(q, q2, c), IsQueue(q)
  PROVE  /\ Taken(q, q2) /\ q2 # q => BurstLeft(c, q2, IF lo = 0 THEN 0 ELSE lo - 1, parts, j, t, u)
         /\ ~Taken(q, q2) \/ q2 = q => BurstLeft(c, q2, lo, parts, j, t, u)
<1>1. PICK e \in DOMAIN q :
        /\ lo < e /\ q[e] = Send(c)
        /\ \A k \in DOMAIN q : lo < k /\ q[k].from = c =>
             k = e \/ (k < e /\ \E p \in Needs(j) : q[k] = PartOf(c, p, j, t, u))
        /\ \A p \in Needs(j) : \/ [part |-> p, job |-> j] \in parts
                               \/ \E k \in DOMAIN q : lo < k /\ k < e /\ q[k] = PartOf(c, p, j, t, u)
  BY DEF BurstLeft
<1>2. Len(q) \in Nat /\ DOMAIN q = 1..Len(q) /\ e \in 1..Len(q)  BY QueueFacts
<1>3. q[e].from = c  BY <1>1 DEF Send
<1>4. CASE Taken(q, q2) /\ q[1].from # c
  <2>1. e # 1 /\ e - 1 \in DOMAIN q2 /\ q2[e - 1] = q[e]
    BY <1>2, <1>3, <1>4 DEF Taken
  <2> DEFINE lo2 == IF lo = 0 THEN 0 ELSE lo - 1
  <2>2. lo2 \in Nat /\ lo2 < e - 1  BY <1>1, <1>2, <2>1
  <2>3. ASSUME NEW k \in DOMAIN q2, lo2 < k, q2[k].from = c
        PROVE  k = e - 1 \/ (k < e - 1 /\ \E p \in Needs(j) : q2[k] = PartOf(c, p, j, t, u))
    <3>1. k \in Nat /\ k + 1 \in DOMAIN q /\ q2[k] = q[k + 1] /\ lo < k + 1
      BY <1>2, <1>4, <2>3 DEF Taken
    <3> QED  BY <1>1, <1>2, <2>3, <3>1
  <2>4. ASSUME NEW p \in Needs(j), [part |-> p, job |-> j] \notin parts
        PROVE  \E k \in DOMAIN q2 : lo2 < k /\ k < e - 1 /\ q2[k] = PartOf(c, p, j, t, u)
    <3>1. PICK k \in DOMAIN q : lo < k /\ k < e /\ q[k] = PartOf(c, p, j, t, u)
      BY <1>1, <2>4
    <3>2. q[k].from = c  BY <3>1 DEF PartOf, Part, Sink
    <3>3. k # 1  BY <1>4, <3>2
    <3>4. k - 1 \in DOMAIN q2 /\ q2[k - 1] = q[k] /\ lo2 < k - 1 /\ k - 1 < e - 1
      BY <1>2, <1>4, <3>1, <3>3 DEF Taken
    <3> QED  BY <3>1, <3>4
  <2> HIDE DEF lo2
  <2>5. BurstLeft(c, q2, lo2, parts, j, t, u)
    <3>1. q2[e - 1] = Send(c)  BY <1>1, <2>1
    <3> QED  BY <2>1, <2>2, <2>3, <2>4, <3>1 DEF BurstLeft
  <2>6. q2 # q  BY <1>4 DEF Taken
  <2> QED  BY <1>4, <2>5, <2>6 DEF lo2
<1>5. CASE q2 = q  BY <1>5
<1>6. CASE \E b : Added(q, q2, b) /\ \A k \in 1..Len(b) : b[k].from # c
  <2>1. PICK b : Added(q, q2, b) /\ \A k \in 1..Len(b) : b[k].from # c  BY <1>6
  <2>2. ~Taken(q, q2)
    <3>1. Len(q) \in Nat /\ Len(b) \in Nat /\ Len(q2) = Len(q) + Len(b)  BY <2>1 DEF Added
    <3>2. Len(q2) # Len(q) - 1  BY ONLY <3>1
    <3> QED  BY <3>2 DEF Taken
  <2>3. e \in DOMAIN q2 /\ q2[e] = Send(c)  BY <1>1, <1>2, <2>1 DEF Added
  <2>4. ASSUME NEW k \in DOMAIN q2, q2[k].from = c  PROVE k \in DOMAIN q /\ q2[k] = q[k]
    <3>1. CASE k \in 1..Len(q)  BY <1>2, <2>1, <3>1 DEF Added
    <3>2. CASE k \notin 1..Len(q)
      <4>1. k - Len(q) \in 1..Len(b) /\ k = Len(q) + (k - Len(q))
        BY <1>2, <2>1, <3>2 DEF Added
      <4>2. q2[k] = b[k - Len(q)]  BY <2>1, <4>1 DEF Added
      <4> QED  BY <2>1, <2>4, <4>1, <4>2
    <3> QED  BY <3>1, <3>2
  <2>5. \A k \in DOMAIN q : k \in DOMAIN q2 /\ q2[k] = q[k]  BY <1>2, <2>1 DEF Added
  <2>6. BurstLeft(c, q2, lo, parts, j, t, u)
    <3>1. \A p \in Needs(j) : \/ [part |-> p, job |-> j] \in parts
                              \/ \E k \in DOMAIN q2 : lo < k /\ k < e /\ q2[k] = PartOf(c, p, j, t, u)
      BY <1>1, <2>5
    <3>2. \A k \in DOMAIN q2 : lo < k /\ q2[k].from = c =>
             k = e \/ (k < e /\ \E p \in Needs(j) : q2[k] = PartOf(c, p, j, t, u))
      BY <1>1, <2>4
    <3> QED  BY <1>1, <2>3, <3>1, <3>2 DEF BurstLeft
  <2> QED  BY <2>2, <2>6
<1> QED  BY <1>4, <1>5, <1>6 DEF Aside

\* Nor is anything else the client has in the queue.
LEMMA AsideFacts ==
  ASSUME NEW c, NEW q, NEW q2, Aside(q, q2, c), IsQueue(q)
  PROVE  /\ Silent(c, q) => Silent(c, q2)
         /\ NoStart(c, q) => NoStart(c, q2)
<1>1. Len(q) \in Nat /\ DOMAIN q = 1..Len(q)  BY QueueFacts
<1>2. ASSUME NEW k \in DOMAIN q2, q2[k].from = c  PROVE \E i \in DOMAIN q : q[i] = q2[k]
  <2>1. CASE q2 = q  BY <2>1
  <2>2. CASE Taken(q, q2)
    <3>1. k + 1 \in DOMAIN q /\ q2[k] = q[k + 1]  BY <1>1, <2>2 DEF Taken
    <3> QED  BY <3>1
  <2>3. CASE \E b : Added(q, q2, b) /\ \A i \in 1..Len(b) : b[i].from # c
    <3>1. PICK b : Added(q, q2, b) /\ \A i \in 1..Len(b) : b[i].from # c  BY <2>3
    <3>2. CASE k \in 1..Len(q)  BY <1>1, <3>1, <3>2 DEF Added
    <3>3. CASE k \notin 1..Len(q)
      <4>1. k - Len(q) \in 1..Len(b) /\ k = Len(q) + (k - Len(q))  BY <1>1, <3>1, <3>3 DEF Added
      <4>2. q2[k] = b[k - Len(q)]  BY <3>1, <4>1 DEF Added
      <4> QED  BY <1>2, <3>1, <4>1, <4>2
    <3> QED  BY <3>2, <3>3
  <2> QED  BY <2>1, <2>2, <2>3 DEF Aside
<1> QED  BY <1>2 DEF Silent, NoStart

\* Of one message that asks for a session, as of what follows it, the same is true.
LEMMA AskAside ==
  ASSUME NEW c, NEW q, NEW q2, NEW k \in DOMAIN q, q[k].from = c,
         Aside(q, q2, c), IsQueue(q)
  PROVE  \E l \in DOMAIN q2 :
           /\ q2[l] = q[k]
           /\ \A i \in DOMAIN q2 : q2[i].from = c =>
                \E g \in DOMAIN q : q[g] = q2[i] /\ (g = k => i = l) /\ (l < i => k < g)
           /\ \/ Taken(q, q2) /\ q2 # q /\ l = k - 1
              \/ (~Taken(q, q2) \/ q2 = q) /\ l = k
<1>1. Len(q) \in Nat /\ DOMAIN q = 1..Len(q) /\ k \in 1..Len(q)  BY QueueFacts
<1>2. CASE q2 = q  BY <1>1, <1>2
<1>3. CASE Taken(q, q2) /\ q[1].from # c
  <2>1. k # 1 /\ k - 1 \in DOMAIN q2 /\ q2[k - 1] = q[k]  BY <1>1, <1>3 DEF Taken
  <2>2. ASSUME NEW i \in DOMAIN q2
        PROVE  \E g \in DOMAIN q : q[g] = q2[i] /\ (g = k => i = k - 1) /\ (k - 1 < i => k < g)
    <3>1. i \in Nat /\ i + 1 \in DOMAIN q /\ q2[i] = q[i + 1]  BY <1>1, <1>3 DEF Taken
    <3>2. (i + 1 = k => i = k - 1) /\ (k - 1 < i => k < i + 1)  BY <1>1, <3>1
    <3> QED  BY <3>1, <3>2
  <2>3. q2 # q  BY <1>3 DEF Taken
  <2> QED  BY <1>3, <2>1, <2>2, <2>3
<1>4. CASE \E b : Added(q, q2, b) /\ \A i \in 1..Len(b) : b[i].from # c
  <2>1. PICK b : Added(q, q2, b) /\ \A i \in 1..Len(b) : b[i].from # c  BY <1>4
  <2>2. ~Taken(q, q2)
    <3>1. Len(q) \in Nat /\ Len(b) \in Nat /\ Len(q2) = Len(q) + Len(b)  BY <2>1 DEF Added
    <3>2. Len(q2) # Len(q) - 1  BY ONLY <3>1
    <3> QED  BY <3>2 DEF Taken
  <2>3. k \in DOMAIN q2 /\ q2[k] = q[k]  BY <1>1, <2>1 DEF Added
  <2>4. ASSUME NEW i \in DOMAIN q2, q2[i].from = c  PROVE i \in DOMAIN q /\ q2[i] = q[i]
    <3>1. CASE i \in 1..Len(q)  BY <1>1, <2>1, <3>1 DEF Added
    <3>2. CASE i \notin 1..Len(q)
      <4>1. i - Len(q) \in 1..Len(b) /\ i = Len(q) + (i - Len(q))
        BY <1>1, <2>1, <3>2 DEF Added
      <4>2. q2[i] = b[i - Len(q)]  BY <2>1, <4>1 DEF Added
      <4> QED  BY <2>1, <2>4, <4>1, <4>2
    <3> QED  BY <3>1, <3>2
  <2> QED  BY <2>2, <2>3, <2>4
<1> QED  BY <1>2, <1>3, <1>4 DEF Aside

\* The conversation of the printing module goes on where it was.
LEMMA PrintAside ==
  ASSUME NEW q, NEW q2, NEW h, NEW h2, NEW a, NEW s,
         PrintTalk(q, h, a, s), Aside(q, q2, "print"), IsQueue(q),
         h2 = h \/ (h.owner # "print" /\ h2.owner # "print")
  PROVE  PrintTalk(q2, h2, a, s)
<1>1. /\ Silent("print", q) => Silent("print", q2)
      /\ NoStart("print", q) => NoStart("print", q2)
  BY AsideFacts
<1>2. CASE PrintRests(q, h, a, s)  BY <1>1, <1>2 DEF PrintRests, PrintTalk
<1>3. CASE PrintAsks(q, h, a, s)
  <2>1. PICK k \in DOMAIN q :
          /\ q[k] = Start("print", a)
          /\ \A i \in DOMAIN q : q[i].from = "print" /\ q[i].id = "Start" => i = k
          /\ s => \A i \in DOMAIN q : k < i => q[i].from # "print"
          /\ ~s => BurstLeft("print", q, k, {}, a, None, 0)
    BY <1>3 DEF PrintAsks
  <2>2. q[k].from = "print" /\ q[k].id = "Start"  BY <2>1 DEF Start
  <2>3. PICK l \in DOMAIN q2 :
           /\ q2[l] = q[k]
           /\ \A i \in DOMAIN q2 : q2[i].from = "print" =>
                \E g \in DOMAIN q : q[g] = q2[i] /\ (g = k => i = l) /\ (l < i => k < g)
           /\ \/ Taken(q, q2) /\ q2 # q /\ l = k - 1
              \/ (~Taken(q, q2) \/ q2 = q) /\ l = k
    BY <2>2, AskAside
  <2>4. \A i \in DOMAIN q2 : q2[i].from = "print" /\ q2[i].id = "Start" => i = l
    BY <2>1, <2>3
  <2>5. s => \A i \in DOMAIN q2 : l < i => q2[i].from # "print"
    BY <2>1, <2>3
  <2>6. ~s => BurstLeft("print", q2, l, {}, a, None, 0)
    <3>1. k \in Nat /\ k # 0  BY QueueFacts
    <3> QED  BY <2>1, <2>3, <3>1, BurstAside
  <2>7. a # None /\ h2.owner # "print"  BY <1>3 DEF PrintAsks
  <2> QED  BY <2>1, <2>3, <2>4, <2>5, <2>6, <2>7 DEF PrintAsks, PrintTalk
<1>4. CASE PrintOpened(q, h, a, s)
  BY <1>1, <1>4 DEF PrintOpened, PrintTalk, Fresh
<1>5. CASE PrintSets(q, h, a, s)
  <2>1. h2 = h  BY <1>5 DEF PrintSets, Partly
  <2>2. BurstLeft("print", q2, 0, h.parts, a, None, 0)  BY <1>5, BurstAside DEF PrintSets
  <2> QED  BY <1>5, <2>1, <2>2 DEF PrintSets, PrintTalk
<1>6. CASE PrintEnds(q, h, a, s)  BY <1>1, <1>6 DEF PrintEnds, PrintTalk
<1>7. CASE PrintPosts(q, h, a, s)  BY <1>1, <1>7 DEF PrintPosts, PrintTalk, Posted
<1> QED  BY <1>2, <1>3, <1>4, <1>5, <1>6, <1>7 DEF PrintTalk

\* A conversation that starts, or that has started, goes on where it was.
LEMMA StartingAside ==
  ASSUME NEW q, NEW q2, NEW h, NEW h2, NEW m, NEW j, NEW stale,
         Starting(q, h, m, j, stale), Aside(q, q2, "ota"), IsQueue(q),
         h2 = h \/ (h.owner # "ota" /\ h2.owner # "ota")
  PROVE  Starting(q2, h2, m, j, stale)
<1>1. Silent("ota", q) => Silent("ota", q2)  BY AsideFacts
<1>2. CASE OtaAsks(q, h, m, j, stale)
  <2>1. PICK k \in DOMAIN q :
          q[k] = Start("ota", j) /\ \A i \in DOMAIN q : q[i].from = "ota" => i = k
    BY <1>2 DEF OtaAsks
  <2>2. q[k].from = "ota"  BY <2>1 DEF Start
  <2>3. PICK l \in DOMAIN q2 :
           /\ q2[l] = q[k]
           /\ \A i \in DOMAIN q2 : q2[i].from = "ota" =>
                \E g \in DOMAIN q : q[g] = q2[i] /\ (g = k => i = l) /\ (l < i => k < g)
           /\ \/ Taken(q, q2) /\ q2 # q /\ l = k - 1
              \/ (~Taken(q, q2) \/ q2 = q) /\ l = k
    BY <2>2, AskAside
  <2>4. \A i \in DOMAIN q2 : q2[i].from = "ota" => i = l  BY <2>1, <2>3
  <2>5. Streams(h) => h.owner = "ota"  BY DEF Streams, Posted
  <2> QED  BY <1>2, <2>1, <2>3, <2>4, <2>5 DEF OtaAsks, Starting
<1>3. CASE OtaOpened(q, h, m, j, stale)  BY <1>1, <1>3 DEF OtaOpened, Fresh, Starting
<1>4. CASE OtaRefused(q, h, m, stale)  BY <1>1, <1>4 DEF OtaRefused, Starting
<1> QED  BY <1>2, <1>3, <1>4 DEF Starting

LEMMA SendingAside ==
  ASSUME NEW q, NEW q2, NEW h, NEW h2, NEW m, NEW j, NEW t, NEW u,
         Sending(q, h, m, j, t, u), Aside(q, q2, "ota"), IsQueue(q),
         h2 = h \/ (h.owner # "ota" /\ h2.owner # "ota")
  PROVE  Sending(q2, h2, m, j, t, u)
<1>1. Silent("ota", q) => Silent("ota", q2)  BY AsideFacts
<1>2. CASE OtaSets(q, h, m, j, t, u)
  <2>1. h2 = h  BY <1>2 DEF OtaSets, Partly
  <2>2. BurstLeft("ota", q2, 0, h.parts, j, t, u)  BY <1>2, BurstAside DEF OtaSets
  <2> QED  BY <1>2, <2>1, <2>2 DEF OtaSets, Sending
<1>3. CASE OtaExecutes(q, h, m, j, t, u)  BY <1>1, <1>3 DEF OtaExecutes, Posted, Sending
<1>4. CASE OtaKnows(q, h, m, j)  BY <1>1, <1>4 DEF OtaKnows, Sending
<1> QED  BY <1>2, <1>3, <1>4 DEF Sending

LEMMA OtaAside ==
  ASSUME NEW q, NEW q2, NEW h, NEW h2, NEW m, NEW o,
         OtaTalk(q, h, m, o), Aside(q, q2, "ota"), IsQueue(q),
         h2 = h \/ (h.owner # "ota" /\ h2.owner # "ota")
  PROVE  OtaTalk(q2, h2, m, o)
<1>1. Silent("ota", q) => Silent("ota", q2)  BY AsideFacts
<1>2. OtaQuiet(q, h, m) => OtaQuiet(q2, h2, m)  BY <1>1 DEF OtaQuiet
<1>3. \A j : OtaLeaves(q, h, m, j) => OtaLeaves(q2, h2, m, j)  BY <1>1 DEF OtaLeaves, Fresh
<1>4. \A j, stale : Starting(q, h, m, j, stale) => Starting(q2, h2, m, j, stale)
  BY StartingAside
<1>5. \A j, t, u : Sending(q, h, m, j, t, u) => Sending(q2, h2, m, j, t, u)
  BY SendingAside
<1> QED  BY ONLY OtaTalk(q, h, m, o), <1>2, <1>3, <1>4, <1>5 DEF OtaTalk

-----------------------------------------------------------------------------
(* The conversation of the printing module, as the HTTP module handles its  *)
(* messages.                                                                *)

\* x is the last message of a request, or a part of it after which more is to come in q.
Precedes(c, x, q, parts, j, t, u) ==
  \/ /\ x = Send(c) /\ Silent(c, q)
     /\ \A p \in Needs(j) : [part |-> p, job |-> j] \in parts
  \/ \E p \in Needs(j) :
       /\ x = PartOf(c, p, j, t, u)
       /\ BurstLeft(c, q, 0, parts \cup {[part |-> p, job |-> j]}, j, t, u)

\* What may be first in the queue.
LEMMA BurstHead ==
  ASSUME NEW c, NEW q, NEW q2, NEW parts, NEW j, NEW t, NEW u,
         BurstLeft(c, q, 0, parts, j, t, u), Taken(q, q2), q[1].from = c
  PROVE  Precedes(c, q[1], q2, parts, j, t, u)
<1>1. PICK e \in DOMAIN q :
        /\ 0 < e /\ q[e] = Send(c)
        /\ \A k \in DOMAIN q : 0 < k /\ q[k].from = c =>
             k = e \/ (k < e /\ \E p \in Needs(j) : q[k] = PartOf(c, p, j, t, u))
        /\ \A p \in Needs(j) : \/ [part |-> p, job |-> j] \in parts
                               \/ \E k \in DOMAIN q : 0 < k /\ k < e /\ q[k] = PartOf(c, p, j, t, u)
  BY DEF BurstLeft
<1>2. /\ Len(q) \in Nat \ {0} /\ DOMAIN q = 1..Len(q) /\ e \in 1..Len(q)
      /\ Len(q2) = Len(q) - 1 /\ DOMAIN q2 = 1..Len(q2)
      /\ \A k \in 1..Len(q2) : k + 1 \in DOMAIN q /\ q2[k] = q[k + 1]
  BY DEF Taken
<1>3. CASE e = 1
  <2>1. \A k \in DOMAIN q : q[k].from = c => k = 1  BY <1>1, <1>2, <1>3
  <2>2. Silent(c, q2)
    <3>1. ASSUME NEW k \in DOMAIN q2  PROVE q2[k].from # c
      <4>1. k \in Nat /\ k # 0 /\ k + 1 \in DOMAIN q /\ q2[k] = q[k + 1]
        BY ONLY <1>2, <3>1
      <4>2. k + 1 # 1  BY ONLY <4>1
      <4> QED  BY ONLY <2>1, <4>1, <4>2
    <3> QED  BY ONLY <3>1 DEF Silent
  <2>3. \A p \in Needs(j) : [part |-> p, job |-> j] \in parts
    <3>1. ~\E k \in DOMAIN q : 0 < k /\ k < e  BY ONLY <1>2, <1>3
    <3> QED  BY ONLY <1>1, <3>1
  <2> QED  BY <1>1, <1>3, <2>2, <2>3 DEF Precedes
<1>4. CASE e # 1
  <2>1. PICK p \in Needs(j) : q[1] = PartOf(c, p, j, t, u)  BY <1>1, <1>2, <1>4
  <2>2. e - 1 \in DOMAIN q2 /\ q2[e - 1] = Send(c) /\ 0 < e - 1  BY <1>1, <1>2, <1>4
  <2>3. ASSUME NEW k \in DOMAIN q2, 0 < k, q2[k].from = c
        PROVE  k = e - 1 \/ (k < e - 1 /\ \E x \in Needs(j) : q2[k] = PartOf(c, x, j, t, u))
    <3>1. k + 1 \in DOMAIN q /\ q2[k] = q[k + 1] /\ k \in Nat /\ 0 < k + 1 /\ e \in Int
      BY ONLY <1>2, <2>3
    <3>2. \/ k + 1 = e
          \/ k + 1 < e /\ \E x \in Needs(j) : q[k + 1] = PartOf(c, x, j, t, u)
      BY ONLY <1>1, <2>3, <3>1
    <3>3. (k + 1 = e => k = e - 1) /\ (k + 1 < e => k < e - 1)  BY ONLY <3>1
    <3> QED  BY ONLY <3>1, <3>2, <3>3
  <2>4. ASSUME NEW x \in Needs(j), [part |-> x, job |-> j] \notin parts, x # p
        PROVE  \E k \in DOMAIN q2 : 0 < k /\ k < e - 1 /\ q2[k] = PartOf(c, x, j, t, u)
    <3>1. PICK k \in DOMAIN q : 0 < k /\ k < e /\ q[k] = PartOf(c, x, j, t, u)  BY <1>1, <2>4
    <3>2. k # 1
      <4>1. PartOf(c, x, j, t, u) # PartOf(c, p, j, t, u)
        BY <2>4 DEF PartOf, Part, Sink
      <4> QED  BY <2>1, <3>1, <4>1
    <3>3. k - 1 \in DOMAIN q2 /\ q2[k - 1] = q[k] /\ 0 < k - 1 /\ k - 1 < e - 1
      BY <1>2, <3>1, <3>2
    <3> QED  BY <3>1, <3>3
  <2>5. \A x \in Needs(j) :
          \/ [part |-> x, job |-> j] \in parts \cup {[part |-> p, job |-> j]}
          \/ \E k \in DOMAIN q2 : 0 < k /\ k < e - 1 /\ q2[k] = PartOf(c, x, j, t, u)
    BY <2>4
  <2>6. BurstLeft(c, q2, 0, parts \cup {[part |-> p, job |-> j]}, j, t, u)
    BY <2>2, <2>3, <2>5 DEF BurstLeft
  <2> QED  BY <2>1, <2>6 DEF Precedes
<1> QED  BY <1>3, <1>4

\* No request for a session is, though.
LEMMA BurstNoStart ==
  ASSUME NEW c, NEW q, NEW parts, NEW j, NEW t, NEW u, BurstLeft(c, q, 0, parts, j, t, u),
         NEW k \in DOMAIN q, k \in Nat \ {0}, q[k].from = c
  PROVE  q[k].id # "Start"
<1>1. PICK e \in DOMAIN q :
        /\ q[e] = Send(c)
        /\ \A i \in DOMAIN q : 0 < i /\ q[i].from = c =>
             i = e \/ (i < e /\ \E p \in Needs(j) : q[i] = PartOf(c, p, j, t, u))
  BY DEF BurstLeft
<1>2. \A p : PartOf(c, p, j, t, u).id # "Start"  BY DEF PartOf, Part, Sink
<1>3. Send(c).id # "Start"  BY DEF Send
<1>4. 0 < k  OBVIOUS
<1> QED  BY <1>1, <1>2, <1>3, <1>4

\* A message is taken that comes before.
LEMMA BurstTail ==
  ASSUME NEW c, NEW q, NEW q2, NEW lo \in Nat \ {0}, NEW parts, NEW j, NEW t, NEW u,
         BurstLeft(c, q, lo, parts, j, t, u), Taken(q, q2)
  PROVE  BurstLeft(c, q2, lo - 1, parts, j, t, u)
<1>1. PICK e \in DOMAIN q :
        /\ lo < e /\ q[e] = Send(c)
        /\ \A k \in DOMAIN q : lo < k /\ q[k].from = c =>
             k = e \/ (k < e /\ \E p \in Needs(j) : q[k] = PartOf(c, p, j, t, u))
        /\ \A p \in Needs(j) : \/ [part |-> p, job |-> j] \in parts
                               \/ \E k \in DOMAIN q : lo < k /\ k < e /\ q[k] = PartOf(c, p, j, t, u)
  BY DEF BurstLeft
<1>2. /\ Len(q) \in Nat \ {0} /\ DOMAIN q = 1..Len(q) /\ e \in 1..Len(q)
      /\ Len(q2) = Len(q) - 1 /\ DOMAIN q2 = 1..Len(q2)
      /\ \A k \in 1..Len(q2) : k + 1 \in DOMAIN q /\ q2[k] = q[k + 1]
  BY DEF Taken
<1>3. e - 1 \in DOMAIN q2 /\ q2[e - 1] = Send(c) /\ lo - 1 < e - 1  BY <1>1, <1>2
<1>4. ASSUME NEW k \in DOMAIN q2, lo - 1 < k, q2[k].from = c
      PROVE  k = e - 1 \/ (k < e - 1 /\ \E x \in Needs(j) : q2[k] = PartOf(c, x, j, t, u))
  <2>1. k + 1 \in DOMAIN q /\ q2[k] = q[k + 1] /\ k \in Nat /\ lo < k + 1  BY <1>2, <1>4
  <2> QED  BY <1>1, <1>2, <1>4, <2>1
<1>5. ASSUME NEW x \in Needs(j), [part |-> x, job |-> j] \notin parts
      PROVE  \E k \in DOMAIN q2 : lo - 1 < k /\ k < e - 1 /\ q2[k] = PartOf(c, x, j, t, u)
  <2>1. PICK k \in DOMAIN q : lo < k /\ k < e /\ q[k] = PartOf(c, x, j, t, u)  BY <1>1, <1>5
  <2>2. k - 1 \in DOMAIN q2 /\ q2[k - 1] = q[k] /\ lo - 1 < k - 1 /\ k - 1 < e - 1
    BY <1>2, <2>1
  <2> QED  BY <2>1, <2>2
<1> QED  BY <1>3, <1>4, <1>5 DEF BurstLeft

\* A request of the printing module for a session is handled.
LEMMA PrintStartHandled ==
  ASSUME NEW q, NEW q2, NEW h, NEW a, NEW s,
         PrintTalk(q, h, a, s), Taken(q, q2), q[1].from = "print", q[1].id = "Start"
  PROVE  /\ a # None /\ h.owner # "print" /\ q[1] = Start("print", a)
         /\ s => Silent("print", q2)
         /\ ~s => BurstLeft("print", q2, 0, {}, a, None, 0)
         /\ NoStart("print", q2)
<1>0. /\ Len(q) \in Nat \ {0} /\ DOMAIN q = 1..Len(q) /\ 1 \in DOMAIN q
      /\ Len(q2) = Len(q) - 1 /\ DOMAIN q2 = 1..Len(q2)
      /\ \A k \in 1..Len(q2) : k + 1 \in DOMAIN q /\ q2[k] = q[k + 1]
  BY DEF Taken
<1>1. ~Silent("print", q) /\ ~NoStart("print", q)  BY <1>0 DEF Silent, NoStart
<1>2. ~PrintSets(q, h, a, s)
  <2>1. ASSUME PrintSets(q, h, a, s)  PROVE FALSE
    <3>1. BurstLeft("print", q, 0, h.parts, a, None, 0)  BY <2>1 DEF PrintSets
    <3>2. 1 \in DOMAIN q /\ 1 \in Nat \ {0}  BY <1>0
    <3>3. q[1].id # "Start"  BY <3>1, <3>2, BurstNoStart
    <3> QED  BY <3>3
  <2> QED  BY <2>1
<1>3. PrintAsks(q, h, a, s)
  BY <1>1, <1>2 DEF PrintTalk, PrintRests, PrintOpened, PrintEnds, PrintPosts
<1>4. PICK k \in DOMAIN q :
        /\ q[k] = Start("print", a)
        /\ \A i \in DOMAIN q : q[i].from = "print" /\ q[i].id = "Start" => i = k
        /\ s => \A i \in DOMAIN q : k < i => q[i].from # "print"
        /\ ~s => BurstLeft("print", q, k, {}, a, None, 0)
  BY <1>3 DEF PrintAsks
<1>5. k = 1  BY <1>0, <1>4
<1>6. s => Silent("print", q2)
  <2>1. ASSUME s, NEW i \in DOMAIN q2  PROVE q2[i].from # "print"
    <3>1. i + 1 \in DOMAIN q /\ q2[i] = q[i + 1] /\ 1 < i + 1  BY <1>0
    <3> QED  BY <1>4, <1>5, <2>1, <3>1
  <2> QED  BY <2>1 DEF Silent
<1>7. NoStart("print", q2)
  <2>1. ASSUME NEW i \in DOMAIN q2, q2[i].from = "print", q2[i].id = "Start"  PROVE FALSE
    <3>1. i + 1 \in DOMAIN q /\ q2[i] = q[i + 1] /\ i + 1 # 1  BY <1>0
    <3> QED  BY <1>4, <1>5, <2>1, <3>1
  <2> QED  BY <2>1 DEF NoStart
<1>8. ~s => BurstLeft("print", q2, 0, {}, a, None, 0)
  BY <1>4, <1>5, BurstTail
<1> QED  BY <1>3, <1>4, <1>5, <1>6, <1>7, <1>8 DEF PrintAsks

\* A part that is set is added to those set before.
LEMMA WithFacts ==
  ASSUME NEW parts, NEW j, NEW m, NEW p \in Needs(j), PartsOf(parts, j), m.part = p, m.job = j
  PROVE  /\ With(parts, m) = parts \cup {[part |-> p, job |-> j]}
         /\ PartsOf(With(parts, m), j)
<1>1. \A x \in parts : x.part = p => x = [part |-> p, job |-> j]  BY DEF PartsOf
<1>2. With(parts, m) = parts \cup {[part |-> p, job |-> j]}  BY <1>1 DEF With
<1> QED  BY <1>2 DEF PartsOf

\* The session is refused.
LEMMA PrintRefusal ==
  ASSUME NEW q, NEW q2, NEW h, NEW a, NEW s,
         PrintTalk(q, h, a, s), Taken(q, q2), q[1].from = "print", q[1].id = "Start"
  PROVE  PrintTalk(q2, h, a, s)
<1>1. a # None /\ h.owner # "print" /\ NoStart("print", q2)  BY PrintStartHandled
<1> QED  BY <1>1 DEF PrintEnds, PrintTalk

\* The session is granted.
LEMMA PrintGrant ==
  ASSUME NEW q, NEW q2, NEW h, NEW h2, NEW a, NEW s \in BOOLEAN,
         PrintTalk(q, h, a, s), Taken(q, q2), q[1].from = "print", q[1].id = "Start",
         h2.state = "open", h2.owner = "print", h2.job = q[1].job, h2.parts = {}, h2.sink = NoSink
  PROVE  PrintTalk(q2, h2, a, s)
<1>1. /\ a # None /\ q[1] = Start("print", a)
      /\ s => Silent("print", q2)
      /\ ~s => BurstLeft("print", q2, 0, {}, a, None, 0)
  BY PrintStartHandled
<1>2. Fresh(h2, "print", a)  BY <1>1 DEF Fresh, Start
<1>4. CASE s  BY <1>1, <1>2, <1>4 DEF PrintOpened, PrintTalk
<1>5. CASE ~s
  <2>1. Partly(h2, "print", a, None, 0)  BY <1>2 DEF Fresh, Partly, PartsOf
  <2>2. BurstLeft("print", q2, 0, h2.parts, a, None, 0)  BY <1>1, <1>2, <1>5 DEF Fresh
  <2> QED  BY <1>1, <1>5, <2>1, <2>2 DEF PrintSets, PrintTalk
<1> QED  BY <1>4, <1>5

\* A part of a request whose session was refused is dropped.
LEMMA PrintDropped ==
  ASSUME NEW q, NEW q2, NEW h, NEW a, NEW s,
         PrintTalk(q, h, a, s), Taken(q, q2), q[1].from = "print", q[1].id # "Start",
         h.owner # "print"
  PROVE  PrintTalk(q2, h, a, s)
<1>1. /\ Len(q) \in Nat \ {0} /\ DOMAIN q = 1..Len(q) /\ 1 \in DOMAIN q
      /\ Len(q2) = Len(q) - 1 /\ DOMAIN q2 = 1..Len(q2)
      /\ \A k \in 1..Len(q2) : k + 1 \in DOMAIN q /\ q2[k] = q[k + 1]
  BY DEF Taken
<1>2. NoStart("print", q) => NoStart("print", q2)  BY <1>1 DEF NoStart
<1>3. CASE PrintRests(q, h, a, s)  BY <1>2, <1>3 DEF PrintRests, PrintTalk
<1>4. CASE PrintEnds(q, h, a, s)  BY <1>2, <1>4 DEF PrintEnds, PrintTalk
<1>5. CASE PrintAsks(q, h, a, s)
  <2>1. PICK k \in DOMAIN q :
          /\ q[k] = Start("print", a)
          /\ \A i \in DOMAIN q : q[i].from = "print" /\ q[i].id = "Start" => i = k
          /\ s => \A i \in DOMAIN q : k < i => q[i].from # "print"
          /\ ~s => BurstLeft("print", q, k, {}, a, None, 0)
    BY <1>5 DEF PrintAsks
  <2>2. k # 1 /\ k \in Nat \ {0}  BY <1>1, <2>1 DEF Start
  <2>3. k - 1 \in DOMAIN q2 /\ q2[k - 1] = Start("print", a)  BY <1>1, <2>1, <2>2
  <2>4. ASSUME NEW i \in DOMAIN q2, q2[i].from = "print", q2[i].id = "Start"  PROVE i = k - 1
    <3>1. i \in Nat /\ i + 1 \in DOMAIN q /\ q2[i] = q[i + 1]  BY <1>1
    <3>2. i + 1 = k  BY <2>1, <2>4, <3>1
    <3> QED  BY <2>2, <3>1, <3>2
  <2>5. ASSUME s, NEW i \in DOMAIN q2, k - 1 < i  PROVE q2[i].from # "print"
    <3>1. i \in Nat /\ i + 1 \in DOMAIN q /\ q2[i] = q[i + 1]  BY <1>1
    <3>2. k < i + 1  BY <2>2, <2>5, <3>1
    <3> QED  BY <2>1, <2>5, <3>1, <3>2
  <2>6. ~s => BurstLeft("print", q2, k - 1, {}, a, None, 0)  BY <2>1, <2>2, BurstTail
  <2>7. a # None  BY <1>5 DEF PrintAsks
  <2> QED  BY <2>3, <2>4, <2>5, <2>6, <2>7 DEF PrintAsks, PrintTalk
<1>6. ~Silent("print", q)  BY <1>1 DEF Silent
<1> QED  BY <1>3, <1>4, <1>5, <1>6
     DEF PrintTalk, PrintOpened, PrintSets, PrintPosts, Fresh, Partly, Posted

\* A message of the session's owner is handled while the session is open.
LEMMA PrintHandled ==
  ASSUME NEW q, NEW q2, NEW h, NEW a, NEW s,
         PrintTalk(q, h, a, s), Taken(q, q2), q[1].from = "print", h.owner = "print",
         h.state = "open", a # None => a \in PrintJobs
  PROVE  /\ PrintSets(q, h, a, s) /\ a \in PrintJobs
         /\ Needs(a) = {"url", "header", "body"}
         /\ Precedes("print", q[1], q2, h.parts, a, None, 0)
<1>1. ~Silent("print", q)  BY DEF Silent, Taken
<1>2. PrintSets(q, h, a, s)
  BY <1>1 DEF PrintTalk, PrintRests, PrintAsks, PrintOpened, PrintEnds, PrintPosts, Posted
<1>3. a \in PrintJobs /\ BurstLeft("print", q, 0, h.parts, a, None, 0)
  BY <1>2 DEF PrintSets
<1>4. Needs(a) = {"url", "header", "body"}
  BY <1>3, PrintingAssumption DEF Needs, PrintJobs
<1>5. PICK ps, j : ps = h.parts /\ j = a  OBVIOUS
<1>6. BurstLeft("print", q, 0, ps, j, None, 0)  BY <1>3, <1>5
<1>7. Precedes("print", q[1], q2, ps, j, None, 0)  BY <1>6, BurstHead
<1> QED  BY <1>2, <1>3, <1>4, <1>5, <1>7

\* A part of the request is set; the printing module has no sink.
LEMMA PrintPart ==
  ASSUME NEW q, NEW q2, NEW h, NEW h2, NEW a, NEW s,
         PrintTalk(q, h, a, s), Taken(q, q2), q[1].from = "print", h.owner = "print",
         h.state = "open", a # None => a \in PrintJobs, q[1].id # "Send",
         h2.state = h.state, h2.owner = h.owner, h2.job = h.job, h2.sink = h.sink,
         h2.parts = With(h.parts, q[1])
  PROVE  PrintTalk(q2, h2, a, s) /\ q[1].id = "Part"
<1>1. PrintSets(q, h, a, s) /\ Needs(a) = {"url", "header", "body"}  BY PrintHandled
<1>2. Precedes("print", q[1], q2, h.parts, a, None, 0)  BY PrintHandled
<1>3. PICK p \in Needs(a) :
        /\ q[1] = PartOf("print", p, a, None, 0)
        /\ BurstLeft("print", q2, 0, h.parts \cup {[part |-> p, job |-> a]}, a, None, 0)
  BY <1>2 DEF Precedes, Send
<1>4. p # "sink" /\ q[1] = Part("print", p, a)  BY <1>1, <1>3 DEF PartOf
<1>5. q[1].part = p /\ q[1].job = a /\ q[1].id = "Part"  BY <1>4 DEF Part
<1>6. Partly(h, "print", a, None, 0)  BY <1>1 DEF PrintSets
<1>7. PICK ps, m1, j : ps = h.parts /\ m1 = q[1] /\ j = a  OBVIOUS
<1>8. PartsOf(ps, j) /\ p \in Needs(j) /\ m1.part = p /\ m1.job = j  BY <1>3, <1>5, <1>6, <1>7 DEF Partly
<1>9. With(ps, m1) = ps \cup {[part |-> p, job |-> j]} /\ PartsOf(With(ps, m1), j)
  BY <1>8, WithFacts
<1>10. h2.parts = h.parts \cup {[part |-> p, job |-> a]} /\ PartsOf(h2.parts, a)
  BY <1>7, <1>9
<1>11. BurstLeft("print", q2, 0, h2.parts, a, None, 0)  BY <1>3, <1>10
<1>12. [part |-> "sink", job |-> a] \notin h.parts
  BY <1>1, <1>6 DEF Partly, PartsOf
<1>13. [part |-> "sink", job |-> a] \notin h2.parts  BY <1>4, <1>10, <1>12
<1>14. Partly(h2, "print", a, None, 0)  BY <1>6, <1>10, <1>12, <1>13 DEF Partly
<1> QED  BY <1>1, <1>5, <1>11, <1>14 DEF PrintSets, PrintTalk

\* The request is sent.
LEMMA PrintSent ==
  ASSUME NEW q, NEW q2, NEW h, NEW h2, NEW a, NEW s,
         PrintTalk(q, h, a, s), Taken(q, q2), q[1].from = "print", h.owner = "print",
         h.state = "open", a # None => a \in PrintJobs, q[1].id = "Send",
         h2.state = "executing", h2.owner = h.owner, h2.job = h.job, h2.sink = h.sink,
         h2.parts = h.parts
  PROVE  PrintTalk(q2, h2, a, s)
<1>1. /\ PrintSets(q, h, a, s) /\ Needs(a) = {"url", "header", "body"}
      /\ a \in PrintJobs
  BY PrintHandled
<1>2. Precedes("print", q[1], q2, h.parts, a, None, 0)  BY PrintHandled
<1>3. \A p : PartOf("print", p, a, None, 0).id # "Send"  BY DEF PartOf, Part, Sink
<1>4. /\ Silent("print", q2)
      /\ \A p \in Needs(a) : [part |-> p, job |-> a] \in h.parts
  BY <1>2, <1>3 DEF Precedes
<1>5. Partly(h, "print", a, None, 0)  BY <1>1 DEF PrintSets
<1>6. [part |-> "sink", job |-> a] \notin h.parts
  BY <1>1, <1>5 DEF Partly, PartsOf
<1>7. a.kind # "image"  BY <1>1, PrintingAssumption DEF PrintJobs
<1>8. Posted(h2, "print", a, None, 0)  BY <1>4, <1>5, <1>6, <1>7 DEF Partly, Posted
<1> QED  BY <1>1, <1>4, <1>8 DEF PrintSets, PrintPosts, PrintTalk

\* What is executed is the active job of the module.
LEMMA PrintExecuting ==
  ASSUME NEW q, NEW h, NEW a, NEW s, PrintTalk(q, h, a, s),
         h.owner = "print", h.state = "executing", a # None => a \in PrintJobs
  PROVE  /\ PrintPosts(q, h, a, s) /\ a # None /\ h.job = a /\ h.sink = NoSink
         /\ a.kind # "image"
<1>1. PrintPosts(q, h, a, s)
  BY DEF PrintTalk, PrintRests, PrintAsks, PrintOpened, PrintSets, PrintEnds,
         Fresh, Partly
<1>2. a # None /\ Posted(h, "print", a, None, 0)  BY <1>1 DEF PrintPosts
<1>3. a.kind # "image"  BY <1>2, PrintingAssumption DEF PrintJobs
<1> QED  BY <1>1, <1>2, <1>3 DEF Posted

\* The request is over; a queue without the client's messages has no request in it.
LEMMA PrintResult ==
  ASSUME NEW q, NEW h, NEW h2, NEW a, NEW s,
         PrintTalk(q, h, a, s), h.owner = "print", h.state = "executing",
         a # None => a \in PrintJobs, h2.owner # "print"
  PROVE  PrintTalk(q, h2, a, s) /\ a # None /\ h.job = a /\ h.sink = NoSink
<1>1. PrintPosts(q, h, a, s) /\ a # None /\ h.job = a /\ h.sink = NoSink  BY PrintExecuting
<1>2. NoStart("print", q)  BY <1>1 DEF PrintPosts, Silent, NoStart
<1> QED  BY <1>1, <1>2 DEF PrintEnds, PrintTalk

-----------------------------------------------------------------------------
(* The conversation of the web OTA client, as the HTTP module handles its   *)
(* messages.                                                                *)

\* A message of a request is not a request for a session.
LEMMA PrecedesId ==
  ASSUME NEW c, NEW x, NEW q, NEW parts, NEW j, NEW t, NEW u,
         Precedes(c, x, q, parts, j, t, u)
  PROVE  x.id # "Start"
<1>1. \A p : PartOf(c, p, j, t, u).id # "Start"  BY DEF PartOf, Part, Sink
<1>2. Send(c).id # "Start"  BY DEF Send
<1> QED  BY <1>1, <1>2 DEF Precedes

\* A message of the client is first in the queue.
LEMMA OtaFirst ==
  ASSUME NEW q, NEW q2, NEW h, NEW m, Taken(q, q2), q[1].from = "ota"
  PROVE  /\ ~OtaQuiet(q, h, m) /\ \A j : ~OtaLeaves(q, h, m, j)
         /\ \A j, stale : Starting(q, h, m, j, stale) =>
              /\ q[1] = Start("ota", j) /\ OtaAsks(q, h, m, j, stale) /\ Silent("ota", q2)
              /\ q[1].id = "Start"
         /\ \A j, t, u : Sending(q, h, m, j, t, u) =>
              /\ OtaSets(q, h, m, j, t, u) /\ Precedes("ota", q[1], q2, h.parts, j, t, u)
              /\ q[1].id # "Start"
<1>1. ~Silent("ota", q)  BY DEF Silent, Taken
<1>2. ASSUME NEW j, NEW stale, Starting(q, h, m, j, stale)
      PROVE  q[1] = Start("ota", j) /\ OtaAsks(q, h, m, j, stale) /\ Silent("ota", q2)
  <2>1. OtaAsks(q, h, m, j, stale)  BY <1>1, <1>2 DEF Starting, OtaOpened, OtaRefused
  <2>2. PICK k \in DOMAIN q :
          q[k] = Start("ota", j) /\ \A i \in DOMAIN q : q[i].from = "ota" => i = k
    BY <2>1 DEF OtaAsks
  <2>3. k = 1  BY <2>2 DEF Taken
  <2>4. ASSUME NEW i \in DOMAIN q2  PROVE q2[i].from # "ota"
    <3>1. i \in Nat \ {0} /\ i + 1 \in DOMAIN q /\ q2[i] = q[i + 1]  BY DEF Taken
    <3> QED  BY <2>2, <2>3, <3>1
  <2> QED  BY <2>1, <2>2, <2>3, <2>4 DEF Silent
<1>3. ASSUME NEW j, NEW t, NEW u, Sending(q, h, m, j, t, u)
      PROVE  /\ OtaSets(q, h, m, j, t, u) /\ Precedes("ota", q[1], q2, h.parts, j, t, u)
             /\ q[1].id # "Start"
  <2>1. OtaSets(q, h, m, j, t, u)  BY <1>1, <1>3 DEF Sending, OtaExecutes, OtaKnows
  <2>2. PICK ps : ps = h.parts  OBVIOUS
  <2>3. BurstLeft("ota", q, 0, ps, j, t, u)  BY <2>1, <2>2 DEF OtaSets
  <2>4. Precedes("ota", q[1], q2, ps, j, t, u)  BY <2>3, BurstHead
  <2>5. PICK x : x = q[1]  OBVIOUS
  <2>6. x.id # "Start"  BY <2>4, <2>5, PrecedesId
  <2> QED  BY <2>1, <2>2, <2>4, <2>5, <2>6
<1>4. \A j : Start("ota", j).id = "Start"  BY DEF Start
<1> QED  BY <1>1, <1>2, <1>3, <1>4 DEF OtaQuiet, OtaLeaves

\* The session is refused.
LEMMA OtaRefusal ==
  ASSUME NEW q, NEW q2, NEW h, NEW m, NEW o, NEW m2,
         OtaTalk(q, h, m, o), Taken(q, q2), q[1].from = "ota", q[1].id = "Start",
         h.state # "executing", IsQueue(m), m2 = Append(m, Opening(FALSE))
  PROVE  OtaTalk(q2, h, m2, o)
<1>1. /\ ~OtaQuiet(q, h, m) /\ \A j : ~OtaLeaves(q, h, m, j)
      /\ \A j, t, u : ~Sending(q, h, m, j, t, u)
  BY OtaFirst
<1>2. ASSUME NEW j, NEW stale, Starting(q, h, m, j, stale)  PROVE Starting(q2, h, m2, j, stale)
  <2>1. OtaAsks(q, h, m, j, stale) /\ Silent("ota", q2)  BY <1>2, OtaFirst
  <2>2. ~Streams(h)  BY DEF Streams, Posted
  <2>3. CASE m = <<>> /\ h.owner # "ota"
    <3>1. Ends(m2, FALSE, stale)  BY <2>3, AppendShort DEF Ends
    <3> QED  BY <2>1, <2>3, <3>1 DEF Starting, OtaRefused
  <2>4. CASE stale /\ h.owner # "ota" /\ Len(m) = 1 /\ Stale(m[1])
    <3>0. PICK x : x = Opening(FALSE)  OBVIOUS
    <3>2. Len(m) = 1 /\ IsQueue(m)  BY <2>4
    <3>3. Len(Append(m, x)) = 2 /\ Append(m, x)[1] = m[1] /\ Append(m, x)[2] = x
      BY ONLY <3>2, AppendSecond
    <3>1. Len(m2) = 2 /\ m2[1] = m[1] /\ m2[2] = Opening(FALSE)  BY <3>0, <3>3
    <3> QED  BY <2>1, <2>4, <3>1 DEF Starting, OtaRefused, Ends
  <2> QED  BY <2>1, <2>2, <2>3, <2>4 DEF OtaAsks
<1> QED  BY ONLY OtaTalk(q, h, m, o), <1>1, <1>2 DEF OtaTalk

\* The session is granted.
LEMMA OtaGrant ==
  ASSUME NEW q, NEW q2, NEW h, NEW h2, NEW m, NEW o, NEW m2,
         OtaTalk(q, h, m, o), Taken(q, q2), q[1].from = "ota", q[1].id = "Start",
         h.state = "idle", IsQueue(m), m2 = Append(m, Opening(TRUE)),
         h2 = [Unowned EXCEPT !.state = "open", !.owner = "ota", !.job = q[1].job]
  PROVE  OtaTalk(q2, h2, m2, o)
<1>1. /\ ~OtaQuiet(q, h, m) /\ \A j : ~OtaLeaves(q, h, m, j)
      /\ \A j, t, u : ~Sending(q, h, m, j, t, u)
  BY OtaFirst
<1>2. ASSUME NEW j, NEW stale, Starting(q, h, m, j, stale)  PROVE Starting(q2, h2, m2, j, stale)
  <2>1. OtaAsks(q, h, m, j, stale) /\ Silent("ota", q2) /\ q[1] = Start("ota", j)
    BY <1>2, OtaFirst
  <2>2. ~Streams(h)  BY DEF Streams, Posted
  <2>3. Fresh(h2, "ota", j)  BY <2>1 DEF Fresh, Unowned, Start
  <2>4. CASE m = <<>>
    <3>1. Ends(m2, TRUE, stale)  BY <2>4, AppendShort DEF Ends
    <3> QED  BY <2>1, <2>3, <3>1 DEF Starting, OtaOpened
  <2>5. CASE stale /\ Len(m) = 1 /\ Stale(m[1])
    <3>0. PICK x : x = Opening(TRUE)  OBVIOUS
    <3>2. Len(m) = 1 /\ IsQueue(m)  BY <2>5
    <3>3. Len(Append(m, x)) = 2 /\ Append(m, x)[1] = m[1] /\ Append(m, x)[2] = x
      BY ONLY <3>2, AppendSecond
    <3>1. Len(m2) = 2 /\ m2[1] = m[1] /\ m2[2] = Opening(TRUE)  BY <3>0, <3>3
    <3> QED  BY <2>1, <2>3, <2>5, <3>1 DEF Starting, OtaOpened, Ends
  <2> QED  BY <2>1, <2>2, <2>4, <2>5 DEF OtaAsks
<1> QED  BY ONLY OtaTalk(q, h, m, o), <1>1, <1>2 DEF OtaTalk

\* A part of the request is set.
LEMMA OtaPart ==
  ASSUME NEW q, NEW q2, NEW h, NEW h2, NEW m, NEW o,
         OtaTalk(q, h, m, o), Taken(q, q2), q[1].from = "ota", q[1].id = "Part",
         h2.state = h.state, h2.owner = h.owner, h2.job = h.job, h2.sink = h.sink,
         h2.parts = With(h.parts, q[1])
  PROVE  OtaTalk(q2, h2, m, o)
<1>1. /\ ~OtaQuiet(q, h, m) /\ \A j : ~OtaLeaves(q, h, m, j)
      /\ \A j, stale : ~Starting(q, h, m, j, stale)
  BY OtaFirst
<1>2. ASSUME NEW j, NEW t, NEW u, Sending(q, h, m, j, t, u)  PROVE Sending(q2, h2, m, j, t, u)
  <2>1. OtaSets(q, h, m, j, t, u) /\ Precedes("ota", q[1], q2, h.parts, j, t, u)
    BY <1>2, OtaFirst
  <2>2. PICK p \in Needs(j) :
          /\ q[1] = PartOf("ota", p, j, t, u)
          /\ BurstLeft("ota", q2, 0, h.parts \cup {[part |-> p, job |-> j]}, j, t, u)
    BY <2>1 DEF Precedes, Send
  <2>3. p # "sink" /\ q[1] = Part("ota", p, j)  BY <2>2 DEF PartOf, Sink
  <2>4. q[1].part = p /\ q[1].job = j  BY <2>3 DEF Part
  <2>5. Partly(h, "ota", j, t, u)  BY <2>1 DEF OtaSets
  <2>6. PICK ps, m1 : ps = h.parts /\ m1 = q[1]  OBVIOUS
  <2>7. PartsOf(ps, j) /\ m1.part = p /\ m1.job = j  BY <2>4, <2>5, <2>6 DEF Partly
  <2>8. With(ps, m1) = ps \cup {[part |-> p, job |-> j]} /\ PartsOf(With(ps, m1), j)
    BY <2>2, <2>7, WithFacts
  <2>9. h2.parts = h.parts \cup {[part |-> p, job |-> j]} /\ PartsOf(h2.parts, j)
    BY <2>6, <2>8
  <2>10. [part |-> "sink", job |-> j] \in h2.parts <=> [part |-> "sink", job |-> j] \in h.parts
    BY <2>3, <2>9
  <2>11. Partly(h2, "ota", j, t, u)  BY <2>5, <2>9, <2>10 DEF Partly
  <2>12. BurstLeft("ota", q2, 0, h2.parts, j, t, u)  BY <2>2, <2>9
  <2> QED  BY <2>1, <2>11, <2>12 DEF OtaSets, Sending
<1> QED  BY ONLY OtaTalk(q, h, m, o), <1>1, <1>2 DEF OtaTalk

\* The sink is set.
LEMMA OtaSink ==
  ASSUME NEW q, NEW q2, NEW h, NEW h2, NEW m, NEW o,
         OtaTalk(q, h, m, o), Taken(q, q2), q[1].from = "ota", q[1].id = "Sink",
         h2.state = h.state, h2.owner = h.owner, h2.job = h.job,
         h2.sink = [NoSink EXCEPT !.target = q[1].target, !.up = q[1].up],
         h2.parts = With(h.parts, [part |-> "sink", job |-> q[1].job])
  PROVE  OtaTalk(q2, h2, m, o)
<1>1. /\ ~OtaQuiet(q, h, m) /\ \A j : ~OtaLeaves(q, h, m, j)
      /\ \A j, stale : ~Starting(q, h, m, j, stale)
  BY OtaFirst
<1>2. ASSUME NEW j, NEW t, NEW u, Sending(q, h, m, j, t, u)  PROVE Sending(q2, h2, m, j, t, u)
  <2>1. OtaSets(q, h, m, j, t, u) /\ Precedes("ota", q[1], q2, h.parts, j, t, u)
    BY <1>2, OtaFirst
  <2>2. PICK p \in Needs(j) :
          /\ q[1] = PartOf("ota", p, j, t, u)
          /\ BurstLeft("ota", q2, 0, h.parts \cup {[part |-> p, job |-> j]}, j, t, u)
    <3>1. Send("ota").id # "Sink"  BY DEF Send
    <3>2. q[1] # Send("ota")  BY <3>1
    <3>3. \E p \in Needs(j) :
            /\ q[1] = PartOf("ota", p, j, t, u)
            /\ BurstLeft("ota", q2, 0, h.parts \cup {[part |-> p, job |-> j]}, j, t, u)
      BY ONLY <2>1, <3>2 DEF Precedes
    <3> QED  BY ONLY <3>3
  <2>3. p = "sink" /\ q[1] = Sink("ota", t, u, j)  BY <2>2 DEF PartOf, Part
  <2>4. q[1].job = j /\ q[1].target = t /\ q[1].up = u  BY <2>3 DEF Sink
  <2>5. Partly(h, "ota", j, t, u)  BY <2>1 DEF OtaSets
  <2>6. PICK ps, m1 : ps = h.parts /\ m1 = [part |-> p, job |-> j]  OBVIOUS
  <2>7. PartsOf(ps, j) /\ m1.part = p /\ m1.job = j  BY <2>5, <2>6 DEF Partly
  <2>8. With(ps, m1) = ps \cup {[part |-> p, job |-> j]} /\ PartsOf(With(ps, m1), j)
    BY <2>2, <2>7, WithFacts
  <2>9. h2.parts = h.parts \cup {[part |-> p, job |-> j]} /\ PartsOf(h2.parts, j)
    BY <2>3, <2>4, <2>6, <2>8
  <2>10. [part |-> "sink", job |-> j] \in h2.parts /\ h2.sink = [NoSink EXCEPT !.target = t, !.up = u]
    BY <2>3, <2>4, <2>9
  <2>11. Partly(h2, "ota", j, t, u)  BY <2>5, <2>9, <2>10 DEF Partly
  <2>12. BurstLeft("ota", q2, 0, h2.parts, j, t, u)  BY <2>2, <2>9
  <2> QED  BY <2>1, <2>11, <2>12 DEF OtaSets, Sending
<1> QED  BY ONLY OtaTalk(q, h, m, o), <1>1, <1>2 DEF OtaTalk

\* Nothing the client sets or sends is dropped: it does not go on before it is answered.
LEMMA OtaNeverDropped ==
  ASSUME NEW q, NEW q2, NEW h, NEW m, NEW o,
         OtaTalk(q, h, m, o), Taken(q, q2), q[1].from = "ota", q[1].id # "Start"
  PROVE  h.owner = "ota" /\ h.state = "open"
<1>1. /\ ~OtaQuiet(q, h, m) /\ \A j : ~OtaLeaves(q, h, m, j)
      /\ \A j, stale : ~Starting(q, h, m, j, stale)
  BY OtaFirst
<1>2. ASSUME NEW j, NEW t, NEW u, Sending(q, h, m, j, t, u)
      PROVE  h.owner = "ota" /\ h.state = "open"
  BY <1>2, OtaFirst DEF OtaSets, Partly
<1> QED  BY ONLY OtaTalk(q, h, m, o), <1>1, <1>2 DEF OtaTalk

\* The request is sent.
LEMMA OtaSent ==
  ASSUME NEW q, NEW q2, NEW h, NEW h2, NEW m, NEW o, o.slot \in DOMAIN Slots,
         OtaTalk(q, h, m, o), Taken(q, q2), q[1].from = "ota", q[1].id = "Send",
         h2.state = "executing", h2.owner = h.owner, h2.job = h.job, h2.sink = h.sink,
         h2.parts = h.parts
  PROVE  OtaTalk(q2, h2, m, o)
<1>1. /\ ~OtaQuiet(q, h, m) /\ \A j : ~OtaLeaves(q, h, m, j)
      /\ \A j, stale : ~Starting(q, h, m, j, stale)
  BY OtaFirst
<1>2. ASSUME NEW j \in OtaJobs, NEW t, NEW u, Sending(q, h, m, j, t, u)
      PROVE  Sending(q2, h2, m, j, t, u)
  <2>1. OtaSets(q, h, m, j, t, u) /\ Precedes("ota", q[1], q2, h.parts, j, t, u)
    BY <1>2, OtaFirst
  <2>2. \A p : PartOf("ota", p, j, t, u).id # "Send"  BY DEF PartOf, Part, Sink
  <2>3. Silent("ota", q2) /\ \A p \in Needs(j) : [part |-> p, job |-> j] \in h.parts
    BY <2>1, <2>2 DEF Precedes
  <2>4. Partly(h, "ota", j, t, u)  BY <2>1 DEF OtaSets
  <2>5. CASE j.kind = "image"
    <3>1. "sink" \in Needs(j)  BY <2>5 DEF Needs
    <3>2. h.sink = [NoSink EXCEPT !.target = t, !.up = u]  BY <2>3, <2>4, <3>1 DEF Partly
    <3>3. h2.sink.target = t /\ h2.sink.up = u  BY <3>2 DEF NoSink
    <3>4. Posted(h2, "ota", j, t, u)  BY <2>3, <2>4, <2>5, <3>3 DEF Partly, Posted
    <3> QED  BY <2>1, <2>3, <3>4 DEF OtaSets, OtaExecutes, Sending
  <2>6. CASE j.kind # "image"
    <3>1. j.kind = "check"  BY <2>6 DEF OtaJobs
    <3>2. "sink" \notin Needs(j)  BY <3>1 DEF Needs
    <3>3. [part |-> "sink", job |-> j] \notin h.parts  BY <2>4, <3>2 DEF Partly, PartsOf
    <3>4. h.sink = NoSink  BY <2>4, <3>3 DEF Partly
    <3>5. Posted(h2, "ota", j, t, u)  BY <2>3, <2>4, <2>6, <3>4 DEF Partly, Posted
    <3> QED  BY <2>1, <2>3, <3>5 DEF OtaSets, OtaExecutes, Sending
  <2> QED  BY <2>5, <2>6
<1>3. CheckJob(o.slot) \in OtaJobs /\ ImageJob(o.slot) \in OtaJobs
  BY DEF CheckJob, ImageJob, OtaJobs
<1> QED  BY ONLY OtaTalk(q, h, m, o), <1>1, <1>2, <1>3 DEF OtaTalk

\* While a request is executed nothing but the next one can be queued.
LEMMA OtaExecuting ==
  ASSUME NEW q, NEW h, NEW m, NEW o, o.slot \in DOMAIN Slots,
         OtaTalk(q, h, m, o), h.owner = "ota", h.state = "executing"
  PROVE  /\ m = <<>> /\ h.job \in OtaJobs
         /\ h.job.kind = "image" => h.sink.target \in Targets
         /\ h.job.kind # "image" => h.sink = NoSink
<1>1. ~OtaQuiet(q, h, m) /\ \A j : ~OtaLeaves(q, h, m, j)
  BY DEF OtaQuiet, OtaLeaves, Fresh
<1>2. ASSUME NEW j, NEW stale, Starting(q, h, m, j, stale)
      PROVE  /\ m = <<>> /\ h.job \in OtaJobs /\ h.sink.target \in Targets
             /\ h.job.kind = "image"
  <2>1. Streams(h) /\ m = <<>>  BY <1>2 DEF Starting, OtaAsks, OtaOpened, OtaRefused, Fresh
  <2> QED  BY <2>1 DEF Streams, Posted
<1>3. ASSUME NEW j, NEW t, NEW u, Sending(q, h, m, j, t, u)
      PROVE  m = <<>> /\ Posted(h, "ota", j, t, u)
  BY <1>3 DEF Sending, OtaSets, OtaKnows, Partly, OtaExecutes
<1>4. CheckJob(o.slot) \in OtaJobs /\ ImageJob(o.slot) \in OtaJobs /\ CheckJob(o.slot).kind = "check"
  BY DEF CheckJob, ImageJob, OtaJobs
<1>5. ASSUME NEW j \in OtaJobs, NEW t, NEW u, Posted(h, "ota", j, t, u),
             j.kind = "image" => t \in Targets
      PROVE  /\ h.job \in OtaJobs
             /\ h.job.kind = "image" => h.sink.target \in Targets
             /\ h.job.kind # "image" => h.sink = NoSink
  BY <1>5 DEF Posted
<1>6. m = <<>>  BY ONLY OtaTalk(q, h, m, o), <1>1, <1>2, <1>3 DEF OtaTalk
<1>7. (\E j, stale : Starting(q, h, m, j, stale))
      \/ \E j \in OtaJobs : \E t, u : Sending(q, h, m, j, t, u) /\ (j.kind = "image" => t \in Targets)
  BY ONLY OtaTalk(q, h, m, o), <1>1, <1>4 DEF OtaTalk
<1> QED  BY <1>2, <1>3, <1>5, <1>6, <1>7

\* The request is over.
LEMMA OtaResult ==
  ASSUME NEW q, NEW h, NEW h2, NEW m, NEW o, NEW m2, NEW x, o.slot \in DOMAIN Slots,
         OtaTalk(q, h, m, o), h.owner = "ota", h.state = "executing",
         x.id = "Result", x.job = h.job, x.ok \in BOOLEAN, x.body \in BOOLEAN,
         h.job.kind = "image" => ~x.body, h2.owner # "ota", m2 = Append(m, x)
  PROVE  OtaTalk(q, h2, m2, o)
<1>1. m = <<>>  BY OtaExecuting
<1>2. Len(m2) = 1 /\ m2[1] = x  BY <1>1, AppendShort
<1>3. ~OtaQuiet(q, h, m) /\ \A j : ~OtaLeaves(q, h, m, j)
  BY DEF OtaQuiet, OtaLeaves, Fresh
<1>4. ASSUME NEW j, NEW stale, Starting(q, h, m, j, stale)  PROVE Starting(q, h2, m2, j, stale)
  <2>1. OtaAsks(q, h, m, j, stale) /\ stale /\ Streams(h)
    BY <1>4 DEF Starting, OtaAsks, OtaOpened, OtaRefused, Fresh
  <2>2. h.job.kind = "image"  BY <2>1 DEF Streams, Posted
  <2>3. Stale(m2[1])  BY <1>2, <2>2 DEF Stale
  <2> QED  BY <1>2, <2>1, <2>3 DEF OtaAsks, Starting
<1>5. ASSUME NEW j, NEW t, NEW u, Sending(q, h, m, j, t, u)  PROVE Sending(q, h2, m2, j, t, u)
  <2>1. OtaExecutes(q, h, m, j, t, u)
    BY <1>5 DEF Sending, OtaSets, OtaKnows, Partly
  <2>2. h.job = j /\ Silent("ota", q)  BY <2>1 DEF OtaExecutes, Posted
  <2>3. IsResult(m2[1], j)  BY <1>2, <2>2 DEF IsResult
  <2> QED  BY <1>2, <2>2, <2>3 DEF OtaKnows, Sending
<1> QED  BY ONLY OtaTalk(q, h, m, o), <1>3, <1>4, <1>5 DEF OtaTalk

\* The timer gives up a session that the client has left.
LEMMA OtaWoken ==
  ASSUME NEW q, NEW q2, NEW h, NEW h2, NEW m, NEW o, NEW m2, NEW x,
         OtaTalk(q, h, m, o), h.owner = "ota", h.state = "open", Silent("ota", q), m = <<>>,
         Aside(q, q2, "ota"), IsQueue(q), h2.owner # "ota", m2 = Append(m, x),
         x.id = "Result", x.job = h.job, x.ok = FALSE, x.body = FALSE
  PROVE  OtaTalk(q2, h2, m2, o)
<1>1. Silent("ota", q2)  BY AsideFacts
<1>2. Len(m2) = 1 /\ m2[1] = x  BY AppendShort
<1>3. ~OtaQuiet(q, h, m)  BY DEF OtaQuiet
<1>4. ASSUME NEW j, NEW stale  PROVE ~Starting(q, h, m, j, stale)
  <2>1. ~OtaAsks(q, h, m, j, stale)  BY DEF OtaAsks, Silent, Start
  <2>2. ~OtaOpened(q, h, m, j, stale) /\ ~OtaRefused(q, h, m, stale)
    BY DEF OtaOpened, OtaRefused, Ends
  <2> QED  BY <2>1, <2>2 DEF Starting
<1>5. ASSUME NEW j, NEW t, NEW u  PROVE ~Sending(q, h, m, j, t, u)
  <2>1. ~OtaSets(q, h, m, j, t, u)  BY DEF OtaSets, BurstLeft, Silent, Send
  <2>2. ~OtaExecutes(q, h, m, j, t, u) /\ ~OtaKnows(q, h, m, j)
    BY DEF OtaExecutes, OtaKnows, Posted
  <2> QED  BY <2>1, <2>2 DEF Sending
<1>6. /\ o.state = "idle" /\ o.phase = "idle"
      /\ \E j \in OtaJobs, t \in Targets, u \in Nat : OtaLeaves(q, h, m, j)
  BY ONLY OtaTalk(q, h, m, o), <1>3, <1>4, <1>5 DEF OtaTalk
<1>7. PICK j \in OtaJobs, t \in Targets, u \in Nat : OtaLeaves(q, h, m, j)  BY <1>6
<1>8. IsResult(x, j)  BY <1>7 DEF OtaLeaves, Fresh, IsResult
<1>9. Sending(q2, h2, m2, j, t, u)  BY <1>1, <1>2, <1>8 DEF OtaKnows, Sending
<1> QED  BY <1>6, <1>7, <1>9 DEF OtaTalk

\* A chunk of the image is written, or could not be.
LEMMA OtaStreamed ==
  ASSUME NEW q, NEW h, NEW h2, NEW m, NEW o,
         OtaTalk(q, h, m, o), h.state = "executing", h.sink.target # None,
         h2.state = h.state, h2.owner = h.owner, h2.job = h.job, h2.parts = h.parts,
         h2.sink.target = h.sink.target, h2.sink.up = h.sink.up
  PROVE  OtaTalk(q, h2, m, o)
<1>1. ASSUME NEW j, NEW t, NEW u, Posted(h, "ota", j, t, u)  PROVE Posted(h2, "ota", j, t, u)
  <2>1. h.sink # NoSink  BY DEF NoSink
  <2> QED  BY <1>1, <2>1 DEF Posted
<1>2. Streams(h) => Streams(h2)  BY <1>1 DEF Streams
<1>3. OtaQuiet(q, h, m) => OtaQuiet(q, h2, m)  BY DEF OtaQuiet
<1>4. \A j : ~OtaLeaves(q, h, m, j)  BY DEF OtaLeaves, Fresh
<1>5. ASSUME NEW j, NEW stale, Starting(q, h, m, j, stale)  PROVE Starting(q, h2, m, j, stale)
  BY <1>2, <1>5 DEF Starting, OtaAsks, OtaOpened, OtaRefused, Fresh
<1>6. ASSUME NEW j, NEW t, NEW u, Sending(q, h, m, j, t, u)  PROVE Sending(q, h2, m, j, t, u)
  BY <1>1, <1>6 DEF Sending, OtaSets, OtaExecutes, OtaKnows, Partly
<1> QED  BY ONLY OtaTalk(q, h, m, o), <1>3, <1>4, <1>5, <1>6 DEF OtaTalk

-----------------------------------------------------------------------------
(* The conversation of the web OTA client, as the client goes on with it.   *)

LEMMA EmptyQueue == ASSUME NEW q, IsQueue(q), Len(q) = 0  PROVE q = <<>>
BY DEF IsQueue

\* What the client hears first when it has asked for a session: the result of a request
\* it forgot, or the answer.
Hears(q, h, m, m2, j, stale) ==
  \/ m[1].id = "Result" /\ ~m[1].body /\ stale /\ Starting(q, h, m2, j, stale)
  \/ m[1] = Opening(TRUE) /\ m2 = <<>> /\ Silent("ota", q) /\ Fresh(h, "ota", j)
  \/ m[1] = Opening(FALSE) /\ m2 = <<>> /\ OtaQuiet(q, h, m2)

LEMMA OtaHears ==
  ASSUME NEW q, NEW h, NEW m, NEW m2, Taken(m, m2), IsQueue(m2)
  PROVE  /\ ~OtaQuiet(q, h, m) /\ \A j : ~OtaLeaves(q, h, m, j)
         /\ \A j, stale : Starting(q, h, m, j, stale) => Hears(q, h, m, m2, j, stale)
         /\ \A j, t, u : Sending(q, h, m, j, t, u) => IsResult(m[1], j) /\ OtaQuiet(q, h, m2)
<1>1. m # <<>> /\ Len(m) \in Nat \ {0} /\ Len(m2) = Len(m) - 1  BY DEF Taken
<1>2. Len(m) = 1 => m2 = <<>>
  <2>1. ASSUME Len(m) = 1  PROVE m2 = <<>>
    <3>1. Len(m2) = 0  BY <1>1, <2>1
    <3> QED  BY <3>1, EmptyQueue
  <2> QED  BY <2>1
<1>3. Len(m) = 2 => Len(m2) = 1 /\ m2[1] = m[2]  BY DEF Taken
<1>4. ~OtaQuiet(q, h, m) /\ \A j : ~OtaLeaves(q, h, m, j)  BY <1>1 DEF OtaQuiet, OtaLeaves
<1>5. ASSUME NEW j, NEW stale, Starting(q, h, m, j, stale)
      PROVE  Hears(q, h, m, m2, j, stale)
  <2>1. CASE OtaAsks(q, h, m, j, stale)
    <3>1. stale /\ h.owner # "ota" /\ Len(m) = 1 /\ Stale(m[1])  BY <1>1, <2>1 DEF OtaAsks
    <3>2. OtaAsks(q, h, m2, j, stale)  BY <1>2, <2>1, <3>1 DEF OtaAsks
    <3> QED  BY <3>1, <3>2 DEF Stale, Starting, Hears
  <2>2. CASE OtaOpened(q, h, m, j, stale)
    <3>1. CASE Len(m) = 1 /\ m[1] = Opening(TRUE)
      BY <1>2, <2>2, <3>1 DEF OtaOpened, Hears
    <3>2. CASE stale /\ Len(m) = 2 /\ Stale(m[1]) /\ m[2] = Opening(TRUE)
      <4>1. Ends(m2, TRUE, stale)  BY <1>3, <3>2 DEF Ends
      <4>2. OtaOpened(q, h, m2, j, stale)  BY <2>2, <4>1 DEF OtaOpened
      <4> QED  BY <3>2, <4>2 DEF Stale, Starting, Hears
    <3> QED  BY <2>2, <3>1, <3>2 DEF OtaOpened, Ends
  <2>3. CASE OtaRefused(q, h, m, stale)
    <3>1. CASE Len(m) = 1 /\ m[1] = Opening(FALSE)
      BY <1>2, <2>3, <3>1 DEF OtaRefused, OtaQuiet, Hears
    <3>2. CASE stale /\ Len(m) = 2 /\ Stale(m[1]) /\ m[2] = Opening(FALSE)
      <4>1. Ends(m2, FALSE, stale)  BY <1>3, <3>2 DEF Ends
      <4>2. OtaRefused(q, h, m2, stale)  BY <2>3, <4>1 DEF OtaRefused
      <4> QED  BY <3>2, <4>2 DEF Stale, Starting, Hears
    <3> QED  BY <2>3, <3>1, <3>2 DEF OtaRefused, Ends
  <2> QED  BY <1>5, <2>1, <2>2, <2>3 DEF Starting
<1>6. ASSUME NEW j, NEW t, NEW u, Sending(q, h, m, j, t, u)
      PROVE  IsResult(m[1], j) /\ OtaQuiet(q, h, m2)
  <2>1. OtaKnows(q, h, m, j)  BY <1>1, <1>6 DEF Sending, OtaSets, OtaExecutes
  <2> QED  BY <1>2, <2>1 DEF OtaKnows, OtaQuiet
<1> QED  BY <1>4, <1>5, <1>6

\* An answer the client does not wait for: it leaves the session to the timer.
LEMMA OtaOpeningIgnored ==
  ASSUME NEW q, NEW h, NEW m, NEW m2, NEW o, OtaTalk(q, h, m, o), Taken(m, m2), IsQueue(m2),
         m[1].id = "StartResponse", o.phase # "starting"
  PROVE  OtaTalk(q, h, m2, o)
<1>1. ~OtaQuiet(q, h, m) /\ \A j : ~OtaLeaves(q, h, m, j)  BY OtaHears
<1>2. ASSUME NEW j, NEW stale, Starting(q, h, m, j, stale)
      PROVE  OtaQuiet(q, h, m2) \/ OtaLeaves(q, h, m2, j)
  <2>1. Hears(q, h, m, m2, j, stale)  BY <1>2, OtaHears
  <2> QED  BY <2>1 DEF Hears, OtaLeaves
<1>3. \A j, t, u : ~Sending(q, h, m, j, t, u)  BY OtaHears DEF IsResult
<1> QED  BY ONLY OtaTalk(q, h, m, o), <1>1, <1>2, <1>3, o.phase # "starting" DEF OtaTalk

\* The session was refused: the client is quiet.
LEMMA OtaBusy ==
  ASSUME NEW q, NEW h, NEW m, NEW m2, NEW o, NEW o2, OtaTalk(q, h, m, o), Taken(m, m2),
         IsQueue(m2), m[1].id = "StartResponse", ~m[1].ok, o.phase = "starting",
         o2.state = "idle", o2.phase = "idle"
  PROVE  OtaTalk(q, h, m2, o2) /\ OtaQuiet(q, h, m2)
<1>1. ~OtaQuiet(q, h, m) /\ \A j : ~OtaLeaves(q, h, m, j)  BY OtaHears
<1>2. ASSUME NEW j, NEW stale, Starting(q, h, m, j, stale)  PROVE OtaQuiet(q, h, m2)
  <2>1. Hears(q, h, m, m2, j, stale)  BY <1>2, OtaHears
  <2> QED  BY <2>1 DEF Hears, Opening
<1>3. \A j, t, u : ~Sending(q, h, m, j, t, u)  BY OtaHears DEF IsResult
<1>4. OtaQuiet(q, h, m2)  BY ONLY OtaTalk(q, h, m, o), <1>1, <1>2, <1>3 DEF OtaTalk
<1> QED  BY <1>4 DEF OtaTalk

\* A result the client does not wait for.
LEMMA OtaResultIgnored ==
  ASSUME NEW q, NEW h, NEW m, NEW m2, NEW o, OtaTalk(q, h, m, o), Taken(m, m2), IsQueue(m2),
         m[1].id = "Result", o.state \notin {"check", "download"}
  PROVE  OtaTalk(q, h, m2, o)
<1>1. ~OtaQuiet(q, h, m) /\ \A j : ~OtaLeaves(q, h, m, j)  BY OtaHears
<1>2. ASSUME NEW j, NEW stale, Starting(q, h, m, j, stale)  PROVE Starting(q, h, m2, j, stale)
  <2>1. Hears(q, h, m, m2, j, stale)  BY <1>2, OtaHears
  <2> QED  BY <2>1 DEF Hears, Opening
<1>3. \A j, t, u : Sending(q, h, m, j, t, u) => OtaQuiet(q, h, m2)  BY OtaHears
<1> QED  BY ONLY OtaTalk(q, h, m, o), <1>1, <1>2, <1>3, o.state \notin {"check", "download"}
     DEF OtaTalk

\* A check is over, or what the client takes for it.
LEMMA OtaCheckIsOver ==
  ASSUME NEW q, NEW h, NEW m, NEW m2, NEW o, NEW o2, OtaTalk(q, h, m, o), Taken(m, m2),
         IsQueue(m2), m[1].id = "Result", o.state = "check", o.slot \in DOMAIN Slots,
         o2.state = "idle", o2.phase = "idle"
  PROVE  OtaTalk(q, h, m2, o2)
<1>1. ASSUME NEW j, NEW stale, Starting(q, h, m, j, stale)  PROVE Starting(q, h, m2, j, stale)
  <2>1. Hears(q, h, m, m2, j, stale)  BY <1>1, OtaHears
  <2> QED  BY <2>1 DEF Hears, Opening
<1>2. \A j, t, u : Sending(q, h, m, j, t, u) => OtaQuiet(q, h, m2)  BY OtaHears
<1>3. CheckJob(o.slot) \in OtaJobs  BY DEF CheckJob, OtaJobs
<1>4. PICK t : t \in Targets  BY SlotsAssumption
<1>5. Starting(q, h, m2, CheckJob(o.slot), TRUE) \/ OtaQuiet(q, h, m2)
  BY ONLY OtaTalk(q, h, m, o), <1>1, <1>2, o.state = "check" DEF OtaTalk
<1>6. 0 \in Nat  OBVIOUS
<1> QED  BY <1>3, <1>4, <1>5, <1>6 DEF OtaTalk

\* The answer to a check has a body: it is the one the client waits for.
LEMMA OtaUpdateFound ==
  ASSUME NEW q, NEW h, NEW m, NEW m2, NEW o, NEW o2, OtaTalk(q, h, m, o), Taken(m, m2),
         IsQueue(m2), m[1].id = "Result", m[1].body, o.state = "check", o2.state = "session"
  PROVE  OtaTalk(q, h, m2, o2) /\ OtaQuiet(q, h, m2) /\ m[1].job = CheckJob(o.slot)
<1>1. ASSUME NEW j, NEW stale  PROVE ~Starting(q, h, m, j, stale)
  <2>1. ASSUME Starting(q, h, m, j, stale)  PROVE FALSE
    <3>1. Hears(q, h, m, m2, j, stale)  BY <2>1, OtaHears
    <3> QED  BY <3>1 DEF Hears, Opening
  <2> QED  BY <2>1
<1>2. ASSUME NEW j, NEW t, NEW u, Sending(q, h, m, j, t, u)
      PROVE  OtaQuiet(q, h, m2) /\ m[1].job = j
  BY <1>2, OtaHears DEF IsResult
<1>3. OtaQuiet(q, h, m2) /\ m[1].job = CheckJob(o.slot)
  BY ONLY OtaTalk(q, h, m, o), <1>1, <1>2, o.state = "check" DEF OtaTalk
<1> QED  BY <1>3 DEF OtaTalk

\* A download is over: the result is its own.
LEMMA OtaDownloadIsOver ==
  ASSUME NEW q, NEW h, NEW m, NEW m2, NEW o, NEW o2, OtaTalk(q, h, m, o), Taken(m, m2),
         IsQueue(m2), m[1].id = "Result", o.state = "download",
         o2.state = "idle", o2.phase = "idle"
  PROVE  OtaTalk(q, h, m2, o2) /\ OtaQuiet(q, h, m2) /\ Len(m) = 1 /\ m[1].ok \in BOOLEAN
<1>1. ASSUME NEW j  PROVE ~Starting(q, h, m, j, FALSE)
  <2>1. ASSUME Starting(q, h, m, j, FALSE)  PROVE FALSE
    <3>1. Hears(q, h, m, m2, j, FALSE)  BY <2>1, OtaHears
    <3> QED  BY <3>1 DEF Hears, Opening
  <2> QED  BY <2>1
<1>2. ASSUME NEW j, NEW t, NEW u, Sending(q, h, m, j, t, u)
      PROVE  OtaQuiet(q, h, m2) /\ Len(m) = 1 /\ m[1].ok \in BOOLEAN
  <2>1. IsResult(m[1], j) /\ OtaQuiet(q, h, m2)  BY <1>2, OtaHears
  <2>2. m # <<>>  BY DEF Taken
  <2> QED  BY <1>2, <2>1, <2>2 DEF Sending, OtaSets, OtaExecutes, OtaKnows, IsResult
<1>3. OtaQuiet(q, h, m2) /\ Len(m) = 1 /\ m[1].ok \in BOOLEAN
  BY ONLY OtaTalk(q, h, m, o), <1>1, <1>2, o.state = "download" DEF OtaTalk
<1> QED  BY <1>3 DEF OtaTalk

\* The client asks for a session.
LEMMA OtaAskedLast ==
  ASSUME NEW q, NEW q2, NEW j, IsQueue(q), Silent("ota", q), q2 = Append(q, Start("ota", j))
  PROVE  \E k \in DOMAIN q2 : /\ q2[k] = Start("ota", j)
                              /\ \A i \in DOMAIN q2 : q2[i].from = "ota" => i = k
<1>1. PICK x : x = Start("ota", j)  OBVIOUS
<1>2. Added(q, Append(q, x), <<x>>)  BY QueueAppend
<1>3. Len(<<x>>) = 1 /\ <<x>>[1] = x  OBVIOUS
<1>4. /\ Len(q) \in Nat /\ DOMAIN q = 1..Len(q) /\ DOMAIN q2 = 1..(Len(q) + 1)
      /\ q2[Len(q) + 1] = x /\ \A k \in 1..Len(q) : q2[k] = q[k]
  BY <1>1, <1>2, <1>3 DEF Added
<1>5. \A i \in DOMAIN q2 : q2[i].from = "ota" => i = Len(q) + 1  BY <1>4 DEF Silent
<1> QED  BY <1>1, <1>4, <1>5

\* A check begins: at most a download that was forgotten is still under way.
LEMMA OtaTicked ==
  ASSUME NEW q, NEW q2, NEW h, NEW m, NEW o, NEW o2, OtaTalk(q, h, m, o), IsQueue(q),
         o.state = "idle", Silent("ota", q), m = <<>>,
         h.owner # "ota" \/ (h.state = "executing" /\ h.sink.target # None),
         o2.state = "check", o2.phase = "starting",
         q2 = Append(q, Start("ota", CheckJob(o2.slot)))
  PROVE  OtaTalk(q2, h, m, o2)
<1>1. PICK k \in DOMAIN q2 : /\ q2[k] = Start("ota", CheckJob(o2.slot))
                             /\ \A i \in DOMAIN q2 : q2[i].from = "ota" => i = k
  BY OtaAskedLast
<1>2. CASE h.owner # "ota"  BY <1>1, <1>2 DEF OtaAsks, Starting, OtaTalk
<1>3. CASE h.owner = "ota" /\ h.state = "executing" /\ h.sink.target # None
  <2>1. ~OtaQuiet(q, h, m) /\ \A j : ~OtaLeaves(q, h, m, j)
    BY <1>3 DEF OtaQuiet, OtaLeaves, Fresh
  <2>2. ASSUME NEW j, NEW stale  PROVE ~Starting(q, h, m, j, stale)
    <3>1. ~OtaAsks(q, h, m, j, stale)  BY DEF OtaAsks, Silent, Start
    <3> QED  BY <1>3, <3>1 DEF Starting, OtaOpened, OtaRefused, Fresh
  <2>3. \E j \in OtaJobs, t \in Targets, u \in Nat : Sending(q, h, m, j, t, u)
    BY ONLY OtaTalk(q, h, m, o), <2>1, <2>2, o.state = "idle" DEF OtaTalk
  <2>4. PICK j \in OtaJobs, t \in Targets, u \in Nat : Sending(q, h, m, j, t, u)  BY <2>3
  <2>5. Posted(h, "ota", j, t, u)
    BY <1>3, <2>4 DEF Sending, OtaSets, OtaExecutes, OtaKnows, Partly
  <2>6. h.sink # NoSink  BY <1>3 DEF NoSink
  <2>7. j.kind = "image"  BY <2>5, <2>6 DEF Posted
  <2>8. Streams(h)  BY <2>5, <2>7 DEF Streams
  <2> QED  BY <1>1, <2>8 DEF OtaAsks, Starting, OtaTalk
<1> QED  BY <1>2, <1>3

\* The driver is there: the client asks for the session of the download.
LEMMA OtaDriverArrives ==
  ASSUME NEW q, NEW q2, NEW h, NEW m, NEW o, NEW o2, OtaTalk(q, h, m, o), IsQueue(q),
         o.state = "driver", o2.state = "download", o2.phase = "starting",
         q2 = Append(q, Start("ota", ImageJob(o2.slot)))
  PROVE  OtaTalk(q2, h, m, o2) /\ OtaQuiet(q, h, m)
<1>1. OtaQuiet(q, h, m)  BY DEF OtaTalk
<1>2. PICK k \in DOMAIN q2 : /\ q2[k] = Start("ota", ImageJob(o2.slot))
                             /\ \A i \in DOMAIN q2 : q2[i].from = "ota" => i = k
  BY <1>1, OtaAskedLast DEF OtaQuiet
<1> QED  BY <1>1, <1>2 DEF OtaAsks, Starting, OtaTalk, OtaQuiet

\* OtaModule answers; no request to the HTTP module is under way meanwhile.
LEMMA OtaAnswered ==
  ASSUME NEW q, NEW h, NEW m, NEW o, NEW o2, OtaTalk(q, h, m, o),
         o.state \in {"session", "driver"},
         o2.state = "driver" \/ (o2.state = "idle" /\ o2.phase = "idle")
  PROVE  OtaTalk(q, h, m, o2)
<1>1. OtaQuiet(q, h, m)  BY DEF OtaTalk
<1> QED  BY <1>1 DEF OtaTalk

\* The request for a check is the same for whatever sink.
LEMMA CheckHasNoSink ==
  ASSUME NEW q, NEW h, NEW m, NEW j, NEW t, NEW u, NEW t2, NEW u2,
         j.kind = "check", Sending(q, h, m, j, t, u)
  PROVE  Sending(q, h, m, j, t2, u2)
<1>1. Needs(j) = {"ca", "url", "header", "body"}  BY DEF Needs
<1>2. \A p \in Needs(j) : PartOf("ota", p, j, t, u) = PartOf("ota", p, j, t2, u2)
  BY <1>1 DEF PartOf
<1>3. CASE OtaSets(q, h, m, j, t, u)
  <2>1. Partly(h, "ota", j, t, u)  BY <1>3 DEF OtaSets
  <2>2. [part |-> "sink", job |-> j] \notin h.parts  BY <1>1, <2>1 DEF Partly, PartsOf
  <2>3. Partly(h, "ota", j, t2, u2)  BY <2>1, <2>2 DEF Partly
  <2>4. BurstLeft("ota", q, 0, h.parts, j, t, u)  BY <1>3 DEF OtaSets
  <2>5. BurstLeft("ota", q, 0, h.parts, j, t2, u2)  BY <1>2, <2>4 DEF BurstLeft
  <2> QED  BY <1>3, <2>3, <2>5 DEF OtaSets, Sending
<1>4. CASE OtaExecutes(q, h, m, j, t, u)  BY <1>4 DEF OtaExecutes, Posted, Sending
<1>5. CASE OtaKnows(q, h, m, j)  BY <1>5 DEF Sending
<1> QED  BY <1>3, <1>4, <1>5 DEF Sending

\* The client forgets what it was doing.
LEMMA OtaForgets ==
  ASSUME NEW q, NEW h, NEW m, NEW o, NEW o2, OtaTalk(q, h, m, o), o.slot \in DOMAIN Slots,
         o.up \in Nat, o2.state = "idle", o2.phase = "idle"
  PROVE  OtaTalk(q, h, m, o2)
<1>1. PICK t : t \in Targets  BY SlotsAssumption
<1>2. CheckJob(o.slot) \in OtaJobs /\ ImageJob(o.slot) \in OtaJobs /\ CheckJob(o.slot).kind = "check"
  BY DEF CheckJob, ImageJob, OtaJobs
<1>3. ASSUME NEW j, NEW stale, Starting(q, h, m, j, stale)  PROVE Starting(q, h, m, j, TRUE)
  BY <1>3 DEF Starting, OtaAsks, OtaOpened, OtaRefused, Ends
<1>4. ASSUME Sending(q, h, m, CheckJob(o.slot), None, 0)
      PROVE  Sending(q, h, m, CheckJob(o.slot), t, 0)
  <2>1. PICK j : j = CheckJob(o.slot)  OBVIOUS
  <2>2. j.kind = "check" /\ Sending(q, h, m, j, None, 0)  BY <1>2, <1>4, <2>1
  <2>3. Sending(q, h, m, j, t, 0)  BY ONLY <2>2, CheckHasNoSink
  <2> QED  BY <2>1, <2>3
<1>5. 0 \in Nat  OBVIOUS
<1>6. \/ OtaQuiet(q, h, m)
      \/ \E j \in OtaJobs, x \in Targets, u \in Nat :
            Starting(q, h, m, j, TRUE) \/ Sending(q, h, m, j, x, u) \/ OtaLeaves(q, h, m, j)
  BY ONLY OtaTalk(q, h, m, o), <1>1, <1>2, <1>3, <1>4, <1>5, o.up \in Nat DEF OtaTalk
<1> QED  BY <1>6 DEF OtaTalk

\* The rest of a request for job j, put in the queue in one step.
IsBurst(c, b, j, t, u) ==
  /\ IsQueue(b) /\ Len(b) \in Nat \ {0} /\ b[Len(b)] = Send(c)
  /\ \A k \in 1..Len(b) : k # Len(b) => \E p \in Needs(j) : b[k] = PartOf(c, p, j, t, u)
  /\ \A p \in Needs(j) : \E k \in 1..Len(b) : k # Len(b) /\ b[k] = PartOf(c, p, j, t, u)

LEMMA BurstAdded ==
  ASSUME NEW c, NEW q, NEW q2, NEW b, NEW lo \in Nat, NEW j, NEW t, NEW u, Added(q, q2, b),
         lo <= Len(q), \A k \in DOMAIN q : lo < k => q[k].from # c, IsBurst(c, b, j, t, u)
  PROVE  BurstLeft(c, q2, lo, {}, j, t, u)
<1>1. /\ Len(q) \in Nat /\ Len(b) \in Nat \ {0} /\ DOMAIN q = 1..Len(q)
      /\ DOMAIN q2 = 1..(Len(q) + Len(b))
      /\ \A k \in 1..Len(q) : q2[k] = q[k]
      /\ \A k \in 1..Len(b) : q2[Len(q) + k] = b[k]
  BY DEF Added, IsBurst
<1>2. PICK e : e = Len(q) + Len(b)  OBVIOUS
<1>3. e \in DOMAIN q2 /\ lo < e /\ Len(b) \in 1..Len(b)  BY <1>1, <1>2
<1>4. q2[e] = Send(c)  BY <1>1, <1>2, <1>3 DEF IsBurst
<1>5. ASSUME NEW k \in DOMAIN q2, lo < k, q2[k].from = c
      PROVE  k = e \/ (k < e /\ \E p \in Needs(j) : q2[k] = PartOf(c, p, j, t, u))
  <2>1. k \notin 1..Len(q)  BY <1>1, <1>5
  <2>2. k - Len(q) \in 1..Len(b) /\ k = Len(q) + (k - Len(q))  BY <1>1, <2>1
  <2>3. q2[k] = b[k - Len(q)]  BY <1>1, <2>2
  <2>4. k - Len(q) = Len(b) => k = e  BY <1>1, <1>2, <2>2
  <2>5. k - Len(q) # Len(b) => k < e  BY <1>1, <1>2, <2>2
  <2>6. k - Len(q) # Len(b) => \E p \in Needs(j) : b[k - Len(q)] = PartOf(c, p, j, t, u)
    BY <2>2 DEF IsBurst
  <2> QED  BY <2>3, <2>4, <2>5, <2>6
<1>6. ASSUME NEW p \in Needs(j)
      PROVE  \E k \in DOMAIN q2 : lo < k /\ k < e /\ q2[k] = PartOf(c, p, j, t, u)
  <2>1. PICK k \in 1..Len(b) : k # Len(b) /\ b[k] = PartOf(c, p, j, t, u)  BY DEF IsBurst
  <2>2. Len(q) + k \in DOMAIN q2 /\ lo < Len(q) + k /\ Len(q) + k < e  BY <1>1, <1>2, <2>1
  <2>3. q2[Len(q) + k] = PartOf(c, p, j, t, u)  BY <1>1, <2>1
  <2> QED  BY <2>2, <2>3
<1> QED  BY <1>3, <1>4, <1>5, <1>6 DEF BurstLeft

LEMMA CheckBurstIs ==
  ASSUME NEW slot
  PROVE  IsBurst("ota", CheckBurst(slot), CheckJob(slot), None, 0)
<1>1. PICK j : j = CheckJob(slot)  OBVIOUS
<1>2. Needs(j) = {"ca", "url", "header", "body"}  BY <1>1 DEF Needs, CheckJob
<1>3. PICK x1, x2, x3, x4, x5 :
        /\ x1 = Part("ota", "ca", j) /\ x2 = Part("ota", "url", j)
        /\ x3 = Part("ota", "header", j) /\ x4 = Part("ota", "body", j) /\ x5 = Send("ota")
  OBVIOUS
<1>4. PICK f : f = [i \in 1..4 |-> Part("ota", <<"ca", "url", "header", "body">>[i], j)]
  OBVIOUS
<1>5. f[1] = x1 /\ f[2] = x2 /\ f[3] = x3 /\ f[4] = x4  BY <1>3, <1>4
<1>6. f \in Seq({x1, x2, x3, x4, x5}) /\ Len(f) = 4
  <2>1. \A i \in 1..4 : i = 1 \/ i = 2 \/ i = 3 \/ i = 4  OBVIOUS
  <2>2. f \in [1..4 -> {x1, x2, x3, x4, x5}]  BY <1>4, <1>5, <2>1
  <2>3. [i \in 1..4 |-> f[i]] \in Seq({x1, x2, x3, x4, x5})  BY <2>2
  <2>4. f = [i \in 1..4 |-> f[i]]  BY <1>4
  <2>5. Len(f) = 4  BY ONLY <2>2
  <2> QED  BY <2>3, <2>4, <2>5
<1>7. <<x5>> \in Seq({x1, x2, x3, x4, x5}) /\ Len(<<x5>>) = 1 /\ <<x5>>[1] = x5  OBVIOUS
<1>17. PICK S, g : S = {x1, x2, x3, x4, x5} /\ g = <<x5>>  OBVIOUS
<1>18. f \in Seq(S) /\ g \in Seq(S) /\ Len(f) = 4 /\ Len(g) = 1 /\ g[1] = x5
  BY <1>6, <1>7, <1>17
<1>8. PICK b : b = f \o g  OBVIOUS
<1>9. b = CheckBurst(slot)  BY <1>1, <1>3, <1>4, <1>8, <1>17 DEF CheckBurst
<1>16. IsQueue(f) /\ IsQueue(g)  BY <1>18 DEF IsQueue
<1>19. IsQueue(b) /\ Added(f, b, g)  BY ONLY <1>8, <1>16, QueueConcat
<1>10. IsQueue(b) /\ Len(b) = 5  BY <1>18, <1>19 DEF Added
<1>11. b[1] = x1 /\ b[2] = x2 /\ b[3] = x3 /\ b[4] = x4 /\ b[5] = x5
  <2>1. \A i \in 1..4 : b[i] = f[i]  BY <1>18, <1>19 DEF Added
  <2>2. b[4 + 1] = g[1]  BY <1>18, <1>19 DEF Added
  <2>3. b[5] = x5  BY <1>18, <2>2
  <2> QED  BY <1>5, <2>1, <2>3
<1>12. \A k \in 1..5 : k # 5 => k = 1 \/ k = 2 \/ k = 3 \/ k = 4  OBVIOUS
<1>13. \A p \in Needs(j) : PartOf("ota", p, j, None, 0) = Part("ota", p, j)
  BY <1>2 DEF PartOf
<1>14. \A k \in 1..5 : k # 5 => \E p \in Needs(j) : b[k] = PartOf("ota", p, j, None, 0)
  BY <1>2, <1>3, <1>11, <1>12, <1>13
<1>15. \A p \in Needs(j) : \E k \in 1..5 : k # 5 /\ b[k] = PartOf("ota", p, j, None, 0)
  BY <1>2, <1>3, <1>11, <1>13
<1> QED  BY <1>1, <1>3, <1>9, <1>10, <1>11, <1>14, <1>15, 5 \in 1..5 DEF IsBurst

LEMMA ImageBurstIs ==
  ASSUME NEW slot, NEW t, NEW u
  PROVE  IsBurst("ota", ImageBurst(slot, t, u), ImageJob(slot), t, u)
<1>1. PICK j : j = ImageJob(slot)  OBVIOUS
<1>2. Needs(j) = {"ca", "sink", "url"}  BY <1>1 DEF Needs, ImageJob
<1>3. PICK x1, x2, x3, x4 :
        /\ x1 = Part("ota", "ca", j) /\ x2 = Sink("ota", t, u, j)
        /\ x3 = Part("ota", "url", j) /\ x4 = Send("ota")
  OBVIOUS
<1>4. PICK b : b = <<x1, x2, x3, x4>>  OBVIOUS
<1>5. b = ImageBurst(slot, t, u)  BY <1>1, <1>3, <1>4 DEF ImageBurst
<1>6. b \in Seq({x1, x2, x3, x4}) /\ Len(b) = 4  BY <1>4
<1>7. b[1] = x1 /\ b[2] = x2 /\ b[3] = x3 /\ b[4] = x4  BY <1>4
<1>8. \A k \in 1..4 : k # 4 => k = 1 \/ k = 2 \/ k = 3  OBVIOUS
<1>9. /\ PartOf("ota", "ca", j, t, u) = x1 /\ PartOf("ota", "sink", j, t, u) = x2
      /\ PartOf("ota", "url", j, t, u) = x3
  BY <1>3 DEF PartOf
<1>10. \A k \in 1..4 : k # 4 => \E p \in Needs(j) : b[k] = PartOf("ota", p, j, t, u)
  BY <1>2, <1>7, <1>8, <1>9
<1>11. \A p \in Needs(j) : \E k \in 1..4 : k # 4 /\ b[k] = PartOf("ota", p, j, t, u)
  BY <1>2, <1>7, <1>9
<1> QED  BY <1>1, <1>3, <1>5, <1>6, <1>7, <1>10, <1>11 DEF IsBurst, IsQueue

\* The session is granted, and the client sends its request.
LEMMA OtaOpeningGranted ==
  ASSUME NEW q, NEW h, NEW m, NEW m2, NEW o, NEW o2, NEW q2, NEW b,
         OtaTalk(q, h, m, o), Taken(m, m2), IsQueue(m2), Added(q, q2, b),
         m[1].id = "StartResponse", m[1].ok, o.phase = "starting", o2.phase = "executing",
         o2.state = o.state, o2.slot = o.slot, o2.driver = o.driver, o2.up = o.up,
         o.state = "check" => IsBurst("ota", b, CheckJob(o.slot), None, 0),
         o.state = "download" =>
           o.driver \in Targets /\ IsBurst("ota", b, ImageJob(o.slot), o.driver, o.up)
  PROVE  OtaTalk(q2, h, m2, o2) /\ m2 = <<>>
<1>1. ~OtaQuiet(q, h, m) /\ \A j : ~OtaLeaves(q, h, m, j)  BY OtaHears
<1>2. \A j, t, u : ~Sending(q, h, m, j, t, u)  BY OtaHears DEF IsResult
<1>3. ASSUME NEW j, NEW stale, Starting(q, h, m, j, stale)
      PROVE  m2 = <<>> /\ Silent("ota", q) /\ Fresh(h, "ota", j)
  <2>1. Hears(q, h, m, m2, j, stale)  BY <1>3, OtaHears
  <2> QED  BY <2>1 DEF Hears, Opening
<1>4. ASSUME NEW j, NEW stale, Starting(q, h, m, j, stale), NEW t, NEW u,
             IsBurst("ota", b, j, t, u)
      PROVE  Sending(q2, h, m2, j, t, u)
  <2>1. m2 = <<>> /\ Silent("ota", q) /\ Fresh(h, "ota", j)  BY <1>3, <1>4
  <2>2. 0 \in Nat /\ 0 <= Len(q)  BY DEF Added
  <2>3. \A k \in DOMAIN q : 0 < k => q[k].from # "ota"  BY <2>1 DEF Silent
  <2>4. BurstLeft("ota", q2, 0, {}, j, t, u)  BY <1>4, <2>2, <2>3, BurstAdded
  <2>5. Partly(h, "ota", j, t, u)  BY <2>1 DEF Fresh, Partly, PartsOf
  <2> QED  BY <2>1, <2>4, <2>5 DEF Fresh, OtaSets, Sending
<1>5. CASE o.state = "check" /\ Starting(q, h, m, CheckJob(o.slot), TRUE)
  <2>1. Sending(q2, h, m2, CheckJob(o.slot), None, 0) /\ m2 = <<>>  BY <1>3, <1>4, <1>5
  <2> QED  BY <1>5, <2>1 DEF OtaTalk
<1>6. CASE o.state = "download" /\ Starting(q, h, m, ImageJob(o.slot), FALSE)
  <2>1. Sending(q2, h, m2, ImageJob(o.slot), o.driver, o.up) /\ m2 = <<>>
    BY <1>3, <1>4, <1>6
  <2> QED  BY <1>6, <2>1 DEF OtaTalk
<1> QED  BY ONLY OtaTalk(q, h, m, o), <1>1, <1>2, <1>5, <1>6, o.phase = "starting" DEF OtaTalk

-----------------------------------------------------------------------------
(* The conversation of the printing module, as that module goes on with it. *)

\* A job is posted: a session is asked for.
LEMMA PrintBegins ==
  ASSUME NEW q, NEW q2, NEW h, NEW a, IsQueue(q), NoStart("print", q),
         h.owner # "print", a # None, q2 = Append(q, Start("print", a))
  PROVE  PrintTalk(q2, h, a, TRUE)
<1>1. PICK x : x = Start("print", a)  OBVIOUS
<1>2. Added(q, Append(q, x), <<x>>)  BY QueueAppend
<1>3. Len(<<x>>) = 1 /\ <<x>>[1] = x  OBVIOUS
<1>4. /\ Len(q) \in Nat /\ DOMAIN q = 1..Len(q) /\ DOMAIN q2 = 1..(Len(q) + 1)
      /\ q2[Len(q) + 1] = x /\ \A k \in 1..Len(q) : q2[k] = q[k]
  BY <1>1, <1>2, <1>3 DEF Added
<1>5. \A i \in DOMAIN q2 : q2[i].from = "print" /\ q2[i].id = "Start" => i = Len(q) + 1
  BY <1>4 DEF NoStart
<1>6. \A i \in DOMAIN q2 : Len(q) + 1 < i => q2[i].from # "print"
  <2>1. \A i \in 1..(Len(q) + 1) : ~(Len(q) + 1 < i)  BY <1>4
  <2> QED  BY <1>4, <2>1
<1>7. Len(q) + 1 \in DOMAIN q2  BY <1>4
<1>8. PICK k : k = Len(q) + 1  OBVIOUS
<1>9. /\ k \in DOMAIN q2 /\ q2[k] = Start("print", a)
      /\ \A i \in DOMAIN q2 : q2[i].from = "print" /\ q2[i].id = "Start" => i = k
      /\ \A i \in DOMAIN q2 : k < i => q2[i].from # "print"
  BY <1>1, <1>4, <1>5, <1>6, <1>7, <1>8
<1> QED  BY <1>9 DEF PrintAsks, PrintTalk

LEMMA PrintBurstIs ==
  ASSUME NEW j, j \in PrintJobs, NEW b,
         b = [i \in 1..3 |-> Part("print", <<"url", "header", "body">>[i], j)] \o <<Send("print")>>
  PROVE  IsBurst("print", b, j, None, 0)
<1>1. Needs(j) = {"url", "header", "body"}  BY PrintingAssumption DEF Needs, PrintJobs
<1>2. PICK x1, x2, x3, x4 :
        /\ x1 = Part("print", "url", j) /\ x2 = Part("print", "header", j)
        /\ x3 = Part("print", "body", j) /\ x4 = Send("print")
  OBVIOUS
<1>3. PICK f : f = [i \in 1..3 |-> Part("print", <<"url", "header", "body">>[i], j)]  OBVIOUS
<1>4. f[1] = x1 /\ f[2] = x2 /\ f[3] = x3  BY <1>2, <1>3
<1>5. f \in Seq({x1, x2, x3, x4}) /\ Len(f) = 3
  <2>1. \A i \in 1..3 : i = 1 \/ i = 2 \/ i = 3  OBVIOUS
  <2>2. f \in [1..3 -> {x1, x2, x3, x4}]  BY <1>3, <1>4, <2>1
  <2>3. [i \in 1..3 |-> f[i]] \in Seq({x1, x2, x3, x4})  BY <2>2
  <2>4. f = [i \in 1..3 |-> f[i]]  BY <1>3
  <2>5. Len(f) = 3  BY ONLY <2>2
  <2> QED  BY <2>3, <2>4, <2>5
<1>6. PICK g : g = <<x4>>  OBVIOUS
<1>7. IsQueue(f) /\ IsQueue(g) /\ Len(g) = 1 /\ g[1] = x4
  <2>1. g \in Seq({x4}) /\ Len(g) = 1 /\ g[1] = x4  BY <1>6
  <2> QED  BY <1>5, <2>1 DEF IsQueue
<1>8. b = f \o g  BY <1>2, <1>3, <1>6
<1>9. IsQueue(b) /\ Added(f, b, g)  BY ONLY <1>7, <1>8, QueueConcat
<1>10. Len(b) = 4  BY <1>5, <1>7, <1>9 DEF Added
<1>11. b[1] = x1 /\ b[2] = x2 /\ b[3] = x3 /\ b[4] = x4
  <2>1. \A i \in 1..3 : b[i] = f[i]  BY <1>5, <1>9 DEF Added
  <2>2. b[3 + 1] = g[1]  BY <1>5, <1>7, <1>9 DEF Added
  <2>3. b[4] = x4  BY <1>7, <2>2
  <2> QED  BY <1>4, <2>1, <2>3
<1>12. \A k \in 1..4 : k # 4 => k = 1 \/ k = 2 \/ k = 3  OBVIOUS
<1>13. \A p \in Needs(j) : PartOf("print", p, j, None, 0) = Part("print", p, j)
  BY <1>1 DEF PartOf
<1>14. \A k \in 1..4 : k # 4 => \E p \in Needs(j) : b[k] = PartOf("print", p, j, None, 0)
  BY <1>1, <1>2, <1>11, <1>12, <1>13
<1>15. \A p \in Needs(j) : \E k \in 1..4 : k # 4 /\ b[k] = PartOf("print", p, j, None, 0)
  BY <1>1, <1>2, <1>11, <1>13
<1> QED  BY <1>2, <1>9, <1>10, <1>11, <1>14, <1>15, 4 \in 1..4 DEF IsBurst

\* The rest of the request is sent, whatever has become of the session meanwhile.
LEMMA PrintRestSent ==
  ASSUME NEW q, NEW q2, NEW b, NEW h, NEW a, PrintTalk(q, h, a, TRUE),
         Added(q, q2, b), IsBurst("print", b, a, None, 0)
  PROVE  PrintTalk(q2, h, a, FALSE)
<1>1. /\ Len(q) \in Nat /\ Len(b) \in Nat /\ DOMAIN q = 1..Len(q)
      /\ DOMAIN q2 = 1..(Len(q) + Len(b))
      /\ \A k \in 1..Len(q) : q2[k] = q[k]
      /\ \A k \in 1..Len(b) : q2[Len(q) + k] = b[k]
  BY DEF Added
<1>2. \A k \in 1..Len(b) : b[k].id # "Start"
  <2>1. \A p : PartOf("print", p, a, None, 0).id # "Start"  BY DEF PartOf, Part, Sink
  <2>2. Send("print").id # "Start"  BY DEF Send
  <2> QED  BY <2>1, <2>2 DEF IsBurst
<1>3. ASSUME NEW i \in DOMAIN q2, q2[i].id = "Start"  PROVE i \in DOMAIN q /\ q2[i] = q[i]
  <2>1. CASE i \in 1..Len(q)  BY <1>1, <2>1
  <2>2. CASE i \notin 1..Len(q)
    <3>1. i - Len(q) \in 1..Len(b) /\ i = Len(q) + (i - Len(q))  BY <1>1, <2>2
    <3>2. q2[i] = b[i - Len(q)]  BY <1>1, <3>1
    <3> QED  BY <1>2, <1>3, <3>1, <3>2
  <2> QED  BY <2>1, <2>2
<1>4. CASE PrintAsks(q, h, a, TRUE)
  <2>1. PICK k \in DOMAIN q :
          /\ q[k] = Start("print", a)
          /\ \A i \in DOMAIN q : q[i].from = "print" /\ q[i].id = "Start" => i = k
          /\ \A i \in DOMAIN q : k < i => q[i].from # "print"
    BY <1>4 DEF PrintAsks
  <2>2. k \in Nat /\ k <= Len(q)  BY <1>1
  <2>3. PICK j : j = a  OBVIOUS
  <2>4. IsBurst("print", b, j, None, 0)  BY <2>3
  <2>5. BurstLeft("print", q2, k, {}, j, None, 0)  BY <2>1, <2>2, <2>4, BurstAdded
  <2>6. k \in DOMAIN q2 /\ q2[k] = q[k]  BY <1>1
  <2>7. \A i \in DOMAIN q2 : q2[i].from = "print" /\ q2[i].id = "Start" => i = k
    BY <1>3, <2>1
  <2> QED  BY <1>4, <2>1, <2>3, <2>5, <2>6, <2>7 DEF PrintAsks, PrintTalk
<1>5. CASE PrintOpened(q, h, a, TRUE)
  <2>1. a # None /\ Fresh(h, "print", a) /\ Silent("print", q)
    BY <1>5 DEF PrintOpened
  <2>2. 0 \in Nat /\ 0 <= Len(q) /\ \A k \in DOMAIN q : 0 < k => q[k].from # "print"
    BY <1>1, <2>1 DEF Silent
  <2>3. PICK j : j = a  OBVIOUS
  <2>4. IsBurst("print", b, j, None, 0)  BY <2>3
  <2>5. BurstLeft("print", q2, 0, {}, j, None, 0)  BY <2>2, <2>4, BurstAdded
  <2>6. Partly(h, "print", a, None, 0)  BY <2>1 DEF Fresh, Partly, PartsOf
  <2> QED  BY <2>1, <2>3, <2>5, <2>6 DEF Fresh, PrintSets, PrintTalk
<1>6. CASE PrintEnds(q, h, a, TRUE)
  <2>1. NoStart("print", q2)  BY <1>3, <1>6 DEF PrintEnds, NoStart
  <2> QED  BY <1>6, <2>1 DEF PrintEnds, PrintTalk
<1> QED  BY <1>4, <1>5, <1>6 DEF PrintTalk, PrintRests, PrintSets, PrintPosts

-----------------------------------------------------------------------------
(* The timer.                                                               *)

NoWake(q) == \A k \in DOMAIN q : q[k].id # "Wake"

\* Unless the callback has just run, an open session has its timer running.
LEMMA TimerArmed ==
  ASSUME NEW q, NEW h, NEW m, NEW tm, TimerTalk(q, h, m, tm),
         h.state # "open" \/ h.owner # "ota" \/ ~Silent("ota", q) \/ m # <<>> \/ tm.armed
  PROVE  NoWake(q) /\ (h.state = "open" <=> tm.armed)
<1>1. NoWake(q)  BY DEF TimerTalk, NoWake
<1>2. WakeUp.id = "Wake"  BY DEF WakeUp
<1> QED  BY <1>1, <1>2 DEF TimerTalk, NoWake

LEMMA TimerQuiet ==
  ASSUME NEW q, NEW h, NEW m, NEW tm, NoWake(q), tm \in [armed : BOOLEAN, expired : BOOLEAN],
         h.state = "open" <=> tm.armed
  PROVE  TimerTalk(q, h, m, tm)
BY DEF TimerTalk, NoWake

LEMMA NoWakeTail ==
  ASSUME NEW q, NEW q2, Taken(q, q2), NoWake(q)
  PROVE  NoWake(q2)
<1>1. \A k \in DOMAIN q2 : k + 1 \in DOMAIN q /\ q2[k] = q[k + 1]  BY DEF Taken
<1> QED  BY <1>1 DEF NoWake

LEMMA NoWakeAdded ==
  ASSUME NEW q, NEW q2, NEW b, Added(q, q2, b), NoWake(q), \A k \in 1..Len(b) : b[k].id # "Wake"
  PROVE  NoWake(q2)
<1>1. ASSUME NEW k \in DOMAIN q2  PROVE q2[k].id # "Wake"
  <2>1. CASE k \in 1..Len(q)  BY <2>1 DEF Added, NoWake
  <2>2. CASE k \notin 1..Len(q)
    <3>1. k - Len(q) \in 1..Len(b) /\ k = Len(q) + (k - Len(q))  BY <2>2 DEF Added
    <3>2. q2[k] = b[k - Len(q)]  BY <3>1 DEF Added
    <3> QED  BY <3>1, <3>2
  <2> QED  BY <2>1, <2>2
<1> QED  BY <1>1 DEF NoWake

\* The printing module's messages are none of the timer's business.
LEMMA TimerAdded ==
  ASSUME NEW q, NEW q2, NEW h, NEW m, NEW tm, NEW b, TimerTalk(q, h, m, tm), Added(q, q2, b),
         IsQueue(q), \A k \in 1..Len(b) : b[k].id # "Wake" /\ b[k].from # "ota"
  PROVE  TimerTalk(q2, h, m, tm)
<1>1. /\ Len(q) \in Nat /\ Len(b) \in Nat /\ DOMAIN q = 1..Len(q)
      /\ DOMAIN q2 = 1..(Len(q) + Len(b))
      /\ \A k \in 1..Len(q) : q2[k] = q[k]
      /\ \A k \in 1..Len(b) : q2[Len(q) + k] = b[k]
  BY DEF Added
<1>2. ASSUME NEW k \in DOMAIN q2, q2[k].id = "Wake"  PROVE k \in DOMAIN q /\ q2[k] = q[k]
  <2>1. CASE k \in 1..Len(q)  BY <1>1, <2>1
  <2>2. CASE k \notin 1..Len(q)
    <3>1. k - Len(q) \in 1..Len(b) /\ k = Len(q) + (k - Len(q))  BY <1>1, <2>2
    <3>2. q2[k] = b[k - Len(q)]  BY <1>1, <3>1
    <3> QED  BY <1>2, <3>1, <3>2
  <2> QED  BY <2>1, <2>2
<1>3. \A k \in DOMAIN q : k \in DOMAIN q2 /\ q2[k] = q[k]  BY <1>1
<1>4. Silent("ota", q) => Silent("ota", q2)  BY AsideFacts DEF Aside
<1> QED  BY <1>2, <1>3, <1>4 DEF TimerTalk

\* Nor is a message of that module that the HTTP module refuses or drops.
LEMMA TimerTaken ==
  ASSUME NEW q, NEW q2, NEW h, NEW m, NEW tm, TimerTalk(q, h, m, tm), Taken(q, q2), IsQueue(q),
         q[1].id # "Wake", q[1].from # "ota"
  PROVE  TimerTalk(q2, h, m, tm)
<1>1. \A k \in DOMAIN q2 : k \in Nat /\ k + 1 \in DOMAIN q /\ q2[k] = q[k + 1]  BY DEF Taken
<1>2. Silent("ota", q) => Silent("ota", q2)  BY AsideFacts DEF Aside
<1>3. ASSUME NEW k \in DOMAIN q, q[k].id = "Wake"  PROVE k - 1 \in DOMAIN q2 /\ q2[k - 1] = q[k]
  <2>1. k # 1  BY <1>3
  <2> QED  BY <2>1 DEF Taken
<1>4. WakeUp.id = "Wake"  BY DEF WakeUp
<1>5. h.state = "open" => tm.armed \/ \E k \in DOMAIN q2 : q2[k] = WakeUp
  <2>1. ASSUME h.state = "open", ~tm.armed  PROVE \E k \in DOMAIN q2 : q2[k] = WakeUp
    <3>1. PICK k \in DOMAIN q : q[k] = WakeUp  BY <2>1 DEF TimerTalk
    <3> QED  BY <1>3, <1>4, <3>1
  <2> QED  BY <2>1
<1>6. ASSUME NEW k \in DOMAIN q2, q2[k].id = "Wake"
      PROVE  /\ q2[k] = WakeUp /\ ~tm.armed /\ tm.expired
             /\ h.state = "open" /\ h.owner = "ota" /\ Silent("ota", q2) /\ m = <<>>
             /\ \A i \in DOMAIN q2 : q2[i].id = "Wake" => i = k
  <2>1. q[k + 1].id = "Wake" /\ k + 1 \in DOMAIN q  BY <1>1, <1>6
  <2>2. \A i \in DOMAIN q : q[i].id = "Wake" => i = k + 1  BY <2>1 DEF TimerTalk
  <2>3. \A i \in DOMAIN q2 : q2[i].id = "Wake" => i + 1 = k + 1  BY <1>1, <2>2
  <2>4. \A i \in DOMAIN q2 : q2[i].id = "Wake" => i = k  BY <1>1, <2>3
  <2> QED  BY <1>1, <1>2, <2>1, <2>4 DEF TimerTalk
<1> QED  BY <1>5, <1>6 DEF TimerTalk

\* The callback runs: the session is one that the web OTA client left.
LEMMA TimerFired ==
  ASSUME NEW q, NEW q2, NEW h, NEW m, NEW tm, NEW tm2, TimerTalk(q, h, m, tm), tm.armed,
         IsQueue(q), q2 = Append(q, WakeUp), tm2 = [armed |-> FALSE, expired |-> TRUE],
         h.owner = "ota", Silent("ota", q), m = <<>>
  PROVE  TimerTalk(q2, h, m, tm2) /\ Added(q, q2, <<WakeUp>>)
<1>1. NoWake(q) /\ h.state = "open"  BY TimerArmed
<1>2. PICK x : x = WakeUp  OBVIOUS
<1>3. Added(q, q2, <<x>>)  BY <1>2, QueueAppend
<1>4. Len(<<x>>) = 1 /\ <<x>>[1] = x  OBVIOUS
<1>5. /\ Len(q) \in Nat /\ DOMAIN q = 1..Len(q) /\ DOMAIN q2 = 1..(Len(q) + 1)
      /\ q2[Len(q) + 1] = x /\ \A k \in 1..Len(q) : q2[k] = q[k]
  BY <1>3, <1>4 DEF Added
<1>6. \A k \in DOMAIN q2 : q2[k].id = "Wake" => k = Len(q) + 1  BY <1>1, <1>5 DEF NoWake
<1>7. x.from # "ota"  BY <1>2, SessionsAssumption DEF WakeUp
<1>8. Silent("ota", q2)  BY <1>5, <1>7 DEF Silent
<1>9. Len(q) + 1 \in DOMAIN q2  BY <1>5
<1> QED  BY <1>1, <1>2, <1>3, <1>5, <1>6, <1>8, <1>9 DEF TimerTalk

\* The callback's message is handled: no other is queued.
LEMMA TimerWoken ==
  ASSUME NEW q, NEW q2, NEW h, NEW m, NEW tm, TimerTalk(q, h, m, tm), Taken(q, q2),
         q[1].id = "Wake"
  PROVE  /\ q[1] = WakeUp /\ tm.expired /\ ~tm.armed /\ h.state = "open" /\ h.owner = "ota"
         /\ Silent("ota", q) /\ m = <<>> /\ NoWake(q2)
<1>1. 1 \in DOMAIN q  BY DEF Taken
<1>2. \A i \in DOMAIN q : q[i].id = "Wake" => i = 1  BY <1>1 DEF TimerTalk
<1>3. ASSUME NEW k \in DOMAIN q2  PROVE q2[k].id # "Wake"
  <2>1. k + 1 \in DOMAIN q /\ q2[k] = q[k + 1] /\ k + 1 # 1  BY DEF Taken
  <2> QED  BY <1>2, <2>1
<1> QED  BY <1>1, <1>3 DEF TimerTalk, NoWake

-----------------------------------------------------------------------------
(* The steps of the HTTP module.                                            *)

LEMMA MailTold ==
  ASSUME NEW ml, NEW ml2, NEW c \in {"ota", "print"}, NEW x, MailTypes(ml),
         DOMAIN ml2 = DOMAIN ml, ml2[c] = Append(ml[c], x),
         \A d \in {"ota", "print"} : d # c => ml2[d] = ml[d]
  PROVE  MailTypes(ml2)
<1>1. IsQueue(Append(ml[c], x))
  <2>1. IsQueue(ml[c])  BY DEF MailTypes
  <2>2. PICK q : q = ml[c]  OBVIOUS
  <2>3. IsQueue(Append(q, x))  BY <2>1, <2>2, QueueAppend
  <2> QED  BY <2>2, <2>3
<1> QED  BY <1>1 DEF MailTypes

LEMMA MailRead ==
  ASSUME NEW ml, NEW ml2, NEW c \in {"ota", "print"}, MailTypes(ml), ml[c] # <<>>,
         DOMAIN ml2 = DOMAIN ml, ml2[c] = Tail(ml[c]),
         \A d \in {"ota", "print"} : d # c => ml2[d] = ml[d]
  PROVE  /\ MailTypes(ml2) /\ Taken(ml[c], ml2[c]) /\ IsQueue(ml2[c]) /\ IsQueue(ml[c])
         /\ Head(ml[c]) = ml[c][1]
<1>1. IsQueue(ml[c])  BY DEF MailTypes
<1>2. PICK q : q = ml[c]  OBVIOUS
<1>3. IsQueue(Tail(q)) /\ Taken(q, Tail(q))  BY <1>1, <1>2, QueueTail
<1>4. Head(q) = q[1]  BY <1>3 DEF Taken
<1> QED  BY <1>1, <1>2, <1>3, <1>4 DEF MailTypes

LEMMA SendersTail ==
  ASSUME NEW q, NEW q2, Taken(q, q2), Senders(q)
  PROVE  Senders(q2)
<1>1. \A k \in DOMAIN q2 : k + 1 \in DOMAIN q /\ q2[k] = q[k + 1]  BY DEF Taken
<1> QED  BY <1>1 DEF Senders

LEMMA SendersAdded ==
  ASSUME NEW q, NEW q2, NEW b, Added(q, q2, b), Senders(q), Senders(b)
  PROVE  Senders(q2)
<1>1. ASSUME NEW k \in DOMAIN q2, q2[k].id # "Wake"  PROVE q2[k].from \in {"ota", "print"}
  <2>1. CASE k \in 1..Len(q)  BY <1>1, <2>1 DEF Added, Senders
  <2>2. CASE k \notin 1..Len(q)
    <3>1. k - Len(q) \in 1..Len(b) /\ k = Len(q) + (k - Len(q))  BY <2>2 DEF Added
    <3>2. q2[k] = b[k - Len(q)] /\ k - Len(q) \in DOMAIN b  BY <3>1 DEF Added
    <3> QED  BY <1>1, <3>1, <3>2 DEF Senders
  <2> QED  BY <2>1, <2>2
<1> QED  BY <1>1 DEF Senders

\* What the conversations need to know of the other parts.
LEMMA Known ==
  ASSUME BaseInv
  PROVE  /\ ota.slot \in DOMAIN Slots /\ ota.up \in Nat
         /\ active # None => active \in PrintJobs
BY DEF BaseInv, SessInv, SlotsInv, OtaTypes, SlotsTalk

\* A message is taken from the HTTP module's queue.
LEMMA Handled ==
  ASSUME TalkInv, asks # <<>>, asks' = Tail(asks), Head(asks).id # "Wake"
  PROVE  /\ Taken(asks, asks') /\ IsQueue(asks') /\ Senders(asks')
         /\ Head(asks) = asks[1] /\ asks[1].from \in {"ota", "print"}
         /\ asks[1].from = "ota" => ~Silent("ota", asks)
<1>1. PICK q, q2 : q = asks /\ q2 = asks'  OBVIOUS
<1>2. IsQueue(q) /\ q # <<>> /\ q2 = Tail(q) /\ Senders(q)  BY <1>1 DEF TalkInv
<1>3. Taken(q, q2) /\ IsQueue(q2)  BY <1>2, QueueTail
<1>4. Senders(q2)  BY <1>2, <1>3, SendersTail
<1>5. 1 \in DOMAIN q /\ Head(q) = q[1]  BY <1>3 DEF Taken
<1>6. q[1].from \in {"ota", "print"}  BY <1>1, <1>2, <1>5 DEF Senders
<1> QED  BY <1>1, <1>3, <1>4, <1>5, <1>6 DEF Silent

LEMMA TalkStartRefused ==
  ASSUME BaseInv, StartRefused, UNCHANGED <<otaVars, printVars>>
  PROVE  TalkInv'
<1> USE DEF StartRefused
<1>1. TalkInv  BY DEF BaseInv
<1>2. /\ asks # <<>> /\ asks' = Tail(asks) /\ Head(asks).id = "Start" /\ http.state # "executing"
  BY DEF Asked
<1>3. /\ Taken(asks, asks') /\ IsQueue(asks') /\ Senders(asks')
      /\ Head(asks) = asks[1] /\ asks[1].from \in {"ota", "print"}
      /\ asks[1].from = "ota" => ~Silent("ota", asks)
  BY <1>1, <1>2, Handled
<1>4. /\ http' = http /\ timer' = timer /\ task' = task /\ ota' = ota
      /\ active' = active /\ sending' = sending
  BY DEF sessVars, otaVars, printVars
<1>5. PICK c, x : c = asks[1].from /\ x = Opening(FALSE)  OBVIOUS
<1>6. mail' = [mail EXCEPT ![c] = Append(@, x)]  BY <1>3, <1>5 DEF Tell, Ask
<1>17. MailTypes(mail) /\ c \in {"ota", "print"}  BY <1>1, <1>3, <1>5 DEF TalkInv
<1>7. /\ MailTypes(mail') /\ mail'[c] = Append(mail[c], x)
      /\ c = "print" => mail'["ota"] = mail["ota"]
      /\ c = "ota" => mail'["print"] = mail["print"]
  <2>1. /\ DOMAIN mail' = DOMAIN mail /\ mail'[c] = Append(mail[c], x)
        /\ \A d \in {"ota", "print"} : d # c => mail'[d] = mail[d]
    BY <1>6, <1>17 DEF MailTypes
  <2>2. MailTypes(mail')  BY ONLY <1>17, <2>1, MailTold
  <2> QED  BY <2>1, <2>2
<1>8. IsQueue(asks) /\ IsQueue(mail["ota"])  BY <1>1 DEF TalkInv, MailTypes
<1>9. CASE c = "print"
  <2>1. PrintTalk(asks', http', active', sending')
    BY <1>1, <1>2, <1>3, <1>4, <1>5, <1>7, <1>9, PrintRefusal DEF TalkInv
  <2>2. OtaTalk(asks', http', mail'["ota"], ota')
    BY <1>1, <1>3, <1>4, <1>5, <1>7, <1>8, <1>9, OtaAside DEF TalkInv, Aside
  <2>3. TimerTalk(asks', http', mail'["ota"], timer')
    BY <1>1, <1>2, <1>3, <1>4, <1>5, <1>7, <1>8, <1>9, TimerTaken DEF TalkInv
  <2> QED  BY <1>1, <1>3, <1>4, <1>7, <2>1, <2>2, <2>3 DEF TalkInv
<1>10. CASE c = "ota"
  <2>1. PrintTalk(asks', http', active', sending')
    BY <1>1, <1>3, <1>4, <1>5, <1>7, <1>8, <1>10, PrintAside DEF TalkInv, Aside
  <2>2. OtaTalk(asks', http', mail'["ota"], ota')
    BY <1>1, <1>2, <1>3, <1>4, <1>5, <1>7, <1>8, <1>10, OtaRefusal DEF TalkInv
  <2>3. NoWake(asks) /\ (http.state = "open" <=> timer.armed)
    BY <1>1, <1>3, <1>5, <1>10, TimerArmed DEF TalkInv
  <2>4. NoWake(asks')  BY <1>3, <2>3, NoWakeTail
  <2>6. timer \in [armed : BOOLEAN, expired : BOOLEAN]  BY <1>1 DEF TalkInv, TimerTalk
  <2>5. TimerTalk(asks', http', mail'["ota"], timer')
    BY ONLY <1>4, <2>3, <2>4, <2>6, TimerQuiet
  <2> QED  BY <1>1, <1>3, <1>4, <1>7, <2>1, <2>2, <2>5 DEF TalkInv
<1> QED  BY <1>3, <1>5, <1>9, <1>10

LEMMA TalkStartGranted ==
  ASSUME BaseInv, StartGranted, UNCHANGED <<otaVars, printVars>>
  PROVE  TalkInv'
<1> USE DEF StartGranted
<1>1. TalkInv  BY DEF BaseInv
<1>2. /\ asks # <<>> /\ asks' = Tail(asks) /\ Head(asks).id = "Start" /\ http.state = "idle"
      /\ http.owner = None
  BY <1>1 DEF Asked, TalkInv, HttpTypes
<1>3. /\ Taken(asks, asks') /\ IsQueue(asks') /\ Senders(asks')
      /\ Head(asks) = asks[1] /\ asks[1].from \in {"ota", "print"}
      /\ asks[1].from = "ota" => ~Silent("ota", asks)
  BY <1>1, <1>2, Handled
<1>4. task' = task /\ ota' = ota /\ active' = active /\ sending' = sending
  BY DEF sessVars, otaVars, printVars
<1>5. PICK c, x : c = asks[1].from /\ x = Opening(TRUE)  OBVIOUS
<1>6. mail' = [mail EXCEPT ![c] = Append(@, x)]  BY <1>3, <1>5 DEF Tell, Ask
<1>17. MailTypes(mail) /\ c \in {"ota", "print"}  BY <1>1, <1>3, <1>5 DEF TalkInv
<1>7. /\ MailTypes(mail') /\ mail'[c] = Append(mail[c], x)
      /\ c = "print" => mail'["ota"] = mail["ota"]
      /\ c = "ota" => mail'["print"] = mail["print"]
  <2>1. /\ DOMAIN mail' = DOMAIN mail /\ mail'[c] = Append(mail[c], x)
        /\ \A d \in {"ota", "print"} : d # c => mail'[d] = mail[d]
    BY <1>6, <1>17 DEF MailTypes
  <2>2. MailTypes(mail')  BY ONLY <1>17, <2>1, MailTold
  <2> QED  BY <2>1, <2>2
<1>8. /\ IsQueue(asks) /\ IsQueue(mail["ota"])
      /\ timer \in [armed : BOOLEAN, expired : BOOLEAN]
  BY <1>1 DEF TalkInv, MailTypes, TimerTalk
<1>11. http' = [Unowned EXCEPT !.state = "open", !.owner = c, !.job = asks[1].job]
  BY <1>3, <1>5 DEF Ask
<1>12. /\ http'.state = "open" /\ http'.owner = c /\ http'.sink = NoSink
       /\ http' = [state |-> http'.state, owner |-> http'.owner, job |-> http'.job,
                   parts |-> http'.parts, sink |-> http'.sink]
  BY <1>11 DEF Unowned
<1>13. NoSink \in [target : Targets \cup {None}, up : Nat, next : 0..Chunks,
                   opened : BOOLEAN, error : BOOLEAN] /\ NoSink.next = 0
  BY OtaAssumption DEF NoSink
<1>14. HttpTypes(http')
  BY <1>3, <1>5, <1>12, <1>13, SessionsAssumption DEF HttpTypes
<1>15. TimerTalk(asks', http', mail'["ota"], timer')
  <2>1. NoWake(asks)  BY <1>1, <1>2, TimerArmed DEF TalkInv
  <2>2. NoWake(asks')  BY <1>3, <2>1, NoWakeTail
  <2>3. timer' \in [armed : BOOLEAN, expired : BOOLEAN] /\ timer'.armed
    BY <1>8 DEF ResetIdleTimer
  <2> QED  BY <1>12, <2>2, <2>3, TimerQuiet
<1>16. http.owner # "ota" /\ http.owner # "print"
  BY <1>2, SessionsAssumption
<1>9. CASE c = "print"
  <2>1. PrintTalk(asks', http', active', sending')
    <3>1. PrintTalk(asks, http, active, sending) /\ sending \in BOOLEAN
      BY <1>1 DEF TalkInv
    <3>2. Taken(asks, asks') /\ asks[1].from = "print" /\ asks[1].id = "Start"
      BY <1>2, <1>3, <1>5, <1>9
    <3>4. /\ http'.state = "open" /\ http'.owner = "print" /\ http'.job = asks[1].job
          /\ http'.parts = {} /\ http'.sink = NoSink
      BY <1>9, <1>11, <1>12 DEF Unowned
    <3>5. PICK q, q2, h, h2, a, s : /\ q = asks /\ q2 = asks' /\ h = http /\ h2 = http'
                                    /\ a = active /\ s = sending
      OBVIOUS
    <3>6. /\ PrintTalk(q, h, a, s) /\ s \in BOOLEAN /\ Taken(q, q2)
          /\ q[1].from = "print" /\ q[1].id = "Start"
          /\ h2.state = "open" /\ h2.owner = "print" /\ h2.job = q[1].job
          /\ h2.parts = {} /\ h2.sink = NoSink
      BY ONLY <3>1, <3>2, <3>4, <3>5
    <3>7. PrintTalk(q2, h2, a, s)  BY ONLY <3>6, PrintGrant
    <3> QED  BY ONLY <1>4, <3>5, <3>7
  <2>2. OtaTalk(asks', http', mail'["ota"], ota')
    <3>1. OtaTalk(asks, http, mail["ota"], ota) /\ IsQueue(asks)  BY <1>1 DEF TalkInv
    <3>2. Aside(asks, asks', "ota")  BY <1>3, <1>5, <1>9 DEF Aside
    <3>3. http.owner # "ota" /\ http'.owner # "ota"  BY <1>9, <1>12, <1>16
    <3>4. OtaTalk(asks', http', mail["ota"], ota)  BY ONLY <3>1, <3>2, <3>3, OtaAside
    <3> QED  BY <1>4, <1>7, <1>9, <3>4
  <2> QED  BY <1>1, <1>3, <1>4, <1>7, <1>14, <1>15, <2>1, <2>2 DEF TalkInv
<1>10. CASE c = "ota"
  <2>1. PrintTalk(asks', http', active', sending')
    <3>1. PrintTalk(asks, http, active, sending) /\ IsQueue(asks)
      BY <1>1 DEF TalkInv
    <3>2. Aside(asks, asks', "print")  BY <1>3, <1>5, <1>10 DEF Aside
    <3>3. http.owner # "print" /\ http'.owner # "print"  BY <1>10, <1>12, <1>16
    <3>4. PrintTalk(asks', http', active, sending)
      BY ONLY <3>1, <3>2, <3>3, PrintAside
    <3> QED  BY <1>4, <1>7, <1>10, <3>4
  <2>2. OtaTalk(asks', http', mail'["ota"], ota')
    BY <1>1, <1>2, <1>3, <1>4, <1>5, <1>7, <1>8, <1>10, <1>11, OtaGrant DEF TalkInv
  <2> QED  BY <1>1, <1>3, <1>4, <1>7, <1>14, <1>15, <2>1, <2>2 DEF TalkInv
<1> QED  BY <1>3, <1>5, <1>9, <1>10

\* What is dropped is the printing module's: its session was refused.
LEMMA TalkNotOwner ==
  ASSUME BaseInv, NotOwner, UNCHANGED <<otaVars, printVars>>
  PROVE  TalkInv'
<1> USE DEF NotOwner
<1>1. TalkInv  BY DEF BaseInv
<1>2. /\ asks # <<>> /\ asks' = Tail(asks) /\ Head(asks).id \in {"Part", "Sink", "Send"}
      /\ ~IsOwner
  BY DEF Asked
<1>3. /\ Taken(asks, asks') /\ IsQueue(asks') /\ Senders(asks')
      /\ Head(asks) = asks[1] /\ asks[1].from \in {"ota", "print"}
  BY <1>1, <1>2, Handled
<1>4. /\ http' = http /\ timer' = timer /\ task' = task /\ ota' = ota /\ mail' = mail
      /\ active' = active /\ sending' = sending
  BY DEF sessVars, otaVars, printVars
<1>5. http.state = "idle" \/ http.owner # asks[1].from  BY <1>2, <1>3 DEF IsOwner, Ask
<1>6. asks[1].from = "print"
  <2>1. ASSUME asks[1].from = "ota"  PROVE FALSE
    <3>1. http.owner = "ota" /\ http.state = "open"
      BY <1>1, <1>2, <1>3, <2>1, OtaNeverDropped DEF TalkInv
    <3> QED  BY <1>5, <2>1, <3>1
  <2> QED  BY <1>3, <2>1
<1>7. http.owner # "print"  BY <1>1, <1>5, <1>6, SessionsAssumption DEF TalkInv, HttpTypes
<1>8. PrintTalk(asks', http', active', sending')
  BY <1>1, <1>2, <1>3, <1>4, <1>6, <1>7, PrintDropped DEF TalkInv
<1>9. OtaTalk(asks', http', mail'["ota"], ota')
  BY <1>1, <1>3, <1>4, <1>6, OtaAside DEF TalkInv, Aside
<1>10. TimerTalk(asks', http', mail'["ota"], timer')
  BY <1>1, <1>2, <1>3, <1>4, <1>6, TimerTaken DEF TalkInv
<1> QED  BY <1>1, <1>3, <1>4, <1>8, <1>9, <1>10 DEF TalkInv

\* A part of a request is set by the client whose session is open.
LEMMA Owned ==
  ASSUME TalkInv, asks # <<>>, asks' = Tail(asks), Head(asks).id \notin {"Wake", "Start"},
         IsOwner, http.state # "executing"
  PROVE  /\ http.state = "open" /\ http.owner = asks[1].from /\ http.owner \in {"ota", "print"}
         /\ NoWake(asks) /\ NoWake(asks')
<1>1. /\ Taken(asks, asks') /\ Head(asks) = asks[1] /\ asks[1].from \in {"ota", "print"}
      /\ asks[1].from = "ota" => ~Silent("ota", asks)
  BY Handled
<1>2. http.state = "open" /\ http.owner = asks[1].from
  BY <1>1 DEF IsOwner, Ask, TalkInv, HttpTypes
<1>3. NoWake(asks)  BY <1>1, <1>2, TimerArmed DEF TalkInv
<1> QED  BY <1>1, <1>2, <1>3, NoWakeTail

LEMMA TalkPartSet ==
  ASSUME BaseInv, PartSet, UNCHANGED <<otaVars, printVars>>
  PROVE  TalkInv'
<1> USE DEF PartSet
<1>1. TalkInv  BY DEF BaseInv
<1>2. /\ asks # <<>> /\ asks' = Tail(asks) /\ Head(asks).id = "Part"
      /\ http.state # "executing" /\ IsOwner
  BY DEF Asked
<1>3. /\ Taken(asks, asks') /\ IsQueue(asks') /\ Senders(asks') /\ Head(asks) = asks[1]
  BY <1>1, <1>2, Handled
<1>4. /\ http.state = "open" /\ http.owner = asks[1].from /\ http.owner \in {"ota", "print"}
      /\ NoWake(asks')
  BY <1>1, <1>2, Owned
<1>5. /\ task' = task /\ ota' = ota /\ mail' = mail /\ active' = active /\ sending' = sending
  BY DEF sessVars, otaVars, printVars
<1>6. HttpTypes(http) /\ timer \in [armed : BOOLEAN, expired : BOOLEAN]
  BY <1>1 DEF TalkInv, TimerTalk
<1>7. /\ http'.state = http.state /\ http'.owner = http.owner /\ http'.job = http.job
      /\ http'.sink = http.sink /\ http'.parts = With(http.parts, asks[1])
      /\ http' = [state |-> http'.state, owner |-> http'.owner, job |-> http'.job,
                  parts |-> http'.parts, sink |-> http'.sink]
  BY <1>3, <1>6 DEF HttpTypes, Ask
<1>8. HttpTypes(http')  BY <1>6, <1>7 DEF HttpTypes
<1>9. TimerTalk(asks', http', mail'["ota"], timer')
  <2>1. timer' \in [armed : BOOLEAN, expired : BOOLEAN] /\ timer'.armed
    BY <1>6 DEF ResetIdleTimer
  <2> QED  BY <1>4, <1>7, <2>1, TimerQuiet
<1>10. CASE http.owner = "print"
  <2>1. /\ PrintTalk(asks, http, active, sending)
        /\ OtaTalk(asks, http, mail["ota"], ota) /\ IsQueue(asks)
        /\ active # None => active \in PrintJobs
    BY <1>1, Known DEF TalkInv
  <2>2. asks[1].from = "print" /\ asks[1].id # "Send"  BY <1>2, <1>3, <1>4, <1>10
  <2>3. PrintTalk(asks', http', active, sending)
    <3>1. PICK h2, q2 : h2 = http' /\ q2 = asks'  OBVIOUS
    <3>2. /\ PrintTalk(asks, http, active, sending) /\ Taken(asks, q2)
          /\ asks[1].from = "print" /\ http.owner = "print" /\ http.state = "open"
          /\ active # None => active \in PrintJobs
          /\ asks[1].id # "Send"
          /\ h2.state = http.state /\ h2.owner = http.owner /\ h2.job = http.job
          /\ h2.sink = http.sink /\ h2.parts = With(http.parts, asks[1])
      BY ONLY <1>3, <1>4, <1>7, <1>10, <2>1, <2>2, <3>1
    <3>3. PrintTalk(q2, h2, active, sending)  BY ONLY <3>2, PrintPart
    <3> QED  BY ONLY <3>1, <3>3
  <2>4. Aside(asks, asks', "ota")  BY <1>3, <2>2 DEF Aside
  <2>5. OtaTalk(asks', http', mail["ota"], ota)
    BY <1>7, <1>10, <2>1, <2>4, OtaAside
  <2> QED  BY <1>1, <1>3, <1>5, <1>8, <1>9, <2>3, <2>5 DEF TalkInv
<1>11. CASE http.owner = "ota"
  <2>1. /\ PrintTalk(asks, http, active, sending)
        /\ OtaTalk(asks, http, mail["ota"], ota) /\ IsQueue(asks)
    BY <1>1 DEF TalkInv
  <2>2. asks[1].from = "ota" /\ asks[1].id = "Part"  BY <1>2, <1>3, <1>4, <1>11
  <2>3. OtaTalk(asks', http', mail["ota"], ota)
    BY <1>3, <1>7, <2>1, <2>2, OtaPart
  <2>4. Aside(asks, asks', "print")  BY <1>3, <2>2 DEF Aside
  <2>5. PrintTalk(asks', http', active, sending)
    BY <1>7, <1>11, <2>1, <2>4, PrintAside
  <2> QED  BY <1>1, <1>3, <1>5, <1>8, <1>9, <2>3, <2>5 DEF TalkInv
<1> QED  BY <1>4, <1>10, <1>11

\* The sink is a driver of OtaModule's.
LEMMA OtaSinkTypes ==
  ASSUME NEW q, NEW q2, NEW h, NEW m, NEW o, OtaTalk(q, h, m, o), Taken(q, q2), o.up \in Nat,
         q[1].from = "ota", q[1].id = "Sink"
  PROVE  q[1].target \in Targets /\ q[1].up \in Nat
<1>1. /\ ~OtaQuiet(q, h, m) /\ \A j : ~OtaLeaves(q, h, m, j)
      /\ \A j, stale : ~Starting(q, h, m, j, stale)
  BY OtaFirst
<1>2. ASSUME NEW j, NEW t, NEW u, Sending(q, h, m, j, t, u)
      PROVE  q[1].target = t /\ q[1].up = u /\ "sink" \in Needs(j)
  <2>1. OtaSets(q, h, m, j, t, u) /\ Precedes("ota", q[1], q2, h.parts, j, t, u)
    BY <1>2, OtaFirst
  <2>2. PICK p \in Needs(j) :
          /\ q[1] = PartOf("ota", p, j, t, u)
          /\ BurstLeft("ota", q2, 0, h.parts \cup {[part |-> p, job |-> j]}, j, t, u)
    <3>1. Send("ota").id # "Sink"  BY DEF Send
    <3>2. q[1] # Send("ota")  BY <3>1
    <3>3. \E p \in Needs(j) :
            /\ q[1] = PartOf("ota", p, j, t, u)
            /\ BurstLeft("ota", q2, 0, h.parts \cup {[part |-> p, job |-> j]}, j, t, u)
      BY ONLY <2>1, <3>2 DEF Precedes
    <3> QED  BY ONLY <3>3
  <2>3. p = "sink" /\ q[1] = Sink("ota", t, u, j)  BY <2>2 DEF PartOf, Part
  <2> QED  BY <2>2, <2>3 DEF Sink
<1>3. "sink" \notin Needs(CheckJob(o.slot))  BY DEF Needs, CheckJob
<1> QED  BY ONLY OtaTalk(q, h, m, o), <1>1, <1>2, <1>3, o.up \in Nat DEF OtaTalk

LEMMA TalkSinkSet ==
  ASSUME BaseInv, SinkSet, UNCHANGED <<otaVars, printVars>>
  PROVE  TalkInv' /\ http.owner = "ota" /\ http.state = "open"
<1> USE DEF SinkSet
<1>1. TalkInv  BY DEF BaseInv
<1>2. /\ asks # <<>> /\ asks' = Tail(asks) /\ Head(asks).id = "Sink"
      /\ http.state # "executing" /\ IsOwner
  BY DEF Asked
<1>3. /\ Taken(asks, asks') /\ IsQueue(asks') /\ Senders(asks') /\ Head(asks) = asks[1]
  BY <1>1, <1>2, Handled
<1>4. /\ http.state = "open" /\ http.owner = asks[1].from /\ http.owner \in {"ota", "print"}
      /\ NoWake(asks')
  BY <1>1, <1>2, Owned
<1>5. /\ task' = task /\ ota' = ota /\ mail' = mail /\ active' = active /\ sending' = sending
  BY DEF sessVars, otaVars, printVars
<1>6. HttpTypes(http) /\ timer \in [armed : BOOLEAN, expired : BOOLEAN]
  BY <1>1 DEF TalkInv, TimerTalk
<1>7. /\ http'.state = http.state /\ http'.owner = http.owner /\ http'.job = http.job
      /\ http'.sink = [NoSink EXCEPT !.target = asks[1].target, !.up = asks[1].up]
      /\ http'.parts = With(http.parts, [part |-> "sink", job |-> asks[1].job])
      /\ http' = [state |-> http'.state, owner |-> http'.owner, job |-> http'.job,
                  parts |-> http'.parts, sink |-> http'.sink]
  BY <1>3, <1>6 DEF HttpTypes, Ask
<1>8. /\ PrintTalk(asks, http, active, sending)
      /\ OtaTalk(asks, http, mail["ota"], ota) /\ IsQueue(asks)
      /\ active # None => active \in PrintJobs
      /\ ota.up \in Nat
  BY <1>1, Known DEF TalkInv
<1>9. asks[1].from = "ota" /\ asks[1].id = "Sink"
  <2>1. ASSUME asks[1].from = "print"  PROVE FALSE
    <3>1. PICK x : x = With(http.parts, asks[1])  OBVIOUS
    <3>2. PICK h2 : /\ h2.state = http.state /\ h2.owner = http.owner /\ h2.job = http.job
                    /\ h2.sink = http.sink /\ h2.parts = x
      <4>1. PICK h2 : h2 = [state |-> http.state, owner |-> http.owner, job |-> http.job,
                            sink |-> http.sink, parts |-> x]
        OBVIOUS
      <4> QED  BY <4>1
    <3>3. asks[1].id = "Part"
      BY <1>2, <1>3, <1>4, <1>8, <2>1, <3>1, <3>2, PrintPart
    <3> QED  BY <1>2, <1>3, <3>3
  <2> QED  BY <1>2, <1>3, <1>4, <2>1
<1>10. asks[1].target \in Targets /\ asks[1].up \in Nat  BY <1>3, <1>8, <1>9, OtaSinkTypes
<1>11. HttpTypes(http')
  <2>1. http'.sink \in [target : Targets \cup {None}, up : Nat, next : 0..Chunks,
                        opened : BOOLEAN, error : BOOLEAN] /\ http'.sink.next = 0
    <3>1. PICK t \in Targets, u \in Nat : t = asks[1].target /\ u = asks[1].up  BY <1>10
    <3>2. http'.sink = [target |-> t, up |-> u, next |-> 0, opened |-> FALSE, error |-> FALSE]
      BY <1>7, <3>1 DEF NoSink
    <3>3. 0 \in 0..Chunks  BY OtaAssumption
    <3>4. ASSUME NEW T, NEW v \in T, NEW k \in 0..Chunks
          PROVE  /\ [target |-> v, up |-> u, next |-> k, opened |-> FALSE, error |-> FALSE]
                      \in [target : T, up : Nat, next : 0..Chunks, opened : BOOLEAN, error : BOOLEAN]
                 /\ [target |-> v, up |-> u, next |-> k, opened |-> FALSE, error |-> FALSE].next = k
      OBVIOUS
    <3>5. t \in Targets \cup {None}  OBVIOUS
    <3> QED  BY ONLY <3>2, <3>3, <3>4, <3>5
  <2> QED  BY <1>6, <1>7, <2>1 DEF HttpTypes
<1>12. TimerTalk(asks', http', mail'["ota"], timer')
  <2>1. timer' \in [armed : BOOLEAN, expired : BOOLEAN] /\ timer'.armed
    BY <1>6 DEF ResetIdleTimer
  <2> QED  BY <1>4, <1>7, <2>1, TimerQuiet
<1>13. OtaTalk(asks', http', mail["ota"], ota)
  BY <1>3, <1>7, <1>8, <1>9, OtaSink
<1>14. Aside(asks, asks', "print")  BY <1>3, <1>9 DEF Aside
<1>15. PrintTalk(asks', http', active, sending)
  BY <1>4, <1>7, <1>8, <1>9, <1>14, PrintAside
<1> QED  BY <1>1, <1>3, <1>4, <1>5, <1>9, <1>11, <1>12, <1>13, <1>15 DEF TalkInv

LEMMA TalkSendAsked ==
  ASSUME BaseInv, SendAsked, UNCHANGED <<otaVars, printVars>>
  PROVE  TalkInv'
<1> USE DEF SendAsked
<1>1. TalkInv  BY DEF BaseInv
<1>2. /\ asks # <<>> /\ asks' = Tail(asks) /\ Head(asks).id = "Send"
      /\ http.state # "executing" /\ IsOwner
  BY DEF Asked
<1>3. /\ Taken(asks, asks') /\ IsQueue(asks') /\ Senders(asks') /\ Head(asks) = asks[1]
  BY <1>1, <1>2, Handled
<1>4. /\ http.state = "open" /\ http.owner = asks[1].from /\ http.owner \in {"ota", "print"}
      /\ NoWake(asks')
  BY <1>1, <1>2, Owned
<1>5. /\ task' = task /\ ota' = ota /\ mail' = mail /\ active' = active /\ sending' = sending
  BY DEF sessVars, otaVars, printVars
<1>6. HttpTypes(http) /\ timer \in [armed : BOOLEAN, expired : BOOLEAN]
  BY <1>1 DEF TalkInv, TimerTalk
<1>7. /\ http'.state = "executing" /\ http'.owner = http.owner /\ http'.job = http.job
      /\ http'.sink = http.sink /\ http'.parts = http.parts
      /\ http' = [state |-> http'.state, owner |-> http'.owner, job |-> http'.job,
                  parts |-> http'.parts, sink |-> http'.sink]
  BY <1>6 DEF HttpTypes
<1>8. HttpTypes(http')  BY <1>4, <1>6, <1>7 DEF HttpTypes
<1>9. TimerTalk(asks', http', mail'["ota"], timer')
  <2>1. timer' \in [armed : BOOLEAN, expired : BOOLEAN] /\ ~timer'.armed
    BY <1>6
  <2> QED  BY <1>4, <1>7, <2>1, TimerQuiet
<1>12. /\ PrintTalk(asks, http, active, sending)
       /\ OtaTalk(asks, http, mail["ota"], ota) /\ IsQueue(asks)
       /\ active # None => active \in PrintJobs
       /\ ota.slot \in DOMAIN Slots
  BY <1>1, Known DEF TalkInv
<1>10. CASE http.owner = "print"
  <2>2. asks[1].from = "print" /\ asks[1].id = "Send"  BY <1>2, <1>3, <1>4, <1>10
  <2>3. PrintTalk(asks', http', active, sending)
    <3>1. PICK h2, q2 : h2 = http' /\ q2 = asks'  OBVIOUS
    <3>2. /\ PrintTalk(asks, http, active, sending) /\ Taken(asks, q2)
          /\ asks[1].from = "print" /\ http.owner = "print" /\ http.state = "open"
          /\ active # None => active \in PrintJobs
          /\ asks[1].id = "Send"
          /\ h2.state = "executing" /\ h2.owner = http.owner /\ h2.job = http.job
          /\ h2.sink = http.sink /\ h2.parts = http.parts
      BY ONLY <1>3, <1>4, <1>7, <1>10, <1>12, <2>2, <3>1
    <3>3. PrintTalk(q2, h2, active, sending)  BY ONLY <3>2, PrintSent
    <3> QED  BY ONLY <3>1, <3>3
  <2>4. Aside(asks, asks', "ota")  BY <1>3, <2>2 DEF Aside
  <2>5. OtaTalk(asks', http', mail["ota"], ota)
    BY <1>7, <1>10, <1>12, <2>4, OtaAside
  <2> QED  BY <1>1, <1>3, <1>5, <1>8, <1>9, <2>3, <2>5 DEF TalkInv
<1>11. CASE http.owner = "ota"
  <2>2. asks[1].from = "ota" /\ asks[1].id = "Send"  BY <1>2, <1>3, <1>4, <1>11
  <2>3. OtaTalk(asks', http', mail["ota"], ota)
    BY <1>3, <1>7, <1>12, <2>2, OtaSent
  <2>4. Aside(asks, asks', "print")  BY <1>3, <2>2 DEF Aside
  <2>5. PrintTalk(asks', http', active, sending)
    BY <1>7, <1>11, <1>12, <2>4, PrintAside
  <2> QED  BY <1>1, <1>3, <1>5, <1>8, <1>9, <2>3, <2>5 DEF TalkInv
<1> QED  BY <1>4, <1>10, <1>11

\* The callback's message is handled.
LEMMA TalkOnWake ==
  ASSUME BaseInv, OnWake, UNCHANGED <<otaVars, printVars>>
  PROVE  TalkInv' /\ http' = Unowned /\ http.owner = "ota" /\ mail["ota"] = <<>>
         /\ mail'["print"] = mail["print"]
         /\ mail'["ota"] = <<Result("expired", FALSE)>>
<1> USE DEF OnWake
<1>1. TalkInv  BY DEF BaseInv
<1>2. asks # <<>> /\ asks' = Tail(asks) /\ Head(asks).id = "Wake"  BY DEF Asked
<1>3. Taken(asks, asks') /\ IsQueue(asks') /\ Head(asks) = asks[1] /\ IsQueue(asks)
  <2>1. PICK q, q2 : q = asks /\ q2 = asks'  OBVIOUS
  <2>2. IsQueue(q) /\ q # <<>> /\ q2 = Tail(q)  BY <1>1, <1>2, <2>1 DEF TalkInv
  <2>3. Taken(q, q2) /\ IsQueue(q2)  BY <2>2, QueueTail
  <2> QED  BY <2>1, <2>2, <2>3 DEF Taken
<1>4. Senders(asks')  BY <1>1, <1>3, SendersTail DEF TalkInv
<1>5. /\ asks[1] = WakeUp /\ timer.expired /\ ~timer.armed /\ http.state = "open"
      /\ http.owner = "ota" /\ Silent("ota", asks) /\ mail["ota"] = <<>> /\ NoWake(asks')
  <2>1. TimerTalk(asks, http, mail["ota"], timer) /\ asks[1].id = "Wake"
    BY <1>1, <1>2, <1>3 DEF TalkInv
  <2> QED  BY ONLY <1>3, <2>1, TimerWoken
<1>6. /\ Woken /\ task' = task /\ ota' = ota /\ active' = active /\ sending' = sending
  BY <1>5 DEF Woken, sessVars, otaVars, printVars
<1>7. PICK x : x = Result("expired", FALSE)  OBVIOUS
<1>8. http' = Unowned /\ mail' = [mail EXCEPT !["ota"] = Append(@, x)]
  BY <1>5, <1>6, <1>7 DEF Tell
<1>9. /\ MailTypes(mail) /\ MailTypes(mail') /\ mail'["ota"] = Append(mail["ota"], x)
      /\ mail'["print"] = mail["print"]
  <2>1. MailTypes(mail)  BY <1>1 DEF TalkInv
  <2>2. /\ DOMAIN mail' = DOMAIN mail /\ mail'["ota"] = Append(mail["ota"], x)
        /\ \A d \in {"ota", "print"} : d # "ota" => mail'[d] = mail[d]
    BY <1>8, <2>1 DEF MailTypes
  <2>3. "ota" \in {"ota", "print"}  OBVIOUS
  <2>4. MailTypes(mail')  BY ONLY <2>1, <2>2, <2>3, MailTold
  <2> QED  BY <2>1, <2>2, <2>4
<1>10. http'.owner = None /\ http'.state = "idle" /\ http'.sink = NoSink /\ http'.job = None
  BY <1>8 DEF Unowned
<1>11. HttpTypes(http')
  <2>1. NoSink \in [target : Targets \cup {None}, up : Nat, next : 0..Chunks,
                    opened : BOOLEAN, error : BOOLEAN] /\ NoSink.next = 0
    BY OtaAssumption DEF NoSink
  <2>2. http' = [state |-> http'.state, owner |-> http'.owner, job |-> http'.job,
                 parts |-> http'.parts, sink |-> http'.sink]
    BY <1>8 DEF Unowned
  <2> QED  BY <1>10, <2>1, <2>2 DEF HttpTypes
<1>12. asks[1].from # "print" /\ asks[1].from # "ota" /\ None # "ota" /\ None # "print"
  BY <1>5, SessionsAssumption DEF WakeUp
<1>13. OtaTalk(asks', http', mail'["ota"], ota')
  <2>1. OtaTalk(asks, http, mail["ota"], ota)  BY <1>1 DEF TalkInv
  <2>2. Aside(asks, asks', "ota")  BY <1>3, <1>12 DEF Aside
  <2>3. x.id = "Result" /\ x.job = http.job /\ x.ok = FALSE /\ x.body = FALSE
    BY <1>7 DEF Result
  <2>4. http'.owner # "ota"  BY <1>10, <1>12
  <2>5. OtaTalk(asks', http', mail'["ota"], ota)
    BY ONLY <1>3, <1>5, <1>9, <2>1, <2>2, <2>3, <2>4, OtaWoken
  <2> QED  BY <1>6, <2>5
<1>14. PrintTalk(asks', http', active', sending')
  <2>1. PrintTalk(asks, http, active, sending)  BY <1>1 DEF TalkInv
  <2>2. Aside(asks, asks', "print")  BY <1>3, <1>12 DEF Aside
  <2>3. http'.owner # "print" /\ http.owner # "print"  BY <1>5, <1>10, <1>12
  <2>4. PrintTalk(asks', http', active, sending)
    BY ONLY <1>3, <2>1, <2>2, <2>3, PrintAside
  <2> QED  BY <1>6, <1>9, <2>4
<1>15. TimerTalk(asks', http', mail'["ota"], timer')
  <2>1. timer' \in [armed : BOOLEAN, expired : BOOLEAN] /\ ~timer'.armed
    BY <1>1, <1>5 DEF TalkInv, TimerTalk
  <2> QED  BY <1>5, <1>10, <2>1, TimerQuiet
<1>16. mail'["ota"] = <<x>>  BY <1>5, <1>9, AppendShort
<1> QED  BY <1>1, <1>3, <1>4, <1>5, <1>6, <1>7, <1>8, <1>9, <1>11, <1>13, <1>14, <1>15, <1>16
     DEF TalkInv

\* The session idles: it is one the web OTA client left.
LEMMA TalkSessionIdles ==
  ASSUME BaseInv, SessionIdles, "slow" \notin Faults, UNCHANGED <<otaVars, printVars>>
  PROVE  TalkInv' /\ Added(asks, asks', <<WakeUp>>)
<1> USE DEF SessionIdles, IdleTimerFires
<1>1. TalkInv  BY DEF BaseInv
<1>2. /\ timer.armed /\ ~Underway(http.owner) /\ timer' = [armed |-> FALSE, expired |-> TRUE]
      /\ asks' = Append(asks, WakeUp) /\ http' = http /\ mail' = mail /\ task' = task
      /\ ota' = ota /\ active' = active /\ sending' = sending
  BY DEF sessVars, otaVars, printVars
<1>3. /\ TimerTalk(asks, http, mail["ota"], timer) /\ IsQueue(asks)
      /\ PrintTalk(asks, http, active, sending)
      /\ OtaTalk(asks, http, mail["ota"], ota) /\ Senders(asks)
      /\ HttpTypes(http)
  BY <1>1 DEF TalkInv
<1>4. http.state = "open"  BY <1>2, <1>3 DEF TimerTalk
<1>5. http.owner # "print"
  <2>1. ASSUME http.owner = "print"  PROVE FALSE
    <3>1. Silent("print", asks) /\ ~sending  BY <1>2, <2>1 DEF Underway, Silent
    <3>2. \A lo, parts, j, t, u : ~BurstLeft("print", asks, lo, parts, j, t, u)
      <4>1. Send("print").from = "print"  BY DEF Send
      <4> QED  BY <3>1, <4>1 DEF BurstLeft, Silent
    <3>3. ~PrintSets(asks, http, active, sending)
      BY <3>2 DEF PrintSets
    <3> QED  BY <1>3, <1>4, <2>1, <3>1, <3>3
         DEF PrintTalk, PrintRests, PrintAsks, PrintOpened, PrintEnds, PrintPosts, Posted
  <2> QED  BY <2>1
<1>6. http.owner = "ota"  BY <1>3, <1>4, <1>5 DEF HttpTypes
<1>7. Silent("ota", asks) /\ mail["ota"] = <<>>  BY <1>2, <1>6 DEF Underway, Silent
<1>8. TimerTalk(asks', http', mail'["ota"], timer') /\ Added(asks, asks', <<WakeUp>>)
  <2>1. TimerTalk(asks', http, mail["ota"], timer') /\ Added(asks, asks', <<WakeUp>>)
    BY ONLY <1>2, <1>3, <1>6, <1>7, TimerFired
  <2> QED  BY <1>2, <2>1
<1>9. PICK b : b = <<WakeUp>>  OBVIOUS
<1>10. Len(b) = 1 /\ b[1] = WakeUp /\ Added(asks, asks', b) /\ DOMAIN b = 1..1
  <2>1. PICK x : x = WakeUp  OBVIOUS
  <2>2. b = <<x>>  BY <1>9, <2>1
  <2>3. Len(b) = 1 /\ b[1] = x /\ DOMAIN b = 1..1  BY <2>2
  <2> QED  BY <1>8, <1>9, <2>1, <2>3
<1>11. WakeUp.from # "ota" /\ WakeUp.from # "print" /\ WakeUp.id = "Wake"
  BY SessionsAssumption DEF WakeUp
<1>12. Aside(asks, asks', "ota") /\ Aside(asks, asks', "print")
  BY <1>10, <1>11 DEF Aside
<1>13. Senders(b)  BY <1>10, <1>11 DEF Senders
<1>14. Senders(asks')  BY <1>3, <1>10, <1>13, SendersAdded
<1>15. IsQueue(asks')
  <2>1. PICK q, x : q = asks /\ x = WakeUp  OBVIOUS
  <2>2. IsQueue(Append(q, x))  BY <1>3, <2>1, QueueAppend
  <2> QED  BY <1>2, <2>1, <2>2
<1>16. PrintTalk(asks', http', active', sending')
  BY <1>2, <1>3, <1>12, PrintAside
<1>17. OtaTalk(asks', http', mail'["ota"], ota')  BY <1>2, <1>3, <1>12, OtaAside
<1> QED  BY <1>1, <1>2, <1>8, <1>14, <1>15, <1>16, <1>17 DEF TalkInv

\* What is executed is the active job of the printing module, or a job of the other client.
LEMMA ExecutingFacts ==
  ASSUME BaseInv, Executing
  PROVE  /\ http.owner = "print" => active # None /\ http.job = active /\ http.sink = NoSink
         /\ http.owner = "ota" =>
              /\ mail["ota"] = <<>> /\ http.job \in OtaJobs
              /\ http.job.kind = "image" => http.sink.target \in Targets
              /\ http.job.kind # "image" => http.sink = NoSink
         /\ http.owner \in {"ota", "print"} /\ http.sink = NoSink => ~Streaming
         /\ Streaming => http.owner = "ota" /\ http.job.kind = "image"
<1>1. /\ PrintTalk(asks, http, active, sending)
      /\ OtaTalk(asks, http, mail["ota"], ota) /\ HttpTypes(http)
      /\ ota.slot \in DOMAIN Slots /\ (active # None => active \in PrintJobs)
      /\ http.state = "executing"
  BY Known DEF BaseInv, TalkInv, Executing
<1>2. http.owner \in {"ota", "print"}  BY <1>1 DEF HttpTypes
<1>3. http.owner = "print" => active # None /\ http.job = active /\ http.sink = NoSink
  BY ONLY <1>1, PrintExecuting
<1>4. http.owner = "ota" =>
        /\ mail["ota"] = <<>> /\ http.job \in OtaJobs
        /\ http.job.kind = "image" => http.sink.target \in Targets
        /\ http.job.kind # "image" => http.sink = NoSink
  BY ONLY <1>1, OtaExecuting
<1>5. http.sink = NoSink => ~Streaming  BY DEF NoSink, Streaming
<1> QED  BY <1>2, <1>3, <1>4, <1>5

\* The request is over.
LEMMA TalkFinished ==
  ASSUME BaseInv, Executing, NEW r \in {"ok", "failed"}, NEW y \in BOOLEAN, Finish(r, y),
         Streaming => ~y, asks' = asks, timer' = timer, task' = task,
         UNCHANGED <<otaVars, printVars>>
  PROVE  /\ TalkInv' /\ http' = Unowned
         /\ http.owner = "print" => mail'["ota"] = mail["ota"]
                                    /\ mail'["print"] = Append(mail["print"], Result(r, y))
         /\ http.owner = "ota" => mail'["print"] = mail["print"]
                                  /\ mail'["ota"] = <<Result(r, y)>>
<1>1. TalkInv /\ http.state = "executing"  BY DEF BaseInv, Executing
<1>2. /\ PrintTalk(asks, http, active, sending)
      /\ OtaTalk(asks, http, mail["ota"], ota) /\ HttpTypes(http) /\ MailTypes(mail)
      /\ TimerTalk(asks, http, mail["ota"], timer)
      /\ ota.slot \in DOMAIN Slots /\ (active # None => active \in PrintJobs)
  BY <1>1, Known DEF TalkInv
<1>3. PICK c, x : c = http.owner /\ x = Result(r, y)  OBVIOUS
<1>4. c \in {"ota", "print"}  BY <1>1, <1>2, <1>3 DEF HttpTypes
<1>5. http' = Unowned /\ mail' = [mail EXCEPT ![c] = Append(@, x)]
  BY <1>3 DEF Finish, Tell
<1>6. /\ MailTypes(mail') /\ mail'[c] = Append(mail[c], x)
      /\ c = "print" => mail'["ota"] = mail["ota"]
      /\ c = "ota" => mail'["print"] = mail["print"]
  <2>1. /\ DOMAIN mail' = DOMAIN mail /\ mail'[c] = Append(mail[c], x)
        /\ \A d \in {"ota", "print"} : d # c => mail'[d] = mail[d]
    BY <1>2, <1>4, <1>5 DEF MailTypes
  <2>2. MailTypes(mail')  BY ONLY <1>2, <1>4, <2>1, MailTold
  <2> QED  BY <2>1, <2>2
<1>7. http'.owner = None /\ http'.state = "idle" /\ http'.sink = NoSink /\ http'.job = None
      /\ None # "ota" /\ None # "print"
  BY <1>5, SessionsAssumption DEF Unowned
<1>8. HttpTypes(http')
  <2>1. NoSink \in [target : Targets \cup {None}, up : Nat, next : 0..Chunks,
                    opened : BOOLEAN, error : BOOLEAN] /\ NoSink.next = 0
    BY OtaAssumption DEF NoSink
  <2>2. http' = [state |-> http'.state, owner |-> http'.owner, job |-> http'.job,
                 parts |-> http'.parts, sink |-> http'.sink]
    BY <1>5 DEF Unowned
  <2> QED  BY <1>7, <2>1, <2>2 DEF HttpTypes
<1>9. x.id = "Result" /\ x.job = http.job /\ x.ok \in BOOLEAN /\ x.body \in BOOLEAN
      /\ (Streaming => ~x.body)
  <2>1. x = [id |-> "Result", ok |-> r = "ok", expired |-> r = "expired", body |-> y,
             job |-> http.job]
    BY <1>3 DEF Result
  <2> QED  BY <2>1
<1>10. TimerTalk(asks', http', mail'["ota"], timer')
  <2>1. NoWake(asks) /\ ~timer.armed  BY <1>1, <1>2, TimerArmed
  <2> QED  BY <1>2, <1>7, <2>1, TimerQuiet DEF TimerTalk
<1>11. ota' = ota /\ active' = active /\ sending' = sending  BY DEF otaVars, printVars
<1>12. Aside(asks, asks, "ota") /\ Aside(asks, asks, "print") /\ IsQueue(asks)
  BY <1>1 DEF Aside, TalkInv
<1>13. CASE c = "print"
  <2>1. PrintTalk(asks, http', active, sending)
    <3>1. http.owner = "print"  BY <1>3, <1>13
    <3>2. http'.owner # "print"  BY <1>7
    <3> QED  BY ONLY <1>1, <1>2, <3>1, <3>2, PrintResult
  <2>2. OtaTalk(asks, http', mail["ota"], ota)
    <3>1. http.owner # "ota" /\ http'.owner # "ota"  BY <1>3, <1>7, <1>13
    <3> QED  BY ONLY <1>2, <1>12, <3>1, OtaAside
  <2> QED  BY <1>1, <1>3, <1>5, <1>6, <1>8, <1>10, <1>11, <1>13, <2>1, <2>2 DEF TalkInv
<1>14. CASE c = "ota"
  <2>1. /\ mail["ota"] = <<>> /\ (http.job.kind = "image" => Streaming)
    BY <1>3, <1>14, ExecutingFacts, OtaAssumption DEF Streaming
  <2>2. OtaTalk(asks, http', mail'["ota"], ota)
    <3>1. mail'["ota"] = Append(mail["ota"], x) /\ http.owner = "ota"
      BY <1>3, <1>6, <1>14
    <3>2. http'.owner # "ota"  BY <1>7
    <3>3. http.job.kind = "image" => ~x.body  BY <1>9, <2>1
    <3> QED  BY ONLY <1>1, <1>2, <1>9, <3>1, <3>2, <3>3, OtaResult
  <2>3. PrintTalk(asks, http', active, sending)
    <3>1. http.owner # "print" /\ http'.owner # "print"  BY <1>3, <1>7, <1>14
    <3> QED  BY ONLY <1>2, <1>12, <3>1, PrintAside
  <2>4. mail'["ota"] = <<x>>  BY <1>6, <1>14, <2>1, AppendShort
  <2> QED  BY <1>1, <1>3, <1>5, <1>6, <1>8, <1>10, <1>11, <1>14, <2>2, <2>3, <2>4 DEF TalkInv
<1> QED  BY <1>4, <1>13, <1>14

\* The image is streamed.
LEMMA TalkStreamed ==
  ASSUME BaseInv, Streaming, HttpTypes(http'),
         http'.state = http.state, http'.owner = http.owner, http'.job = http.job,
         http'.parts = http.parts, http'.sink.target = http.sink.target,
         http'.sink.up = http.sink.up,
         asks' = asks, timer' = timer, mail' = mail, task' = task,
         UNCHANGED <<otaVars, printVars>>
  PROVE  TalkInv'
<1>1. TalkInv  BY DEF BaseInv
<1>2. /\ PrintTalk(asks, http, active, sending)
      /\ OtaTalk(asks, http, mail["ota"], ota) /\ IsQueue(asks)
      /\ TimerTalk(asks, http, mail["ota"], timer)
      /\ http.state = "executing" /\ http.sink.target # None
  BY <1>1 DEF TalkInv, Streaming, Executing
<1>3. http.owner = "ota"  BY ExecutingFacts DEF Streaming
<1>4. ota' = ota /\ active' = active /\ sending' = sending  BY DEF otaVars, printVars
<1>5. OtaTalk(asks, http', mail["ota"], ota)
  BY ONLY <1>2, OtaStreamed, http'.state = http.state, http'.owner = http.owner,
          http'.job = http.job, http'.parts = http.parts,
          http'.sink.target = http.sink.target, http'.sink.up = http.sink.up
<1>6. PrintTalk(asks, http', active, sending)
  <2>1. Aside(asks, asks, "print")  BY DEF Aside
  <2>2. http.owner # "print" /\ http'.owner # "print"  BY <1>3
  <2> QED  BY ONLY <1>2, <2>1, <2>2, PrintAside
<1>7. TimerTalk(asks, http', mail["ota"], timer)
  <2>1. NoWake(asks) /\ ~timer.armed  BY <1>2, TimerArmed
  <2> QED  BY <1>2, <2>1, TimerQuiet DEF TimerTalk
<1> QED  BY <1>1, <1>4, <1>5, <1>6, <1>7 DEF TalkInv

-----------------------------------------------------------------------------
(* The steps of the web OTA client.                                         *)

\* A message of the HTTP module is taken.
LEMMA OtaMailTaken ==
  ASSUME BaseInv, mail["ota"] # <<>>, mail' = [mail EXCEPT !["ota"] = Tail(@)]
  PROVE  /\ MailTypes(mail') /\ Taken(mail["ota"], mail'["ota"]) /\ IsQueue(mail'["ota"])
         /\ mail'["print"] = mail["print"] /\ Mail = mail["ota"][1]
<1>1. MailTypes(mail)  BY DEF BaseInv, TalkInv
<1>2. /\ DOMAIN mail' = DOMAIN mail /\ mail'["ota"] = Tail(mail["ota"])
      /\ \A d \in {"ota", "print"} : d # "ota" => mail'[d] = mail[d]
  BY <1>1 DEF MailTypes
<1>3. "ota" \in {"ota", "print"} /\ mail["ota"] # <<>>  OBVIOUS
<1>4. /\ MailTypes(mail') /\ Taken(mail["ota"], mail'["ota"]) /\ IsQueue(mail'["ota"])
      /\ Head(mail["ota"]) = mail["ota"][1]
  BY ONLY <1>1, <1>2, <1>3, MailRead
<1> QED  BY <1>2, <1>4 DEF Mail

\* What the client does is none of the printing module's business, nor of the timer's when
\* the client has something under way.
LEMMA TalkOfOta ==
  ASSUME BaseInv, OtaTalk(asks', http, mail'["ota"], ota'), http' = http, timer' = timer,
         task' = task, mail'["print"] = mail["print"], MailTypes(mail'), UNCHANGED printVars,
         \/ asks' = asks /\ mail'["ota"] = mail["ota"]
         \/ /\ http.state # "open" \/ http.owner # "ota" \/ mail["ota"] # <<>>
            /\ \/ asks' = asks
               \/ /\ IsQueue(asks')
                  /\ \E b : /\ Added(asks, asks', b)
                            /\ \A k \in 1..Len(b) : b[k].from = "ota" /\ b[k].id # "Wake"
  PROVE  TalkInv'
<1>1. TalkInv  BY DEF BaseInv
<1>2. /\ PrintTalk(asks, http, active, sending) /\ IsQueue(asks)
      /\ TimerTalk(asks, http, mail["ota"], timer) /\ Senders(asks)
  BY <1>1 DEF TalkInv
<1>3. active' = active /\ sending' = sending  BY DEF printVars
<1>4. CASE asks' = asks
  <2>1. TimerTalk(asks, http, mail'["ota"], timer)
    <3>1. CASE mail'["ota"] = mail["ota"]  BY <1>2, <3>1
    <3>2. CASE http.state # "open" \/ http.owner # "ota" \/ mail["ota"] # <<>>
      <4>1. NoWake(asks) /\ (http.state = "open" <=> timer.armed)
        BY ONLY <1>2, <3>2, TimerArmed
      <4> QED  BY <1>2, <4>1, TimerQuiet DEF TimerTalk
    <3> QED  BY <3>1, <3>2
  <2> QED  BY <1>1, <1>2, <1>3, <1>4, <2>1 DEF TalkInv
<1>5. CASE asks' # asks
  <2>1. /\ http.state # "open" \/ http.owner # "ota" \/ mail["ota"] # <<>>
        /\ IsQueue(asks')
    BY <1>5
  <2>2. PICK b : /\ Added(asks, asks', b)
                 /\ \A k \in 1..Len(b) : b[k].from = "ota" /\ b[k].id # "Wake"
    BY <1>5
  <2>3. NoWake(asks) /\ (http.state = "open" <=> timer.armed)
    BY ONLY <1>2, <2>1, TimerArmed
  <2>4. NoWake(asks')  BY <2>2, <2>3, NoWakeAdded
  <2>5. TimerTalk(asks', http, mail'["ota"], timer)
    BY <1>2, <2>3, <2>4, TimerQuiet DEF TimerTalk
  <2>6. PrintTalk(asks', http, active, sending)
    <3>1. Aside(asks, asks', "print")  BY <2>2 DEF Aside
    <3> QED  BY ONLY <1>2, <3>1, PrintAside
  <2>7. Senders(asks')
    <3>1. Senders(b)  BY <2>2 DEF Senders, Added
    <3> QED  BY ONLY <1>2, <2>2, <3>1, SendersAdded
  <2> QED  BY <1>1, <1>3, <2>1, <2>5, <2>6, <2>7 DEF TalkInv
<1> QED  BY <1>4, <1>5

\* A request for a session is put in the HTTP module's queue.
AsksFor(q, q2, c, j) ==
  \E b : /\ Added(q, q2, b) /\ Len(b) = 1 /\ b[1] = Start(c, j)
        /\ \A k \in 1..Len(b) : b[k].from = c /\ b[k].id # "Wake"

LEMMA SessionAsked ==
  ASSUME NEW q, NEW q2, NEW c, NEW j, IsQueue(q), q2 = Append(q, Start(c, j))
  PROVE  IsQueue(q2) /\ AsksFor(q, q2, c, j)
<1>1. PICK x : x = Start(c, j)  OBVIOUS
<1>2. IsQueue(q2) /\ Added(q, q2, <<x>>)  BY <1>1, QueueAppend
<1>3. Len(<<x>>) = 1 /\ <<x>>[1] = x  OBVIOUS
<1>4. x.from = c /\ x.id # "Wake"  BY <1>1 DEF Start
<1>5. \A k \in 1..Len(<<x>>) : <<x>>[k].from = c /\ <<x>>[k].id # "Wake"  BY <1>3, <1>4
<1> QED  BY <1>1, <1>2, <1>3, <1>5 DEF AsksFor

LEMMA TalkOtaTick ==
  ASSUME BaseInv, IntervalPasses, "slow" \notin Faults, UNCHANGED printVars
  PROVE  TalkInv' /\ inbox = <<>>
<1> USE DEF IntervalPasses, OtaTick
<1>1. /\ OtaTalk(asks, http, mail["ota"], ota) /\ IsQueue(asks) /\ MailTypes(mail)
  BY DEF BaseInv, TalkInv
<1>2. /\ Silent("ota", asks) /\ mail["ota"] = <<>> /\ inbox = <<>> /\ ota.state = "idle"
      /\ http.owner # "ota" \/ (http.state = "executing" /\ http.sink.target # None)
  BY DEF Underway, Silent, Streaming, Executing
<1>3. /\ http' = http /\ timer' = timer /\ task' = task /\ mail' = mail
      /\ asks' = Append(asks, Start("ota", CheckJob(ota.next)))
  BY DEF sessVars
<1>4. ota'.state = "check" /\ ota'.phase = "starting" /\ ota'.slot = ota.next
  <2>1. ota' = [ota EXCEPT !.state = "check", !.phase = "starting", !.slot = ota.next]
    OBVIOUS
  <2>2. OtaTypes(ota, meant)  BY DEF BaseInv, SessInv
  <2> QED  BY <2>1, <2>2 DEF OtaTypes
<1>5. OtaTalk(asks', http, mail["ota"], ota')
  <2>1. asks' = Append(asks, Start("ota", CheckJob(ota'.slot)))  BY <1>3, <1>4
  <2> QED  BY ONLY <1>1, <1>2, <1>4, <2>1, OtaTicked
<1>6. /\ IsQueue(asks')
      /\ \E b : /\ Added(asks, asks', b)
                /\ \A k \in 1..Len(b) : b[k].from = "ota" /\ b[k].id # "Wake"
  <2>1. PICK j : j = CheckJob(ota.next)  OBVIOUS
  <2>2. asks' = Append(asks, Start("ota", j))  BY <1>3, <2>1
  <2>3. IsQueue(asks') /\ AsksFor(asks, asks', "ota", j)  BY ONLY <1>1, <2>2, SessionAsked
  <2> QED  BY <2>3 DEF AsksFor
<1> QED  BY <1>1, <1>2, <1>3, <1>5, <1>6, TalkOfOta

\* An answer the client does not wait for.
LEMMA TalkOpeningIgnored ==
  ASSUME BaseInv, OpeningIgnored, UNCHANGED printVars
  PROVE  TalkInv'
<1> USE DEF OpeningIgnored, Mailed, MailTaken
<1>1. OtaTalk(asks, http, mail["ota"], ota) /\ OtaTypes(ota, meant)
  BY DEF BaseInv, TalkInv, SessInv
<1>2. /\ mail["ota"] # <<>> /\ http' = http /\ timer' = timer /\ task' = task /\ asks' = asks
      /\ mail' = [mail EXCEPT !["ota"] = Tail(@)] /\ Head(mail["ota"]).id = "StartResponse"
  BY DEF sessVars
<1>3. /\ MailTypes(mail') /\ Taken(mail["ota"], mail'["ota"]) /\ IsQueue(mail'["ota"])
      /\ mail'["print"] = mail["print"] /\ Mail = mail["ota"][1]
  BY <1>2, OtaMailTaken
<1>4. mail["ota"][1].id = "StartResponse"  BY <1>2, <1>3 DEF Mail
<1>5. ota' = ota /\ ota.phase # "starting"  BY <1>1 DEF OtaTypes, otaVars
<1>6. OtaTalk(asks, http, mail'["ota"], ota')
  BY ONLY <1>1, <1>3, <1>4, <1>5, OtaOpeningIgnored
<1>7. TalkInv'  BY <1>2, <1>3, <1>6, TalkOfOta
<1> QED  BY <1>3, <1>6, <1>7

\* The session was refused: the check is given up.
LEMMA TalkCheckBusy ==
  ASSUME BaseInv, CheckBusy, UNCHANGED printVars
  PROVE  TalkInv'
<1> USE DEF CheckBusy, Mailed, MailTaken
<1>1. OtaTalk(asks, http, mail["ota"], ota) /\ OtaTypes(ota, meant)
  BY DEF BaseInv, TalkInv, SessInv
<1>2. /\ mail["ota"] # <<>> /\ http' = http /\ timer' = timer /\ task' = task /\ asks' = asks
      /\ mail' = [mail EXCEPT !["ota"] = Tail(@)] /\ Head(mail["ota"]).id = "StartResponse"
  BY DEF sessVars
<1>3. /\ MailTypes(mail') /\ Taken(mail["ota"], mail'["ota"]) /\ IsQueue(mail'["ota"])
      /\ mail'["print"] = mail["print"] /\ Mail = mail["ota"][1]
  BY <1>2, OtaMailTaken
<1>4. mail["ota"][1].id = "StartResponse" /\ ~mail["ota"][1].ok  BY <1>2, <1>3 DEF Mail
<1>5. /\ ota'.state = "idle" /\ ota'.phase = "idle"
      /\ ota.phase = "starting"  BY <1>1 DEF OtaTypes, Idle
<1>6. OtaTalk(asks, http, mail'["ota"], ota')
  BY ONLY <1>1, <1>3, <1>4, <1>5, OtaBusy
<1>7. TalkInv'  BY <1>2, <1>3, <1>6, TalkOfOta
<1> QED  BY <1>3, <1>6, <1>7

\* The session was refused: the download is given up.
LEMMA TalkImageBusy ==
  ASSUME BaseInv, ImageBusy, UNCHANGED printVars
  PROVE  TalkInv' /\ OtaQuiet(asks, http, mail'["ota"])
<1> USE DEF ImageBusy, Mailed, MailTaken
<1>1. OtaTalk(asks, http, mail["ota"], ota) /\ OtaTypes(ota, meant)
  BY DEF BaseInv, TalkInv, SessInv
<1>2. /\ mail["ota"] # <<>> /\ http' = http /\ timer' = timer /\ task' = task /\ asks' = asks
      /\ mail' = [mail EXCEPT !["ota"] = Tail(@)] /\ Head(mail["ota"]).id = "StartResponse"
  BY DEF sessVars
<1>3. /\ MailTypes(mail') /\ Taken(mail["ota"], mail'["ota"]) /\ IsQueue(mail'["ota"])
      /\ mail'["print"] = mail["print"] /\ Mail = mail["ota"][1]
  BY <1>2, OtaMailTaken
<1>4. mail["ota"][1].id = "StartResponse" /\ ~mail["ota"][1].ok  BY <1>2, <1>3 DEF Mail
<1>5. /\ ota'.state = "idle" /\ ota'.phase = "idle"
      /\ ota.phase = "starting"  BY <1>1 DEF OtaTypes, Idle, Rotated
<1>6. OtaTalk(asks, http, mail'["ota"], ota') /\ OtaQuiet(asks, http, mail'["ota"])
  BY ONLY <1>1, <1>3, <1>4, <1>5, OtaBusy
<1>7. TalkInv'  BY <1>2, <1>3, <1>6, TalkOfOta
<1> QED  BY <1>3, <1>6, <1>7

\* A result the client does not wait for.
LEMMA TalkResultIgnored ==
  ASSUME BaseInv, ResultIgnored, UNCHANGED printVars
  PROVE  TalkInv'
<1> USE DEF ResultIgnored, Mailed, MailTaken
<1>1. OtaTalk(asks, http, mail["ota"], ota) /\ OtaTypes(ota, meant)
  BY DEF BaseInv, TalkInv, SessInv
<1>2. /\ mail["ota"] # <<>> /\ http' = http /\ timer' = timer /\ task' = task /\ asks' = asks
      /\ mail' = [mail EXCEPT !["ota"] = Tail(@)] /\ Head(mail["ota"]).id = "Result"
  BY DEF sessVars
<1>3. /\ MailTypes(mail') /\ Taken(mail["ota"], mail'["ota"]) /\ IsQueue(mail'["ota"])
      /\ mail'["print"] = mail["print"] /\ Mail = mail["ota"][1]
  BY <1>2, OtaMailTaken
<1>4. mail["ota"][1].id = "Result"  BY <1>2, <1>3 DEF Mail
<1>5. ota' = ota /\ ota.state \notin {"check", "download"}  BY <1>1 DEF OtaTypes, otaVars
<1>6. OtaTalk(asks, http, mail'["ota"], ota')
  BY ONLY <1>1, <1>3, <1>4, <1>5, OtaResultIgnored
<1>7. TalkInv'  BY <1>2, <1>3, <1>6, TalkOfOta
<1> QED  BY <1>3, <1>6, <1>7

\* A check is over.
LEMMA TalkCheckIsOver ==
  ASSUME BaseInv, CheckIsOver, UNCHANGED printVars
  PROVE  TalkInv'
<1> USE DEF CheckIsOver, Mailed, MailTaken
<1>1. OtaTalk(asks, http, mail["ota"], ota) /\ OtaTypes(ota, meant)
  BY DEF BaseInv, TalkInv, SessInv
<1>2. /\ mail["ota"] # <<>> /\ http' = http /\ timer' = timer /\ task' = task /\ asks' = asks
      /\ mail' = [mail EXCEPT !["ota"] = Tail(@)] /\ Head(mail["ota"]).id = "Result"
  BY DEF sessVars
<1>3. /\ MailTypes(mail') /\ Taken(mail["ota"], mail'["ota"]) /\ IsQueue(mail'["ota"])
      /\ mail'["print"] = mail["print"] /\ Mail = mail["ota"][1]
  BY <1>2, OtaMailTaken
<1>4. mail["ota"][1].id = "Result"  BY <1>2, <1>3 DEF Mail
<1>5. /\ ota'.state = "idle" /\ ota'.phase = "idle"
      /\ ota.state = "check" /\ ota.slot \in DOMAIN Slots  BY <1>1 DEF OtaTypes, Idle, Rotated
<1>6. OtaTalk(asks, http, mail'["ota"], ota')
  BY ONLY <1>1, <1>3, <1>4, <1>5, OtaCheckIsOver
<1>7. TalkInv'  BY <1>2, <1>3, <1>6, TalkOfOta
<1> QED  BY <1>3, <1>6, <1>7

\* There is an update.
LEMMA TalkUpdateFound ==
  ASSUME BaseInv, UpdateFound, UNCHANGED printVars
  PROVE  TalkInv' /\ OtaQuiet(asks, http, mail'["ota"]) /\ Mail.job = CheckJob(ota.slot)
<1> USE DEF UpdateFound, Mailed, MailTaken
<1>1. OtaTalk(asks, http, mail["ota"], ota) /\ OtaTypes(ota, meant)
  BY DEF BaseInv, TalkInv, SessInv
<1>2. /\ mail["ota"] # <<>> /\ http' = http /\ timer' = timer /\ task' = task /\ asks' = asks
      /\ mail' = [mail EXCEPT !["ota"] = Tail(@)] /\ Head(mail["ota"]).id = "Result"
  BY DEF HasBody
<1>3. /\ MailTypes(mail') /\ Taken(mail["ota"], mail'["ota"]) /\ IsQueue(mail'["ota"])
      /\ mail'["print"] = mail["print"] /\ Mail = mail["ota"][1]
  BY <1>2, OtaMailTaken
<1>4. mail["ota"][1].id = "Result"
      /\ mail["ota"][1].body
  BY <1>2, <1>3 DEF Mail, HasBody
<1>5. ota'.state = "session" /\ ota.state = "check"  BY <1>1 DEF OtaTypes
<1>6. OtaTalk(asks, http, mail'["ota"], ota') /\ OtaQuiet(asks, http, mail'["ota"])
      /\ mail["ota"][1].job = CheckJob(ota.slot)
  BY ONLY <1>1, <1>3, <1>4, <1>5, OtaUpdateFound
<1>7. TalkInv'  BY <1>2, <1>3, <1>6, TalkOfOta
<1> QED  BY <1>3, <1>6, <1>7

\* A download is over.
LEMMA TalkDownloadIsOver ==
  ASSUME BaseInv, DownloadIsOver, UNCHANGED printVars
  PROVE  TalkInv' /\ OtaQuiet(asks, http, mail'["ota"])
         /\ Len(mail["ota"]) = 1 /\ Mail.ok \in BOOLEAN
<1> USE DEF DownloadIsOver, Mailed, MailTaken
<1>1. OtaTalk(asks, http, mail["ota"], ota) /\ OtaTypes(ota, meant)
  BY DEF BaseInv, TalkInv, SessInv
<1>2. /\ mail["ota"] # <<>> /\ http' = http /\ timer' = timer /\ task' = task /\ asks' = asks
      /\ mail' = [mail EXCEPT !["ota"] = Tail(@)] /\ Head(mail["ota"]).id = "Result"
  BY DEF sessVars
<1>3. /\ MailTypes(mail') /\ Taken(mail["ota"], mail'["ota"]) /\ IsQueue(mail'["ota"])
      /\ mail'["print"] = mail["print"] /\ Mail = mail["ota"][1]
  BY <1>2, OtaMailTaken
<1>4. mail["ota"][1].id = "Result"  BY <1>2, <1>3 DEF Mail
<1>5. /\ ota'.state = "idle" /\ ota'.phase = "idle"
      /\ ota.state = "download"  BY <1>1 DEF OtaTypes, Idle, Rotated
<1>6. OtaTalk(asks, http, mail'["ota"], ota') /\ OtaQuiet(asks, http, mail'["ota"])
      /\ Len(mail["ota"]) = 1 /\ mail["ota"][1].ok \in BOOLEAN
  BY ONLY <1>1, <1>3, <1>4, <1>5, OtaDownloadIsOver
<1>7. TalkInv'  BY <1>2, <1>3, <1>6, TalkOfOta
<1> QED  BY <1>3, <1>6, <1>7

\* The session is granted: the client sends its request.
LEMMA TalkOpeningGranted ==
  ASSUME BaseInv, OpeningGranted, UNCHANGED printVars
  PROVE  TalkInv' /\ mail'["ota"] = <<>>
<1> USE DEF OpeningGranted, Mailed, MailTaken
<1>1. /\ OtaTalk(asks, http, mail["ota"], ota) /\ OtaTypes(ota, meant) /\ IsQueue(asks)
      /\ SessTalk(inbox, sess, ota, meant, dev)
  BY DEF BaseInv, TalkInv, SessInv
<1>2. /\ mail["ota"] # <<>> /\ http' = http /\ timer' = timer /\ task' = task
      /\ mail' = [mail EXCEPT !["ota"] = Tail(@)] /\ Head(mail["ota"]).id = "StartResponse"
  BY DEF sessVars
<1>3. /\ MailTypes(mail') /\ Taken(mail["ota"], mail'["ota"]) /\ IsQueue(mail'["ota"])
      /\ mail'["print"] = mail["print"] /\ Mail = mail["ota"][1]
  BY <1>2, OtaMailTaken
<1>4. mail["ota"][1].id = "StartResponse" /\ mail["ota"][1].ok  BY <1>2, <1>3 DEF Mail
<1>5. /\ ota'.phase = "executing" /\ ota.phase = "starting" /\ ota'.state = ota.state
      /\ ota'.slot = ota.slot /\ ota'.driver = ota.driver /\ ota'.up = ota.up
      /\ ota.state \in {"check", "download"}
  BY <1>1 DEF OtaTypes
<1>6. PICK b : b = IF ota.state = "check" THEN CheckBurst(ota.slot)
                   ELSE ImageBurst(ota.slot, ota.driver, ota.up)
  OBVIOUS
<1>7. asks' = asks \o b  BY <1>6
<1>8. ota.state = "check" => IsBurst("ota", b, CheckJob(ota.slot), None, 0)
  <2>1. ASSUME ota.state = "check"  PROVE b = CheckBurst(ota.slot)  BY <1>6, <2>1
  <2> QED  BY <2>1, CheckBurstIs
<1>9. ota.state = "download" =>
        ota.driver \in Targets /\ IsBurst("ota", b, ImageJob(ota.slot), ota.driver, ota.up)
  <2>1. ASSUME ota.state = "download"
        PROVE  b = ImageBurst(ota.slot, ota.driver, ota.up) /\ ota.driver \in Targets
    <3>1. b = ImageBurst(ota.slot, ota.driver, ota.up)  BY <1>6, <2>1
    <3>2. ota.driver = meant[Len(meant)] /\ meant # <<>>
      <4>1. Clear(inbox)
        BY <1>1, <2>1 DEF SessTalk, Link, Links, StartRequest, StartResponse, RequestDriver,
                          DriverResponse, Notify
      <4>2. ~\E k \in DOMAIN inbox : inbox[k].id \in Links  BY <4>1 DEF Clear
      <4> QED  BY ONLY <1>1, <2>1, <4>2 DEF SessTalk
    <3>3. meant \in Seq(Targets)  BY <1>1 DEF OtaTypes
    <3> QED  BY <3>1, <3>2, <3>3
  <2> QED  BY <2>1, ImageBurstIs
<1>10. IsQueue(b) /\ \A k \in 1..Len(b) : b[k].from = "ota" /\ b[k].id # "Wake"
  <2>1. PICK j, t, u : IsBurst("ota", b, j, t, u)  BY <1>5, <1>8, <1>9
  <2>2. ASSUME NEW k \in 1..Len(b)  PROVE b[k].from = "ota" /\ b[k].id # "Wake"
    <3>1. b[k] = Send("ota") \/ \E p \in Needs(j) : b[k] = PartOf("ota", p, j, t, u)
      BY <2>1, <2>2 DEF IsBurst
    <3>2. ASSUME NEW p  PROVE PartOf("ota", p, j, t, u).from = "ota"
                              /\ PartOf("ota", p, j, t, u).id # "Wake"
      <4>1. CASE p = "sink"  BY <4>1 DEF PartOf, Sink
      <4>2. CASE p # "sink"  BY <4>2 DEF PartOf, Part
      <4> QED  BY <4>1, <4>2
    <3>3. Send("ota").from = "ota" /\ Send("ota").id # "Wake"  BY DEF Send
    <3> QED  BY <3>1, <3>2, <3>3
  <2> QED  BY <2>1, <2>2 DEF IsBurst
<1>11. IsQueue(asks') /\ Added(asks, asks', b)  BY <1>1, <1>7, <1>10, QueueConcat
<1>12. OtaTalk(asks', http, mail'["ota"], ota') /\ mail'["ota"] = <<>>
  BY ONLY <1>1, <1>3, <1>4, <1>5, <1>8, <1>9, <1>11, OtaOpeningGranted
<1>13. TalkInv'  BY <1>2, <1>3, <1>10, <1>11, <1>12, TalkOfOta
<1> QED  BY <1>12, <1>13

\* What OtaModule answers changes nothing of the conversation.
LEMMA TalkSession ==
  ASSUME BaseInv, OtaTalk(asks, http, mail["ota"], ota'), task' = task,
         UNCHANGED <<httpVars, printVars>>
  PROVE  TalkInv'
<1>1. MailTypes(mail) /\ http' = http /\ timer' = timer /\ asks' = asks /\ mail' = mail
  BY DEF BaseInv, TalkInv, httpVars
<1> QED  BY <1>1, TalkOfOta

LEMMA TalkAnswerIgnored ==
  ASSUME BaseInv, AnswerIgnored, UNCHANGED printVars
  PROVE  TalkInv'
<1>1. OtaTalk(asks, http, mail["ota"], ota)  BY DEF BaseInv, TalkInv
<1>2. ota' = ota /\ task' = task /\ UNCHANGED httpVars  BY DEF AnswerIgnored, otaVars
<1> QED  BY <1>1, <1>2, TalkSession

LEMMA TalkSessionAccepted ==
  ASSUME BaseInv, SessionAccepted, UNCHANGED printVars
  PROVE  TalkInv'
<1>1. OtaTalk(asks, http, mail["ota"], ota) /\ OtaTypes(ota, meant)
  BY DEF BaseInv, TalkInv, SessInv
<1>2. /\ ota.state \in {"session", "driver"} /\ ota'.state = "driver"
      /\ task' = task /\ UNCHANGED httpVars
  BY <1>1 DEF SessionAccepted, OtaTypes
<1>3. OtaTalk(asks, http, mail["ota"], ota')  BY ONLY <1>1, <1>2, OtaAnswered
<1> QED  BY <1>2, <1>3, TalkSession

LEMMA TalkSessionRejected ==
  ASSUME BaseInv, SessionRejected, UNCHANGED printVars
  PROVE  TalkInv'
<1>1. OtaTalk(asks, http, mail["ota"], ota) /\ OtaTypes(ota, meant)
  BY DEF BaseInv, TalkInv, SessInv
<1>2. /\ ota.state \in {"session", "driver"} /\ ota'.state = "idle" /\ ota'.phase = "idle"
      /\ task' = task /\ UNCHANGED httpVars
  BY <1>1 DEF SessionRejected, OtaTypes, Rotated, Idle
<1>3. OtaTalk(asks, http, mail["ota"], ota')  BY ONLY <1>1, <1>2, OtaAnswered
<1> QED  BY <1>2, <1>3, TalkSession

\* The driver is there: the client asks for the session of the download.
LEMMA TalkDriverArrives ==
  ASSUME BaseInv, DriverArrives, UNCHANGED printVars
  PROVE  TalkInv' /\ OtaQuiet(asks, http, mail["ota"])
<1> USE DEF DriverArrives
<1>1. /\ OtaTalk(asks, http, mail["ota"], ota) /\ OtaTypes(ota, meant) /\ IsQueue(asks)
      /\ MailTypes(mail)
  BY DEF BaseInv, TalkInv, SessInv
<1>2. /\ http' = http /\ timer' = timer /\ task' = task /\ mail' = mail
      /\ asks' = Append(asks, Start("ota", ImageJob(ota.slot)))
  OBVIOUS
<1>3. /\ ota.state = "driver" /\ ota'.state = "download" /\ ota'.phase = "starting"
      /\ ota'.slot = ota.slot
  BY <1>1 DEF OtaTypes
<1>4. OtaTalk(asks', http, mail["ota"], ota') /\ OtaQuiet(asks, http, mail["ota"])
  <2>1. asks' = Append(asks, Start("ota", ImageJob(ota'.slot)))  BY <1>2, <1>3
  <2> QED  BY ONLY <1>1, <1>3, <2>1, OtaDriverArrives
<1>5. /\ IsQueue(asks')
      /\ \E b : /\ Added(asks, asks', b)
                /\ \A k \in 1..Len(b) : b[k].from = "ota" /\ b[k].id # "Wake"
  <2>1. PICK j : j = ImageJob(ota.slot)  OBVIOUS
  <2>2. asks' = Append(asks, Start("ota", j))  BY <1>2, <2>1
  <2>3. IsQueue(asks') /\ AsksFor(asks, asks', "ota", j)  BY ONLY <1>1, <2>2, SessionAsked
  <2> QED  BY <2>3 DEF AsksFor
<1>6. http.owner # "ota"  BY <1>4 DEF OtaQuiet
<1> QED  BY <1>1, <1>2, <1>4, <1>5, <1>6, TalkOfOta

\* The client forgets what it was doing.
LEMMA TalkInternetLost ==
  ASSUME BaseInv, InternetLost, UNCHANGED printVars
  PROVE  TalkInv'
<1>1. OtaTalk(asks, http, mail["ota"], ota) /\ OtaTypes(ota, meant)
  BY DEF BaseInv, TalkInv, SessInv
<1>2. /\ ota'.state = "idle" /\ ota'.phase = "idle" /\ task' = task /\ UNCHANGED httpVars
  BY <1>1 DEF InternetLost, OtaTypes, Idle, sessVars
<1>3. ota.slot \in DOMAIN Slots /\ ota.up \in Nat  BY <1>1 DEF OtaTypes
<1>4. OtaTalk(asks, http, mail["ota"], ota')  BY ONLY <1>1, <1>2, <1>3, OtaForgets
<1> QED  BY <1>2, <1>4, TalkSession

-----------------------------------------------------------------------------
(* The steps of the printing module.                                        *)

\* The module posts the job that waited at nozzle n.
Begun(n, p) ==
  /\ p[n] # None /\ active' = p[n].job /\ pending' = [p EXCEPT ![n] = None]
  /\ asks' = Append(asks, Start("print", p[n].job)) /\ sending' = TRUE

\* It posts nothing.
Waiting(p) == active' = None /\ pending' = p /\ asks' = asks /\ sending' = sending

LEMMA Least == ASSUME NEW S \in SUBSET Nat, S # {}  PROVE \E n \in S : \A m \in S : n <= m
<1>1. PICK r : r = OpToRel(<, Nat)  OBVIOUS
<1>2. PICK n \in S : \A m \in S : ~(<<m, n>> \in r)
  BY <1>1, WFMin, NatLessThanWellFounded, Zenon
<1>3. r = {p \in Nat \X Nat : p[1] < p[2]}  BY <1>1, Zenon DEF OpToRel
<1>4. \A m \in S : ~(m < n)  BY ONLY S \in SUBSET Nat, n \in S, <1>2, <1>3
<1> QED  BY <1>4

LEMMA Scheduled ==
  ASSUME NEW p, NEW rings, Schedule(p, rings)
  PROVE  Waiting(p) \/ \E n \in Nozzles : Begun(n, p)
<1>1. Due(p) \in SUBSET Nat  BY PrintingAssumption DEF Due
<1>2. CASE Due(p) # {}
  <2>1. \E n \in Due(p) : \A m \in Due(p) : n <= m  BY <1>1, <1>2, Least
  <2>2. PICK n : n = CHOOSE k \in Due(p) : \A m \in Due(p) : k <= m  OBVIOUS
  <2>3. n \in Nozzles /\ p[n] # None  BY <2>1, <2>2 DEF Due
  <2>4. Begin(n, p)  BY <1>2, <2>2 DEF Schedule
  <2> QED  BY <2>3, <2>4 DEF Begin, Begun, Asks
<1>3. CASE Due(p) = {}
  BY <1>3 DEF Schedule, Waiting
<1> QED  BY <1>2, <1>3

\* A job that waited is one to print.
LEMMA BegunActive ==
  ASSUME NEW p, PendingTypes(p), NEW n \in Nozzles, p[n] # None
  PROVE  p[n].job \in PrintJobs /\ p[n].job # None
<1>1. p[n] \in [job : PrintJobs, due : BOOLEAN]  BY DEF PendingTypes
<1>2. p[n].job \in PrintJobs  BY <1>1
<1>3. None \notin PrintJobs  BY PrintingAssumption DEF PrintJobs
<1> QED  BY <1>2, <1>3

\* What the module does is none of the other client's business, nor of the timer's.
LEMMA TalkOfPrint ==
  ASSUME BaseInv, PrintTalk(asks', http, active', sending'), http' = http,
         timer' = timer, task' = task, mail'["ota"] = mail["ota"], MailTypes(mail'),
         UNCHANGED otaVars, sending' \in BOOLEAN,
         \/ asks' = asks
         \/ /\ IsQueue(asks')
            /\ \E b : /\ Added(asks, asks', b)
                      /\ \A k \in 1..Len(b) : b[k].from = "print" /\ b[k].id # "Wake"
  PROVE  TalkInv'
<1>1. TalkInv  BY DEF BaseInv
<1>2. /\ OtaTalk(asks, http, mail["ota"], ota) /\ IsQueue(asks)
      /\ TimerTalk(asks, http, mail["ota"], timer) /\ Senders(asks)
  BY <1>1 DEF TalkInv
<1>3. ota' = ota  BY DEF otaVars
<1>4. CASE asks' = asks  BY <1>1, <1>2, <1>3, <1>4 DEF TalkInv
<1>5. CASE asks' # asks
  <2>1. PICK b : /\ Added(asks, asks', b)
                 /\ \A k \in 1..Len(b) : b[k].from = "print" /\ b[k].id # "Wake"
    BY <1>5
  <2>2. TimerTalk(asks', http, mail["ota"], timer)
    <3>1. \A k \in 1..Len(b) : b[k].id # "Wake" /\ b[k].from # "ota"  BY <2>1
    <3> QED  BY ONLY <1>2, <2>1, <3>1, TimerAdded
  <2>3. OtaTalk(asks', http, mail["ota"], ota)
    <3>1. Aside(asks, asks', "ota")  BY <2>1 DEF Aside
    <3> QED  BY ONLY <1>2, <3>1, OtaAside
  <2>4. Senders(asks')
    <3>1. Senders(b)  BY <2>1 DEF Senders, Added
    <3> QED  BY ONLY <1>2, <2>1, <3>1, SendersAdded
  <2>5. IsQueue(asks')  BY <1>5
  <2> QED  BY <1>1, <1>3, <2>2, <2>3, <2>4, <2>5 DEF TalkInv
<1> QED  BY <1>4, <1>5

\* The module was quiet, or is now: it may post the next job.
LEMMA TalkScheduled ==
  ASSUME BaseInv, NEW p, PendingTypes(p), NEW rings, Schedule(p, rings),
         PrintRests(asks, http, None, FALSE), sending = FALSE,
         http' = http, timer' = timer, task' = task, mail'["ota"] = mail["ota"],
         MailTypes(mail'), UNCHANGED otaVars
  PROVE  TalkInv'
<1>1. http.owner # "print" /\ NoStart("print", asks)  BY DEF PrintRests
<1>2. IsQueue(asks)  BY DEF BaseInv, TalkInv
<1>3. CASE Waiting(p)
  <2>1. asks' = asks /\ active' = None /\ sending' = FALSE  BY <1>3 DEF Waiting
  <2>2. PrintTalk(asks', http, active', sending')  BY <2>1 DEF PrintTalk
  <2> QED  BY <2>1, <2>2, TalkOfPrint
<1>4. ASSUME NEW n \in Nozzles, Begun(n, p)  PROVE TalkInv'
  <2>1. PICK j : j = p[n].job  OBVIOUS
  <2>2. /\ active' = j /\ j # None /\ sending' = TRUE
        /\ asks' = Append(asks, Start("print", j))
    BY <1>4, <2>1, BegunActive DEF Begun
  <2>3. PrintTalk(asks', http, j, TRUE)
    BY ONLY <1>1, <1>2, <2>2, PrintBegins
  <2>4. IsQueue(asks') /\ AsksFor(asks, asks', "print", j)
    BY ONLY <1>2, <2>2, SessionAsked
  <2>5. \E b : /\ Added(asks, asks', b)
               /\ \A k \in 1..Len(b) : b[k].from = "print" /\ b[k].id # "Wake"
    BY <2>4 DEF AsksFor
  <2> QED  BY <2>2, <2>3, <2>4, <2>5, TalkOfPrint
<1> QED  BY <1>3, <1>4, Scheduled

\* When no job is posted nothing of the module's is under way.
LEMMA PrintAtRest ==
  ASSUME BaseInv, active = None
  PROVE  PrintRests(asks, http, None, FALSE) /\ sending = FALSE
BY DEF BaseInv, TalkInv, PrintTalk, PrintRests, PrintAsks, PrintOpened, PrintSets, PrintEnds,
       PrintPosts

\* What c adds to the queue.
Said(q, q2, c) == q2 = q \/ \E b : Added(q, q2, b) /\ \A k \in 1..Len(b) : b[k].from = c

LEMMA TalkPrintSends ==
  ASSUME BaseInv, PrintSends, UNCHANGED otaVars
  PROVE  TalkInv' /\ Said(asks, asks', "print")
<1>1. /\ PrintTalk(asks, http, active, TRUE) /\ IsQueue(asks) /\ MailTypes(mail)
      /\ active # None => active \in PrintJobs
  BY Known DEF BaseInv, TalkInv, PrintSends
<1>2. /\ http' = http /\ timer' = timer /\ task' = task /\ mail' = mail /\ active' = active
      /\ sending' = FALSE
  BY DEF PrintSends, sessVars
<1>3. active # None /\ active \in PrintJobs
  BY <1>1, PrintAtRest DEF PrintTalk, PrintRests, PrintAsks, PrintOpened, PrintSets,
     PrintEnds, PrintPosts
<1>4. PICK j, x, z, b : /\ j = active /\ z = Send("print")
                        /\ x = [i \in 1..3 |-> Part("print", <<"url", "header", "body">>[i], j)]
                        /\ b = x \o <<z>>
  OBVIOUS
<1>5. asks' = asks \o x \o <<z>>  BY <1>4 DEF PrintSends
<1>6. IsBurst("print", b, j, None, 0)  BY <1>3, <1>4, PrintBurstIs
<1>7. IsQueue(b)  BY <1>6 DEF IsBurst
<1>8. asks' = asks \o b
  <2>1. PICK S : asks \in Seq(S)  BY <1>1 DEF IsQueue
  <2>2. x \in Seq({Part("print", "url", j), Part("print", "header", j), Part("print", "body", j)})
    <3>1. PICK T : T = {Part("print", "url", j), Part("print", "header", j),
                        Part("print", "body", j)}
      OBVIOUS
    <3>2. \A i \in 1..3 : Part("print", <<"url", "header", "body">>[i], j) \in T
      <4>1. PICK w : w = <<"url", "header", "body">>  OBVIOUS
      <4>2. w[1] = "url" /\ w[2] = "header" /\ w[3] = "body"  BY <4>1
      <4>3. \A i \in 1..3 : i = 1 \/ i = 2 \/ i = 3  OBVIOUS
      <4>4. \A i \in 1..3 : Part("print", w[i], j) \in T  BY ONLY <3>1, <4>2, <4>3
      <4> QED  BY ONLY <4>1, <4>4
    <3>3. [i \in 1..3 |-> Part("print", <<"url", "header", "body">>[i], j)] \in Seq(T)
      <4>1. [i \in 1..3 |-> Part("print", <<"url", "header", "body">>[i], j)] \in [1..3 -> T]
        BY ONLY <3>2
      <4>2. PICK f : f = [i \in 1..3 |-> Part("print", <<"url", "header", "body">>[i], j)]
        OBVIOUS
      <4>3. f \in [1..3 -> T] /\ 3 \in Nat  BY <4>1, <4>2
      <4>4. [i \in 1..3 |-> f[i]] \in Seq(T)
        <5>1. \A i \in 1..3 : f[i] \in T  BY ONLY <4>3
        <5> QED  BY ONLY <5>1
      <4>5. f = [i \in 1..3 |-> f[i]]  BY ONLY <4>3
      <4>6. f \in Seq(T)  BY ONLY <4>4, <4>5
      <4> QED  BY ONLY <4>2, <4>6
    <3> QED  BY ONLY <1>4, <3>1, <3>3
  <2>3. <<z>> \in Seq({z})  OBVIOUS
  <2>4. PICK T : x \in Seq(T)  BY <2>2
  <2>5. PICK U : U = S \cup T \cup {z}  OBVIOUS
  <2>6. asks \in Seq(U) /\ x \in Seq(U) /\ <<z>> \in Seq(U)  BY ONLY <2>1, <2>3, <2>4, <2>5
  <2>7. asks \o x \o <<z>> = asks \o (x \o <<z>>)  BY ONLY <2>6
  <2> QED  BY ONLY <1>4, <1>5, <2>7
<1>9. IsQueue(asks') /\ Added(asks, asks', b)  BY <1>1, <1>7, <1>8, QueueConcat
<1>10. PrintTalk(asks', http, active, FALSE)
  BY ONLY <1>1, <1>4, <1>6, <1>9, PrintRestSent
<1>11. \A k \in 1..Len(b) : b[k].from = "print" /\ b[k].id # "Wake"
  <2>1. ASSUME NEW k \in 1..Len(b)  PROVE b[k].from = "print" /\ b[k].id # "Wake"
    <3>1. b[k] = Send("print") \/ \E p \in Needs(j) : b[k] = PartOf("print", p, j, None, 0)
      BY <1>6, <2>1 DEF IsBurst
    <3>2. ASSUME NEW p  PROVE PartOf("print", p, j, None, 0).from = "print"
                              /\ PartOf("print", p, j, None, 0).id # "Wake"
      <4>1. CASE p = "sink"  BY <4>1 DEF PartOf, Sink
      <4>2. CASE p # "sink"  BY <4>2 DEF PartOf, Part
      <4> QED  BY <4>1, <4>2
    <3>3. Send("print").from = "print" /\ Send("print").id # "Wake"  BY DEF Send
    <3> QED  BY <3>1, <3>2, <3>3
  <2> QED  BY <2>1
<1>12. Said(asks, asks', "print")  BY <1>9, <1>11 DEF Said
<1>13. TalkInv'  BY <1>1, <1>2, <1>9, <1>10, <1>11, TalkOfPrint
<1> QED  BY <1>12, <1>13

\* An answer of the HTTP module is dropped.
LEMMA TalkAnswerDropped ==
  ASSUME BaseInv, AnswerDropped, UNCHANGED otaVars
  PROVE  TalkInv'
<1>1. /\ MailTypes(mail) /\ sending \in BOOLEAN /\ PrintTalk(asks, http, active, sending)
  BY DEF BaseInv, TalkInv
<1>2. /\ http' = http /\ timer' = timer /\ task' = task /\ asks' = asks /\ active' = active
      /\ sending' = sending /\ mail["print"] # <<>>
      /\ mail' = [mail EXCEPT !["print"] = Tail(@)]
  BY DEF AnswerDropped, sessVars, printVars
<1>3. /\ DOMAIN mail' = DOMAIN mail /\ mail'["print"] = Tail(mail["print"])
      /\ \A d \in {"ota", "print"} : d # "print" => mail'[d] = mail[d]
  BY <1>1, <1>2 DEF MailTypes
<1>4. PICK ml, ml2, c : ml = mail /\ ml2 = mail' /\ c = "print"  OBVIOUS
<1>6. /\ MailTypes(ml) /\ c \in {"ota", "print"} /\ ml[c] # <<>> /\ DOMAIN ml2 = DOMAIN ml
      /\ ml2[c] = Tail(ml[c])
      /\ \A d \in {"ota", "print"} : d # c => ml2[d] = ml[d]
  BY ONLY <1>1, <1>2, <1>3, <1>4
<1>7. MailTypes(ml2)  BY ONLY <1>6, MailRead
<1>5. MailTypes(mail')  BY <1>4, <1>7
<1> QED  BY <1>1, <1>2, <1>3, <1>5, TalkOfPrint

\* What SlotsInv says, part by part.
LEMMA SlotsParts ==
  ASSUME BaseInv
  PROVE  /\ PendingTypes(pending) /\ nozzle \in [Nozzles -> Nat]
         /\ active \in PrintJobs \cup {None}
BY DEF BaseInv, SlotsInv, SlotsTalk

LEMMA TalkRings ==
  ASSUME BaseInv, Rings, UNCHANGED otaVars
  PROVE  TalkInv'
<1> USE DEF Rings
<1>1. MailTypes(mail) /\ sending \in BOOLEAN /\ PrintTalk(asks, http, active, sending)
  BY DEF BaseInv, TalkInv
<1>2. http' = http /\ timer' = timer /\ task' = task /\ mail' = mail  BY DEF sessVars
<1>3. PendingTypes(pending)  BY SlotsParts
<1>4. CASE active = None
  <2>1. PrintRests(asks, http, None, FALSE) /\ sending = FALSE
    BY <1>2, <1>4, PrintAtRest
  <2>2. Schedule(pending, FALSE)  BY <1>4
  <2> QED  BY <1>1, <1>2, <1>3, <2>1, <2>2, TalkScheduled
<1>5. CASE active # None
  <2>1. asks' = asks /\ active' = active /\ sending' = sending  BY <1>5
  <2> QED  BY <1>1, <1>2, <2>1, TalkOfPrint
<1> QED  BY <1>4, <1>5

\* The job a press makes, and the slots with it.
PressJob(n, b) == Job(b, n, IF b = "receipt" THEN nozzle[n] ELSE 0)
PressedSlots(n, b) == [pending EXCEPT ![n] = [job |-> PressJob(n, b), due |-> ~Delayed]]

\* A slot takes a job of its nozzle.
LEMMA SlotTaken ==
  ASSUME NEW p, PendingTypes(p), NEW n \in Nozzles, NEW j \in PrintJobs, j.nozzle = n,
         NEW due \in BOOLEAN
  PROVE  PendingTypes([p EXCEPT ![n] = [job |-> j, due |-> due]])
<1>1. PICK x : x = [job |-> j, due |-> due]  OBVIOUS
<1>2. x \in [job : PrintJobs, due : BOOLEAN] /\ x.job = j  BY <1>1
<1>3. PICK p2 : p2 = [p EXCEPT ![n] = x]  OBVIOUS
<1>4. p \in [Nozzles -> [job : PrintJobs, due : BOOLEAN] \cup {None}]  BY DEF PendingTypes
<1>5. p2 \in [Nozzles -> [job : PrintJobs, due : BOOLEAN] \cup {None}]  BY <1>2, <1>3, <1>4
<1>6. p2[n] = x /\ \A k \in Nozzles : k # n => p2[k] = p[k]  BY <1>3, <1>4
<1>7. ASSUME NEW k \in Nozzles, p2[k] # None  PROVE p2[k].job.nozzle = k
  <2>1. CASE k = n  BY <1>2, <1>6, <2>1
  <2>2. CASE k # n  BY <1>6, <1>7, <2>2 DEF PendingTypes
  <2> QED  BY <2>1, <2>2
<1>8. PendingTypes(p2)  BY <1>5, <1>7 DEF PendingTypes
<1> QED  BY <1>1, <1>3, <1>8

\* A slot is left.
LEMMA SlotLeft ==
  ASSUME NEW p, PendingTypes(p), NEW n \in Nozzles
  PROVE  PendingTypes([p EXCEPT ![n] = None])
<1>1. PICK p2 : p2 = [p EXCEPT ![n] = None]  OBVIOUS
<1>2. p \in [Nozzles -> [job : PrintJobs, due : BOOLEAN] \cup {None}]  BY DEF PendingTypes
<1>3. p2 \in [Nozzles -> [job : PrintJobs, due : BOOLEAN] \cup {None}]  BY <1>1, <1>2
<1>4. p2[n] = None /\ \A k \in Nozzles : k # n => p2[k] = p[k]  BY <1>1, <1>2
<1>5. PendingTypes(p2)  BY <1>3, <1>4 DEF PendingTypes
<1> QED  BY <1>1, <1>5

LEMMA PressTypes ==
  ASSUME BaseInv, NEW n \in Nozzles, NEW b \in Buttons
  PROVE  PendingTypes(PressedSlots(n, b))
<1>1. PendingTypes(pending) /\ nozzle[n] \in Nat  BY SlotsParts
<1>2. PICK sale : sale = IF b = "receipt" THEN nozzle[n] ELSE 0  OBVIOUS
<1>3. sale \in Nat  BY <1>1, <1>2
<1>4. PICK j : j = [kind |-> b, nozzle |-> n, sale |-> sale]  OBVIOUS
<1>5. j \in PrintJobs /\ j.nozzle = n  BY <1>3, <1>4 DEF PrintJobs
<1>6. PICK due \in BOOLEAN : due = ~Delayed  BY PrintingAssumption
<1>7. PendingTypes([pending EXCEPT ![n] = [job |-> j, due |-> due]])
  BY ONLY <1>1, <1>5, <1>6, SlotTaken, n \in Nozzles
<1>8. PressedSlots(n, b) = [pending EXCEPT ![n] = [job |-> j, due |-> due]]
  BY <1>2, <1>4, <1>6 DEF PressedSlots, PressJob, Job
<1> QED  BY <1>7, <1>8

\* The button of a nozzle is pressed: the slots take its job.
LEMMA PressParts ==
  ASSUME NEW n, NEW b, PrinterBtn(n, b)
  PROVE  /\ IF active = None THEN Schedule(PressedSlots(n, b), alarm)
            ELSE pending' = PressedSlots(n, b) /\ UNCHANGED <<asks, active, sending, alarm>>
         /\ UNCHANGED <<sessVars, http, timer, mail, nozzle>>
BY DEF PrinterBtn, PressedSlots, PressJob

LEMMA TalkPrinterBtn ==
  ASSUME BaseInv, NEW n \in Nozzles, NEW b \in Buttons, PrinterBtn(n, b), UNCHANGED otaVars
  PROVE  TalkInv'
<1>1. MailTypes(mail) /\ sending \in BOOLEAN /\ PrintTalk(asks, http, active, sending)
  BY DEF BaseInv, TalkInv
<1>2. PICK p : p = PressedSlots(n, b)  OBVIOUS
<1>3. PendingTypes(p)  BY <1>2, PressTypes
<1>4. /\ IF active = None THEN Schedule(p, alarm)
         ELSE pending' = p /\ UNCHANGED <<asks, active, sending, alarm>>
      /\ http' = http /\ timer' = timer /\ task' = task /\ mail' = mail
  BY <1>2, PressParts DEF sessVars
<1>5. CASE active = None
  <2>1. PrintRests(asks, http, None, FALSE) /\ sending = FALSE
    BY <1>4, <1>5, PrintAtRest
  <2>2. Schedule(p, alarm)  BY <1>4, <1>5
  <2> QED  BY <1>1, <1>3, <1>4, <2>1, <2>2, TalkScheduled
<1>6. CASE active # None
  <2>1. asks' = asks /\ active' = active /\ sending' = sending  BY <1>4, <1>6
  <2> QED  BY <1>1, <1>4, <2>1, TalkOfPrint
<1> QED  BY <1>5, <1>6

\* Nothing is said to the HTTP module.
LEMMA TalkUntouched ==
  ASSUME BaseInv, UNCHANGED <<sessVars, httpVars, active, sending>>, UNCHANGED otaVars
  PROVE  TalkInv'
<1>1. MailTypes(mail) /\ sending \in BOOLEAN /\ PrintTalk(asks, http, active, sending)
  BY DEF BaseInv, TalkInv
<1>2. /\ http' = http /\ timer' = timer /\ task' = task /\ mail' = mail /\ asks' = asks
      /\ active' = active /\ sending' = sending
  BY DEF sessVars, httpVars
<1> QED  BY <1>1, <1>2, TalkOfPrint

-----------------------------------------------------------------------------
(* The conversations, whatever step is taken.                               *)

\* The record of the session with another sink.
LEMMA SinkChanged ==
  ASSUME HttpTypes(http), NEW next \in 0..Chunks, NEW opened \in BOOLEAN, NEW error \in BOOLEAN,
         next # 0 => opened,
         http' = [http EXCEPT !.sink = [http.sink EXCEPT !.next = next, !.opened = opened,
                                                         !.error = error]]
  PROVE  /\ HttpTypes(http') /\ http'.state = http.state /\ http'.owner = http.owner
         /\ http'.job = http.job /\ http'.parts = http.parts
         /\ http'.sink.target = http.sink.target /\ http'.sink.up = http.sink.up
         /\ http'.sink.next = next /\ http'.sink.opened = opened
<1>1. PICK s : s = [http.sink EXCEPT !.next = next, !.opened = opened, !.error = error]
  OBVIOUS
<1>2. /\ http.sink \in [target : Targets \cup {None}, up : Nat, next : 0..Chunks,
                        opened : BOOLEAN, error : BOOLEAN]
      /\ http = [state |-> http.state, owner |-> http.owner, job |-> http.job,
                 parts |-> http.parts, sink |-> http.sink]
  BY DEF HttpTypes
<1>3. s \in [target : Targets \cup {None}, up : Nat, next : 0..Chunks,
             opened : BOOLEAN, error : BOOLEAN]
  BY <1>1, <1>2
<1>4. s.target = http.sink.target /\ s.up = http.sink.up /\ s.next = next /\ s.opened = opened
  BY <1>1, <1>2
<1>5. http' = [http EXCEPT !.sink = s]  BY <1>1
<1>6. /\ http'.state = http.state /\ http'.owner = http.owner /\ http'.job = http.job
      /\ http'.parts = http.parts /\ http'.sink = s
      /\ http' = [state |-> http'.state, owner |-> http'.owner, job |-> http'.job,
                  parts |-> http'.parts, sink |-> http'.sink]
  BY <1>2, <1>5
<1>7. HttpTypes(http')  BY <1>3, <1>4, <1>6 DEF HttpTypes
<1> QED  BY <1>4, <1>6, <1>7

\* What a step of the stream does to the record of the session.
LEMMA StreamOpensSink ==
  ASSUME BaseInv, StreamOpens
  PROVE  /\ HttpTypes(http') /\ http'.state = http.state /\ http'.owner = http.owner
         /\ http'.job = http.job /\ http'.parts = http.parts
         /\ http'.sink.target = http.sink.target /\ http'.sink.up = http.sink.up
         /\ http.sink.next = 0 /\ http'.sink.next = 0 /\ http'.sink.opened
<1>1. HttpTypes(http) /\ ~http.sink.opened /\ ~http.sink.error
  BY DEF BaseInv, TalkInv, StreamOpens, Stream
<1>2. /\ http.sink \in [target : Targets \cup {None}, up : Nat, next : 0..Chunks,
                        opened : BOOLEAN, error : BOOLEAN]
      /\ http.sink.next = 0
  BY <1>1 DEF HttpTypes
<1>3. http' = [http EXCEPT !.sink = [http.sink EXCEPT !.next = 0, !.opened = TRUE,
                                                      !.error = FALSE]]
  <2>1. http' = [http EXCEPT !.sink.opened = TRUE]  BY DEF StreamOpens
  <2>2. http' = [http EXCEPT !.sink = [http.sink EXCEPT !.opened = TRUE]]  BY <2>1
  <2>3. [http.sink EXCEPT !.opened = TRUE]
          = [http.sink EXCEPT !.next = 0, !.opened = TRUE, !.error = FALSE]
    BY <1>1, <1>2
  <2> QED  BY <2>2, <2>3
<1>4. 0 \in 0..Chunks  BY OtaAssumption
<1>5. TRUE \in BOOLEAN /\ FALSE \in BOOLEAN /\ (0 # 0 => TRUE)  OBVIOUS
<1> QED  BY ONLY <1>1, <1>2, <1>3, <1>4, <1>5, SinkChanged

LEMMA StreamWritesSink ==
  ASSUME BaseInv, StreamWrites
  PROVE  /\ HttpTypes(http') /\ http'.state = http.state /\ http'.owner = http.owner
         /\ http'.job = http.job /\ http'.parts = http.parts
         /\ http'.sink.target = http.sink.target /\ http'.sink.up = http.sink.up
         /\ http'.sink.opened /\ http.sink.opened
         /\ http'.sink.next = IF dev[http.sink.target].open THEN http.sink.next + 1
                              ELSE http.sink.next
<1>1. /\ HttpTypes(http) /\ http.sink.opened /\ ~http.sink.error
      /\ http.sink.next < Chunks
  BY DEF BaseInv, TalkInv, StreamWrites, Stream
<1>2. /\ http.sink \in [target : Targets \cup {None}, up : Nat, next : 0..Chunks,
                        opened : BOOLEAN, error : BOOLEAN]
      /\ http.sink.next + 1 \in 0..Chunks /\ http.sink.next \in 0..Chunks
  BY <1>1, OtaAssumption DEF HttpTypes
<1>3. CASE dev[http.sink.target].open
  <2>1. http' = [http EXCEPT !.sink.next = @ + 1]  BY <1>3 DEF StreamWrites, Stream
  <2>2. PICK n \in 0..Chunks : n = http.sink.next + 1  BY <1>2
  <2>3. http' = [http EXCEPT !.sink = [http.sink EXCEPT !.next = n]]  BY <2>1, <2>2
  <2>4. [http.sink EXCEPT !.next = n]
          = [http.sink EXCEPT !.next = n, !.opened = TRUE, !.error = FALSE]
    BY <1>1, <1>2
  <2>5. http' = [http EXCEPT !.sink = [http.sink EXCEPT !.next = n, !.opened = TRUE,
                                                        !.error = FALSE]]
    BY <2>3, <2>4
  <2>6. TRUE \in BOOLEAN /\ FALSE \in BOOLEAN /\ (n # 0 => TRUE)  OBVIOUS
  <2>7. /\ HttpTypes(http') /\ http'.state = http.state /\ http'.owner = http.owner
        /\ http'.job = http.job /\ http'.parts = http.parts
        /\ http'.sink.target = http.sink.target /\ http'.sink.up = http.sink.up
        /\ http'.sink.next = n /\ http'.sink.opened = TRUE
    BY ONLY <1>1, <2>2, <2>5, <2>6, SinkChanged
  <2> QED  BY <1>1, <1>3, <2>2, <2>7
<1>4. CASE ~dev[http.sink.target].open
  <2>1. http' = [http EXCEPT !.sink.error = TRUE]  BY <1>4 DEF StreamWrites, Stream
  <2>2. PICK n \in 0..Chunks : n = http.sink.next  BY <1>2
  <2>3. http' = [http EXCEPT !.sink = [http.sink EXCEPT !.error = TRUE]]  BY <2>1
  <2>4. [http.sink EXCEPT !.error = TRUE]
          = [http.sink EXCEPT !.next = n, !.opened = TRUE, !.error = TRUE]
    BY <1>1, <1>2, <2>2
  <2>5. http' = [http EXCEPT !.sink = [http.sink EXCEPT !.next = n, !.opened = TRUE,
                                                        !.error = TRUE]]
    BY <2>3, <2>4
  <2>6. TRUE \in BOOLEAN /\ (n # 0 => TRUE)  OBVIOUS
  <2>7. /\ HttpTypes(http') /\ http'.state = http.state /\ http'.owner = http.owner
        /\ http'.job = http.job /\ http'.parts = http.parts
        /\ http'.sink.target = http.sink.target /\ http'.sink.up = http.sink.up
        /\ http'.sink.next = n /\ http'.sink.opened = TRUE
    BY ONLY <1>1, <2>2, <2>5, <2>6, SinkChanged
  <2> QED  BY <1>1, <1>4, <2>2, <2>7
<1> QED  BY <1>3, <1>4

LEMMA TalkHandles ==
  ASSUME BaseInv, Handles, UNCHANGED <<otaVars, printVars>>
  PROVE  TalkInv'
BY TalkStartRefused, TalkStartGranted, TalkNotOwner, TalkPartSet, TalkSinkSet, TalkSendAsked,
   TalkOnWake DEF Handles

\* What a finished request did.
LEMMA Finishes ==
  ASSUME Answered \/ Failed \/ StreamCloses \/ StreamCloseFails \/ StreamFails
  PROVE  /\ Executing /\ asks' = asks /\ timer' = timer /\ task' = task
         /\ \E r \in {"ok", "failed"}, y \in BOOLEAN : Finish(r, y) /\ (Streaming => ~y)
<1> USE DEF sessVars
<1>1. CASE Answered  BY <1>1 DEF Answered
<1>2. CASE Failed  BY <1>2 DEF Failed
<1>3. CASE StreamCloses  BY <1>3 DEF StreamCloses, Streaming
<1>4. CASE StreamCloseFails  BY <1>4 DEF StreamCloseFails, Streaming
<1>5. CASE StreamFails  BY <1>5 DEF StreamFails, Streaming
<1> QED  BY <1>1, <1>2, <1>3, <1>4, <1>5

LEMMA TalkFinishes ==
  ASSUME BaseInv, Answered \/ Failed \/ StreamCloses \/ StreamCloseFails \/ StreamFails,
         UNCHANGED <<otaVars, printVars>>
  PROVE  TalkInv'
<1>1. /\ Executing /\ asks' = asks /\ timer' = timer /\ task' = task
      /\ \E r \in {"ok", "failed"}, y \in BOOLEAN : Finish(r, y) /\ (Streaming => ~y)
  BY Finishes
<1>2. PICK r \in {"ok", "failed"}, y \in BOOLEAN : Finish(r, y) /\ (Streaming => ~y)  BY <1>1
<1> QED  BY <1>1, <1>2, TalkFinished

LEMMA TalkStreams ==
  ASSUME BaseInv, StreamOpens \/ StreamWrites, UNCHANGED <<otaVars, printVars>>
  PROVE  TalkInv'
<1>1. /\ HttpTypes(http') /\ http'.state = http.state /\ http'.owner = http.owner
      /\ http'.job = http.job /\ http'.parts = http.parts
      /\ http'.sink.target = http.sink.target /\ http'.sink.up = http.sink.up
  BY StreamOpensSink, StreamWritesSink
<1>2. Streaming /\ asks' = asks /\ timer' = timer /\ mail' = mail /\ task' = task
  BY DEF StreamOpens, StreamWrites
<1> QED  BY <1>1, <1>2, TalkStreamed

\* The handlers of OtaModule say nothing to the HTTP module.
LEMMA TalkOfSession ==
  ASSUME BaseInv, Session
  PROVE  TalkInv'
<1>1. task' = task /\ UNCHANGED <<httpVars, otaVars, printVars>>
  BY DEF Session, StartAccepted, StartRejected, DriverRequested, CompleteNotified, Settle,
         Watchdog, Overdue
<1> QED  BY <1>1 DEF BaseInv, TalkInv, httpVars, otaVars, printVars

LEMMA TalkOtaTask ==
  ASSUME BaseInv, OtaTask \/ Finds
  PROVE  TalkInv'
BY TalkOpeningIgnored, TalkCheckBusy, TalkImageBusy, TalkOpeningGranted, TalkResultIgnored,
   TalkCheckIsOver, TalkUpdateFound, TalkDownloadIsOver, TalkAnswerIgnored,
   TalkSessionAccepted, TalkSessionRejected, TalkDriverArrives
   DEF OtaTask, Finds, OtaHandles

LEMMA TalkPrintTask ==
  ASSUME BaseInv, PrintTask
  PROVE  TalkInv'
BY TalkPrintSends, TalkAnswerDropped
   DEF PrintTask, PrintHandles

LEMMA TalkPrintTimer ==
  ASSUME BaseInv, PrintTimer
  PROVE  TalkInv'
<1>1. CASE Rings /\ UNCHANGED otaVars  BY <1>1, TalkRings
<1>2. CASE (\E n \in Nozzles : DelayOver(n)) /\ UNCHANGED otaVars
  <2>1. UNCHANGED <<sessVars, httpVars, active, sending>>  BY <1>2 DEF DelayOver
  <2> QED  BY <1>2, <2>1, TalkUntouched
<1> QED  BY <1>1, <1>2 DEF PrintTimer

LEMMA TalkStation ==
  ASSUME BaseInv, Station
  PROVE  TalkInv'
<1>1. PICK n \in Nozzles : (FuelPumped(n) \/ \E b \in Buttons : PrinterBtn(n, b)) /\ UNCHANGED otaVars
  BY DEF Station
<1>2. CASE FuelPumped(n)
  <2>1. UNCHANGED <<sessVars, httpVars, active, sending>>  BY <1>2 DEF FuelPumped
  <2> QED  BY <1>1, <2>1, TalkUntouched
<1>3. CASE \E b \in Buttons : PrinterBtn(n, b)  BY <1>1, <1>3, TalkPrinterBtn
<1> QED  BY <1>1, <1>2, <1>3

LEMMA TalkStep ==
  ASSUME BaseInv, Next, "slow" \notin Faults
  PROVE  TalkInv'
<1>1. CASE Session  BY <1>1, TalkOfSession
<1>2. CASE HttpTask
  <2>1. CASE StreamGivesUp  BY <1>2, <2>1, TalkFinishes DEF HttpTask, StreamGivesUp
  <2> QED  BY <1>2, <2>1, TalkHandles, TalkFinishes, TalkStreams DEF HttpTask, Executes
<1>3. CASE HttpFails  BY <1>3, TalkFinishes DEF HttpFails
<1>4. CASE Timer  BY <1>4, TalkSessionIdles DEF Timer
<1>5. CASE OtaTask \/ Finds  BY <1>5, TalkOtaTask
<1>6. CASE Internet  BY <1>6, TalkInternetLost DEF Internet
<1>7. CASE Interval  BY <1>7, TalkOtaTick DEF Interval
<1>8. CASE PrintTask  BY <1>8, TalkPrintTask
<1>9. CASE PrintTimer  BY <1>9, TalkPrintTimer
<1>10. CASE Station  BY <1>10, TalkStation
<1> QED  BY <1>1, <1>2, <1>3, <1>4, <1>5, <1>6, <1>7, <1>8, <1>9, <1>10 DEF Next

-----------------------------------------------------------------------------
(* The slots of the printing module.                                        *)

\* The slots as a handler that ends with scheduling leaves them.
LEMMA SlotsScheduled ==
  ASSUME NEW p, PendingTypes(p), NEW rings, Schedule(p, rings)
  PROVE  PendingTypes(pending') /\ active' \in PrintJobs \cup {None}
<1>1. CASE Waiting(p)  BY <1>1 DEF Waiting
<1>2. ASSUME NEW n \in Nozzles, Begun(n, p)
      PROVE  PendingTypes(pending') /\ active' \in PrintJobs \cup {None}
  <2>1. p[n] # None /\ active' = p[n].job /\ pending' = [p EXCEPT ![n] = None]
    BY <1>2 DEF Begun
  <2>2. active' \in PrintJobs  BY <2>1, BegunActive
  <2>3. PendingTypes([p EXCEPT ![n] = None])  BY SlotLeft
  <2> QED  BY <2>1, <2>2, <2>3
<1> QED  BY <1>1, <1>2, Scheduled

LEMMA SlotsRings ==
  ASSUME BaseInv, Rings
  PROVE  SlotsInv'
<1> USE DEF Rings
<1>1. /\ PendingTypes(pending) /\ nozzle \in [Nozzles -> Nat]
      /\ active \in PrintJobs \cup {None}
  BY SlotsParts
<1>2. nozzle' = nozzle  OBVIOUS
<1>3. CASE active = None
  <2>1. Schedule(pending, FALSE)  BY <1>3
  <2> QED  BY <1>1, <1>2, <2>1, SlotsScheduled DEF SlotsInv, SlotsTalk
<1>4. CASE active # None
  <2>1. pending' = pending /\ active' = active  BY <1>4
  <2> QED  BY <1>1, <1>2, <2>1 DEF SlotsInv, SlotsTalk
<1> QED  BY <1>3, <1>4

LEMMA SlotsDelayOver ==
  ASSUME BaseInv, NEW n \in Nozzles, DelayOver(n)
  PROVE  SlotsInv'
<1> USE DEF DelayOver
<1>1. /\ PendingTypes(pending) /\ nozzle \in [Nozzles -> Nat]
      /\ active \in PrintJobs \cup {None}
  BY SlotsParts
<1>2. /\ nozzle' = nozzle /\ active' = active /\ pending[n] # None
      /\ pending' = [pending EXCEPT ![n].due = TRUE]
  OBVIOUS
<1>3. pending[n] \in [job : PrintJobs, due : BOOLEAN] /\ pending[n].job.nozzle = n
  BY <1>1, <1>2 DEF PendingTypes
<1>4. PICK j : j = pending[n].job  OBVIOUS
<1>5. pending' = [pending EXCEPT ![n] = [job |-> j, due |-> TRUE]]
  <2>1. pending' = [pending EXCEPT ![n] = [pending[n] EXCEPT !.due = TRUE]]  BY <1>2
  <2>2. PICK x : x = pending[n]  OBVIOUS
  <2>3. x = [job |-> x.job, due |-> x.due] /\ x.job = j  BY <1>3, <1>4, <2>2
  <2>4. PICK y : y = [x EXCEPT !.due = TRUE]  OBVIOUS
  <2>5. y \in [job : PrintJobs, due : BOOLEAN] /\ y.job = x.job /\ y.due = TRUE
    BY <1>3, <2>2, <2>4
  <2>6. y = [job |-> y.job, due |-> y.due]  BY ONLY <2>5
  <2> QED  BY ONLY <2>1, <2>2, <2>3, <2>4, <2>5, <2>6
<1>6. j \in PrintJobs /\ j.nozzle = n /\ TRUE \in BOOLEAN  BY <1>3, <1>4
<1>7. PendingTypes([pending EXCEPT ![n] = [job |-> j, due |-> TRUE]])
  BY ONLY <1>1, <1>6, SlotTaken, n \in Nozzles
<1> QED  BY <1>1, <1>2, <1>5, <1>7 DEF SlotsInv, SlotsTalk

LEMMA SlotsFuelPumped ==
  ASSUME BaseInv, NEW n \in Nozzles, FuelPumped(n)
  PROVE  SlotsInv'
<1> USE DEF FuelPumped
<1>1. /\ PendingTypes(pending) /\ nozzle \in [Nozzles -> Nat]
      /\ active \in PrintJobs \cup {None}
  BY SlotsParts
<1>2. nozzle' \in [Nozzles -> Nat] /\ active' = active  BY <1>1
<1>3. PendingTypes([pending EXCEPT ![n] = None])  BY <1>1, SlotLeft
<1>4. pending' = [pending EXCEPT ![n] = None]  OBVIOUS
<1> QED  BY <1>1, <1>2, <1>3, <1>4 DEF SlotsInv, SlotsTalk

LEMMA SlotsPrinterBtn ==
  ASSUME BaseInv, NEW n \in Nozzles, NEW b \in Buttons, PrinterBtn(n, b)
  PROVE  SlotsInv'
<1>1. nozzle \in [Nozzles -> Nat] /\ active \in PrintJobs \cup {None}  BY SlotsParts
<1>2. PICK p : p = PressedSlots(n, b)  OBVIOUS
<1>3. PendingTypes(p)  BY <1>2, PressTypes
<1>4. /\ IF active = None THEN Schedule(p, alarm)
         ELSE pending' = p /\ UNCHANGED <<asks, active, sending, alarm>>
      /\ nozzle' = nozzle
  BY <1>2, PressParts
<1>5. CASE active = None
  BY <1>1, <1>3, <1>4, <1>5, SlotsScheduled DEF SlotsInv, SlotsTalk
<1>6. CASE active # None
  BY <1>1, <1>3, <1>4, <1>6 DEF SlotsInv, SlotsTalk
<1> QED  BY <1>5, <1>6

LEMMA SlotsStep ==
  ASSUME BaseInv, Next
  PROVE  SlotsInv'
<1>1. CASE UNCHANGED <<nozzle, pending, active>>
  BY <1>1 DEF BaseInv, SlotsInv
<1>2. CASE PrintTask
  <2>1. UNCHANGED <<nozzle, pending, active>>
    BY <1>2 DEF PrintTask, PrintHandles, PrintSends, AnswerDropped, printVars
  <2> QED  BY <1>1, <2>1
<1>3. CASE PrintTimer  BY <1>3, SlotsRings, SlotsDelayOver DEF PrintTimer
<1>4. CASE Station  BY <1>4, SlotsFuelPumped, SlotsPrinterBtn DEF Station
<1>5. CASE Session \/ HttpTask \/ HttpFails \/ Timer \/ OtaTask \/ Finds \/ Internet \/ Interval
  <2>1. UNCHANGED printVars
    BY <1>5 DEF Session, HttpTask, HttpFails, Timer, OtaTask, Finds, Internet, Interval
  <2> QED  BY <1>1, <2>1 DEF printVars
<1> QED  BY <1>2, <1>3, <1>4, <1>5 DEF Next

-----------------------------------------------------------------------------
(* The inbox of OtaModule: at most one message in it is a link of the chain *)
(* from the request for a session to the announcement of its end.           *)

\* x is the link, and the only one.
Alone(i, x) ==
  \E k \in DOMAIN i : i[k] = x /\ x.id \in Links /\ \A l \in DOMAIN i : i[l].id \in Links => l = k

\* b holds no link.
Aloof(b) == \A k \in 1..Len(b) : b[k].id \notin Links

\* The session by what its inbox holds.
LEMMA SessIs ==
  ASSUME NEW i, NEW s, NEW o, NEW mt, NEW d
  PROVE  SessTalk(i, s, o, mt, d) <=>
           \/ /\ Clear(i) /\ o.state \in {"idle", "check", "download"}
              /\ o.state = "download" => InState(s, "active", mt) /\ o.driver = mt[Len(mt)]
                                         /\ mt # <<>>
           \/ mt # <<>> /\ \E x : Alone(i, x) /\ Link(x, s, o, mt, d)
<1>1. (\E x : Alone(i, x) /\ Link(x, s, o, mt, d)) <=>
      \E k \in DOMAIN i : /\ \A l \in DOMAIN i : i[l].id \in Links => l = k
                          /\ i[k].id \in Links /\ Link(i[k], s, o, mt, d)
  BY DEF Alone
<1> QED  BY <1>1 DEF SessTalk

\* The first message is handled: it was no link, or it was the link.
LEMMA InboxTaken ==
  ASSUME NEW i, NEW i2, Taken(i, i2)
  PROVE  /\ Clear(i) => Clear(i2) /\ i[1].id \notin Links
         /\ \A x : Alone(i, x) => IF i[1].id \in Links THEN i[1] = x /\ Clear(i2) ELSE Alone(i2, x)
<1>1. /\ Len(i) \in Nat \ {0} /\ DOMAIN i = 1..Len(i)
      /\ Len(i2) = Len(i) - 1 /\ DOMAIN i2 = 1..Len(i2)
      /\ \A k \in 1..Len(i2) : i2[k] = i[k + 1]
  BY DEF Taken
<1>2. \A k \in DOMAIN i2 : k + 1 \in DOMAIN i /\ i2[k] = i[k + 1] /\ k + 1 # 1  BY <1>1
<1>3. Clear(i) => Clear(i2) /\ i[1].id \notin Links  BY <1>1, <1>2 DEF Clear
<1>4. ASSUME NEW x, Alone(i, x), i[1].id \in Links  PROVE i[1] = x /\ Clear(i2)
  <2>1. PICK k \in DOMAIN i : i[k] = x /\ \A l \in DOMAIN i : i[l].id \in Links => l = k
    BY <1>4 DEF Alone
  <2>2. k = 1  BY <1>1, <1>4, <2>1
  <2> QED  BY <1>2, <2>1, <2>2 DEF Clear
<1>5. ASSUME NEW x, Alone(i, x), i[1].id \notin Links  PROVE Alone(i2, x)
  <2>1. PICK k \in DOMAIN i : /\ i[k] = x /\ x.id \in Links
                              /\ \A l \in DOMAIN i : i[l].id \in Links => l = k
    BY <1>5 DEF Alone
  <2>2. k # 1 /\ k \in Nat  BY <1>1, <1>5, <2>1
  <2>3. k - 1 \in DOMAIN i2 /\ i2[k - 1] = x  BY <1>1, <2>1, <2>2
  <2>4. \A l \in DOMAIN i2 : i2[l].id \in Links => l = k - 1  BY <1>1, <1>2, <2>1, <2>2
  <2> QED  BY <2>1, <2>3, <2>4 DEF Alone
<1> QED  BY <1>3, <1>4, <1>5

\* Messages that are no link are added.
LEMMA InboxAdded ==
  ASSUME NEW i, NEW i2, NEW b, Added(i, i2, b), Aloof(b)
  PROVE  /\ Clear(i) => Clear(i2)
         /\ \A x : Alone(i, x) => Alone(i2, x)
<1>1. /\ Len(i) \in Nat /\ Len(b) \in Nat /\ DOMAIN i = 1..Len(i)
      /\ Len(i2) = Len(i) + Len(b) /\ DOMAIN i2 = 1..Len(i2)
      /\ \A k \in 1..Len(i) : i2[k] = i[k]
      /\ \A k \in 1..Len(b) : i2[Len(i) + k] = b[k]
  BY DEF Added
<1>2. ASSUME NEW l \in DOMAIN i2, i2[l].id \in Links  PROVE l \in DOMAIN i /\ i2[l] = i[l]
  <2>1. CASE l <= Len(i)  BY <1>1, <2>1
  <2>2. CASE l > Len(i)
    <3>1. l - Len(i) \in 1..Len(b) /\ Len(i) + (l - Len(i)) = l  BY <1>1, <2>2
    <3> QED  BY <1>1, <1>2, <3>1 DEF Aloof
  <2> QED  BY <1>1, <2>1, <2>2
<1>3. \A k \in DOMAIN i : k \in DOMAIN i2 /\ i2[k] = i[k]  BY <1>1
<1> QED  BY <1>2, <1>3 DEF Clear, Alone

\* The link is added to an inbox that has none.
LEMMA InboxLinked ==
  ASSUME NEW i, NEW i2, NEW b, Added(i, i2, b), Clear(i), NEW x, Alone(b, x)
  PROVE  Alone(i2, x)
<1>1. /\ Len(i) \in Nat /\ Len(b) \in Nat /\ DOMAIN i = 1..Len(i) /\ DOMAIN b = 1..Len(b)
      /\ Len(i2) = Len(i) + Len(b) /\ DOMAIN i2 = 1..Len(i2)
      /\ \A k \in 1..Len(i) : i2[k] = i[k]
      /\ \A k \in 1..Len(b) : i2[Len(i) + k] = b[k]
  BY DEF Added
<1>2. PICK k \in DOMAIN b : /\ b[k] = x /\ x.id \in Links
                            /\ \A l \in DOMAIN b : b[l].id \in Links => l = k
  BY DEF Alone
<1>3. Len(i) + k \in DOMAIN i2 /\ i2[Len(i) + k] = x  BY <1>1, <1>2
<1>4. ASSUME NEW l \in DOMAIN i2, i2[l].id \in Links  PROVE l = Len(i) + k
  <2>1. l > Len(i)  BY <1>1, <1>4 DEF Clear
  <2>2. l - Len(i) \in 1..Len(b) /\ Len(i) + (l - Len(i)) = l  BY <1>1, <2>1
  <2>3. l - Len(i) = k  BY <1>1, <1>2, <1>4, <2>2
  <2> QED  BY <1>1, <1>2, <2>3
<1> QED  BY <1>2, <1>3, <1>4 DEF Alone

\* The first message is answered with b.
LEMMA InboxAnswered ==
  ASSUME NEW i, IsQueue(i), i # <<>>, NEW b, IsQueue(b), NEW i2, i2 = Tail(i) \o b
  PROVE  /\ IsQueue(i2) /\ Head(i) = i[1]
         /\ Aloof(b) => /\ Clear(i) => Clear(i2)
                        /\ i[1].id \notin Links => \A x : Alone(i, x) => Alone(i2, x)
         /\ \A x : i[1].id \in Links /\ Alone(i, x) =>
              /\ i[1] = x /\ (Aloof(b) => Clear(i2))
              /\ \A y : Alone(b, y) => Alone(i2, y)
<1>1. IsQueue(Tail(i)) /\ Taken(i, Tail(i))  BY QueueTail
<1>2. IsQueue(i2) /\ Added(Tail(i), i2, b)  BY <1>1, QueueConcat
<1>3. Head(i) = i[1]  BY <1>1 DEF Taken
<1>4. /\ Clear(i) => Clear(Tail(i)) /\ i[1].id \notin Links
      /\ \A x : Alone(i, x) =>
           IF i[1].id \in Links THEN i[1] = x /\ Clear(Tail(i)) ELSE Alone(Tail(i), x)
  BY <1>1, InboxTaken
<1>5. Aloof(b) => /\ Clear(Tail(i)) => Clear(i2)
                  /\ \A x : Alone(Tail(i), x) => Alone(i2, x)
  BY <1>2, InboxAdded
<1>6. Clear(Tail(i)) => \A y : Alone(b, y) => Alone(i2, y)  BY <1>2, InboxLinked
<1> QED  BY <1>2, <1>3, <1>4, <1>5, <1>6

\* What an answer is made of.
LEMMA Answers ==
  ASSUME NEW x, NEW e
  PROVE  /\ IsQueue(<<>>) /\ Aloof(<<>>)
         /\ IsQueue(<<x>>) /\ (x.id \notin Links => Aloof(<<x>>))
         /\ x.id \in Links => Alone(<<x>>, x)
         /\ IsQueue(<<x, Event(e)>>) /\ (x.id \in Links => Alone(<<x, Event(e)>>, x))
<1>1. IsQueue(<<>>) /\ Aloof(<<>>)
  <2>1. <<>> \in Seq({x})  OBVIOUS
  <2> QED  BY <2>1 DEF IsQueue, Aloof
<1>2. IsQueue(<<x>>) /\ Len(<<x>>) = 1 /\ <<x>>[1] = x /\ DOMAIN <<x>> = 1..1
  <2>1. <<x>> \in Seq({x})  OBVIOUS
  <2>2. IsQueue(<<x>>)  BY <2>1 DEF IsQueue
  <2> QED  BY <2>2
<1>3. (x.id \notin Links => Aloof(<<x>>)) /\ (x.id \in Links => Alone(<<x>>, x))
  BY <1>2 DEF Aloof, Alone
<1>4. PICK y : y = Event(e)  OBVIOUS
<1>5. /\ IsQueue(<<x, y>>) /\ Len(<<x, y>>) = 2 /\ <<x, y>>[1] = x /\ <<x, y>>[2] = y
      /\ DOMAIN <<x, y>> = 1..2
  <2>1. <<x, y>> \in Seq({x, y})  OBVIOUS
  <2>2. IsQueue(<<x, y>>)  BY ONLY <2>1 DEF IsQueue
  <2> QED  BY <2>2
<1>6. y.id \notin Links  BY <1>4 DEF Event, Links
<1>7. x.id \in Links => Alone(<<x, y>>, x)
  <2>1. \A l \in 1..2 : l = 1 \/ l = 2  OBVIOUS
  <2> QED  BY <1>5, <1>6, <2>1 DEF Alone
<1> QED  BY <1>1, <1>2, <1>3, <1>4, <1>5, <1>7

-----------------------------------------------------------------------------
(* The images behind the drivers.                                           *)

DevWrites(h, d) ==
  h.sink.target # None /\ h.sink.opened /\ d[h.sink.target].open =>
    d[h.sink.target].image = [k \in 1..h.sink.next |-> <<h.sink.up, k>>]

DevHeard(m, o, d) ==
  o.state = "download" /\ m # <<>> /\ m[Len(m)].id = "Result" /\ m[Len(m)].ok =>
    WholeAt(d, o.driver, o.up)

DevHeld(s, mt, d) ==
  /\ s.state # "idle" => s.source = "ota" /\ s.up \in DOMAIN mt /\ s.target = mt[s.up]
  /\ s.state = "complete" => WholeAt(d, s.target, s.up)

LEMMA DevIs ==
  ASSUME NEW h, NEW m, NEW s, NEW o, NEW mt, NEW d
  PROVE  DevTalk(h, m, s, o, mt, d) <=> DevWrites(h, d) /\ DevHeard(m, o, d) /\ DevHeld(s, mt, d)
BY DEF DevTalk, DevWrites, DevHeard, DevHeld

\* Where a file is open afterwards, or was not before, nothing has changed.
DevKept(d, d2) == \A w \in Targets : d2[w].open = TRUE \/ d[w].open = FALSE => d2[w] = d[w]

LEMMA NoFileIs == NoFile \in TargetFile /\ NoFile.open = FALSE /\ NoFile.image = <<>>
<1>1. <<>> \in Seq(Nat \X Nat)  OBVIOUS
<1> QED  BY <1>1 DEF NoFile, TargetFile

\* Whatever a delete leaves is beside the image.
LEMMA UndeletedIs ==
  ASSUME DevTypes(dev), NEW t \in Targets
  PROVE  Undeleted(t) \in SUBSET BOOLEAN
<1>1. dev[t] \in TargetFile  BY DEF DevTypes
<1>2. (dev[t].left \/ dev[t].open \/ dev[t].image # <<>>) \in BOOLEAN  OBVIOUS
<1> QED  BY <1>2 DEF Undeleted

LEMMA OpenedIs ==
  ASSUME DevTypes(dev), NEW t \in Targets, NEW d, d \in Opened(t)
  PROVE  DevTypes(d) /\ d[t].open = TRUE /\ d[t].image = <<>>
<1>1. PICK l \in BOOLEAN : d = [dev EXCEPT ![t] = [NoFile EXCEPT !.open = TRUE, !.left = l]]
  BY UndeletedIs DEF Opened
<1>2. PICK f : f = [NoFile EXCEPT !.open = TRUE, !.left = l]  OBVIOUS
<1>3. f \in TargetFile /\ f.open = TRUE /\ f.image = <<>>
  BY <1>1, <1>2, NoFileIs DEF TargetFile
<1>4. d = [dev EXCEPT ![t] = f]  BY <1>1, <1>2
<1> QED  BY <1>3, <1>4 DEF DevTypes

\* An erased file was open.
LEMMA ErasedKeeps ==
  ASSUME DevTypes(dev), NEW t \in Targets, NEW d, d \in Erased(t)
  PROVE  DevTypes(d) /\ DevKept(dev, d)
<1>1. dev[t].open \in BOOLEAN  BY DEF DevTypes, TargetFile
<1>2. CASE dev[t].open = TRUE
  <2>1. PICK l \in BOOLEAN : d = [dev EXCEPT ![t] = [NoFile EXCEPT !.left = l]]
    BY <1>2, UndeletedIs DEF Erased
  <2>2. PICK f : f = [NoFile EXCEPT !.left = l]  OBVIOUS
  <2>3. f \in TargetFile /\ f.open = FALSE  BY <2>1, <2>2, NoFileIs DEF TargetFile
  <2>4. d = [dev EXCEPT ![t] = f]  BY <2>1, <2>2
  <2>5. DevTypes(d) /\ d[t] = f /\ \A w \in Targets : w # t => d[w] = dev[w]
    BY <2>3, <2>4 DEF DevTypes
  <2> QED  BY <1>2, <2>3, <2>5 DEF DevKept
<1>3. CASE dev[t].open = FALSE
  <2>1. d = dev  BY <1>3 DEF Erased
  <2> QED  BY <2>1 DEF DevKept
<1> QED  BY <1>1, <1>2, <1>3

\* What is whole is kept.
LEMMA WholeKept ==
  ASSUME NEW d, DevTypes(d), NEW d2, DevKept(d, d2), NEW t \in Targets, NEW u, WholeAt(d, t, u)
  PROVE  WholeAt(d2, t, u)
<1>1. d[t].open = FALSE  BY DEF DevTypes, TargetFile, WholeAt
<1>2. d2[t] = d[t]  BY <1>1 DEF DevKept
<1> QED  BY <1>2 DEF WholeAt

\* An erased file changes nothing of what is said of the images.
LEMMA DevErased ==
  ASSUME NEW h, NEW m, NEW s, NEW o, NEW mt, NEW d, NEW d2, DevTalk(h, m, s, o, mt, d),
         DevTypes(d), DevTypes(d2), DevKept(d, d2), h.sink.target \in Targets \cup {None},
         o.state = "download" => o.driver \in Targets, mt \in Seq(Targets)
  PROVE  DevTalk(h, m, s, o, mt, d2)
<1>1. DevWrites(h, d) /\ DevHeard(m, o, d) /\ DevHeld(s, mt, d)  BY DevIs
<1>2. DevWrites(h, d2)
  <2>1. ASSUME h.sink.target # None, h.sink.opened, d2[h.sink.target].open
        PROVE  d2[h.sink.target] = d[h.sink.target]
    <3>1. h.sink.target \in Targets /\ d2[h.sink.target].open = TRUE  BY <2>1 DEF DevTypes, TargetFile
    <3> QED  BY <3>1 DEF DevKept
  <2> QED  BY <1>1, <2>1 DEF DevWrites
<1>3. DevHeard(m, o, d2)  BY <1>1, WholeKept DEF DevHeard
<1>4. DevHeld(s, mt, d2)
  <2>1. s.state # "idle" => s.target \in Targets  BY <1>1 DEF DevHeld
  <2> QED  BY <1>1, <2>1, WholeKept DEF DevHeld
<1> QED  BY <1>2, <1>3, <1>4, DevIs

-----------------------------------------------------------------------------
(* Images asked for.                                                        *)

Imaging(x) == x.from = "ota" /\ x.id = "Start" /\ x.job.kind = "image"

\* No image is asked for or written that was not before.
LEMMA ImageTaken ==
  ASSUME NEW q, NEW q2, NEW h, NEW h2, Taken(q, q2), ImageAt(q2, h2),
         h2.owner = "ota" /\ h2.job.kind = "image" => ImageAt(q, h)
  PROVE  ImageAt(q, h)
<1>1. CASE h2.owner = "ota" /\ h2.job.kind = "image"  BY <1>1
<1>2. CASE \E k \in DOMAIN q2 : Imaging(q2[k])
  <2>1. PICK k \in DOMAIN q2 : Imaging(q2[k])  BY <1>2
  <2>2. k + 1 \in DOMAIN q /\ q[k + 1] = q2[k]  BY DEF Taken
  <2> QED  BY <2>1, <2>2 DEF ImageAt, Imaging
<1> QED  BY <1>1, <1>2 DEF ImageAt, Imaging

LEMMA ImageAdded ==
  ASSUME NEW q, NEW q2, NEW h, NEW h2, NEW b, Added(q, q2, b), ImageAt(q2, h2),
         \A k \in 1..Len(b) : ~Imaging(b[k]),
         h2.owner = "ota" /\ h2.job.kind = "image" => ImageAt(q, h)
  PROVE  ImageAt(q, h)
<1>1. CASE h2.owner = "ota" /\ h2.job.kind = "image"  BY <1>1
<1>2. CASE \E k \in DOMAIN q2 : Imaging(q2[k])
  <2>1. PICK k \in DOMAIN q2 : Imaging(q2[k])  BY <1>2
  <2>2. CASE k <= Len(q)
    <3>1. k \in DOMAIN q /\ q[k] = q2[k]  BY <2>2 DEF Added
    <3> QED  BY <2>1, <3>1 DEF ImageAt, Imaging
  <2>3. CASE k > Len(q)
    <3>1. k - Len(q) \in 1..Len(b) /\ Len(q) + (k - Len(q)) = k  BY <2>3 DEF Added
    <3>2. q2[k] = b[k - Len(q)]  BY <3>1 DEF Added
    <3> QED  BY <2>1, <3>1, <3>2
  <2>4. k \in Nat /\ Len(q) \in Nat  BY DEF Added
  <2> QED  BY <2>2, <2>3, <2>4
<1> QED  BY <1>1, <1>2 DEF ImageAt, Imaging

\* A client that is quiet asks for no image.
LEMMA ImageQuiet ==
  ASSUME NEW q, NEW h, NEW m, OtaQuiet(q, h, m)
  PROVE  ~ImageAt(q, h)
BY DEF OtaQuiet, Silent, ImageAt

-----------------------------------------------------------------------------
(* What the session's steps have in common.                                 *)

LEMMA SessFacts ==
  ASSUME BaseInv
  PROVE  /\ OtaTypes(ota, meant) /\ SessTalk(inbox, sess, ota, meant, dev)
         /\ ImageTalk(asks, http, inbox, sess) /\ DevTypes(dev) /\ IsQueue(inbox)
         /\ DevTalk(http, mail["ota"], sess, ota, meant, dev)
         /\ http.sink.target \in Targets \cup {None} /\ meant \in Seq(Targets)
BY DEF BaseInv, SessInv, TalkInv, HttpTypes, OtaTypes

\* A download has the session and the driver.
LEMMA Downloads ==
  ASSUME BaseInv, ota.state \in {"check", "download"}
  PROVE  /\ Clear(inbox)
         /\ ota.state = "download" =>
              /\ InState(sess, "active", meant) /\ ota.driver = meant[Len(meant)]
              /\ meant # <<>> /\ ota.driver \in Targets
<1>1. SessTalk(inbox, sess, ota, meant, dev) /\ meant \in Seq(Targets)  BY SessFacts
<1>2. ASSUME NEW x, Link(x, sess, ota, meant, dev)  PROVE ota.state \notin {"check", "download"}
  BY <1>2 DEF Link
<1>3. /\ Clear(inbox)
      /\ ota.state = "download" => /\ InState(sess, "active", meant) /\ meant # <<>>
                                   /\ ota.driver = meant[Len(meant)]
  BY <1>1, <1>2, SessIs
<1>4. ota.state = "download" => ota.driver \in Targets  BY <1>1, <1>3
<1> QED  BY <1>3, <1>4

\* The message that is handled is the link.
LEMMA HeadLink ==
  ASSUME BaseInv, inbox # <<>>, Head(inbox).id \in Links
  PROVE  /\ meant # <<>> /\ Alone(inbox, Head(inbox)) /\ Head(inbox) = inbox[1]
         /\ Link(Head(inbox), sess, ota, meant, dev) /\ ~ImageAt(asks, http)
         /\ meant[Len(meant)] \in Targets /\ Len(meant) \in DOMAIN meant
<1>1. /\ SessTalk(inbox, sess, ota, meant, dev) /\ meant \in Seq(Targets) /\ IsQueue(inbox)
      /\ ImageTalk(asks, http, inbox, sess)
  BY SessFacts
<1>2. Taken(inbox, Tail(inbox)) /\ Head(inbox) = inbox[1] /\ 1 \in DOMAIN inbox
  BY <1>1, QueueTail DEF Taken
<1>3. ~Clear(inbox)  BY <1>2 DEF Clear
<1>4. PICK x : Alone(inbox, x) /\ Link(x, sess, ota, meant, dev)  BY <1>1, <1>3, SessIs
<1>5. meant # <<>>  BY <1>1, <1>3, SessIs
<1>6. x = Head(inbox)  BY <1>2, <1>4, InboxTaken
<1> QED  BY <1>1, <1>2, <1>3, <1>4, <1>5, <1>6 DEF ImageTalk

\* No message is the link when the session is clear.
LEMMA SessClear ==
  ASSUME NEW i, NEW s, NEW o, NEW mt, NEW d, Clear(i), SessTalk(i, s, o, mt, d)
  PROVE  /\ o.state \in {"idle", "check", "download"}
         /\ o.state = "download" => InState(s, "active", mt) /\ o.driver = mt[Len(mt)] /\ mt # <<>>
BY DEF SessTalk, Clear

-----------------------------------------------------------------------------
(* The steps of OtaModule.                                                  *)

\* Nothing but the session, its inbox and the drivers changes.
LEMMA SessOfModule ==
  ASSUME BaseInv, UNCHANGED <<httpVars, otaVars>>, meant' = meant,
         SessTalk(inbox', sess', ota, meant, dev'), IsQueue(inbox'), DevTypes(dev'),
         ImageAt(asks, http) => Clear(inbox') /\ sess'.state \in {"idle", "active"},
         DevTalk(http, mail["ota"], sess', ota, meant, dev')
  PROVE  SessInv'
<1>1. asks' = asks /\ http' = http /\ mail' = mail /\ ota' = ota  BY DEF httpVars, otaVars
<1>2. OtaTypes(ota, meant)  BY SessFacts
<1> QED  BY <1>1, <1>2 DEF SessInv, ImageTalk

\* The session is another one, the drivers are as before.
LEMMA DevOfSession ==
  ASSUME NEW h, NEW m, NEW s, NEW s2, NEW o, NEW mt, NEW d, DevTalk(h, m, s, o, mt, d),
         DevHeld(s2, mt, d)
  PROVE  DevTalk(h, m, s2, o, mt, d)
BY DevIs

LEMMA SessStartAccepted ==
  ASSUME BaseInv, StartAccepted, UNCHANGED <<httpVars, otaVars>>
  PROVE  SessInv'
<1> USE DEF StartAccepted, Receives, Answer
<1>1. PICK x : x = Head(inbox)  OBVIOUS
<1>2. x.id = "StartRequest" /\ inbox # <<>> /\ x.id \in Links  BY <1>1 DEF Links
<1>3. /\ meant # <<>> /\ Alone(inbox, x) /\ x = inbox[1]
      /\ Link(x, sess, ota, meant, dev) /\ ~ImageAt(asks, http)
      /\ Len(meant) \in DOMAIN meant
  BY <1>1, <1>2, HeadLink
<1>4. /\ x = StartRequest("ota", meant[Len(meant)], Len(meant))
      /\ ota.state \in {"session", "idle"}
  BY <1>2, <1>3 DEF Link, StartResponse, RequestDriver, DriverResponse, Notify
<1>5. InState(sess', "pending", meant)  BY <1>1, <1>4 DEF Message, StartRequest, InState
<1>6. PICK y : y = StartResponse("ota", TRUE)  OBVIOUS
<1>7. y.id \in Links  BY <1>6 DEF StartResponse, Links
<1>8. inbox' = Tail(inbox) \o <<y>>
  <2>1. Message.source = "ota"  BY <1>1, <1>4 DEF Message, StartRequest
  <2> QED  BY <1>6, <2>1
<1>9. IsQueue(inbox) /\ IsQueue(<<y>>) /\ Alone(<<y>>, y)  BY <1>7, Answers, SessFacts
<1>10. IsQueue(inbox') /\ Alone(inbox', y)
  BY ONLY <1>2, <1>3, <1>8, <1>9, InboxAnswered
<1>11. Link(y, sess', ota, meant, dev)  BY <1>4, <1>5, <1>6 DEF Link
<1>12. SessTalk(inbox', sess', ota, meant, dev)  BY <1>3, <1>10, <1>11, SessIs
<1>13. DevHeld(sess', meant, dev)  BY <1>3, <1>5 DEF DevHeld, InState
<1>14. DevTalk(http, mail["ota"], sess', ota, meant, dev)  BY <1>13, DevOfSession, SessFacts
<1> QED  BY <1>3, <1>10, <1>12, <1>14, SessFacts, SessOfModule

LEMMA SessStartRejected ==
  ASSUME BaseInv, StartRejected, UNCHANGED <<httpVars, otaVars>>
  PROVE  SessInv'
<1> USE DEF StartRejected, Receives, Answer
<1>1. PICK x : x = Head(inbox)  OBVIOUS
<1>2. x.id = "StartRequest" /\ inbox # <<>> /\ x.id \in Links  BY <1>1 DEF Links
<1>3. /\ meant # <<>> /\ Alone(inbox, x) /\ x = inbox[1]
      /\ Link(x, sess, ota, meant, dev) /\ ~ImageAt(asks, http)
  BY <1>1, <1>2, HeadLink
<1>4. /\ x = StartRequest("ota", meant[Len(meant)], Len(meant))
      /\ ota.state \in {"session", "idle"}
  BY <1>2, <1>3 DEF Link, StartResponse, RequestDriver, DriverResponse, Notify
<1>6. PICK y : y = StartResponse("ota", FALSE)  OBVIOUS
<1>7. y.id \in Links  BY <1>6 DEF StartResponse, Links
<1>8. inbox' = Tail(inbox) \o <<y>>
  <2>1. Message.source = "ota"  BY <1>1, <1>4 DEF Message, StartRequest
  <2> QED  BY <1>6, <2>1
<1>9. IsQueue(inbox) /\ IsQueue(<<y>>) /\ Alone(<<y>>, y)  BY <1>7, Answers, SessFacts
<1>10. IsQueue(inbox') /\ Alone(inbox', y)
  BY ONLY <1>2, <1>3, <1>8, <1>9, InboxAnswered
<1>11. Link(y, sess, ota, meant, dev)  BY <1>4, <1>6 DEF Link
<1>12. SessTalk(inbox', sess, ota, meant, dev)  BY <1>3, <1>10, <1>11, SessIs
<1> QED  BY <1>3, <1>10, <1>12, SessFacts, SessOfModule

LEMMA SessDriverRequested ==
  ASSUME BaseInv, DriverRequested, UNCHANGED <<httpVars, otaVars>>
  PROVE  SessInv'
<1> USE DEF DriverRequested, Receives, Answer
<1>1. PICK x : x = Head(inbox)  OBVIOUS
<1>2. x.id = "RequestDriver" /\ inbox # <<>> /\ x.id \in Links  BY <1>1 DEF Links
<1>3. /\ meant # <<>> /\ Alone(inbox, x) /\ x = inbox[1]
      /\ Link(x, sess, ota, meant, dev) /\ ~ImageAt(asks, http)
      /\ Len(meant) \in DOMAIN meant
  BY <1>1, <1>2, HeadLink
<1>4. /\ x = RequestDriver("ota") /\ ota.state \in {"driver", "idle"}
      /\ InState(sess, "pending", meant)
  BY <1>2, <1>3 DEF Link, StartResponse, StartRequest, DriverResponse, Notify
<1>5. GrantsDriver  BY <1>1, <1>4 DEF GrantsDriver, Owns, Message, RequestDriver, InState
<1>6. sess' = [sess EXCEPT !.state = "active"]  BY <1>5
<1>7. InState(sess', "active", meant)  BY <1>4, <1>6 DEF InState
<1>8. PICK y : y = DriverResponse("ota", meant[Len(meant)])  OBVIOUS
<1>9. y.id \in Links  BY <1>8 DEF DriverResponse, Links
<1>10. inbox' = Tail(inbox) \o <<y, Event("started")>>
  BY <1>4, <1>5, <1>8 DEF InState
<1>11. /\ IsQueue(inbox) /\ IsQueue(<<y, Event("started")>>)
       /\ Alone(<<y, Event("started")>>, y)
  BY <1>9, Answers, SessFacts
<1>12. PICK b : b = <<y, Event("started")>>  OBVIOUS
<1>13. inbox' = Tail(inbox) \o b /\ IsQueue(b) /\ Alone(b, y)  BY <1>10, <1>11, <1>12
<1>14. IsQueue(inbox') /\ Alone(inbox', y)
  BY ONLY <1>2, <1>3, <1>11, <1>13, InboxAnswered
<1>15. Link(y, sess', ota, meant, dev)  BY <1>4, <1>7, <1>8 DEF Link
<1>16. SessTalk(inbox', sess', ota, meant, dev)  BY <1>3, <1>14, <1>15, SessIs
<1>17. DevHeld(sess', meant, dev)  BY <1>3, <1>7 DEF DevHeld, InState
<1>18. DevTalk(http, mail["ota"], sess', ota, meant, dev)  BY <1>17, DevOfSession, SessFacts
<1> QED  BY <1>3, <1>14, <1>16, <1>18, SessFacts, SessOfModule

\* The session is reset; what its target's driver has open is erased.
LEMMA SessAbandoned ==
  ASSUME BaseInv, NEW i, IsQueue(i), Clear(i), Abandon(i), meant' = meant,
         ota.state \in {"idle", "check"}, sess.state # "idle", UNCHANGED <<httpVars, otaVars>>
  PROVE  SessInv'
<1>1. /\ inbox' = i \o <<Event("aborted")>> /\ sess' = NoSession
      /\ dev' \in Erased(sess.target)
  BY DEF Abandon
<1>2. PICK e : e = Event("aborted")  OBVIOUS
<1>3. IsQueue(<<e>>) /\ Aloof(<<e>>)  BY <1>2, Answers DEF Event, Links
<1>4. IsQueue(inbox') /\ Added(i, inbox', <<e>>)  BY <1>1, <1>2, <1>3, QueueConcat
<1>5. Clear(inbox')  BY <1>3, <1>4, InboxAdded
<1>6. SessTalk(inbox', sess', ota, meant, dev')  BY <1>5, SessIs
<1>7. DevTypes(dev') /\ DevKept(dev, dev')
  <2>1. DevHeld(sess, meant, dev) /\ meant \in Seq(Targets) /\ DevTypes(dev)
    BY SessFacts, DevIs DEF OtaTypes
  <2>2. sess.target \in Targets  BY <2>1 DEF DevHeld
  <2> QED  BY <1>1, <2>1, <2>2, ErasedKeeps
<1>8. DevTalk(http, mail["ota"], sess, ota, meant, dev')
  BY <1>7, DevErased, SessFacts
<1>9. DevHeld(sess', meant, dev')  BY <1>1 DEF DevHeld, NoSession
<1>10. DevTalk(http, mail["ota"], sess', ota, meant, dev')  BY <1>8, <1>9, DevOfSession
<1>11. sess'.state = "idle"  BY <1>1 DEF NoSession
<1> QED  BY <1>4, <1>5, <1>6, <1>7, <1>10, <1>11, SessOfModule

LEMMA SessCompleteNotified ==
  ASSUME BaseInv, CompleteNotified, UNCHANGED <<httpVars, otaVars>>
  PROVE  SessInv'
<1> USE DEF CompleteNotified, Receives, Answer
<1>1. PICK x : x = Head(inbox)  OBVIOUS
<1>2. x.id = "CompleteNotify" /\ inbox # <<>> /\ x.id \in Links  BY <1>1 DEF Links
<1>3. /\ meant # <<>> /\ Alone(inbox, x) /\ x = inbox[1]
      /\ Link(x, sess, ota, meant, dev) /\ ~ImageAt(asks, http)
      /\ Len(meant) \in DOMAIN meant
  BY <1>1, <1>2, HeadLink
<1>4. /\ ota.state = "idle" /\ InState(sess, "active", meant)
      /\ \/ x = Notify("ota", FALSE, ota.up)
         \/ x = Notify("ota", TRUE, ota.up) /\ WholeAt(dev, meant[Len(meant)], Len(meant))
  <2>1. /\ \A t, u : StartRequest("ota", t, u).id = "StartRequest"
        /\ \A ok : StartResponse("ota", ok).id = "StartResponse"
        /\ RequestDriver("ota").id = "RequestDriver"
        /\ \A t : DriverResponse("ota", t).id = "DriverResponse"
    BY DEF StartResponse, StartRequest, DriverResponse, RequestDriver
  <2> QED  BY <1>2, <1>3, <2>1 DEF Link
<1>5. Completes  BY <1>1, <1>4 DEF Completes, Owns, Message, Notify, InState
<1>6. CASE x = Notify("ota", FALSE, ota.up)
  <2>1. Message.success = FALSE  BY <1>1, <1>6 DEF Notify, Message
  <2>2. Abandon(Tail(inbox)) /\ meant' = meant /\ sess.state # "idle"
    BY <1>4, <1>5, <2>1 DEF InState
  <2>3. IsQueue(Tail(inbox)) /\ Taken(inbox, Tail(inbox))  BY <1>2, SessFacts, QueueTail
  <2>4. Clear(Tail(inbox))  BY <1>2, <1>3, <2>3, InboxTaken
  <2> QED  BY <1>4, <2>2, <2>3, <2>4, SessAbandoned
<1>7. CASE x = Notify("ota", TRUE, ota.up) /\ WholeAt(dev, meant[Len(meant)], Len(meant))
  <2>1. Message.success = TRUE  BY <1>1, <1>7 DEF Notify, Message
  <2>2. PICK e : e = Event("complete")  OBVIOUS
  <2>3. /\ sess' = [sess EXCEPT !.state = "complete"] /\ dev' = dev /\ meant' = meant
        /\ inbox' = Tail(inbox) \o <<e>>
    BY <1>5, <2>1, <2>2
  <2>4. IsQueue(<<e>>) /\ Aloof(<<e>>)  BY <2>2, Answers DEF Event, Links
  <2>5. IsQueue(inbox)  BY SessFacts
  <2>6. IsQueue(inbox') /\ Clear(inbox')
    BY ONLY <1>2, <1>3, <2>3, <2>4, <2>5, InboxAnswered
  <2>7. InState(sess', "complete", meant)  BY <1>4, <2>3 DEF InState
  <2>8. SessTalk(inbox', sess', ota, meant, dev)  BY <1>4, <2>6, SessIs
  <2>9. DevHeld(sess', meant, dev)  BY <1>3, <1>7, <2>7 DEF DevHeld, InState
  <2>10. DevTalk(http, mail["ota"], sess', ota, meant, dev)  BY <2>9, DevOfSession, SessFacts
  <2> QED  BY <1>3, <2>3, <2>6, <2>8, <2>10, SessFacts, SessOfModule
<1> QED  BY <1>4, <1>6, <1>7

LEMMA SessSettle ==
  ASSUME BaseInv, Settle, UNCHANGED <<httpVars, otaVars>>
  PROVE  SessInv'
<1>1. /\ sess' = NoSession /\ sess.state = "complete" /\ inbox' = inbox /\ dev' = dev
      /\ meant' = meant
  BY DEF Settle
<1>2. SessTalk(inbox, sess, ota, meant, dev)  BY SessFacts
<1>3. SessTalk(inbox, sess', ota, meant, dev)
  <2>1. ASSUME NEW state, state # "complete"  PROVE ~InState(sess, state, meant)
    BY <1>1, <2>1 DEF InState
  <2>2. ASSUME NEW x, Link(x, sess, ota, meant, dev)  PROVE Link(x, sess', ota, meant, dev)
    BY <2>1, <2>2 DEF Link
  <2> QED  BY <1>2, <2>1, <2>2, SessIs
<1>4. ~ImageAt(asks, http)  BY <1>1, SessFacts DEF ImageTalk
<1>5. DevHeld(sess', meant, dev)  BY <1>1 DEF DevHeld, NoSession
<1>6. DevTalk(http, mail["ota"], sess', ota, meant, dev)  BY <1>5, DevOfSession, SessFacts
<1> QED  BY <1>1, <1>3, <1>4, <1>6, SessFacts, SessOfModule

LEMMA SessWatchdog ==
  ASSUME BaseInv, Watchdog, "slow" \notin Faults, UNCHANGED <<httpVars, otaVars>>
  PROVE  SessInv'
<1>1. /\ ota.state \notin {"session", "driver", "download"} \/ ota.up # sess.up
      /\ inbox = <<>> /\ Abandon(Append(inbox, Event("timeout"))) /\ meant' = meant
      /\ sess.state # "idle"
  BY DEF Watchdog, Overdue, Watched
<1>2. PICK e : e = Event("timeout")  OBVIOUS
<1>3. IsQueue(<<e>>) /\ Aloof(<<e>>) /\ Len(<<e>>) = 1  BY <1>2, Answers DEF Event, Links
<1>4. Append(inbox, e) = <<e>>  BY <1>1, AppendShort
<1>5. Clear(<<e>>)
  <2>1. DOMAIN <<e>> = 1..Len(<<e>>)  BY <1>3, QueueFacts
  <2> QED  BY <1>3, <2>1 DEF Aloof, Clear
<1>6. Clear(inbox)  BY <1>1 DEF Clear
<1>7. ota.state \in {"idle", "check"}
  <2>1. OtaTypes(ota, meant) /\ SessTalk(inbox, sess, ota, meant, dev)  BY SessFacts
  <2>2. ota.state \in {"idle", "check", "download"}  BY <1>6, <2>1, SessClear
  <2>3. ota.state = "download" => sess.up = ota.up
    BY <1>6, <2>1, SessClear DEF InState, OtaTypes
  <2> QED  BY <1>1, <2>2, <2>3
<1> QED  BY <1>1, <1>2, <1>3, <1>4, <1>5, <1>7, SessAbandoned

LEMMA SessOfSession ==
  ASSUME BaseInv, Session, "slow" \notin Faults
  PROVE  SessInv'
BY SessStartAccepted, SessStartRejected, SessDriverRequested, SessCompleteNotified, SessSettle,
   SessWatchdog DEF Session

-----------------------------------------------------------------------------
(* The steps of the HTTP module and the session.                            *)

\* Neither the session, its inbox nor the client changes.
LEMMA SessOfHttp ==
  ASSUME BaseInv, sess' = sess, inbox' = inbox, meant' = meant, ota' = ota,
         DevTypes(dev'), ImageAt(asks', http') => ImageAt(asks, http),
         SessTalk(inbox, sess, ota, meant, dev'),
         DevTalk(http', mail'["ota"], sess, ota, meant, dev')
  PROVE  SessInv'
BY SessFacts DEF SessInv, ImageTalk

\* The drivers neither.
LEMMA SessOfMessage ==
  ASSUME BaseInv, UNCHANGED sessVars, ota' = ota,
         ImageAt(asks', http') => ImageAt(asks, http),
         DevWrites(http', dev), DevHeard(mail'["ota"], ota, dev)
  PROVE  SessInv'
<1>1. DevTalk(http', mail'["ota"], sess, ota, meant, dev)  BY SessFacts, DevIs
<1> QED  BY <1>1, SessFacts, SessOfHttp DEF sessVars

LEMMA AppendedLast ==
  ASSUME NEW m, IsQueue(m), NEW x
  PROVE  Append(m, x) # <<>> /\ Append(m, x)[Len(Append(m, x))] = x
<1>1. PICK m2 : m2 = Append(m, x)  OBVIOUS
<1>2. Added(m, m2, <<x>>)  BY <1>1, QueueAppend
<1>3. Len(<<x>>) = 1 /\ <<x>>[1] = x  OBVIOUS
<1>4. Len(m2) = Len(m) + 1 /\ m2[Len(m) + 1] = x /\ Len(m) \in Nat
  BY <1>2, <1>3 DEF Added
<1>5. m2 # <<>>
  <2>1. Len(m2) # 0  BY ONLY <1>4
  <2> QED  BY <2>1
<1> QED  BY <1>1, <1>4, <1>5

\* A message that is no result that succeeded says nothing of the image.
LEMMA HeardNothing ==
  ASSUME NEW m, NEW m2, NEW o, NEW d, IsQueue(m), NEW x, m2 = Append(m, x),
         x.id # "Result" \/ x.ok = FALSE
  PROVE  DevHeard(m2, o, d)
BY AppendedLast DEF DevHeard

LEMMA SessOpening ==
  ASSUME BaseInv, StartRefused \/ StartGranted, UNCHANGED <<otaVars, printVars>>
  PROVE  SessInv'
<1>1. /\ TalkInv /\ MailTypes(mail)  BY DEF BaseInv, TalkInv
<1>2. /\ asks # <<>> /\ asks' = Tail(asks) /\ Head(asks).id = "Start" /\ UNCHANGED sessVars
      /\ \E x : x.id = "StartResponse" /\ mail' = [mail EXCEPT ![Head(asks).from] = Append(@, x)]
      /\ \/ http' = http
         \/ http' = [Unowned EXCEPT !.state = "open", !.owner = Head(asks).from,
                                    !.job = Head(asks).job]
  <2>1. CASE StartRefused
    <3>1. PICK x : x = Opening(FALSE)  OBVIOUS
    <3>2. x.id = "StartResponse"  BY <3>1 DEF Opening
    <3> QED  BY <2>1, <3>1, <3>2 DEF StartRefused, Asked, Tell, Ask
  <2>2. CASE StartGranted
    <3>1. PICK x : x = Opening(TRUE)  OBVIOUS
    <3>2. x.id = "StartResponse"  BY <3>1 DEF Opening
    <3> QED  BY <2>2, <3>1, <3>2 DEF StartGranted, Asked, Tell, Ask
  <2> QED  BY <2>1, <2>2
<1>3. PICK x : x.id = "StartResponse" /\ mail' = [mail EXCEPT ![Head(asks).from] = Append(@, x)]
  BY <1>2
<1>4. /\ Taken(asks, asks') /\ Head(asks) = asks[1] /\ asks[1].from \in {"ota", "print"}
      /\ 1 \in DOMAIN asks
  BY <1>1, <1>2, Handled DEF Taken
<1>5. IsQueue(mail["ota"])  BY <1>1 DEF MailTypes
<1>6. mail'["ota"] = mail["ota"] \/ mail'["ota"] = Append(mail["ota"], x)
  BY <1>1, <1>3, <1>4 DEF MailTypes
<1>7. DevWrites(http, dev) /\ DevHeard(mail["ota"], ota, dev)  BY SessFacts, DevIs
<1>8. DevHeard(mail'["ota"], ota, dev)
  <2>1. x.id # "Result" \/ x.ok = FALSE  BY <1>3
  <2> QED  BY <1>5, <1>6, <1>7, <2>1, HeardNothing
<1>9. DevWrites(http', dev)
  <2>2. PICK c, j : c = Head(asks).from /\ j = Head(asks).job  OBVIOUS
  <2>3. http' = http \/ http' = [Unowned EXCEPT !.state = "open", !.owner = c, !.job = j]
    BY <1>2, <2>2
  <2>4. PICK g : g = [Unowned EXCEPT !.state = "open", !.owner = c, !.job = j]  OBVIOUS
  <2>5. g.sink = NoSink /\ NoSink.target = None  BY <2>4 DEF Unowned, NoSink
  <2>6. http' = http \/ http' = g  BY <2>3, <2>4
  <2>1. http' = http \/ http'.sink.target = None  BY <2>5, <2>6
  <2> QED  BY <1>7, <2>1 DEF DevWrites
<1>10. ASSUME ImageAt(asks', http')  PROVE ImageAt(asks, http)
  <2>1. ASSUME http'.owner = "ota", http'.job.kind = "image"  PROVE ImageAt(asks, http)
    <3>1. CASE http' = http  BY <2>1, <3>1 DEF ImageAt
    <3>2. CASE http' = [Unowned EXCEPT !.state = "open", !.owner = Head(asks).from,
                                       !.job = Head(asks).job]
      <4>1. asks[1].from = "ota" /\ asks[1].job.kind = "image" /\ asks[1].id = "Start"
        BY <1>2, <1>4, <2>1, <3>2 DEF Unowned
      <4> QED  BY <1>4, <4>1 DEF ImageAt
    <3> QED  BY <1>2, <3>1, <3>2
  <2> QED  BY <1>4, <1>10, <2>1, ImageTaken
<1>11. ota' = ota  BY DEF otaVars
<1> QED  BY <1>2, <1>8, <1>9, <1>10, <1>11, SessOfMessage

\* The parts of the request are set, or the message is dropped.
LEMMA SessParts ==
  ASSUME BaseInv, NotOwner \/ PartSet \/ SinkSet \/ SendAsked, UNCHANGED <<otaVars, printVars>>
  PROVE  SessInv'
<1>1. TalkInv /\ HttpTypes(http)  BY DEF BaseInv, TalkInv
<1>2. /\ asks # <<>> /\ asks' = Tail(asks) /\ Head(asks).id # "Wake" /\ UNCHANGED sessVars
      /\ mail' = mail /\ http'.owner = http.owner /\ http'.job = http.job
      /\ http'.sink = http.sink \/ http'.sink.opened = FALSE
  <2>1. CASE NotOwner  BY <2>1 DEF NotOwner, Asked
  <2>2. CASE PartSet  BY <1>1, <2>2 DEF PartSet, Asked, HttpTypes
  <2>3. CASE SinkSet
    <3>1. PICK t, u, p : /\ p = With(http.parts, [part |-> "sink", job |-> Ask.job])
                         /\ t = Ask.target /\ u = Ask.up
      OBVIOUS
    <3>2. http' = [http EXCEPT !.parts = p, !.sink = [NoSink EXCEPT !.target = t, !.up = u]]
      BY <2>3, <3>1 DEF SinkSet
    <3>3. http'.owner = http.owner /\ http'.job = http.job /\ http'.sink.opened = FALSE
      BY <1>1, <3>2 DEF HttpTypes, NoSink
    <3> QED  BY <2>3, <3>3 DEF SinkSet, Asked
  <2>4. CASE SendAsked  BY <1>1, <2>4 DEF SendAsked, Asked, HttpTypes
  <2> QED  BY <2>1, <2>2, <2>3, <2>4
<1>3. Taken(asks, asks')  BY <1>1, <1>2, Handled
<1>4. DevWrites(http, dev) /\ DevHeard(mail["ota"], ota, dev)  BY SessFacts, DevIs
<1>5. DevWrites(http', dev)  BY <1>2, <1>4 DEF DevWrites
<1>6. ImageAt(asks', http') => ImageAt(asks, http)
  <2>1. http'.owner = "ota" /\ http'.job.kind = "image" => ImageAt(asks, http)
    BY <1>2 DEF ImageAt
  <2> QED  BY <1>3, <2>1, ImageTaken
<1>7. ota' = ota  BY DEF otaVars
<1> QED  BY <1>2, <1>4, <1>5, <1>6, <1>7, SessOfMessage

LEMMA SessOnWake ==
  ASSUME BaseInv, OnWake, UNCHANGED <<otaVars, printVars>>
  PROVE  SessInv'
<1>1. http' = Unowned /\ mail'["ota"] = <<Result("expired", FALSE)>> /\ mail["ota"] = <<>>
  BY TalkOnWake
<1>2. asks # <<>> /\ asks' = Tail(asks) /\ UNCHANGED sessVars  BY DEF OnWake, Asked
<1>3. IsQueue(asks) /\ IsQueue(mail["ota"])  BY DEF BaseInv, TalkInv, MailTypes
<1>4. Taken(asks, asks')  BY <1>2, <1>3, QueueTail
<1>5. PICK x : x = Result("expired", FALSE)  OBVIOUS
<1>6. x.ok = FALSE  BY <1>5 DEF Result
<1>7. mail'["ota"] = Append(mail["ota"], x)  BY <1>1, <1>5, AppendShort
<1>8. DevHeard(mail'["ota"], ota, dev)  BY <1>3, <1>6, <1>7, HeardNothing
<1>9. DevWrites(http', dev)  BY <1>1 DEF DevWrites, Unowned, NoSink
<1>10. ImageAt(asks', http') => ImageAt(asks, http)
  <2>1. http'.owner # "ota"  BY <1>1, SessionsAssumption DEF Unowned
  <2> QED  BY <1>4, <2>1, ImageTaken
<1>11. ota' = ota  BY DEF otaVars
<1> QED  BY <1>2, <1>8, <1>9, <1>10, <1>11, SessOfMessage

\* The timer wakes the task.
LEMMA SessSessionIdles ==
  ASSUME BaseInv, SessionIdles, "slow" \notin Faults, UNCHANGED <<otaVars, printVars>>
  PROVE  SessInv'
<1>1. Added(asks, asks', <<WakeUp>>)  BY TalkSessionIdles
<1>2. http' = http /\ mail' = mail /\ UNCHANGED sessVars  BY DEF SessionIdles, IdleTimerFires
<1>3. PICK x : x = WakeUp  OBVIOUS
<1>4. \A k \in 1..Len(<<x>>) : ~Imaging(<<x>>[k])
  <2>1. Len(<<x>>) = 1 /\ <<x>>[1] = x  OBVIOUS
  <2>2. x.id # "Start"  BY <1>3 DEF WakeUp
  <2> QED  BY <2>1, <2>2 DEF Imaging
<1>5. http'.owner = "ota" /\ http'.job.kind = "image" => ImageAt(asks, http)
  BY <1>2 DEF ImageAt
<1>6. ImageAt(asks', http') => ImageAt(asks, http)  BY <1>1, <1>3, <1>4, <1>5, ImageAdded
<1>7. ota' = ota  BY DEF otaVars
<1>8. DevWrites(http, dev) /\ DevHeard(mail["ota"], ota, dev)  BY SessFacts, DevIs
<1> QED  BY <1>2, <1>6, <1>7, <1>8, SessOfMessage

\* What a download writes is what the client has asked for.
LEMMA DownloadStreams ==
  ASSUME BaseInv, Executing, http.owner = "ota", ota.state = "download"
  PROVE  Streaming /\ http.sink.target = ota.driver /\ http.sink.up = ota.up
<1>1. OtaTalk(asks, http, mail["ota"], ota) /\ http.state = "executing"
  BY DEF BaseInv, TalkInv, Executing
<1>2. ~OtaQuiet(asks, http, mail["ota"])  BY DEF OtaQuiet
<1>3. \A j : ~Starting(asks, http, mail["ota"], j, FALSE)
  BY <1>1 DEF Starting, OtaAsks, OtaOpened, OtaRefused, Fresh
<1>4. ASSUME NEW j, NEW t, NEW u, Sending(asks, http, mail["ota"], j, t, u)
      PROVE  Posted(http, "ota", j, t, u)
  BY <1>1, <1>4 DEF Sending, OtaSets, OtaExecutes, OtaKnows, Partly
<1>5. ota.driver \in Targets
      /\ Sending(asks, http, mail["ota"], ImageJob(ota.slot), ota.driver, ota.up)
  BY <1>1, <1>2, <1>3 DEF OtaTalk
<1>6. Posted(http, "ota", ImageJob(ota.slot), ota.driver, ota.up)  BY <1>4, <1>5
<1>7. http.sink.target = ota.driver /\ http.sink.up = ota.up  BY <1>6 DEF Posted, ImageJob
<1> QED  BY <1>5, <1>7, OtaAssumption DEF Streaming

\* While an image is written the inbox is clear.
LEMMA Streamed ==
  ASSUME BaseInv, Streaming
  PROVE  /\ Executing /\ http.owner = "ota" /\ http.sink.target \in Targets
         /\ ImageAt(asks, http) /\ Clear(inbox) /\ sess.state \in {"idle", "active"}
         /\ mail["ota"] = <<>>
         /\ \A d : SessTalk(inbox, sess, ota, meant, d)
<1>1. Executing /\ http.sink.target # None  BY DEF Streaming
<1>2. http.owner = "ota" /\ http.job.kind = "image" /\ mail["ota"] = <<>>
  BY <1>1, ExecutingFacts
<1>3. http.sink.target \in Targets  BY <1>1, SessFacts
<1>4. ImageAt(asks, http)  BY <1>2 DEF ImageAt
<1>5. Clear(inbox) /\ sess.state \in {"idle", "active"}  BY <1>4, SessFacts DEF ImageTalk
<1>6. ASSUME NEW d  PROVE SessTalk(inbox, sess, ota, meant, d)
  <2>1. SessTalk(inbox, sess, ota, meant, dev)  BY SessFacts
  <2>2. /\ ota.state \in {"idle", "check", "download"}
        /\ ota.state = "download" => /\ InState(sess, "active", meant) /\ meant # <<>>
                                     /\ ota.driver = meant[Len(meant)]
    BY ONLY <1>5, <2>1, SessClear
  <2> QED  BY <1>5, <2>2, SessIs
<1> QED  BY <1>1, <1>2, <1>3, <1>4, <1>5, <1>6

\* The stream goes on, or ends.
LEMMA SessOfStream ==
  ASSUME BaseInv, Streaming, sess' = sess, inbox' = inbox, meant' = meant, asks' = asks,
         ota' = ota, (http'.owner = http.owner /\ http'.job = http.job) \/ http' = Unowned,
         DevTypes(dev'), DevWrites(http', dev'), DevHeard(mail'["ota"], ota, dev')
  PROVE  SessInv'
<1>1. /\ ImageAt(asks, http) /\ sess.state \in {"idle", "active"}
      /\ SessTalk(inbox, sess, ota, meant, dev')
  BY Streamed
<1>2. DevHeld(sess, meant, dev')
  <2>1. DevHeld(sess, meant, dev)  BY SessFacts, DevIs
  <2> QED  BY <1>1, <2>1 DEF DevHeld
<1>3. DevTalk(http', mail'["ota"], sess, ota, meant, dev')  BY <1>2, DevIs
<1> QED  BY <1>1, <1>3, SessOfHttp

\* The image that is written chunk by chunk.
LEMMA ImageGrows ==
  ASSUME NEW u \in Nat, NEW n \in Nat, NEW f, f = [k \in 1..n |-> <<u, k>>]
  PROVE  /\ f \in Seq(Nat \X Nat) /\ <<u, n + 1>> \in Nat \X Nat
         /\ Append(f, <<u, n + 1>>) = [k \in 1..(n + 1) |-> <<u, k>>]
         /\ Append(f, <<u, n + 1>>) \in Seq(Nat \X Nat)
<1>1. PICK S : S = Nat \X Nat  OBVIOUS
<1>2. \A k \in 1..(n + 1) : <<u, k>> \in S  BY <1>1
<1>3. f \in [1..n -> S]  BY <1>2
<1>4. f \in Seq(S) /\ Len(f) = n /\ DOMAIN f = 1..n
  <2>1. [k \in 1..n |-> f[k]] \in Seq(S)  BY <1>3
  <2>2. f = [k \in 1..n |-> f[k]]  BY <1>3
  <2>3. f \in Seq(S)  BY <2>1, <2>2
  <2> QED  BY <1>3, <2>3
<1>11. <<u, n + 1>> \in S
  <2>1. n + 1 \in Nat  OBVIOUS
  <2> QED  BY <1>1, <2>1
<1>5. PICK x \in S : x = <<u, n + 1>>  BY <1>11
<1>6. PICK g : g = Append(f, x)  OBVIOUS
<1>7. /\ g \in Seq(S) /\ Len(g) = n + 1 /\ DOMAIN g = 1..(n + 1)
      /\ \A k \in 1..n : g[k] = f[k]
      /\ g[n + 1] = x
  BY <1>4, <1>6
<1>8. g \in [1..(n + 1) -> S]  BY <1>7
<1>9. \A k \in 1..(n + 1) : g[k] = <<u, k>>
  <2>1. \A k \in 1..n : f[k] = <<u, k>>  OBVIOUS
  <2>2. \A k \in 1..(n + 1) : k \in 1..n \/ k = n + 1  OBVIOUS
  <2> QED  BY <1>5, <1>7, <2>1, <2>2
<1>10. g = [k \in 1..(n + 1) |-> <<u, k>>]  BY <1>8, <1>9
<1>12. g = Append(f, <<u, n + 1>>)  BY <1>5, <1>6
<1> QED  BY <1>1, <1>4, <1>7, <1>10, <1>11, <1>12

LEMMA SessStreamOpens ==
  ASSUME BaseInv, StreamOpens, UNCHANGED <<otaVars, printVars>>
  PROVE  SessInv'
<1>1. /\ http'.owner = http.owner /\ http'.job = http.job
      /\ http'.sink.target = http.sink.target /\ http'.sink.next = 0
  BY StreamOpensSink
<1>2. /\ Streaming /\ dev' \in Opened(http.sink.target) /\ mail' = mail /\ sess' = sess
      /\ inbox' = inbox /\ meant' = meant /\ asks' = asks /\ ota' = ota
  BY DEF StreamOpens, Stream, otaVars
<1>3. http.sink.target \in Targets /\ mail["ota"] = <<>>  BY <1>2, Streamed
<1>7. DevTypes(dev)  BY SessFacts
<1>9. DevTypes(dev') /\ dev'[http.sink.target].image = <<>>  BY <1>2, <1>3, <1>7, OpenedIs
<1>10. DevWrites(http', dev')
  <2>1. \A u : [k \in 1..0 |-> <<u, k>>] = <<>>  OBVIOUS
  <2> QED  BY <1>1, <1>9, <2>1 DEF DevWrites
<1>11. DevHeard(mail'["ota"], ota, dev')  BY <1>2, <1>3 DEF DevHeard
<1> QED  BY <1>1, <1>2, <1>9, <1>10, <1>11, SessOfStream

LEMMA SessStreamWrites ==
  ASSUME BaseInv, StreamWrites, UNCHANGED <<otaVars, printVars>>
  PROVE  SessInv'
<1>1. /\ http'.owner = http.owner /\ http'.job = http.job
      /\ http'.sink.target = http.sink.target /\ http'.sink.up = http.sink.up
      /\ http'.sink.opened /\ http.sink.opened
      /\ http'.sink.next = IF dev[http.sink.target].open THEN http.sink.next + 1
                           ELSE http.sink.next
  BY StreamWritesSink
<1>2. /\ Streaming /\ mail' = mail /\ sess' = sess
      /\ inbox' = inbox /\ meant' = meant /\ asks' = asks /\ ota' = ota
  BY DEF StreamWrites, Stream, otaVars
<1>3. http.sink.target \in Targets /\ mail["ota"] = <<>>  BY <1>2, Streamed
<1>4. http.sink.up \in Nat /\ http.sink.next \in Nat
  BY OtaAssumption DEF BaseInv, TalkInv, HttpTypes
<1>5. DevHeard(mail'["ota"], ota, dev')  BY <1>2, <1>3 DEF DevHeard
<1>6. DevTypes(dev) /\ DevWrites(http, dev)  BY SessFacts, DevIs
<1>7. CASE dev[http.sink.target].open
  <2>1. PICK t, u, n : t = http.sink.target /\ u = http.sink.up /\ n = http.sink.next  OBVIOUS
  <2>2. t \in Targets /\ u \in Nat /\ n \in Nat /\ dev[t].open  BY <1>3, <1>4, <1>7, <2>1
  <2>3. PICK f : f = [k \in 1..n |-> <<u, k>>]  OBVIOUS
  <2>4. dev[t].image = f
    BY <1>1, <1>3, <1>6, <1>7, <2>1, <2>3, OtaAssumption DEF DevWrites
  <2>5. PICK x : x = <<u, n + 1>>  OBVIOUS
  <2>6. dev' = [dev EXCEPT ![t].image = Append(@, x)]
    BY <1>7, <2>1, <2>5 DEF StreamWrites, Stream, Written
  <2>7. /\ f \in Seq(Nat \X Nat) /\ x \in Nat \X Nat
        /\ Append(f, x) = [k \in 1..(n + 1) |-> <<u, k>>]
        /\ Append(f, x) \in Seq(Nat \X Nat)
    BY <2>2, <2>3, <2>5, ImageGrows
  <2>8. PICK g \in Seq(Nat \X Nat) : g = Append(f, x)  BY <2>7
  <2>9. dev' = [dev EXCEPT ![t].image = g]  BY <2>4, <2>6, <2>8
  <2>10. DevTypes(dev') /\ dev'[t].image = g
    <3>1. PICK r : r = [dev[t] EXCEPT !.image = g]  OBVIOUS
    <3>2. dev[t] \in TargetFile
      BY <1>6, <2>2 DEF DevTypes
    <3>3. r \in TargetFile /\ r.image = g
      BY <3>1, <3>2 DEF TargetFile
    <3>4. dev' = [dev EXCEPT ![t] = r]  BY <2>9, <3>1
    <3> QED  BY <1>6, <2>2, <3>3, <3>4 DEF DevTypes
  <2>11. /\ http'.sink.target = t /\ http'.sink.up = u /\ http'.sink.next = n + 1
    BY <1>1, <1>7, <2>1
  <2>12. DevWrites(http', dev')  BY <2>7, <2>8, <2>10, <2>11 DEF DevWrites
  <2> QED  BY <1>1, <1>2, <1>5, <2>10, <2>12, SessOfStream
<1>8. CASE ~dev[http.sink.target].open
  <2>1. dev' = dev  BY <1>8 DEF StreamWrites, Stream
  <2>2. DevWrites(http', dev)  BY <1>1, <1>8 DEF DevWrites
  <2> QED  BY <1>1, <1>2, <1>5, <1>6, <2>1, <2>2, SessOfStream
<1> QED  BY <1>7, <1>8

\* The stream ends: the image was whole, or the result says that it failed.
LEMMA StreamEnds ==
  ASSUME BaseInv, Streaming, NEW r \in {"ok", "failed"}, Finish(r, FALSE),
         asks' = asks, timer' = timer, task' = task, UNCHANGED <<otaVars, printVars>>,
         sess' = sess, inbox' = inbox, meant' = meant, DevTypes(dev'),
         r = "ok" => WholeAt(dev', http.sink.target, http.sink.up)
  PROVE  SessInv'
<1>1. /\ http' = Unowned /\ mail'["ota"] = <<Result(r, FALSE)>> /\ Executing
      /\ http.owner = "ota"
  <2>1. Executing /\ http.owner = "ota"  BY Streamed
  <2>2. FALSE \in BOOLEAN /\ ~FALSE  OBVIOUS
  <2> QED  BY <2>1, <2>2, TalkFinished
<1>2. ota' = ota  BY DEF otaVars
<1>3. DevWrites(http', dev')  BY <1>1 DEF DevWrites, Unowned, NoSink
<1>4. DevHeard(mail'["ota"], ota, dev')
  <2>1. PICK x : x = Result(r, FALSE)  OBVIOUS
  <2>2. x.ok = (r = "ok")  BY <2>1 DEF Result
  <2>3. mail'["ota"] = <<x>> /\ Len(<<x>>) = 1 /\ <<x>>[1] = x  BY <1>1, <2>1
  <2>4. ASSUME ota.state = "download", x.ok  PROVE WholeAt(dev', ota.driver, ota.up)
    <3>1. http.sink.target = ota.driver /\ http.sink.up = ota.up
      BY <1>1, <2>4, DownloadStreams
    <3> QED  BY <2>2, <2>4, <3>1
  <2> QED  BY <2>3, <2>4 DEF DevHeard
<1> QED  BY <1>1, <1>2, <1>3, <1>4, SessOfStream

LEMMA SessStreamCloses ==
  ASSUME BaseInv, StreamCloses, UNCHANGED <<otaVars, printVars>>
  PROVE  SessInv'
<1>1. /\ Streaming /\ http.sink.next = Chunks /\ sess' = sess /\ inbox' = inbox
      /\ meant' = meant /\ asks' = asks /\ timer' = timer /\ task' = task
  BY DEF StreamCloses, StreamWhole, Stream
<1>2. DevTypes(dev) /\ DevWrites(http, dev) /\ HttpTypes(http)
  BY SessFacts, DevIs DEF BaseInv, TalkInv
<1>3. PICK t, u : t = http.sink.target /\ u = http.sink.up  OBVIOUS
<1>4. t \in Targets  BY <1>1, <1>3, Streamed
<1>5. "ok" \in {"ok", "failed"} /\ "failed" \in {"ok", "failed"} /\ "ok" # "failed"  OBVIOUS
<1>6. CASE dev[t].open
  <2>1. dev' = [dev EXCEPT ![t].open = FALSE] /\ Finish("ok", FALSE)
    BY <1>3, <1>6 DEF StreamCloses, Stream, Closed
  <2>2. http.sink.opened  BY <1>1, <1>2, OtaAssumption DEF HttpTypes
  <2>3. dev[t].image = [k \in 1..Chunks |-> <<u, k>>]
    BY <1>1, <1>2, <1>3, <1>4, <1>6, <2>2, OtaAssumption DEF DevWrites
  <2>4. DevTypes(dev') /\ dev'[t].open = FALSE /\ dev'[t].image = dev[t].image
    <3>1. PICK r : r = [dev[t] EXCEPT !.open = FALSE]  OBVIOUS
    <3>2. dev[t] \in TargetFile
      BY <1>2, <1>4 DEF DevTypes
    <3>3. r \in TargetFile /\ r.open = FALSE /\ r.image = dev[t].image
      BY <3>1, <3>2 DEF TargetFile
    <3>4. dev' = [dev EXCEPT ![t] = r]  BY <2>1, <3>1
    <3> QED  BY <1>2, <1>4, <3>3, <3>4 DEF DevTypes
  <2>5. WholeAt(dev', t, u)  BY <2>3, <2>4 DEF WholeAt
  <2>6. "ok" = "ok" => WholeAt(dev', http.sink.target, http.sink.up)  BY <1>3, <2>5
  <2> QED  BY <1>1, <1>5, <2>1, <2>4, <2>6, StreamEnds
<1>7. CASE ~dev[t].open
  <2>1. dev' = dev /\ Finish("failed", FALSE)  BY <1>3, <1>7 DEF StreamCloses, Stream
  <2>2. "failed" = "ok" => WholeAt(dev', http.sink.target, http.sink.up)  OBVIOUS
  <2> QED  BY <1>1, <1>2, <1>5, <2>1, <2>2, StreamEnds
<1> QED  BY <1>6, <1>7

LEMMA SessStreamFails ==
  ASSUME BaseInv, StreamFails \/ StreamCloseFails, UNCHANGED <<otaVars, printVars>>
  PROVE  SessInv'
<1>1. DevTypes(dev)  BY SessFacts
<1>2. /\ Streaming /\ Finish("failed", FALSE) /\ sess' = sess /\ inbox' = inbox
      /\ meant' = meant /\ asks' = asks /\ timer' = timer /\ task' = task
  BY DEF StreamFails, StreamCloseFails
<1>3. DevTypes(dev')
  <2>1. http.sink.target \in Targets  BY <1>2, Streamed
  <2>2. dev' = dev \/ dev' \in Erased(http.sink.target) \/ dev' = Refused(http.sink.target)
    BY DEF StreamFails, StreamCloseFails, Stream
  <2>3. CASE dev' = Refused(http.sink.target)  BY <1>1, <2>3, NoFileIs DEF Refused, DevTypes
  <2> QED  BY <1>1, <2>1, <2>2, <2>3, ErasedKeeps
<1>4. "failed" \in {"ok", "failed"} /\ ("failed" = "ok" => WholeAt(dev', http.sink.target, http.sink.up))
  OBVIOUS
<1> QED  BY <1>2, <1>3, <1>4, StreamEnds

\* A request that is no download is over.
LEMMA SessAnswered ==
  ASSUME BaseInv, Answered \/ Failed, UNCHANGED <<otaVars, printVars>>
  PROVE  SessInv'
<1>1. /\ Executing /\ ~Streaming /\ asks' = asks /\ timer' = timer /\ UNCHANGED sessVars
      /\ \E r \in {"ok", "failed"}, y \in BOOLEAN : Finish(r, y)
  BY DEF Answered, Failed
<1>2. PICK r \in {"ok", "failed"}, y \in BOOLEAN : Finish(r, y)  BY <1>1
<1>3. /\ http' = Unowned
      /\ http.owner = "print" => mail'["ota"] = mail["ota"]
  <2>1. task' = task /\ (Streaming => ~y)  BY <1>1 DEF sessVars
  <2> QED  BY <1>1, <1>2, <2>1, TalkFinished
<1>4. http.owner \in {"ota", "print"}
  BY <1>1, SessionsAssumption DEF Executing, BaseInv, TalkInv, HttpTypes
<1>5. DevWrites(http', dev)  BY <1>3 DEF DevWrites, Unowned, NoSink
<1>6. DevHeard(mail'["ota"], ota, dev)
  <2>1. CASE http.owner = "ota"
    <3>1. ota.state # "download"  BY <1>1, <2>1, DownloadStreams
    <3> QED  BY <3>1 DEF DevHeard
  <2>2. CASE http.owner = "print"
    <3>1. DevHeard(mail["ota"], ota, dev)  BY SessFacts, DevIs
    <3> QED  BY <1>3, <2>2, <3>1
  <2> QED  BY <1>4, <2>1, <2>2
<1>7. ImageAt(asks', http') => ImageAt(asks, http)
  <2>1. http'.owner # "ota"  BY <1>3, SessionsAssumption DEF Unowned
  <2> QED  BY <1>1, <2>1 DEF ImageAt
<1>8. ota' = ota  BY DEF otaVars
<1> QED  BY <1>1, <1>5, <1>6, <1>7, <1>8, SessOfMessage

\* The HTTP module keeps what holds of the session.
LEMMA SessOfHttpTask ==
  ASSUME BaseInv, HttpTask \/ HttpFails
  PROVE  SessInv'
<1>1. UNCHANGED <<otaVars, printVars>>  BY DEF HttpTask, HttpFails
<1>2. CASE Handles  BY <1>1, <1>2, SessOpening, SessParts, SessOnWake DEF Handles
<1>3. CASE Executes
  BY <1>1, <1>3, SessAnswered, SessStreamOpens, SessStreamWrites, SessStreamCloses,
     SessStreamFails DEF Executes, StreamGivesUp
<1>4. CASE HttpFails  BY <1>1, <1>4, SessAnswered, SessStreamFails DEF HttpFails
<1> QED  BY <1>2, <1>3, <1>4 DEF HttpTask

-----------------------------------------------------------------------------
(* The steps of the web OTA client and the session.                         *)

\* The targets are asked about in turn.
LEMMA Rotates ==
  ASSUME NEW n \in DOMAIN Slots
  PROVE  Following(n) \in DOMAIN Slots
<1>1. Len(Slots) \in Nat \ {0} /\ DOMAIN Slots = 1..Len(Slots)  BY SlotsAssumption
<1>2. PICK l \in Nat \ {0} : l = Len(Slots)  BY <1>1
<1>3. n \in Nat  BY <1>1
<1>4. n % l \in 0..(l - 1)  BY ONLY <1>3, l \in Nat \ {0}
<1>5. (n % l) + 1 \in 1..l  BY ONLY <1>4, l \in Nat \ {0}
<1> QED  BY <1>1, <1>2, <1>5 DEF Following

\* The client goes idle.
LEMMA OtaIdled ==
  ASSUME NEW o, NEW mt, NEW o2, OtaTypes(o, mt),
         o2 = Idle(o) \/ o2 = Rotated(o) \/ o2 = [Rotated(o) EXCEPT !.driver = None]
  PROVE  OtaTypes(o2, mt) /\ o2.state = "idle" /\ o2.phase = "idle" /\ o2.up = o.up
<1>1. PICK n, p, f, g : /\ n = Following(o.next) /\ p = o.next /\ f = o.driver /\ g = o.found
  OBVIOUS
<1>2. n \in DOMAIN Slots /\ p \in DOMAIN Slots  BY <1>1, Rotates DEF OtaTypes
<1>3. PICK y : y = [state |-> "idle", phase |-> "idle", slot |-> o.slot, next |-> p, up |-> o.up,
                    found |-> None, driver |-> f]
  OBVIOUS
<1>4. o = [state |-> o.state, phase |-> o.phase, slot |-> o.slot, next |-> p, up |-> o.up,
           found |-> g, driver |-> f]
  BY <1>1 DEF OtaTypes
<1>5. Idle(o) = y
  <2>1. Idle(o) = [o EXCEPT !.state = "idle", !.phase = "idle", !.found = None]  BY DEF Idle
  <2>2. PICK z : z = [o EXCEPT !.state = "idle", !.phase = "idle", !.found = None]  OBVIOUS
  <2>3. /\ z = [state |-> z.state, phase |-> z.phase, slot |-> z.slot, next |-> z.next,
                up |-> z.up, found |-> z.found, driver |-> z.driver]
        /\ z.state = "idle" /\ z.phase = "idle" /\ z.slot = o.slot /\ z.next = o.next
        /\ z.up = o.up /\ z.found = None /\ z.driver = o.driver
    <3>1. o = [state |-> o.state, phase |-> o.phase, slot |-> o.slot, next |-> o.next,
               up |-> o.up, found |-> o.found, driver |-> o.driver]
      BY DEF OtaTypes
    <3> QED  BY ONLY <2>2, <3>1
  <2>4. z = y  BY <1>1, <1>3, <2>3
  <2> QED  BY <2>1, <2>2, <2>4
<1>6. Rotated(o) = [y EXCEPT !.next = n]  BY <1>1, <1>5 DEF Rotated
<1>7. o2 = y \/ o2 = [y EXCEPT !.next = n] \/ o2 = [[y EXCEPT !.next = n] EXCEPT !.driver = None]
  BY <1>5, <1>6
<1>8. /\ o2 = [state |-> o2.state, phase |-> o2.phase, slot |-> o2.slot, next |-> o2.next,
               up |-> o2.up, found |-> o2.found, driver |-> o2.driver]
      /\ o2.state = "idle" /\ o2.phase = "idle" /\ o2.up = o.up /\ o2.slot = o.slot
      /\ o2.next = n \/ o2.next = p
  <2>1. CASE o2 = y  BY <1>3, <2>1
  <2>2. CASE o2 = [y EXCEPT !.next = n]  BY <1>3, <2>2
  <2>3. CASE o2 = [[y EXCEPT !.next = n] EXCEPT !.driver = None]  BY <1>3, <2>3
  <2> QED  BY <1>7, <2>1, <2>2, <2>3
<1> QED  BY <1>2, <1>8 DEF OtaTypes

\* The session does not mind that the client has gone idle.
LEMMA SessForgotten ==
  ASSUME NEW i, NEW s, NEW o, NEW mt, NEW d, NEW o2, SessTalk(i, s, o, mt, d),
         o2.state = "idle", o2.up = o.up
  PROVE  SessTalk(i, s, o2, mt, d)
<1>1. ASSUME NEW x, Link(x, s, o, mt, d)  PROVE Link(x, s, o2, mt, d)  BY <1>1 DEF Link
<1> QED  BY <1>1, SessIs

\* What is left of what the client was told ends as before.
LEMMA HeardLess ==
  ASSUME NEW m, NEW m2, Taken(m, m2), IsQueue(m2), NEW o, NEW d, DevHeard(m, o, d)
  PROVE  DevHeard(m2, o, d)
<1>1. /\ Len(m) \in Nat \ {0} /\ Len(m2) = Len(m) - 1
      /\ \A k \in 1..Len(m2) : m2[k] = m[k + 1]
  BY DEF Taken
<1>2. m # <<>>
  <2>1. Len(<<>>) = 0  OBVIOUS
  <2> QED  BY <1>1, <2>1
<1>3. ASSUME m2 # <<>>  PROVE m2[Len(m2)] = m[Len(m)]
  <2>1. Len(m2) # 0  BY <1>3, EmptyQueue
  <2> QED  BY <1>1, <2>1
<1> QED  BY <1>2, <1>3 DEF DevHeard

\* The client goes on; the session, its inbox and the drivers are as before.
LEMMA SessOfClient ==
  ASSUME BaseInv, UNCHANGED sessVars, http' = http,
         OtaTypes(ota', meant), SessTalk(inbox, sess, ota', meant, dev),
         DevHeard(mail'["ota"], ota', dev), ImageAt(asks', http) => ImageAt(asks, http)
  PROVE  SessInv'
<1>1. DevWrites(http, dev) /\ DevHeld(sess, meant, dev)  BY SessFacts, DevIs
<1>2. DevTalk(http, mail'["ota"], sess, ota', meant, dev)  BY <1>1, DevIs
<1> QED  BY <1>2, SessFacts DEF SessInv, sessVars, ImageTalk

LEMMA SessOtaTick ==
  ASSUME BaseInv, IntervalPasses, "slow" \notin Faults, UNCHANGED printVars
  PROVE  SessInv'
<1>1. /\ inbox = <<>> /\ UNCHANGED sessVars /\ http' = http /\ mail' = mail
      /\ ota' = [ota EXCEPT !.state = "check", !.phase = "starting", !.slot = ota.next]
      /\ asks' = Append(asks, Start("ota", CheckJob(ota.next)))
  BY DEF IntervalPasses, OtaTick
<1>2. OtaTypes(ota, meant) /\ IsQueue(asks)  BY SessFacts DEF BaseInv, TalkInv
<1>3. PICK y : y = ota  OBVIOUS
<1>4. /\ y = [state |-> y.state, phase |-> y.phase, slot |-> y.slot, next |-> y.next, up |-> y.up,
              found |-> y.found, driver |-> y.driver]
      /\ y.next \in DOMAIN Slots /\ meant \in Seq(Targets) /\ y.up = Len(meant)
  BY <1>2, <1>3 DEF OtaTypes
<1>5. PICK n : n = y.next  OBVIOUS
<1>6. PICK z : z = [y EXCEPT !.state = "check", !.phase = "starting", !.slot = n]  OBVIOUS
<1>7. ota' = z  BY <1>1, <1>3, <1>5, <1>6
<1>8. /\ z = [state |-> z.state, phase |-> z.phase, slot |-> z.slot, next |-> z.next, up |-> z.up,
              found |-> z.found, driver |-> z.driver]
      /\ z.state = "check" /\ z.slot = n /\ z.next = y.next /\ z.up = y.up
  BY <1>4, <1>6
<1>9. OtaTypes(z, meant)  BY <1>4, <1>5, <1>8 DEF OtaTypes
<1>10. SessTalk(inbox, sess, z, meant, dev)
  <2>1. Clear(inbox)  BY <1>1 DEF Clear
  <2> QED  BY <1>8, <2>1, SessIs
<1>11. DevHeard(mail'["ota"], z, dev)  BY <1>8 DEF DevHeard
<1>12. ImageAt(asks', http) => ImageAt(asks, http)
  <2>1. PICK x : x = Start("ota", CheckJob(ota.next))  OBVIOUS
  <2>2. Added(asks, asks', <<x>>)  BY <1>1, <1>2, <2>1, QueueAppend
  <2>3. x.job.kind = "check"  BY <2>1 DEF Start, CheckJob
  <2>4. \A k \in 1..Len(<<x>>) : ~Imaging(<<x>>[k])
    <3>1. Len(<<x>>) = 1 /\ <<x>>[1] = x  OBVIOUS
    <3> QED  BY <2>3, <3>1 DEF Imaging
  <2>5. http.owner = "ota" /\ http.job.kind = "image" => ImageAt(asks, http)  BY DEF ImageAt
  <2> QED  BY <2>2, <2>4, <2>5, ImageAdded
<1> QED  BY <1>1, <1>7, <1>9, <1>10, <1>11, <1>12, SessOfClient

\* An answer that is not waited for.
LEMMA SessUnheard ==
  ASSUME BaseInv, OpeningIgnored \/ ResultIgnored, UNCHANGED printVars
  PROVE  SessInv'
<1>1. /\ mail["ota"] # <<>> /\ mail' = [mail EXCEPT !["ota"] = Tail(@)] /\ UNCHANGED sessVars
      /\ http' = http /\ asks' = asks /\ ota' = ota
  BY DEF OpeningIgnored, ResultIgnored, Mailed, MailTaken, otaVars
<1>2. Taken(mail["ota"], mail'["ota"]) /\ IsQueue(mail'["ota"])  BY <1>1, OtaMailTaken
<1>3. DevHeard(mail["ota"], ota, dev)  BY SessFacts, DevIs
<1>4. DevHeard(mail'["ota"], ota, dev)  BY ONLY <1>2, <1>3, HeardLess
<1> QED  BY <1>1, <1>4, SessFacts, SessOfClient

\* A check is over, or the client forgets.
LEMMA SessIdled ==
  ASSUME BaseInv, CheckBusy \/ CheckIsOver \/ InternetLost, UNCHANGED printVars
  PROVE  SessInv'
<1>1. /\ UNCHANGED sessVars /\ http' = http /\ asks' = asks
      /\ ota' = Idle(ota) \/ ota' = Rotated(ota)
  BY DEF CheckBusy, CheckIsOver, InternetLost, httpVars
<1>2. PICK z : z = ota'  OBVIOUS
<1>3. z = Idle(ota) \/ z = Rotated(ota)  BY <1>1, <1>2
<1>4. OtaTypes(z, meant) /\ z.state = "idle" /\ z.up = ota.up
  <2>1. OtaTypes(ota, meant)  BY SessFacts
  <2> QED  BY ONLY <1>3, <2>1, OtaIdled
<1>5. SessTalk(inbox, sess, z, meant, dev)  BY <1>4, SessFacts, SessForgotten
<1>6. DevHeard(mail'["ota"], z, dev)  BY <1>4 DEF DevHeard
<1> QED  BY <1>1, <1>2, <1>4, <1>5, <1>6, SessOfClient

LEMMA SessOpeningGranted ==
  ASSUME BaseInv, OpeningGranted, UNCHANGED printVars
  PROVE  SessInv'
<1>1. /\ UNCHANGED sessVars /\ http' = http
      /\ ota' = [ota EXCEPT !.phase = "executing"]
      /\ asks' = asks \o IF ota.state = "check" THEN CheckBurst(ota.slot)
                         ELSE ImageBurst(ota.slot, ota.driver, ota.up)
  BY DEF OpeningGranted
<1>2. mail'["ota"] = <<>>  BY TalkOpeningGranted
<1>3. OtaTypes(ota, meant) /\ IsQueue(asks)  BY SessFacts DEF BaseInv, TalkInv
<1>4. PICK y : y = ota  OBVIOUS
<1>5. PICK z : z = [y EXCEPT !.phase = "executing"]  OBVIOUS
<1>6. y = [state |-> y.state, phase |-> y.phase, slot |-> y.slot, next |-> y.next, up |-> y.up,
           found |-> y.found, driver |-> y.driver]
  BY <1>3, <1>4 DEF OtaTypes
<1>7. /\ z = [state |-> z.state, phase |-> z.phase, slot |-> z.slot, next |-> z.next, up |-> z.up,
              found |-> z.found, driver |-> z.driver]
      /\ z.state = y.state /\ z.slot = y.slot /\ z.next = y.next /\ z.up = y.up
      /\ z.found = y.found /\ z.driver = y.driver
  BY <1>5, <1>6
<1>8. ota' = z  BY <1>1, <1>4, <1>5
<1>9. OtaTypes(z, meant)  BY <1>3, <1>4, <1>7 DEF OtaTypes
<1>10. SessTalk(inbox, sess, z, meant, dev)
  <2>1. ASSUME NEW x, Link(x, sess, ota, meant, dev)  PROVE Link(x, sess, z, meant, dev)
    BY <1>4, <1>7, <2>1 DEF Link
  <2> QED  BY <1>4, <1>7, <2>1, SessFacts, SessIs
<1>11. DevHeard(mail'["ota"], z, dev)  BY <1>2 DEF DevHeard
<1>12. PICK b : b = IF ota.state = "check" THEN CheckBurst(ota.slot)
                    ELSE ImageBurst(ota.slot, ota.driver, ota.up)
  OBVIOUS
<1>13. \E j, t, u : IsBurst("ota", b, j, t, u)
  <2>1. CASE ota.state = "check"
    <3>1. b = CheckBurst(ota.slot)  BY <1>12, <2>1
    <3> QED  BY <3>1, CheckBurstIs
  <2>2. CASE ota.state # "check"
    <3>1. b = ImageBurst(ota.slot, ota.driver, ota.up)  BY <1>12, <2>2
    <3> QED  BY <3>1, ImageBurstIs
  <2> QED  BY <2>1, <2>2
<1>14. PICK j, t, u : IsBurst("ota", b, j, t, u)  BY <1>13
<1>15. \A k \in 1..Len(b) : ~Imaging(b[k])
  <2>1. ASSUME NEW k \in 1..Len(b)  PROVE b[k].id # "Start"
    <3>1. b[k] = Send("ota") \/ \E p \in Needs(j) : b[k] = PartOf("ota", p, j, t, u)
      BY <1>14, <2>1 DEF IsBurst
    <3>2. ASSUME NEW p  PROVE PartOf("ota", p, j, t, u).id # "Start"
      <4>1. CASE p = "sink"  BY <4>1 DEF PartOf, Sink
      <4>2. CASE p # "sink"  BY <4>2 DEF PartOf, Part
      <4> QED  BY <4>1, <4>2
    <3>3. Send("ota").id # "Start"  BY DEF Send
    <3> QED  BY <3>1, <3>2, <3>3
  <2> QED  BY <2>1 DEF Imaging
<1>16. Added(asks, asks', b)
  <2>1. asks' = asks \o b  BY <1>1, <1>12
  <2>2. IsQueue(b)  BY <1>14 DEF IsBurst
  <2> QED  BY <1>3, <2>1, <2>2, QueueConcat
<1>17. ImageAt(asks', http) => ImageAt(asks, http)
  <2>1. http.owner = "ota" /\ http.job.kind = "image" => ImageAt(asks, http)  BY DEF ImageAt
  <2> QED  BY <1>15, <1>16, <2>1, ImageAdded
<1> QED  BY <1>1, <1>8, <1>9, <1>10, <1>11, <1>17, SessOfClient

\* The client posts the link.
LEMMA SessLinked ==
  ASSUME BaseInv, NEW x, x.id \in Links, inbox' = Append(inbox, x), Clear(inbox), sess' = sess,
         http' = http, asks' = asks, ~ImageAt(asks, http), meant' # <<>>,
         OtaTypes(ota', meant'), Link(x, sess, ota', meant', dev'), DevTypes(dev'),
         DevTalk(http, mail'["ota"], sess, ota', meant', dev')
  PROVE  SessInv'
<1>1. IsQueue(inbox') /\ Added(inbox, inbox', <<x>>)  BY SessFacts, QueueAppend
<1>2. Alone(<<x>>, x)  BY Answers
<1>3. Alone(inbox', x)  BY <1>1, <1>2, InboxLinked
<1>4. SessTalk(inbox', sess, ota', meant', dev')  BY <1>3, SessIs
<1> QED  BY <1>1, <1>4 DEF SessInv, ImageTalk

\* The download ends before it began.
LEMMA SessImageBusy ==
  ASSUME BaseInv, ImageBusy, UNCHANGED printVars
  PROVE  SessInv'
<1>1. /\ sess' = sess /\ http' = http /\ asks' = asks /\ meant' = meant
      /\ ota.state = "download" /\ ota' = Rotated(ota)
      /\ inbox' = Append(inbox, Notify("ota", FALSE, ota.up))
      /\ dev' \in Erased(ota.driver)
  BY DEF ImageBusy, Post
<1>2. PICK z : z = ota'  OBVIOUS
<1>3. z = Rotated(ota)  BY <1>1, <1>2
<1>4. OtaTypes(z, meant) /\ z.state = "idle" /\ z.up = ota.up  BY <1>3, SessFacts, OtaIdled
<1>5. PICK x : x = Notify("ota", FALSE, ota.up)  OBVIOUS
<1>6. x.id \in Links  BY <1>5 DEF Notify, Links
<1>7. Clear(inbox) /\ InState(sess, "active", meant) /\ meant # <<>> /\ ota.driver \in Targets
  BY <1>1, Downloads
<1>8. ~ImageAt(asks, http)  BY TalkImageBusy, ImageQuiet
<1>9. Link(x, sess, z, meant, dev')  BY <1>4, <1>5, <1>7 DEF Link
<1>10. DevTypes(dev') /\ DevKept(dev, dev')  BY <1>1, <1>7, SessFacts, ErasedKeeps
<1>11. DevTalk(http, mail["ota"], sess, ota, meant, dev')  BY <1>7, <1>10, SessFacts, DevErased
<1>12. DevHeard(mail'["ota"], z, dev')  BY <1>4 DEF DevHeard
<1>13. DevTalk(http, mail'["ota"], sess, z, meant, dev')  BY <1>11, <1>12, DevIs
<1> QED  BY <1>1, <1>2, <1>4, <1>5, <1>6, <1>7, <1>8, <1>9, <1>10, <1>13, SessLinked

\* An upload is added to those that were meant.
LEMMA MeantMore ==
  ASSUME NEW mt \in Seq(Targets), NEW t \in Targets, NEW mt2, mt2 = Append(mt, t)
  PROVE  /\ mt2 \in Seq(Targets) /\ mt2 # <<>> /\ Len(mt2) = Len(mt) + 1 /\ mt2[Len(mt2)] = t
         /\ Len(mt) \in Nat /\ \A k \in DOMAIN mt : k \in DOMAIN mt2 /\ mt2[k] = mt[k]
<1>1. /\ mt2 \in Seq(Targets) /\ Len(mt2) = Len(mt) + 1 /\ Len(mt) \in Nat
      /\ mt2[Len(mt) + 1] = t /\ \A k \in 1..Len(mt) : mt2[k] = mt[k]
  OBVIOUS
<1>2. DOMAIN mt = 1..Len(mt) /\ DOMAIN mt2 = 1..Len(mt2)  BY <1>1
<1>3. mt2 # <<>>  OBVIOUS
<1> QED  BY <1>1, <1>2, <1>3

LEMMA SessUpdateFound ==
  ASSUME BaseInv, UpdateFound, UNCHANGED printVars
  PROVE  SessInv'
<1>1. PICK t, l, f : t = Slots[ota.slot] /\ l = Len(meant) + 1 /\ f = Mail.job  OBVIOUS
<1>2. /\ sess' = sess /\ http' = http /\ asks' = asks /\ dev' = dev
      /\ ota.state = "check" /\ meant' = Append(meant, t)
      /\ inbox' = Append(inbox, StartRequest("ota", t, l))
      /\ ota' = [ota EXCEPT !.state = "session", !.phase = "idle", !.up = l, !.found = f]
  BY <1>1 DEF UpdateFound, Post
<1>3. OtaTypes(ota, meant) /\ meant \in Seq(Targets)  BY SessFacts
<1>4. t \in Targets  BY <1>1, <1>3, SlotsAssumption DEF OtaTypes
<1>5. f = CheckJob(ota.slot) /\ ~ImageAt(asks, http)  BY <1>1, TalkUpdateFound, ImageQuiet
<1>6. Clear(inbox)  BY <1>2, Downloads
<1>7. PICK mt2 : mt2 = Append(meant, t)  OBVIOUS
<1>8. /\ mt2 \in Seq(Targets) /\ mt2 # <<>> /\ Len(mt2) = l /\ mt2[l] = t
      /\ \A k \in DOMAIN meant : k \in DOMAIN mt2 /\ mt2[k] = meant[k]
  BY <1>1, <1>3, <1>4, <1>7, MeantMore
<1>9. PICK y : y = ota  OBVIOUS
<1>10. PICK z : z = [y EXCEPT !.state = "session", !.phase = "idle", !.up = l, !.found = f]
  OBVIOUS
<1>11. y = [state |-> y.state, phase |-> y.phase, slot |-> y.slot, next |-> y.next, up |-> y.up,
            found |-> y.found, driver |-> y.driver]
  BY <1>3, <1>9 DEF OtaTypes
<1>12. /\ z = [state |-> z.state, phase |-> z.phase, slot |-> z.slot, next |-> z.next,
               up |-> z.up, found |-> z.found, driver |-> z.driver]
       /\ z.state = "session" /\ z.slot = y.slot /\ z.next = y.next /\ z.up = l /\ z.found = f
  BY <1>10, <1>11
<1>13. ota' = z /\ meant' = mt2  BY <1>2, <1>7, <1>9, <1>10
<1>14. OtaTypes(z, mt2)  BY <1>3, <1>5, <1>8, <1>9, <1>12 DEF OtaTypes
<1>15. PICK x : x = StartRequest("ota", t, l)  OBVIOUS
<1>16. x.id \in Links  BY <1>15 DEF StartRequest, Links
<1>17. Link(x, sess, z, mt2, dev)  BY <1>8, <1>12, <1>15 DEF Link
<1>18. DevWrites(http, dev) /\ DevHeld(sess, meant, dev)  BY SessFacts, DevIs
<1>19. DevHeld(sess, mt2, dev)  BY <1>8, <1>18 DEF DevHeld
<1>20. DevHeard(mail'["ota"], z, dev)  BY <1>12 DEF DevHeard
<1>21. DevTalk(http, mail'["ota"], sess, z, mt2, dev)  BY <1>18, <1>19, <1>20, DevIs
<1> QED  BY <1>2, <1>5, <1>6, <1>8, <1>13, <1>14, <1>15, <1>16, <1>17, <1>21, SessFacts, SessLinked

LEMMA SessDownloadIsOver ==
  ASSUME BaseInv, DownloadIsOver, UNCHANGED printVars
  PROVE  SessInv'
<1>1. PICK ok, u : ok = Mail.ok /\ u = ota.up  OBVIOUS
<1>2. /\ sess' = sess /\ http' = http /\ asks' = asks /\ meant' = meant /\ dev' = dev
      /\ ota.state = "download" /\ ota' = [Rotated(ota) EXCEPT !.driver = None]
      /\ inbox' = Append(inbox, Notify("ota", ok, u)) /\ mail["ota"] # <<>>
      /\ Head(mail["ota"]).id = "Result" /\ mail' = [mail EXCEPT !["ota"] = Tail(@)]
  BY <1>1 DEF DownloadIsOver, Post, Mailed, MailTaken
<1>3. PICK z : z = ota'  OBVIOUS
<1>4. z = [Rotated(ota) EXCEPT !.driver = None]  BY <1>2, <1>3
<1>5. OtaTypes(z, meant) /\ z.state = "idle" /\ z.up = u  BY <1>1, <1>4, SessFacts, OtaIdled
<1>6. PICK x : x = Notify("ota", ok, u)  OBVIOUS
<1>7. x.id \in Links  BY <1>6 DEF Notify, Links
<1>8. /\ Clear(inbox) /\ InState(sess, "active", meant) /\ meant # <<>>
      /\ ota.driver = meant[Len(meant)]
  BY <1>2, Downloads
<1>9. ~ImageAt(asks, http) /\ ok \in BOOLEAN /\ Len(mail["ota"]) = 1
  BY <1>1, TalkDownloadIsOver, ImageQuiet
<1>10. Mail = mail["ota"][1]  BY <1>2, OtaMailTaken
<1>11. ok = TRUE => WholeAt(dev, meant[Len(meant)], Len(meant))
  <2>1. DevHeard(mail["ota"], ota, dev) /\ OtaTypes(ota, meant)  BY SessFacts, DevIs
  <2>2. mail["ota"][Len(mail["ota"])].id = "Result"
        /\ mail["ota"][Len(mail["ota"])].ok = ok
    BY <1>1, <1>2, <1>9, <1>10 DEF Mail
  <2> QED  BY <1>2, <1>8, <2>1, <2>2 DEF DevHeard, OtaTypes
<1>12. Link(x, sess, z, meant, dev)
  <2>1. CASE ok = TRUE  BY <1>5, <1>6, <1>8, <1>11, <2>1 DEF Link
  <2>2. CASE ok = FALSE  BY <1>5, <1>6, <1>8, <2>2 DEF Link
  <2> QED  BY <1>9, <2>1, <2>2
<1>13. DevHeard(mail'["ota"], z, dev)  BY <1>5 DEF DevHeard
<1>14. DevTalk(http, mail'["ota"], sess, z, meant, dev)  BY <1>13, SessFacts, DevIs
<1> QED  BY <1>2, <1>3, <1>5, <1>6, <1>7, <1>8, <1>9, <1>12, <1>14, SessFacts, SessLinked

LEMMA SessAnswerIgnored ==
  ASSUME BaseInv, AnswerIgnored, UNCHANGED printVars
  PROVE  SessInv'
<1>1. PICK x : x = Head(inbox)  OBVIOUS
<1>2. /\ inbox # <<>> /\ x.id \in {"StartResponse", "DriverResponse", "Event"}
      /\ x.id = "StartResponse" => ota.state # "session"
      /\ x.id = "DriverResponse" => ota.state # "driver"
      /\ inbox' = Tail(inbox) \o <<>> /\ sess' = sess /\ dev' = dev /\ meant' = meant
      /\ UNCHANGED httpVars /\ ota' = ota
  BY <1>1 DEF AnswerIgnored, Message, Answer, otaVars
<1>3. PICK b : b = <<>>  OBVIOUS
<1>4. IsQueue(b) /\ Aloof(b) /\ IsQueue(inbox) /\ inbox' = Tail(inbox) \o b
  BY <1>2, <1>3, Answers, SessFacts
<1>5. /\ IsQueue(inbox') /\ x = inbox[1]
      /\ Clear(inbox) => Clear(inbox')
      /\ inbox[1].id \notin Links => \A y : Alone(inbox, y) => Alone(inbox', y)
      /\ \A y : inbox[1].id \in Links /\ Alone(inbox, y) => Clear(inbox')
  <2>1. /\ IsQueue(inbox') /\ Head(inbox) = inbox[1]
        /\ Aloof(b) => /\ Clear(inbox) => Clear(inbox')
                       /\ inbox[1].id \notin Links => \A y : Alone(inbox, y) => Alone(inbox', y)
        /\ \A y : inbox[1].id \in Links /\ Alone(inbox, y) =>
             /\ inbox[1] = y /\ (Aloof(b) => Clear(inbox'))
             /\ \A z : Alone(b, z) => Alone(inbox', z)
    BY ONLY <1>2, <1>4, InboxAnswered
  <2> QED  BY <1>1, <1>4, <2>1
<1>6. SessTalk(inbox', sess, ota, meant, dev)
  <2>1. CASE x.id \in Links
    <3>1. Alone(inbox, x) /\ Link(x, sess, ota, meant, dev)  BY <1>1, <1>2, <2>1, HeadLink
    <3>2. ota.state = "idle"
      <4>1. /\ \A t, u : StartRequest("ota", t, u).id = "StartRequest"
            /\ \A ok : StartResponse("ota", ok).id = "StartResponse"
            /\ RequestDriver("ota").id = "RequestDriver"
            /\ \A t : DriverResponse("ota", t).id = "DriverResponse"
            /\ \A ok, u : Notify("ota", ok, u).id = "CompleteNotify"
        BY DEF StartResponse, StartRequest, DriverResponse, RequestDriver, Notify
      <4> QED  BY <1>2, <3>1, <4>1 DEF Link
    <3>3. Clear(inbox')  BY <1>5, <2>1, <3>1
    <3> QED  BY <3>2, <3>3, SessIs
  <2>2. CASE x.id \notin Links  BY <1>5, <2>2, SessFacts, SessIs
  <2> QED  BY <2>1, <2>2
<1>7. ImageAt(asks, http) => Clear(inbox') /\ sess.state \in {"idle", "active"}
  BY <1>5, SessFacts DEF ImageTalk
<1>8. asks' = asks /\ http' = http /\ mail' = mail  BY <1>2 DEF httpVars
<1> QED  BY <1>2, <1>5, <1>6, <1>7, <1>8, SessFacts DEF SessInv, ImageTalk

\* The client answers the link; there is no image.
LEMMA SessReplied ==
  ASSUME BaseInv, UNCHANGED <<sess, dev, meant, httpVars>>, ~ImageAt(asks, http),
         IsQueue(inbox'), OtaTypes(ota', meant), SessTalk(inbox', sess, ota', meant, dev),
         ota'.state # "download"
  PROVE  SessInv'
<1>1. asks' = asks /\ http' = http /\ mail' = mail  BY DEF httpVars
<1>2. DevHeard(mail["ota"], ota', dev)  BY DEF DevHeard
<1>3. DevTalk(http, mail["ota"], sess, ota', meant, dev)  BY <1>2, SessFacts, DevIs
<1> QED  BY <1>1, <1>3, SessFacts DEF SessInv, ImageTalk

LEMMA SessSessionAccepted ==
  ASSUME BaseInv, SessionAccepted, UNCHANGED printVars
  PROVE  SessInv'
<1>1. PICK x, w : x = Head(inbox) /\ w = RequestDriver("ota")  OBVIOUS
<1>2. /\ inbox # <<>> /\ x.id = "StartResponse" /\ x.accepted /\ ota.state = "session"
      /\ inbox' = Tail(inbox) \o <<w>> /\ UNCHANGED <<sess, dev, meant, httpVars>>
      /\ ota' = [ota EXCEPT !.state = "driver"] /\ x.id \in Links /\ w.id \in Links
  BY <1>1 DEF SessionAccepted, Receives, Message, Answer, RequestDriver, Links
<1>3. /\ Alone(inbox, x) /\ Link(x, sess, ota, meant, dev) /\ x = inbox[1] /\ meant # <<>>
      /\ ~ImageAt(asks, http)
  BY <1>1, <1>2, HeadLink
<1>4. InState(sess, "pending", meant)
  <2>1. /\ \A t, u : StartRequest("ota", t, u).id = "StartRequest"
        /\ \A ok : StartResponse("ota", ok).accepted = ok
        /\ RequestDriver("ota").id = "RequestDriver"
        /\ \A t : DriverResponse("ota", t).id = "DriverResponse"
        /\ \A ok, u : Notify("ota", ok, u).id = "CompleteNotify"
    BY DEF StartResponse, StartRequest, DriverResponse, RequestDriver, Notify
  <2>2. /\ x # StartRequest("ota", meant[Len(meant)], Len(meant)) /\ x # RequestDriver("ota")
        /\ x # DriverResponse("ota", meant[Len(meant)])
    BY ONLY <1>2, <2>1
  <2>3. x # StartResponse("ota", FALSE)  BY ONLY <1>2, <2>1
  <2>4. x # Notify("ota", FALSE, ota.up) /\ x # Notify("ota", TRUE, ota.up)
    BY ONLY ZenonT(60), <1>2, <2>1
  <2> QED  BY ONLY <1>3, <2>2, <2>3, <2>4 DEF Link
<1>5. IsQueue(inbox) /\ IsQueue(<<w>>) /\ Alone(<<w>>, w)  BY <1>2, SessFacts, Answers
<1>6. IsQueue(inbox') /\ Alone(inbox', w)  BY ONLY <1>2, <1>3, <1>5, InboxAnswered
<1>7. OtaTypes(ota, meant)  BY SessFacts
<1>8. PICK y : y = ota  OBVIOUS
<1>9. PICK z : z = [y EXCEPT !.state = "driver"]  OBVIOUS
<1>10. y = [state |-> y.state, phase |-> y.phase, slot |-> y.slot, next |-> y.next, up |-> y.up,
            found |-> y.found, driver |-> y.driver]
  BY <1>7, <1>8 DEF OtaTypes
<1>11. /\ z = [state |-> z.state, phase |-> z.phase, slot |-> z.slot, next |-> z.next,
               up |-> z.up, found |-> z.found, driver |-> z.driver]
       /\ z.state = "driver" /\ z.slot = y.slot /\ z.next = y.next /\ z.up = y.up
       /\ z.found = y.found
  BY <1>9, <1>10
<1>12. ota' = z  BY <1>2, <1>8, <1>9
<1>13. OtaTypes(z, meant)  BY <1>2, <1>7, <1>8, <1>11 DEF OtaTypes
<1>14. Link(w, sess, z, meant, dev)  BY <1>1, <1>4, <1>11 DEF Link
<1>15. SessTalk(inbox', sess, z, meant, dev)  BY <1>3, <1>6, <1>14, SessIs
<1> QED  BY <1>2, <1>3, <1>6, <1>11, <1>12, <1>13, <1>15, SessReplied

LEMMA SessSessionRejected ==
  ASSUME BaseInv, SessionRejected, UNCHANGED printVars
  PROVE  SessInv'
<1>1. PICK x, b : x = Head(inbox) /\ b = <<>>  OBVIOUS
<1>2. /\ inbox # <<>> /\ x.id = "StartResponse"
      /\ inbox' = Tail(inbox) \o b /\ UNCHANGED <<sess, dev, meant, httpVars>>
      /\ ota' = Rotated(ota) /\ x.id \in Links
  BY <1>1 DEF SessionRejected, Receives, Message, Answer, Links
<1>3. Alone(inbox, x) /\ x = inbox[1] /\ ~ImageAt(asks, http)  BY <1>1, <1>2, HeadLink
<1>4. IsQueue(b) /\ Aloof(b) /\ IsQueue(inbox)  BY <1>1, Answers, SessFacts
<1>5. IsQueue(inbox') /\ Clear(inbox')  BY ONLY <1>2, <1>3, <1>4, InboxAnswered
<1>6. PICK z : z = ota'  OBVIOUS
<1>7. z = Rotated(ota)  BY <1>2, <1>6
<1>8. OtaTypes(z, meant) /\ z.state = "idle"  BY <1>7, SessFacts, OtaIdled
<1>9. SessTalk(inbox', sess, z, meant, dev)  BY <1>5, <1>8, SessIs
<1> QED  BY <1>2, <1>3, <1>5, <1>6, <1>8, <1>9, SessReplied

\* The driver is there: the client asks for the image.
LEMMA SessDriverArrives ==
  ASSUME BaseInv, DriverArrives, UNCHANGED printVars
  PROVE  SessInv'
<1>1. PICK x, b : x = Head(inbox) /\ b = <<>>  OBVIOUS
<1>2. PICK t : t = x.target  OBVIOUS
<1>3. /\ inbox # <<>> /\ x.id = "DriverResponse" /\ ota.state = "driver"
      /\ inbox' = Tail(inbox) \o b /\ sess' = sess /\ dev' = dev /\ meant' = meant
      /\ http' = http /\ mail' = mail /\ x.id \in Links
      /\ ota' = [ota EXCEPT !.state = "download", !.phase = "starting", !.driver = t]
  BY <1>1, <1>2 DEF DriverArrives, Receives, Message, Answer, Links
<1>4. /\ Alone(inbox, x) /\ Link(x, sess, ota, meant, dev) /\ x = inbox[1] /\ meant # <<>>
  BY <1>1, <1>3, HeadLink
<1>5. InState(sess, "active", meant) /\ t = meant[Len(meant)]
  <2>1. /\ \A a, u : StartRequest("ota", a, u).id = "StartRequest"
        /\ \A ok : StartResponse("ota", ok).id = "StartResponse"
        /\ RequestDriver("ota").id = "RequestDriver"
        /\ \A a : DriverResponse("ota", a).target = a
        /\ \A ok, u : Notify("ota", ok, u).id = "CompleteNotify"
    BY DEF StartResponse, StartRequest, DriverResponse, RequestDriver, Notify
  <2> QED  BY <1>2, <1>3, <1>4, <2>1 DEF Link
<1>6. IsQueue(b) /\ Aloof(b) /\ IsQueue(inbox)  BY <1>1, Answers, SessFacts
<1>7. IsQueue(inbox') /\ Clear(inbox')  BY ONLY <1>3, <1>4, <1>6, InboxAnswered
<1>8. OtaTypes(ota, meant)  BY SessFacts
<1>9. PICK y : y = ota  OBVIOUS
<1>10. PICK z : z = [y EXCEPT !.state = "download", !.phase = "starting", !.driver = t]
  OBVIOUS
<1>11. y = [state |-> y.state, phase |-> y.phase, slot |-> y.slot, next |-> y.next, up |-> y.up,
            found |-> y.found, driver |-> y.driver]
  BY <1>8, <1>9 DEF OtaTypes
<1>12. /\ z = [state |-> z.state, phase |-> z.phase, slot |-> z.slot, next |-> z.next,
               up |-> z.up, found |-> z.found, driver |-> z.driver]
       /\ z.state = "download" /\ z.slot = y.slot /\ z.next = y.next /\ z.up = y.up
       /\ z.found = y.found /\ z.driver = t
  BY <1>10, <1>11
<1>13. ota' = z  BY <1>3, <1>9, <1>10
<1>14. OtaTypes(z, meant)  BY <1>3, <1>8, <1>9, <1>12 DEF OtaTypes
<1>15. SessTalk(inbox', sess, z, meant, dev)  BY <1>4, <1>5, <1>7, <1>12, SessIs
<1>16. sess.state = "active"  BY <1>5 DEF InState
<1>17. mail["ota"] = <<>>  BY TalkDriverArrives DEF OtaQuiet
<1>18. DevHeard(mail["ota"], z, dev)  BY <1>17 DEF DevHeard
<1>19. DevTalk(http, mail["ota"], sess, z, meant, dev)  BY <1>18, SessFacts, DevIs
<1> QED  BY <1>3, <1>7, <1>13, <1>14, <1>15, <1>16, <1>19, SessFacts DEF SessInv, ImageTalk

\* The client keeps what holds of the session.
LEMMA SessOfOta ==
  ASSUME BaseInv, OtaTask \/ Finds \/ Internet
  PROVE  SessInv'
<1>1. UNCHANGED printVars  BY DEF OtaTask, Finds, Internet
<1>2. CASE OtaTask
  BY <1>1, <1>2, SessUnheard, SessIdled, SessImageBusy, SessOpeningGranted, SessDownloadIsOver,
     SessAnswerIgnored, SessSessionAccepted, SessSessionRejected, SessDriverArrives
     DEF OtaTask, OtaHandles
<1>3. CASE Finds  BY <1>1, <1>3, SessUpdateFound DEF Finds
<1>4. CASE Internet  BY <1>1, <1>4, SessIdled DEF Internet
<1> QED  BY <1>2, <1>3, <1>4

-----------------------------------------------------------------------------
(* The steps of the printing module and the session.                        *)

LEMMA SaysStart ==
  ASSUME NEW j, IsQueue(asks), asks' = Append(asks, Start("print", j))
  PROVE  Said(asks, asks', "print")
<1>1. AsksFor(asks, asks', "print", j)  BY SessionAsked
<1> QED  BY <1>1 DEF AsksFor, Said

LEMMA ScheduleSays ==
  ASSUME NEW p, NEW rings, IsQueue(asks), Schedule(p, rings)
  PROVE  Said(asks, asks', "print")
<1>1. CASE Due(p) # {}
  <2>1. Begin(CHOOSE n \in Due(p) : \A m \in Due(p) : n <= m, p)  BY <1>1 DEF Schedule
  <2>2. PICK n : Begin(n, p)  BY <2>1
  <2>3. asks' = Append(asks, Start("print", p[n].job))  BY <2>2 DEF Begin, Asks
  <2> QED  BY <2>3, SaysStart
<1>2. CASE Due(p) = {}  BY <1>2 DEF Schedule, Said
<1> QED  BY <1>1, <1>2

\* What the printing module says is none of the session's business.
LEMMA SessOfPrint ==
  ASSUME BaseInv, UNCHANGED <<sessVars, http, otaVars>>, mail'["ota"] = mail["ota"],
         Said(asks, asks', "print")
  PROVE  SessInv'
<1>1. UNCHANGED sessVars /\ http' = http /\ ota' = ota  BY DEF otaVars
<1>2. http.owner = "ota" /\ http.job.kind = "image" => ImageAt(asks, http)  BY DEF ImageAt
<1>3. ImageAt(asks', http) => ImageAt(asks, http)
  <2>1. CASE asks' = asks  BY <2>1
  <2>2. ASSUME NEW b, Added(asks, asks', b), \A k \in 1..Len(b) : b[k].from = "print"
        PROVE  ImageAt(asks', http) => ImageAt(asks, http)
    <3>1. \A k \in 1..Len(b) : ~Imaging(b[k])  BY <2>2 DEF Imaging
    <3> QED  BY <1>2, <2>2, <3>1, ImageAdded
  <2> QED  BY <2>1, <2>2 DEF Said
<1>4. DevHeard(mail'["ota"], ota, dev)
  <2>1. DevHeard(mail["ota"], ota, dev)  BY SessFacts, DevIs
  <2> QED  BY <2>1
<1> QED  BY <1>1, <1>3, <1>4, SessFacts, SessOfClient

LEMMA SessOfPrinting ==
  ASSUME BaseInv, PrintTask \/ PrintTimer \/ Station
  PROVE  SessInv'
<1>1. IsQueue(asks) /\ MailTypes(mail)  BY DEF BaseInv, TalkInv
<1>2. asks' = asks => Said(asks, asks', "print")  BY DEF Said
<1>4. CASE PrintTask
  <2>1. UNCHANGED <<sessVars, http, otaVars>>
    BY <1>4 DEF PrintTask, PrintHandles, PrintSends, AnswerDropped
  <2>2. CASE PrintSends
    <3>1. Said(asks, asks', "print")  BY <2>1, <2>2, TalkPrintSends
    <3> QED  BY <2>1, <2>2, <3>1, SessOfPrint DEF PrintSends
  <2>3. CASE AnswerDropped
    <3>1. asks' = asks /\ mail' = [mail EXCEPT !["print"] = Tail(@)]  BY <2>3 DEF AnswerDropped
    <3>2. mail'["ota"] = mail["ota"]  BY <1>1, <3>1 DEF MailTypes
    <3> QED  BY <1>2, <2>1, <3>1, <3>2, SessOfPrint
  <2> QED  BY <1>4, <2>2, <2>3 DEF PrintTask, PrintHandles
<1>5. CASE PrintTimer
  <2>1. CASE Rings
    <3>1. Said(asks, asks', "print")
      <4>1. Schedule(pending, FALSE) \/ asks' = asks  BY <2>1 DEF Rings
      <4> QED  BY <1>1, <1>2, <4>1, ScheduleSays
    <3> QED  BY <1>5, <2>1, <3>1, SessOfPrint DEF PrintTimer, Rings
  <2>2. CASE \E n \in Nozzles : DelayOver(n)
    <3>1. asks' = asks /\ mail' = mail /\ UNCHANGED <<sessVars, http, otaVars>>
      BY <1>5, <2>2 DEF PrintTimer, DelayOver, httpVars
    <3> QED  BY <1>2, <3>1, SessOfPrint
  <2> QED  BY <1>5, <2>1, <2>2 DEF PrintTimer
<1>6. CASE Station
  <2>1. PICK n \in Nozzles : (FuelPumped(n) \/ \E b \in Buttons : PrinterBtn(n, b))
                             /\ UNCHANGED otaVars
    BY <1>6 DEF Station
  <2>2. CASE FuelPumped(n)
    <3>1. asks' = asks /\ mail' = mail /\ UNCHANGED <<sessVars, http, otaVars>>
      BY <2>1, <2>2 DEF FuelPumped, httpVars
    <3> QED  BY <1>2, <3>1, SessOfPrint
  <2>3. ASSUME NEW b \in Buttons, PrinterBtn(n, b)  PROVE SessInv'
    <3>1. /\ IF active = None THEN Schedule(PressedSlots(n, b), alarm)
             ELSE pending' = PressedSlots(n, b) /\ UNCHANGED <<asks, active, sending, alarm>>
          /\ UNCHANGED <<sessVars, http, timer, mail, nozzle>>
      BY <2>3, PressParts
    <3>2. Schedule(PressedSlots(n, b), alarm) \/ asks' = asks  BY <3>1
    <3>3. Said(asks, asks', "print")  BY <1>1, <1>2, <3>2, ScheduleSays
    <3> QED  BY <2>1, <3>1, <3>3, SessOfPrint
  <2> QED  BY <2>1, <2>2, <2>3
<1> QED  BY <1>4, <1>5, <1>6

\* Every step keeps what holds of the session.
LEMMA SessStep ==
  ASSUME BaseInv, Next, "slow" \notin Faults
  PROVE  SessInv'
<1>1. CASE Session
  <2>1. UNCHANGED <<httpVars, otaVars>>  BY <1>1 DEF Session
  <2> QED  BY <1>1, SessOfSession
<1>2. CASE HttpTask \/ HttpFails  BY <1>2, SessOfHttpTask
<1>3. CASE Timer  BY <1>3, SessSessionIdles DEF Timer
<1>4. CASE OtaTask \/ Finds \/ Internet  BY <1>4, SessOfOta
<1>5. CASE Interval  BY <1>5, SessOtaTick DEF Interval
<1>6. CASE PrintTask \/ PrintTimer \/ Station  BY <1>6, SessOfPrinting
<1> QED  BY <1>1, <1>2, <1>3, <1>4, <1>5, <1>6 DEF Next

-----------------------------------------------------------------------------
(* The invariants.                                                          *)

LEMMA NothingIsQueued ==
  /\ IsQueue(<<>>) /\ Len(<<>>) = 0 /\ DOMAIN <<>> = {}
<1>1. <<>> \in Seq({}) /\ Len(<<>>) = 0 /\ DOMAIN <<>> = {}  OBVIOUS
<1> QED  BY <1>1 DEF IsQueue

LEMMA InitTalk == Init => TalkInv
<1> SUFFICES ASSUME Init  PROVE TalkInv  OBVIOUS
<1>1. /\ http = Unowned /\ asks = <<>> /\ timer = [armed |-> FALSE, expired |-> FALSE]
      /\ mail = [c \in Clients |-> <<>>] /\ task = "free" /\ sending = FALSE /\ active = None
      /\ ota.state = "idle" /\ ota.phase = "idle"
  BY DEF Init, HttpInit, SessInit, PrintInit, OtaInit
<1>2. Clients = {"ota", "print"} /\ None \notin {"ota", "print"}  BY SessionsAssumption
<1>3. DOMAIN mail = {"ota", "print"} /\ mail["ota"] = <<>> /\ mail["print"] = <<>>
  BY <1>1, <1>2
<1>4. /\ http = [state |-> "idle", owner |-> None, job |-> None, parts |-> {}, sink |-> NoSink]
      /\ http.state = "idle" /\ http.owner = None /\ http.sink = NoSink
  BY <1>1 DEF Unowned
<1>5. DOMAIN asks = {}  BY <1>1
<1>6. PrintTalk(asks, http, active, sending)
  BY <1>1, <1>2, <1>3, <1>4, <1>5 DEF PrintTalk, PrintRests, NoStart
<1>7. OtaTalk(asks, http, mail["ota"], ota)
  BY <1>1, <1>2, <1>3, <1>4, <1>5 DEF OtaTalk, OtaQuiet, Silent
<1>8. HttpTypes(http)
  <2>1. /\ NoSink \in [target : Targets \cup {None}, up : Nat, next : 0..Chunks,
                       opened : BOOLEAN, error : BOOLEAN]
        /\ NoSink.next = 0
    BY OtaAssumption DEF NoSink
  <2>2. http = [state |-> http.state, owner |-> http.owner, job |-> http.job,
                parts |-> http.parts, sink |-> http.sink]
    BY <1>4
  <2> QED  BY <1>4, <2>1, <2>2 DEF HttpTypes
<1>9. TimerTalk(asks, http, mail["ota"], timer)
  BY <1>1, <1>4, <1>5 DEF TimerTalk
<1>10. IsQueue(asks) /\ Senders(asks) /\ MailTypes(mail)
  BY <1>1, <1>3, <1>5, NothingIsQueued DEF Senders, MailTypes
<1> QED  BY <1>1, <1>6, <1>7, <1>8, <1>9, <1>10 DEF TalkInv

LEMMA InitSess == Init => SessInv
<1> SUFFICES ASSUME Init  PROVE SessInv  OBVIOUS
<1>1. /\ http = Unowned /\ asks = <<>> /\ inbox = <<>> /\ meant = <<>> /\ sess = NoSession
      /\ dev = [t \in Targets |-> NoFile]
      /\ ota = [state |-> "idle", phase |-> "idle", slot |-> 1, next |-> 1, up |-> 0,
                found |-> None, driver |-> None]
  BY DEF Init, HttpInit, SessInit, OtaInit
<1>2. DOMAIN <<>> = {} /\ IsQueue(<<>>) /\ Len(<<>>) = 0  BY NothingIsQueued
<1>3. OtaTypes(ota, meant)
  <2>1. 1 \in DOMAIN Slots
    <3>1. Len(Slots) \in Nat \ {0} /\ DOMAIN Slots = 1..Len(Slots)  BY SlotsAssumption
    <3> QED  BY <3>1
  <2>2. meant \in Seq(Targets) /\ Len(meant) = 0  BY <1>1
  <2> QED  BY <1>1, <2>1, <2>2 DEF OtaTypes
<1>4. Clear(inbox) /\ ota.state = "idle"  BY <1>1, <1>2 DEF Clear
<1>5. SessTalk(inbox, sess, ota, meant, dev)  BY <1>4, SessIs
<1>6. ~ImageAt(asks, http)
  <2>1. http.owner # "ota"  BY <1>1, SessionsAssumption DEF Unowned
  <2> QED  BY <1>1, <1>2, <2>1 DEF ImageAt
<1>7. DevWrites(http, dev)  BY <1>1 DEF DevWrites, Unowned, NoSink
<1>8. DevHeard(mail["ota"], ota, dev)  BY <1>4 DEF DevHeard
<1>9. DevHeld(sess, meant, dev)  BY <1>1 DEF DevHeld, NoSession
<1>10. DevTypes(dev)  BY <1>1, NoFileIs DEF DevTypes
<1> QED  BY <1>1, <1>2, <1>3, <1>5, <1>6, <1>7, <1>8, <1>9, <1>10, DevIs DEF SessInv, ImageTalk

LEMMA InitSlots == Init => SlotsInv
<1> SUFFICES ASSUME Init  PROVE SlotsInv  OBVIOUS
<1>1. /\ nozzle = [n \in Nozzles |-> 0] /\ active = None
      /\ pending = [n \in Nozzles |-> None]
  BY DEF Init, PrintInit
<1> QED  BY <1>1 DEF SlotsInv, SlotsTalk, PendingTypes

\* A step that changes nothing.
LEMMA StutterInv ==
  ASSUME UNCHANGED vars
  PROVE  BaseInv => BaseInv'
BY DEF vars, sessVars, httpVars, otaVars, printVars, BaseInv, TalkInv, SessInv, SlotsInv

LEMMA BaseStep ==
  ASSUME BaseInv, [Next]_vars, "slow" \notin Faults
  PROVE  BaseInv'
<1>1. CASE Next  BY <1>1, TalkStep, SessStep, SlotsStep DEF BaseInv
<1>2. CASE UNCHANGED vars  BY <1>2, StutterInv
<1> QED  BY <1>1, <1>2

\* The conversations, the chain of the session's messages and the slots, of a program whose
\* tasks keep up with the timers of several seconds.
THEOREM SessionsBase == ASSUME "slow" \notin Faults  PROVE Spec => []BaseInv
<1>1. Init => BaseInv  BY InitTalk, InitSess, InitSlots DEF BaseInv
<1>2. BaseInv /\ [Next]_vars => BaseInv'  BY BaseStep
<1> QED  BY <1>1, <1>2, PTL DEF Spec

-----------------------------------------------------------------------------
(* What follows from them.                                                  *)

LEMMA OtaPosted ==
  ASSUME NEW q, NEW h, NEW m, NEW o, OtaTalk(q, h, m, o), h.state = "executing", h.owner = "ota"
  PROVE  \E j, t, u : Posted(h, "ota", j, t, u)
<1>1. ~OtaQuiet(q, h, m) /\ \A j : ~OtaLeaves(q, h, m, j)  BY DEF OtaQuiet, OtaLeaves, Fresh
<1>2. ASSUME NEW j, NEW stale, Starting(q, h, m, j, stale)
      PROVE  \E i, t, u : Posted(h, "ota", i, t, u)
  BY <1>2 DEF Starting, OtaAsks, OtaOpened, OtaRefused, Fresh, Streams
<1>3. ASSUME NEW j, NEW t, NEW u, Sending(q, h, m, j, t, u)
      PROVE  \E i, v, w : Posted(h, "ota", i, v, w)
  BY <1>3 DEF Sending, OtaSets, OtaExecutes, OtaKnows, Partly
<1> QED  BY <1>1, <1>2, <1>3 DEF OtaTalk

LEMMA WholeRequest == BaseInv => RequestIsWhole
<1> SUFFICES ASSUME BaseInv, http.state = "executing"
             PROVE  http.parts = {[part |-> p, job |-> http.job] : p \in Needs(http.job)}
  BY DEF RequestIsWhole
<1>1. /\ OtaTalk(asks, http, mail["ota"], ota) /\ HttpTypes(http)
      /\ PrintTalk(asks, http, active, sending)
  BY DEF BaseInv, TalkInv
<1>2. http.owner \in {"ota", "print"}  BY <1>1, SessionsAssumption DEF HttpTypes
<1>3. \E c, j, t, u : Posted(http, c, j, t, u)
  <2>1. CASE http.owner = "ota"  BY <1>1, <2>1, OtaPosted
  <2>2. CASE http.owner = "print"
    <3>1. PrintPosts(asks, http, active, sending)
      BY <1>1, <2>2, Known, PrintExecuting
    <3> QED  BY <3>1 DEF PrintPosts
  <2> QED  BY <1>2, <2>1, <2>2
<1>4. PICK c, j, t, u : Posted(http, c, j, t, u)  BY <1>3
<1>5. /\ j = http.job /\ \A x \in http.parts : \E p \in Needs(j) : x = [part |-> p, job |-> j]
      /\ \A p \in Needs(j) : [part |-> p, job |-> j] \in http.parts
  BY <1>4 DEF Posted, PartsOf
<1> QED  BY <1>5

LEMMA WholeImage == BaseInv => CompleteIsWhole
<1> SUFFICES ASSUME BaseInv, sess.state = "complete"
             PROVE  /\ ~dev[sess.target].open
                    /\ \E u \in Uploads : /\ meant[u] = sess.target
                                          /\ dev[sess.target].image = [i \in 1..Chunks |-> <<u, i>>]
  BY DEF CompleteIsWhole
<1>1. DevHeld(sess, meant, dev)  BY SessFacts, DevIs
<1>2. sess.up \in Uploads /\ sess.target = meant[sess.up] /\ WholeAt(dev, sess.target, sess.up)
  BY <1>1 DEF DevHeld, Uploads
<1> QED  BY <1>2 DEF WholeAt

LEMMA OtaIsUnderway == BaseInv => OtaGoesOn
<1> SUFFICES ASSUME BaseInv  PROVE OtaGoesOn  OBVIOUS
<1>1. /\ OtaTalk(asks, http, mail["ota"], ota) /\ TimerTalk(asks, http, mail["ota"], timer)
      /\ SessTalk(inbox, sess, ota, meant, dev)
  BY SessFacts DEF BaseInv, TalkInv
<1>2. ASSUME NEW j, NEW stale, Starting(asks, http, mail["ota"], j, stale)
      PROVE  Underway("ota") \/ http.owner = "ota"
  <2>1. CASE OtaAsks(asks, http, mail["ota"], j, stale)
    <3>1. PICK k \in DOMAIN asks : asks[k] = Start("ota", j)  BY <2>1 DEF OtaAsks
    <3>2. asks[k].from = "ota"  BY <3>1 DEF Start
    <3> QED  BY <3>2 DEF Underway
  <2>2. CASE OtaOpened(asks, http, mail["ota"], j, stale)  BY <2>2 DEF OtaOpened, Fresh
  <2>3. CASE OtaRefused(asks, http, mail["ota"], stale)
    <3>1. Len(mail["ota"]) = 1 \/ Len(mail["ota"]) = 2  BY <2>3 DEF OtaRefused, Ends
    <3>2. Len(<<>>) = 0  OBVIOUS
    <3> QED  BY <3>1, <3>2 DEF Underway
  <2> QED  BY <1>2, <2>1, <2>2, <2>3 DEF Starting
<1>3. ASSUME NEW j, NEW t, NEW u, Sending(asks, http, mail["ota"], j, t, u)
      PROVE  Underway("ota") \/ http.owner = "ota"
  <2>1. CASE OtaKnows(asks, http, mail["ota"], j)
    <3>1. Len(mail["ota"]) = 1  BY <2>1 DEF OtaKnows
    <3>2. Len(<<>>) = 0  OBVIOUS
    <3> QED  BY <3>1, <3>2 DEF Underway
  <2> QED  BY <1>3, <2>1 DEF Sending, OtaSets, OtaExecutes, Partly, Posted
<1>4. ota.state \in {"check", "download"} =>
        ota.phase # "idle" /\ (Underway("ota") \/ http.owner = "ota")
  BY <1>1, <1>2, <1>3 DEF OtaTalk
<1>5. ota.state = "idle" => ota.phase = "idle"  BY <1>1 DEF OtaTalk
<1>6. ota.state = "session" => InInbox({"StartRequest", "StartResponse"})
  <2>1. ASSUME ota.state = "session"  PROVE InInbox({"StartRequest", "StartResponse"})
    <3>1. PICK k \in DOMAIN inbox : Link(inbox[k], sess, ota, meant, dev)
      BY <1>1, <2>1 DEF SessTalk
    <3>2. inbox[k].id \in {"StartRequest", "StartResponse"}
      BY <2>1, <3>1 DEF Link, StartRequest, StartResponse
    <3> QED  BY <3>2 DEF InInbox
  <2> QED  BY <2>1
<1>7. ota.state = "driver" => InInbox({"RequestDriver", "DriverResponse"})
  <2>1. ASSUME ota.state = "driver"  PROVE InInbox({"RequestDriver", "DriverResponse"})
    <3>1. PICK k \in DOMAIN inbox : Link(inbox[k], sess, ota, meant, dev)
      BY <1>1, <2>1 DEF SessTalk
    <3>2. inbox[k].id \in {"RequestDriver", "DriverResponse"}
      BY <2>1, <3>1 DEF Link, RequestDriver, DriverResponse
    <3> QED  BY <3>2 DEF InInbox
  <2> QED  BY <2>1
<1>8. http.state = "open" => timer.armed \/ \E i \in DOMAIN asks : asks[i].id = "Wake"
  BY <1>1 DEF TimerTalk, WakeUp
<1> QED  BY <1>4, <1>5, <1>6, <1>7, <1>8 DEF OtaGoesOn

LEMMA FoundIsOfSlot == BaseInv => CheckIsOfSlot
BY DEF BaseInv, SessInv, OtaTypes, CheckIsOfSlot

-----------------------------------------------------------------------------
(* The properties, for every number of nozzles, slots, images and chunks.   *)

\* What HttpClientModule::execute() posts, when it is told to go, is one job's request:
\* all of its parts and none left by another client's session or by an earlier attempt.
THEOREM SessionsRequestIsWhole ==
  ASSUME "slow" \notin Faults  PROVE Spec => []RequestIsWhole
BY SessionsBase, WholeRequest, PTL

\* OtaWebClient asks for a session only for what was found for that target: no result
\* of a download that it gave up is taken for the answer to a check.
THEOREM SessionsCheckIsOfSlot ==
  ASSUME "slow" \notin Faults  PROVE Spec => []CheckIsOfSlot
BY SessionsBase, FoundIsOfSlot, PTL

\* When the session manager announces a finished update, the image in the target is one
\* upload's, whole and in order, although connections were lost and retried before.
THEOREM SessionsCompleteIsWhole ==
  ASSUME "slow" \notin Faults  PROVE Spec => []CompleteIsWhole
BY SessionsBase, WholeImage, PTL

\* In every state of the web OTA client that has no time limit of its own, what it waits
\* for is queued or will be; an open session has its timer or the message of the timer.
THEOREM SessionsOtaGoesOn ==
  ASSUME "slow" \notin Faults  PROVE Spec => []OtaGoesOn
BY SessionsBase, OtaIsUnderway, PTL
=============================================================================
