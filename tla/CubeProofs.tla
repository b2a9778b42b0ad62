----------------------------- MODULE CubeProofs -----------------------------
(***************************************************************************)
(* ModuleCubeSphere among its neighbours, for every number of sales, every *)
(* length of its queue, every set of nozzles the cloud has not configured  *)
(* and every size of the timer service: no sale is lost without a trace or *)
(* posted twice, the queue never holds half of a sale, and registration    *)
(* and reports never come to a standstill.                                 *)
(*                                                                         *)
(* A handler makes new values of the module's state c and of the list r    *)
(* and sends what they ask for.  The argument is therefore about values:   *)
(* Whole(c, r, conf, gone, n) says that of n sales each is in one place,   *)
(* and every helper of the handlers takes whole values to whole values.    *)
(***************************************************************************)
EXTENDS CubeStation, FiniteSetTheorems, TLAPS

Sales  == 1..LastSale
Wishes == {"startup", "reconnect", "pump_start", "print_ok", "heartbeat"}
Entry  == [kind : {"pumped", "totalized"}, sale : Sales]
Posted == [kind : {"pumped", "totalized", "retx"}, sale : Sales]
            \cup [kind : Wishes \cup {"none"}, sale : {0}]

CubeType ==
  {c \in [state : {"wait", "registering", "running"}, step : {"1", "wait", "2", "3"},
          phase : {"idle", "starting", "executing"}, cur : Posted, json : Posted,
          want : SUBSET Wishes, queue : Seq(Entry), arm : BOOLEAN, config : BOOLEAN,
          ip : BOOLEAN, joined : BOOLEAN, hb : BOOLEAN, idle : BOOLEAN, internet : BOOLEAN] :
     /\ c.config \/ c.state = "wait"
     /\ c.state = "registering" /\ c.phase # "idle" => c.step # "wait"}

RetxType == [ready : BOOLEAN, list : Seq(Sales), busy : BOOLEAN, failed : BOOLEAN]

\* Behind the end of a sale comes its totalizer, and before the totalizer its sale.
Paired(q) ==
  \A i \in DOMAIN q :
    IF q[i].kind = "pumped"
    THEN i < Len(q) /\ q[i + 1] = Event("totalized", q[i].sale)
    ELSE i = 1 \/ q[i - 1] = Event("pumped", q[i].sale)

Distinct(q) == \A i, j \in DOMAIN q : q[i] = q[j] => i = j

Holds(q, e) == \E i \in DOMAIN q : q[i] = e

Spots == {"queued", "posted", "stored", "confirmed", "lost"}

\* The sale s is at p.
At(p, s, c, r, conf, gone) ==
  \/ p = "queued"    /\ Holds(c.queue, Event("pumped", s))
  \/ p = "posted"    /\ c.phase # "idle" /\ c.cur = Event("pumped", s)
  \/ p = "stored"    /\ Holds(r.list, s)
  \/ p = "confirmed" /\ s \in conf
  \/ p = "lost"      /\ s \in gone

OnePlace(s, c, r, conf, gone) ==
  \E p \in Spots : \A x \in Spots : At(x, s, c, r, conf, gone) <=> x = p

\* The sales so far are 1 .. n.
Placed(c, r, conf, gone, n) ==
  \A s \in Sales :
    IF s <= n THEN OnePlace(s, c, r, conf, gone)
    ELSE /\ \A x \in Spots : ~At(x, s, c, r, conf, gone)
         /\ ~Holds(c.queue, Event("totalized", s))

\* What is posted, and a record that is posted again heads the list until the answer.
Posting(c, r) ==
  /\ c.state = "wait" => c.phase = "idle"
  /\ c.state # "running" => c.cur = NoEvent
  /\ c.state = "running" /\ c.phase # "idle" => c.json = c.cur
  /\ c.phase # "idle" /\ c.cur.kind = "retx" => r.list # <<>> /\ Head(r.list) = c.cur.sale

Whole(c, r, conf, gone, n) ==
  /\ c \in CubeType /\ r \in RetxType /\ conf \subseteq Sales /\ gone \subseteq Sales
  /\ Paired(c.queue) /\ Distinct(c.queue) /\ Distinct(r.list)
  /\ Placed(c, r, conf, gone, n)
  /\ Posting(c, r)

-----------------------------------------------------------------------------
(* The session and the timer.                                              *)

LinkType ==
  [stage : {"none", "asked", "open", "refused", "sent", "ok", "failed"}, job : Posted]

\* How far the session l is when the handler has made c of the module's state.
Linkable(c, l) ==
  /\ l \in LinkType
  /\ c.phase = "idle"      => l.stage = "none"
  /\ c.phase = "starting"  => l.stage \in {"none", "asked", "open", "refused"}
  /\ c.phase = "executing" => l.stage \in {"sent", "ok", "failed"} /\ l.job = c.cur

Linked == Linkable(cube, link) /\ (cube.phase = "starting" => link.stage # "none")

BusyAt(c) ==
  \/ c.state = "registering"
  \/ c.state = "running" /\ (c.hb \/ c.queue # <<>> \/ c.want \ {"reconnect", "heartbeat"} # {})

Slot       == [source : {"cube"}, repeats : {FALSE}, due : BOOLEAN]
StartOfCube == TimerStart("cube", TRUE, FALSE)

TimerTypes ==
  /\ slots \in [1..SlotCount -> Slot \cup {None}]
  /\ \A i, j \in 1..SlotCount : slots[i] # None /\ slots[j] # None => i = j
  /\ requests \in Seq({StartOfCube})
  /\ tick \in [pending : Seq([dest : {"cube"}, slot : 1..SlotCount]), sent : BOOLEAN]
  /\ tick.sent => tick.pending # <<>>
  /\ alarms \in [{"cube"} -> Nat]

\* A timer that runs, and is not the one the callback is about to release.
Armed == \E i \in 1..SlotCount : slots[i] # None /\ (tick.sent => i # Alarm.slot)

\* The module will be woken, or its last request for a timer came to nothing.
Covered == alarms["cube"] > 0 \/ Armed \/ requests # <<>> \/ "cube" \in missed

GoesOn == cube.phase = "idle" /\ BusyAt(cube) => Covered

\* Before the module registers it has not asked for a timer.
Untimed ==
  cube.state = "wait" =>
    /\ requests = <<>> /\ tick.pending = <<>> /\ alarms["cube"] = 0
    /\ \A i \in 1..SlotCount : slots[i] = None

IInv ==
  /\ sales \in 0..LastSale
  /\ Whole(cube, retx, confirmed, lost, sales) /\ ~cube.arm
  /\ Linked /\ TimerTypes /\ GoesOn /\ Untimed

-----------------------------------------------------------------------------
(* Sequences.                                                              *)

\* The rest of a sequence.
LEMMA TailFacts ==
  ASSUME NEW S, NEW q \in Seq(S), q # <<>>
  PROVE  /\ 1 \in DOMAIN q /\ Head(q) = q[1] /\ Head(q) \in S /\ Tail(q) \in Seq(S)
         /\ Len(Tail(q)) = Len(q) - 1 /\ Len(q) \in Nat
         /\ \A i \in DOMAIN Tail(q) : i \in Nat \ {0} /\ i + 1 \in DOMAIN q
                                     /\ Tail(q)[i] = q[i + 1]
         /\ \A i \in DOMAIN q : i \in Nat \ {0} /\ (i = 1 \/ (i - 1 \in DOMAIN Tail(q)
                                     /\ Tail(q)[i - 1] = q[i]))
  OBVIOUS

\* A sequence with one more at its end.
LEMMA AppendFacts ==
  ASSUME NEW S, NEW q \in Seq(S), NEW m \in S
  PROVE  /\ Append(q, m) \in Seq(S) /\ Len(Append(q, m)) = Len(q) + 1 /\ Len(q) \in Nat
         /\ \A i \in DOMAIN q : /\ i \in Nat \ {0} /\ i <= Len(q) /\ i \in DOMAIN Append(q, m)
                                /\ Append(q, m)[i] = q[i]
         /\ \A i \in DOMAIN Append(q, m) : i \in DOMAIN q \/ i = Len(q) + 1
         /\ Len(q) + 1 \in DOMAIN Append(q, m) /\ Append(q, m)[Len(q) + 1] = m
  OBVIOUS

\* What the rest of a sequence without repetitions holds.
LEMMA TailHolds ==
  ASSUME NEW S, NEW q \in Seq(S), q # <<>>, Distinct(q)
  PROVE  /\ Distinct(Tail(q))
         /\ \A e : Holds(Tail(q), e) <=> Holds(q, e) /\ e # Head(q)
<1>1. \A i, j \in DOMAIN Tail(q) : Tail(q)[i] = Tail(q)[j] => i = j
  <2> SUFFICES ASSUME NEW i \in DOMAIN Tail(q), NEW j \in DOMAIN Tail(q), Tail(q)[i] = Tail(q)[j]
               PROVE  i = j
    OBVIOUS
  <2>1. i \in Nat /\ j \in Nat /\ i + 1 \in DOMAIN q /\ j + 1 \in DOMAIN q /\ q[i + 1] = q[j + 1]
    BY TailFacts
  <2>2. i + 1 = j + 1  BY <2>1 DEF Distinct
  <2> QED  BY <2>1, <2>2
<1>2. ASSUME NEW e, Holds(Tail(q), e)  PROVE Holds(q, e) /\ e # Head(q)
  <2>1. PICK i \in DOMAIN Tail(q) : Tail(q)[i] = e  BY <1>2 DEF Holds
  <2>2. i \in Nat \ {0} /\ i + 1 \in DOMAIN q /\ q[i + 1] = e  BY <2>1, TailFacts
  <2>3. 1 \in DOMAIN q /\ Head(q) = q[1]  BY TailFacts
  <2>4. i + 1 # 1  BY <2>2
  <2> QED  BY <2>2, <2>3, <2>4 DEF Holds, Distinct
<1>3. ASSUME NEW e, Holds(q, e), e # Head(q)  PROVE Holds(Tail(q), e)
  <2>1. PICK i \in DOMAIN q : q[i] = e  BY <1>3 DEF Holds
  <2>2. i # 1  BY <1>3, <2>1, TailFacts
  <2>3. PICK k : k = i - 1  OBVIOUS
  <2>4. k \in DOMAIN Tail(q) /\ Tail(q)[k] = e  BY <2>1, <2>2, <2>3, TailFacts
  <2> QED  BY <2>4 DEF Holds
<1> QED  BY <1>1, <1>2, <1>3 DEF Distinct

\* What a sequence with one more holds.
LEMMA AppendHolds ==
  ASSUME NEW S, NEW q \in Seq(S), NEW m \in S
  PROVE  /\ \A e : Holds(Append(q, m), e) <=> Holds(q, e) \/ e = m
         /\ Distinct(q) /\ ~Holds(q, m) => Distinct(Append(q, m))
<1>1. ASSUME NEW e  PROVE Holds(Append(q, m), e) <=> Holds(q, e) \/ e = m
  BY AppendFacts DEF Holds
<1>2. ASSUME Distinct(q), ~Holds(q, m)  PROVE Distinct(Append(q, m))
  <2> SUFFICES ASSUME NEW i \in DOMAIN Append(q, m), NEW j \in DOMAIN Append(q, m),
                      Append(q, m)[i] = Append(q, m)[j]
               PROVE  i = j
    BY DEF Distinct
  <2>1. CASE i \in DOMAIN q /\ j \in DOMAIN q  BY <1>2, <2>1, AppendFacts DEF Distinct
  <2>2. CASE i \in DOMAIN q /\ j = Len(q) + 1  BY <1>2, <2>2, AppendFacts DEF Holds
  <2>3. CASE j \in DOMAIN q /\ i = Len(q) + 1  BY <1>2, <2>3, AppendFacts DEF Holds
  <2>4. CASE j = Len(q) + 1 /\ i = Len(q) + 1  BY <2>4
  <2> QED  BY <2>1, <2>2, <2>3, <2>4, AppendFacts
<1> QED  BY <1>1, <1>2

\* The queue stays paired when its first entry is taken.
LEMMA TailPaired ==
  ASSUME NEW q \in Seq(Entry), q # <<>>, Paired(q)
  PROVE  Paired(Tail(q))
<1> SUFFICES ASSUME NEW i \in DOMAIN Tail(q)
             PROVE  IF Tail(q)[i].kind = "pumped"
                    THEN i < Len(Tail(q)) /\ Tail(q)[i + 1] = Event("totalized", Tail(q)[i].sale)
                    ELSE i = 1 \/ Tail(q)[i - 1] = Event("pumped", Tail(q)[i].sale)
  BY DEF Paired
<1>1. /\ i \in Nat \ {0} /\ i + 1 \in DOMAIN q /\ Tail(q)[i] = q[i + 1]
      /\ Len(Tail(q)) = Len(q) - 1 /\ Len(q) \in Nat
  BY TailFacts
<1>2. CASE q[i + 1].kind = "pumped"
  <2>1. i + 1 < Len(q) /\ q[(i + 1) + 1] = Event("totalized", q[i + 1].sale)
    BY <1>1, <1>2 DEF Paired
  <2>2. (i + 1) + 1 \in DOMAIN q /\ (i + 1) + 1 # 1 /\ ((i + 1) + 1) - 1 = i + 1
    BY <1>1, <2>1
  <2>3. Tail(q)[i + 1] = q[(i + 1) + 1]  BY <2>2, TailFacts
  <2> QED  BY <1>1, <1>2, <2>1, <2>3
<1>3. CASE q[i + 1].kind # "pumped"
  <2>1. i + 1 = 1 \/ q[(i + 1) - 1] = Event("pumped", q[i + 1].sale)
    BY <1>1, <1>3 DEF Paired
  <2>2. q[i] = Event("pumped", q[i + 1].sale)  BY <1>1, <2>1
  <2>3. i = 1 \/ (i \in DOMAIN q /\ Tail(q)[i - 1] = q[i])  BY <1>1, TailFacts
  <2> QED  BY <1>1, <1>3, <2>2, <2>3
<1> QED  BY <1>2, <1>3

\* The queue stays paired when both entries of a sale are put at its end.
LEMMA PairAppended ==
  ASSUME NEW q \in Seq(Entry), NEW s \in Sales, Paired(q), Distinct(q),
         ~Holds(q, Event("pumped", s)), ~Holds(q, Event("totalized", s)),
         NEW w, w = Append(Append(q, Event("pumped", s)), Event("totalized", s))
  PROVE  /\ w \in Seq(Entry) /\ Paired(w) /\ Distinct(w)
         /\ \A e : Holds(w, e) <=> \/ Holds(q, e)
                                   \/ e = Event("pumped", s) \/ e = Event("totalized", s)
<1>1. PICK a \in Entry : a = Event("pumped", s)  BY DEF Entry, Event
<1>2. PICK b \in Entry : b = Event("totalized", s)  BY DEF Entry, Event
<1>3. PICK v \in Seq(Entry) : v = Append(q, a)  BY AppendFacts
<1>4. w = Append(v, b) /\ w \in Seq(Entry)  BY <1>1, <1>2, <1>3
<1>5. a # b /\ a.kind = "pumped" /\ a.sale = s /\ b.kind = "totalized" /\ b.sale = s
  BY <1>1, <1>2 DEF Event
<1>6. \A e : Holds(w, e) <=> Holds(q, e) \/ e = a \/ e = b
  <2>1. \A e : Holds(v, e) <=> Holds(q, e) \/ e = a  BY ONLY <1>1, <1>3, AppendHolds
  <2>2. \A e : Holds(Append(v, b), e) <=> Holds(v, e) \/ e = b
    BY ONLY v \in Seq(Entry), b \in Entry, AppendHolds
  <2> QED  BY <1>4, <2>1, <2>2
<1>7. Distinct(v)  BY <1>1, <1>3, AppendHolds
<1>8. ~Holds(v, b)  BY <1>1, <1>2, <1>3, <1>5, AppendHolds
<1>9. Distinct(w)  BY ONLY <1>2, <1>3, <1>4, <1>7, <1>8, AppendHolds
<1>10. /\ Len(v) = Len(q) + 1 /\ Len(w) = Len(v) + 1 /\ Len(q) \in Nat
       /\ \A i \in DOMAIN q : i \in Nat \ {0} /\ i <= Len(q) /\ i \in DOMAIN w /\ w[i] = q[i]
       /\ w[Len(q) + 1] = a /\ w[Len(q) + 2] = b
       /\ \A i \in DOMAIN w : i \in DOMAIN q \/ i = Len(q) + 1 \/ i = Len(q) + 2
  BY <1>3, <1>4
<1>11. ASSUME NEW i \in DOMAIN w
       PROVE  IF w[i].kind = "pumped"
              THEN i < Len(w) /\ w[i + 1] = Event("totalized", w[i].sale)
              ELSE i = 1 \/ w[i - 1] = Event("pumped", w[i].sale)
  <2>1. CASE i = Len(q) + 1  BY <1>2, <1>5, <1>10, <2>1
  <2>2. CASE i = Len(q) + 2  BY <1>1, <1>5, <1>10, <2>2
  <2>3. CASE i \in DOMAIN q
    <3>1. i \in Nat \ {0} /\ i <= Len(q) /\ w[i] = q[i]  BY <1>10, <2>3
    <3>2. CASE q[i].kind = "pumped"
      <4>1. i < Len(q) /\ q[i + 1] = Event("totalized", q[i].sale)  BY <2>3, <3>2 DEF Paired
      <4>2. i + 1 \in DOMAIN q  BY <2>3, <3>1, <4>1
      <4> QED  BY <1>10, <3>1, <3>2, <4>1, <4>2
    <3>3. CASE q[i].kind # "pumped"
      <4>1. i = 1 \/ q[i - 1] = Event("pumped", q[i].sale)  BY <2>3, <3>3 DEF Paired
      <4>2. i = 1 \/ i - 1 \in DOMAIN q  BY <2>3, <3>1
      <4> QED  BY <1>10, <3>1, <3>3, <4>1, <4>2
    <3> QED  BY <3>2, <3>3
  <2> QED  BY <1>10, <2>1, <2>2, <2>3
<1> QED  BY <1>1, <1>2, <1>4, <1>6, <1>9, <1>11 DEF Paired

-----------------------------------------------------------------------------
(* Values that stay whole.                                                 *)

\* No sale moves.
LEMMA PlacedSame ==
  ASSUME NEW c, NEW r, NEW conf, NEW gone, NEW n, Placed(c, r, conf, gone, n),
         NEW d, NEW r2,
         \A s \in Sales : \A x \in Spots :
           At(x, s, d, r2, conf, gone) <=> At(x, s, c, r, conf, gone),
         \A s \in Sales :
           Holds(d.queue, Event("totalized", s)) => Holds(c.queue, Event("totalized", s))
  PROVE  Placed(d, r2, conf, gone, n)
<1> SUFFICES ASSUME NEW s \in Sales
             PROVE  IF s <= n THEN OnePlace(s, d, r2, conf, gone)
                    ELSE /\ \A x \in Spots : ~At(x, s, d, r2, conf, gone)
                         /\ ~Holds(d.queue, Event("totalized", s))
  BY DEF Placed
<1>1. CASE s <= n
  <2>1. OnePlace(s, c, r, conf, gone)  BY <1>1 DEF Placed
  <2> QED  BY <1>1, <2>1 DEF OnePlace
<1>2. CASE ~(s <= n)  BY <1>2 DEF Placed
<1> QED  BY <1>1, <1>2

\* The sale m, one of the first or the next, is moved to the place p.
LEMMA PlacedMoves ==
  ASSUME NEW c, NEW r, NEW conf, NEW gone, NEW n \in Nat, Placed(c, r, conf, gone, n),
         NEW d, NEW r2, NEW conf2, NEW gone2, NEW k \in {n, n + 1},
         NEW m \in Sales, m <= k, k <= n \/ m = k, NEW p \in Spots,
         \A x \in Spots : At(x, m, d, r2, conf2, gone2) <=> x = p,
         \A s \in Sales \ {m} : \A x \in Spots :
           At(x, s, d, r2, conf2, gone2) <=> At(x, s, c, r, conf, gone),
         \A s \in Sales \ {m} :
           
           Holds(d.queue, Event("totalized", s)) => Holds(c.queue, Event("totalized", s))
  PROVE  Placed(d, r2, conf2, gone2, k)
<1> SUFFICES ASSUME NEW s \in Sales
             PROVE  IF s <= k THEN OnePlace(s, d, r2, conf2, gone2)
                    ELSE /\ \A x \in Spots : ~At(x, s, d, r2, conf2, gone2)
                         /\ ~Holds(d.queue, Event("totalized", s))
  BY DEF Placed
<1>1. CASE s = m  BY <1>1 DEF OnePlace
<1>2. CASE s # m /\ s <= k
  <2>1. s <= n /\ s \in Int  BY <1>2 DEF Sales
  <2>2. OnePlace(s, c, r, conf, gone)  BY <2>1 DEF Placed
  <2> QED  BY <1>2, <2>2 DEF OnePlace
<1>3. CASE s # m /\ ~(s <= k)
  <2>1. ~(s <= n)  BY <1>3 DEF Sales
  <2>2. (\A x \in Spots : ~At(x, s, c, r, conf, gone)) /\ ~Holds(c.queue, Event("totalized", s))
    BY <2>1 DEF Placed
  <2> QED  BY <1>3, <2>2
<1> QED  BY <1>1, <1>2, <1>3

\* The fields that say nothing of a sale may change.
LEMMA WholeSame ==
  ASSUME NEW c, NEW r, NEW conf, NEW gone, NEW n, Whole(c, r, conf, gone, n),
         NEW d \in CubeType, NEW r2 \in RetxType, r2.list = r.list,
         d.state = c.state, d.phase = c.phase, d.cur = c.cur, d.json = c.json, d.queue = c.queue
  PROVE  Whole(d, r2, conf, gone, n)
<1>1. \A s \in Sales : \A x \in Spots : At(x, s, d, r2, conf, gone) <=> At(x, s, c, r, conf, gone)
  BY DEF At
<1>2. Placed(d, r2, conf, gone, n)  BY <1>1, PlacedSame DEF Whole
<1> QED  BY <1>2 DEF Whole, Posting

\* What _start_next_event makes of the module's state.
LEMMA StartsNextFacts ==
  ASSUME NEW c \in CubeType, NEW d, d = StartsNext(c)
  PROVE  /\ d \in CubeType /\ d.state = c.state
         /\ \/ d.phase = c.phase /\ d.cur = c.cur /\ d.json = c.json /\ d.queue = c.queue
            \/ /\ c.state = "running" /\ c.phase = "idle" /\ d.phase = "starting"
               /\ d.cur = d.json /\ d.cur.kind \in Wishes /\ d.queue = c.queue
            \/ /\ c.state = "running" /\ c.phase = "idle" /\ d.phase = "starting"
               /\ c.queue # <<>> /\ d.cur = d.json /\ d.cur = Head(c.queue)
               /\ d.queue = Tail(c.queue)
         /\ c.state = "running" /\ d.phase = "idle" /\ BusyAt(d) => d.arm
<1>1. CASE c.state # "running" \/ c.phase # "idle"
  <2>1. d = c  BY <1>1 DEF StartsNext
  <2> QED  BY <1>1, <2>1
<1>2. CASE c.state = "running" /\ c.phase = "idle" /\ Urgent(c) = "none"
  <2>1. /\ c.queue = <<>> /\ "startup" \notin c.want /\ "pump_start" \notin c.want
        /\ "print_ok" \notin c.want
    BY <1>2 DEF Urgent
  <2>2. d = IF c.hb THEN Arms(c) ELSE c  BY <1>2 DEF StartsNext
  <2>3. CASE c.hb
    <3>1. d = [c EXCEPT !.arm = TRUE]  BY <2>2, <2>3 DEF Arms
    <3>2. /\ d \in CubeType /\ d.state = c.state /\ d.phase = c.phase /\ d.cur = c.cur
          /\ d.json = c.json /\ d.queue = c.queue /\ d.arm
      BY <3>1 DEF CubeType
    <3> QED  BY <3>2
  <2>4. CASE ~c.hb
    <3>1. d = c  BY <2>2, <2>4
    <3>2. c.want \subseteq Wishes  BY DEF CubeType
    <3>3. c.want \ {"reconnect", "heartbeat"} = {}  BY <2>1, <3>2 DEF Wishes
    <3>4. ~BusyAt(d)  BY <1>2, <2>1, <2>4, <3>1, <3>3 DEF BusyAt
    <3> QED  BY <3>1, <3>4
  <2> QED  BY <2>3, <2>4
<1>3. CASE c.state = "running" /\ c.phase = "idle" /\ Urgent(c) = "queue"
  <2>1. c.queue # <<>>  BY <1>3 DEF Urgent
  <2>2. PICK e : e = Head(c.queue)  OBVIOUS
  <2>3. PICK q : q = Tail(c.queue)  OBVIOUS
  <2>4. c.queue \in Seq(Entry)  BY DEF CubeType
  <2>5. e \in Entry /\ q \in Seq(Entry)  BY <2>1, <2>2, <2>3, <2>4, TailFacts
  <2>6. d = Posts([c EXCEPT !.queue = Tail(@)], Head(c.queue))  BY <1>3 DEF StartsNext
  <2>7. d = [c EXCEPT !.queue = q, !.cur = e, !.json = e, !.phase = "starting"]
    BY <2>2, <2>3, <2>6 DEF Posts, Starts, CubeType
  <2>8. e \in Posted  BY <2>5 DEF Entry, Posted
  <2>9. /\ d \in CubeType /\ d.state = c.state /\ d.phase = "starting" /\ d.cur = e /\ d.json = e
        /\ d.queue = q
    BY ZenonT(60), <1>3, <2>5, <2>7, <2>8 DEF CubeType
  <2> QED  BY <1>3, <2>1, <2>2, <2>3, <2>9
<1>4. CASE c.state = "running" /\ c.phase = "idle" /\ Urgent(c) \notin {"none", "queue"}
  <2>1. PICK k \in Wishes : k = Urgent(c)  BY <1>4 DEF Urgent, Wishes
  <2>2. PICK e : e = Event(k, 0)  OBVIOUS
  <2>3. d = Posts([c EXCEPT !.want = @ \ {k}], e)  BY <1>4, <2>1, <2>2 DEF StartsNext
  <2>4. PICK w \in SUBSET Wishes : w = c.want \ {k}  BY DEF CubeType
  <2>5. d = [c EXCEPT !.want = w, !.cur = e, !.json = e, !.phase = "starting"]
    BY <2>3, <2>4 DEF Posts, Starts, CubeType
  <2>6. e \in Posted /\ e.kind \in Wishes  BY <2>2 DEF Event, Posted
  <2>7. /\ d \in CubeType /\ d.state = c.state /\ d.phase = "starting" /\ d.cur = e /\ d.json = e
        /\ d.queue = c.queue
    BY ZenonT(60), <1>4, <2>4, <2>5, <2>6 DEF CubeType
  <2> QED  BY <1>4, <2>6, <2>7
<1> QED  BY <1>1, <1>2, <1>3, <1>4

\* _start_next_event: the first sale of the queue moves to the post, or none moves.
LEMMA WholeStartsNext ==
  ASSUME NEW c, NEW r, NEW conf, NEW gone, NEW n \in Nat, n <= LastSale,
         Whole(c, r, conf, gone, n), NEW d, d = StartsNext(c)
  PROVE  Whole(d, r, conf, gone, n)
<1>1. c \in CubeType /\ r \in RetxType /\ c.queue \in Seq(Entry)  BY DEF Whole, CubeType
<1>2. d \in CubeType /\ d.state = c.state  BY <1>1, StartsNextFacts
<1>3. CASE d.phase = c.phase /\ d.cur = c.cur /\ d.json = c.json /\ d.queue = c.queue
  BY <1>1, <1>2, <1>3, WholeSame
<1>4. CASE /\ c.state = "running" /\ c.phase = "idle" /\ d.phase = "starting"
           /\ d.cur = d.json /\ d.cur.kind \in Wishes /\ d.queue = c.queue
  <2>1. \A s \in Sales : d.cur # Event("pumped", s)  BY <1>4 DEF Event, Wishes
  <2>2. \A s \in Sales : \A x \in Spots : At(x, s, d, r, conf, gone) <=> At(x, s, c, r, conf, gone)
    BY <1>4, <2>1 DEF At
  <2>3. Placed(d, r, conf, gone, n)  BY <1>4, <2>2, PlacedSame DEF Whole
  <2>4. Posting(d, r)  BY <1>2, <1>4 DEF Posting, Wishes
  <2> QED  BY <1>2, <1>4, <2>3, <2>4 DEF Whole
<1>5. CASE /\ c.state = "running" /\ c.phase = "idle" /\ d.phase = "starting"
           /\ c.queue # <<>> /\ d.cur = d.json /\ d.cur = Head(c.queue)
           /\ d.queue = Tail(c.queue)
  <2>1. PICK e \in Entry : e = Head(c.queue)  BY <1>1, <1>5, TailFacts
  <2>2. Paired(c.queue) /\ Distinct(c.queue)  BY DEF Whole
  <2>3. Paired(d.queue) /\ Distinct(d.queue)  BY <1>1, <1>5, <2>2, TailPaired, TailHolds
  <2>4. \A x : Holds(d.queue, x) <=> Holds(c.queue, x) /\ x # e
    BY <1>1, <1>5, <2>1, <2>2, TailHolds
  <2>5. 1 \in DOMAIN c.queue /\ c.queue[1] = e  BY <1>1, <1>5, <2>1, TailFacts
  <2>6. Holds(c.queue, e)  BY <2>5 DEF Holds
  <2>7. Posting(d, r)  BY <1>2, <1>5, <2>1 DEF Posting, Entry
  <2>8. CASE e.kind = "totalized"
    <3>1. \A s \in Sales : Event("pumped", s) # e  BY <2>8 DEF Event
    <3>2. \A s \in Sales : \A x \in Spots :
            At(x, s, d, r, conf, gone) <=> At(x, s, c, r, conf, gone)
      BY <1>5, <2>1, <2>4, <3>1 DEF At
    <3>3. Placed(d, r, conf, gone, n)  BY <2>4, <3>2, PlacedSame DEF Whole
    <3> QED  BY <1>2, <2>3, <2>7, <3>3 DEF Whole
  <2>9. CASE e.kind = "pumped"
    <3>1. PICK m \in Sales : e = Event("pumped", m)  BY <2>1, <2>9 DEF Entry, Event
    <3>2. \A s \in Sales \ {m} : Event("pumped", s) # e  BY <3>1 DEF Event
    <3>3. \A s \in Sales \ {m} : \A x \in Spots :
            At(x, s, d, r, conf, gone) <=> At(x, s, c, r, conf, gone)
      BY <1>5, <2>1, <2>4, <3>2 DEF At
    <3>4. At("queued", m, c, r, conf, gone)  BY <2>6, <3>1 DEF At
    <3>5. m <= n /\ OnePlace(m, c, r, conf, gone)  BY <3>4 DEF Whole, Placed, Spots
    <3>6. \A x \in Spots : At(x, m, c, r, conf, gone) <=> x = "queued"
      BY <3>4, <3>5 DEF OnePlace, Spots
    <3>7. ~Holds(c.queue, Event("pumped", m)) \/ e = Event("pumped", m)  BY <3>1
    <3>8. \A x \in Spots : At(x, m, d, r, conf, gone) <=> x = "posted"
      <4>1. ~At("stored", m, c, r, conf, gone) /\ ~At("confirmed", m, c, r, conf, gone)
            /\ ~At("lost", m, c, r, conf, gone)
        BY <3>6 DEF Spots
      <4>2. ~Holds(r.list, m) /\ m \notin conf /\ m \notin gone  BY <4>1 DEF At
      <4>3. ~Holds(d.queue, Event("pumped", m))  BY <2>4, <3>1
      <4>4. d.phase # "idle" /\ d.cur = Event("pumped", m)  BY <1>5, <2>1, <3>1
      <4> QED  BY <4>2, <4>3, <4>4 DEF At
    <3>9. Placed(d, r, conf, gone, n)
      <4>1. Placed(c, r, conf, gone, n)  BY DEF Whole
      <4>2. "posted" \in Spots /\ n \in {n, n + 1}  BY DEF Spots
      <4> QED  BY <2>4, <3>3, <3>5, <3>8, <4>1, <4>2, PlacedMoves
    <3> QED  BY <1>2, <2>3, <2>7, <3>9 DEF Whole
  <2> QED  BY <2>1, <2>8, <2>9 DEF Entry
<1> QED  BY <1>1, <1>3, <1>4, <1>5, StartsNextFacts

\* _retx_try_send_one posts the first record of the list, which stays there.
LEMMA WholePosts ==
  ASSUME NEW c, NEW r, NEW conf, NEW gone, NEW n \in Nat, Whole(c, r, conf, gone, n),
         c.state = "running", c.phase = "idle", r.list # <<>>,
         NEW d, d = Posts(c, Event("retx", Head(r.list))),
         NEW r2, r2 = [r EXCEPT !.busy = TRUE]
  PROVE  Whole(d, r2, conf, gone, n) /\ d.phase = "starting" /\ d.state = "running"
<1>1. c \in CubeType /\ r \in RetxType /\ r.list \in Seq(Sales)  BY DEF Whole, RetxType
<1>2. PICK h \in Sales : h = Head(r.list)  BY <1>1, TailFacts
<1>3. PICK e \in Posted : e = Event("retx", h)  BY DEF Posted, Event
<1>4. d = [c EXCEPT !.cur = e, !.json = e, !.phase = "starting"]
  BY <1>1, <1>2, <1>3 DEF Posts, Starts, CubeType
<1>5. /\ d \in CubeType /\ d.state = c.state /\ d.phase = "starting" /\ d.cur = e /\ d.json = e
      /\ d.queue = c.queue
  BY ZenonT(60), <1>1, <1>3, <1>4 DEF CubeType
<1>6. r2 \in RetxType /\ r2.list = r.list  BY <1>1 DEF RetxType
<1>7. e.kind = "retx" /\ e.sale = h  BY <1>3 DEF Event
<1>8. \A s \in Sales : e # Event("pumped", s)  BY <1>7 DEF Event
<1>9. \A s \in Sales : \A x \in Spots : At(x, s, d, r2, conf, gone) <=> At(x, s, c, r, conf, gone)
  BY <1>5, <1>6, <1>8 DEF At
<1>10. Placed(d, r2, conf, gone, n)  BY <1>5, <1>9, PlacedSame DEF Whole
<1>11. Posting(d, r2)  BY <1>2, <1>5, <1>6, <1>7 DEF Posting
<1> QED  BY <1>5, <1>6, <1>10, <1>11 DEF Whole

\* The first record of the list is taken from it: it is confirmed, or of no use.
LEMMA WholeDrops ==
  ASSUME NEW c, NEW r, NEW conf, NEW gone, NEW n \in Nat, Whole(c, r, conf, gone, n),
         c.phase = "idle", r.list # <<>>,
         NEW r2 \in RetxType, r2.list = Tail(r.list), NEW conf2, NEW gone2,
         \/ conf2 = conf \cup {Head(r.list)} /\ gone2 = gone
         \/ gone2 = gone \cup {Head(r.list)} /\ conf2 = conf
  PROVE  Whole(c, r2, conf2, gone2, n)
<1>1. r.list \in Seq(Sales) /\ Distinct(r.list)  BY DEF Whole, RetxType
<1>2. PICK m \in Sales : m = Head(r.list)  BY <1>1, TailFacts
<1>3. Distinct(r2.list) /\ \A x : Holds(r2.list, x) <=> Holds(r.list, x) /\ x # m
  BY <1>1, <1>2, TailHolds
<1>4. Holds(r.list, m)
  <2>1. 1 \in DOMAIN r.list /\ r.list[1] = m  BY <1>1, <1>2, TailFacts
  <2> QED  BY <2>1 DEF Holds
<1>5. At("stored", m, c, r, conf, gone)  BY <1>4 DEF At
<1>6. m <= n /\ OnePlace(m, c, r, conf, gone)  BY <1>5 DEF Whole, Placed, Spots
<1>7. \A x \in Spots : At(x, m, c, r, conf, gone) <=> x = "stored"
  BY <1>5, <1>6 DEF OnePlace, Spots
<1>8. /\ ~At("queued", m, c, r, conf, gone) /\ ~At("posted", m, c, r, conf, gone)
      /\ ~At("confirmed", m, c, r, conf, gone) /\ ~At("lost", m, c, r, conf, gone)
  BY <1>7 DEF Spots
<1>9. ~Holds(c.queue, Event("pumped", m)) /\ m \notin conf /\ m \notin gone  BY <1>8 DEF At
<1>10. Placed(c, r, conf, gone, n) /\ n \in {n, n + 1} /\ "confirmed" \in Spots /\ "lost" \in Spots
  BY DEF Whole, Spots
<1>11. CASE conf2 = conf \cup {Head(r.list)} /\ gone2 = gone
  <2>1. \A x \in Spots : At(x, m, c, r2, conf2, gone2) <=> x = "confirmed"
    BY <1>2, <1>3, <1>9, <1>11 DEF At
  <2>2. \A s \in Sales \ {m} : \A x \in Spots :
          At(x, s, c, r2, conf2, gone2) <=> At(x, s, c, r, conf, gone)
    BY <1>2, <1>3, <1>11 DEF At
  <2>3. Placed(c, r2, conf2, gone2, n)  BY <1>6, <1>10, <2>1, <2>2, PlacedMoves
  <2> QED  BY <1>2, <1>3, <1>11, <2>3 DEF Whole, Posting
<1>12. CASE gone2 = gone \cup {Head(r.list)} /\ conf2 = conf
  <2>1. \A x \in Spots : At(x, m, c, r2, conf2, gone2) <=> x = "lost"
    BY <1>2, <1>3, <1>9, <1>12 DEF At
  <2>2. \A s \in Sales \ {m} : \A x \in Spots :
          At(x, s, c, r2, conf2, gone2) <=> At(x, s, c, r, conf, gone)
    BY <1>2, <1>3, <1>12 DEF At
  <2>3. Placed(c, r2, conf2, gone2, n)  BY <1>6, <1>10, <2>1, <2>2, PlacedMoves
  <2> QED  BY <1>2, <1>3, <1>12, <2>3 DEF Whole, Posting
<1> QED  BY <1>11, <1>12

\* The post is over: a sale that was posted is confirmed or given up.
LEMMA WholeFreed ==
  ASSUME NEW c, NEW r, NEW conf, NEW gone, NEW n \in Nat, Whole(c, r, conf, gone, n),
         c.phase # "idle", NEW d \in CubeType, d.state = c.state, d.phase = "idle",
         d.queue = c.queue, d.cur \in {c.cur, NoEvent},
         NEW r2 \in RetxType, r2.list = r.list, NEW conf2, NEW gone2,
         IF c.cur.kind = "pumped"
         THEN \/ conf2 = conf \cup {c.cur.sale} /\ gone2 = gone
              \/ gone2 = gone \cup {c.cur.sale} /\ conf2 = conf
         ELSE conf2 = conf /\ gone2 = gone
  PROVE  Whole(d, r2, conf2, gone2, n)
<1>1. c \in CubeType /\ c.cur \in Posted  BY DEF Whole, CubeType
<1>2. Posting(d, r2)  BY DEF Whole, Posting
<1>3. CASE c.cur.kind # "pumped"
  <2>1. \A s \in Sales : c.cur # Event("pumped", s)  BY <1>3 DEF Event
  <2>2. \A s \in Sales : \A x \in Spots : At(x, s, d, r2, conf, gone) <=> At(x, s, c, r, conf, gone)
    BY <2>1 DEF At
  <2>3. Placed(d, r2, conf, gone, n)  BY <2>2, PlacedSame DEF Whole
  <2> QED  BY <1>2, <1>3, <2>3 DEF Whole
<1>4. CASE c.cur.kind = "pumped"
  <2>1. PICK m \in Sales : c.cur = Event("pumped", m) /\ m = c.cur.sale
    BY <1>1, <1>4 DEF Posted, Event, Wishes
  <2>2. \A s \in Sales \ {m} : c.cur # Event("pumped", s)  BY <2>1 DEF Event
  <2>3. At("posted", m, c, r, conf, gone)  BY <2>1 DEF At
  <2>4. m <= n /\ OnePlace(m, c, r, conf, gone)  BY <2>3 DEF Whole, Placed, Spots
  <2>5. \A x \in Spots : At(x, m, c, r, conf, gone) <=> x = "posted"
    BY <2>3, <2>4 DEF OnePlace, Spots
  <2>6. /\ ~At("queued", m, c, r, conf, gone) /\ ~At("stored", m, c, r, conf, gone)
        /\ ~At("confirmed", m, c, r, conf, gone) /\ ~At("lost", m, c, r, conf, gone)
    BY <2>5 DEF Spots
  <2>7. ~Holds(c.queue, Event("pumped", m)) /\ ~Holds(r.list, m) /\ m \notin conf /\ m \notin gone
    BY <2>6 DEF At
  <2>8. Placed(c, r, conf, gone, n) /\ n \in {n, n + 1} /\ "confirmed" \in Spots /\ "lost" \in Spots
    BY DEF Whole, Spots
  <2>9. CASE conf2 = conf \cup {c.cur.sale} /\ gone2 = gone
    <3>1. \A x \in Spots : At(x, m, d, r2, conf2, gone2) <=> x = "confirmed"
      BY <2>1, <2>7, <2>9 DEF At
    <3>2. \A s \in Sales \ {m} : \A x \in Spots :
            At(x, s, d, r2, conf2, gone2) <=> At(x, s, c, r, conf, gone)
      BY <2>1, <2>2, <2>9 DEF At
    <3>3. Placed(d, r2, conf2, gone2, n)  BY <2>4, <2>8, <3>1, <3>2, PlacedMoves
    <3> QED  BY <1>2, <2>1, <2>9, <3>3 DEF Whole
  <2>10. CASE gone2 = gone \cup {c.cur.sale} /\ conf2 = conf
    <3>1. \A x \in Spots : At(x, m, d, r2, conf2, gone2) <=> x = "lost"
      BY <2>1, <2>7, <2>10 DEF At
    <3>2. \A s \in Sales \ {m} : \A x \in Spots :
            At(x, s, d, r2, conf2, gone2) <=> At(x, s, c, r, conf, gone)
      BY <2>1, <2>2, <2>10 DEF At
    <3>3. Placed(d, r2, conf2, gone2, n)  BY <2>4, <2>8, <3>1, <3>2, PlacedMoves
    <3> QED  BY <1>2, <2>1, <2>10, <3>3 DEF Whole
  <2> QED  BY <1>4, <2>9, <2>10
<1> QED  BY <1>3, <1>4

\* _retx_store_pumped: the next sale goes into the list, or there is none yet.
LEMMA WholeStores ==
  ASSUME NEW c, NEW r, NEW conf, NEW gone, NEW n \in Nat, Whole(c, r, conf, gone, n),
         NEW m \in Sales, m = n + 1, NEW r2, NEW gone2,
         \/ r2 = [r EXCEPT !.list = Append(@, m)] /\ gone2 = gone
         \/ gone2 = gone \cup {m} /\ r2 = r
  PROVE  Whole(c, r2, conf, gone2, n + 1)
<1>1. r \in RetxType /\ r.list \in Seq(Sales) /\ Distinct(r.list)  BY DEF Whole, RetxType
<1>2. ~(m <= n) /\ n + 1 \in {n, n + 1} /\ m <= n + 1 /\ "stored" \in Spots /\ "lost" \in Spots
  BY DEF Spots
<1>3. Placed(c, r, conf, gone, n)  BY DEF Whole
<1>4. (\A x \in Spots : ~At(x, m, c, r, conf, gone)) /\ ~Holds(c.queue, Event("totalized", m))
  BY <1>2, <1>3 DEF Placed
<1>5. /\ ~At("queued", m, c, r, conf, gone) /\ ~At("posted", m, c, r, conf, gone)
      /\ ~At("stored", m, c, r, conf, gone) /\ ~At("confirmed", m, c, r, conf, gone)
      /\ ~At("lost", m, c, r, conf, gone)
  BY <1>4 DEF Spots
<1>6. /\ ~Holds(c.queue, Event("pumped", m)) /\ ~Holds(r.list, m) /\ m \notin conf /\ m \notin gone
      /\ ~(c.phase # "idle" /\ c.cur = Event("pumped", m))
  BY <1>5 DEF At
<1>7. CASE r2 = [r EXCEPT !.list = Append(@, m)] /\ gone2 = gone
  <2>1. PICK w \in Seq(Sales) : w = Append(r.list, m)  BY <1>1, AppendFacts
  <2>2. r2 = [r EXCEPT !.list = w]  BY <1>1, <1>7, <2>1 DEF RetxType
  <2>3. r2 \in RetxType /\ r2.list = w  BY <1>1, <2>2 DEF RetxType
  <2>4. \A x : Holds(w, x) <=> Holds(r.list, x) \/ x = m  BY <1>1, <2>1, AppendHolds
  <2>5. Distinct(w)  BY <1>1, <1>6, <2>1, AppendHolds
  <2>6. r.list # <<>> => w # <<>> /\ Head(w) = Head(r.list)  BY <1>1, <2>1
  <2>7. Posting(c, r2)  BY <2>3, <2>6 DEF Whole, Posting
  <2>8. \A x \in Spots : At(x, m, c, r2, conf, gone2) <=> x = "stored"
    BY <1>6, <1>7, <2>3, <2>4 DEF At
  <2>9. \A s \in Sales \ {m} : \A x \in Spots :
          At(x, s, c, r2, conf, gone2) <=> At(x, s, c, r, conf, gone)
    BY <1>7, <2>3, <2>4 DEF At
  <2>10. Placed(c, r2, conf, gone2, n + 1)  BY <1>2, <1>3, <2>8, <2>9, PlacedMoves
  <2> QED  BY <1>7, <2>3, <2>5, <2>7, <2>10 DEF Whole
<1>8. CASE gone2 = gone \cup {m} /\ r2 = r
  <2>1. \A x \in Spots : At(x, m, c, r2, conf, gone2) <=> x = "lost"
    BY <1>6, <1>8 DEF At
  <2>2. \A s \in Sales \ {m} : \A x \in Spots :
          At(x, s, c, r2, conf, gone2) <=> At(x, s, c, r, conf, gone)
    BY <1>8 DEF At
  <2>3. Placed(c, r2, conf, gone2, n + 1)  BY <1>2, <1>3, <2>1, <2>2, PlacedMoves
  <2> QED  BY <1>8, <2>3 DEF Whole
<1> QED  BY <1>7, <1>8

\* Both entries of the next sale are put into the queue.
LEMMA WholeQueued ==
  ASSUME NEW c, NEW r, NEW conf, NEW gone, NEW n \in Nat, Whole(c, r, conf, gone, n),
         NEW m \in Sales, m = n + 1, NEW d, NEW w,
         w = Append(Append(c.queue, Event("pumped", m)), Event("totalized", m)),
         d = [c EXCEPT !.queue = w]
  PROVE  Whole(d, r, conf, gone, n + 1)
<1>1. c \in CubeType /\ c.queue \in Seq(Entry) /\ Paired(c.queue) /\ Distinct(c.queue)
  BY DEF Whole, CubeType
<1>2. ~(m <= n) /\ n + 1 \in {n, n + 1} /\ m <= n + 1 /\ "queued" \in Spots
  BY DEF Spots
<1>3. Placed(c, r, conf, gone, n)  BY DEF Whole
<1>4. (\A x \in Spots : ~At(x, m, c, r, conf, gone)) /\ ~Holds(c.queue, Event("totalized", m))
  BY <1>2, <1>3 DEF Placed
<1>5. /\ ~At("queued", m, c, r, conf, gone) /\ ~At("posted", m, c, r, conf, gone)
      /\ ~At("stored", m, c, r, conf, gone) /\ ~At("confirmed", m, c, r, conf, gone)
      /\ ~At("lost", m, c, r, conf, gone)
  BY <1>4 DEF Spots
<1>6. /\ ~Holds(c.queue, Event("pumped", m)) /\ ~Holds(r.list, m) /\ m \notin conf /\ m \notin gone
      /\ ~(c.phase # "idle" /\ c.cur = Event("pumped", m))
  BY <1>5 DEF At
<1>7. /\ w \in Seq(Entry) /\ Paired(w) /\ Distinct(w)
      /\ \A e : Holds(w, e) <=> \/ Holds(c.queue, e)
                                \/ e = Event("pumped", m) \/ e = Event("totalized", m)
  <2>1. PICK q \in Seq(Entry) : q = c.queue  BY <1>1
  <2>2. /\ Paired(q) /\ Distinct(q)
        /\ w = Append(Append(q, Event("pumped", m)), Event("totalized", m))
        /\ ~Holds(q, Event("pumped", m)) /\ ~Holds(q, Event("totalized", m))
    BY <1>1, <1>4, <1>6, <2>1
  <2>3. /\ w \in Seq(Entry) /\ Paired(w) /\ Distinct(w)
        /\ \A e : Holds(w, e) <=> \/ Holds(q, e)
                                  \/ e = Event("pumped", m) \/ e = Event("totalized", m)
    BY ONLY ZenonT(60), q \in Seq(Entry), m \in Sales, <2>2, PairAppended
  <2> QED  BY <2>1, <2>3
<1>8. /\ d \in CubeType /\ d.state = c.state /\ d.phase = c.phase /\ d.cur = c.cur
      /\ d.json = c.json /\ d.queue = w
  BY <1>1, <1>7 DEF CubeType
<1>9. /\ \A s \in Sales \ {m} : Event("pumped", s) # Event("pumped", m)
      /\ \A s \in Sales : Event("pumped", s) # Event("totalized", m)
      /\ \A s \in Sales \ {m} : Event("totalized", s) # Event("totalized", m)
      /\ \A s \in Sales : Event("totalized", s) # Event("pumped", m)
  BY DEF Event
<1>10. \A x \in Spots : At(x, m, d, r, conf, gone) <=> x = "queued"
  <2>1. Holds(d.queue, Event("pumped", m))  BY <1>7, <1>8
  <2> QED  BY <1>6, <1>8, <2>1 DEF At
<1>11. \A s \in Sales \ {m} : \A x \in Spots :
         At(x, s, d, r, conf, gone) <=> At(x, s, c, r, conf, gone)
  <2>1. \A s \in Sales \ {m} :
          Holds(d.queue, Event("pumped", s)) <=> Holds(c.queue, Event("pumped", s))
    BY <1>7, <1>8, <1>9
  <2> QED  BY <1>8, <2>1 DEF At
<1>12. \A s \in Sales \ {m} :
         Holds(d.queue, Event("totalized", s)) => Holds(c.queue, Event("totalized", s))
  BY <1>7, <1>8, <1>9
<1>13. ASSUME NEW s \in Sales
       PROVE  IF s <= n + 1 THEN OnePlace(s, d, r, conf, gone)
              ELSE /\ \A x \in Spots : ~At(x, s, d, r, conf, gone)
                   /\ ~Holds(d.queue, Event("totalized", s))
  <2>1. CASE s = m  BY <1>2, <1>10, <2>1 DEF OnePlace
  <2>2. CASE s # m /\ s <= n + 1
    <3>1. s <= n /\ s \in Int  BY <2>2 DEF Sales
    <3>2. OnePlace(s, c, r, conf, gone)  BY <1>3, <3>1 DEF Placed
    <3>3. \A x \in Spots : At(x, s, d, r, conf, gone) <=> At(x, s, c, r, conf, gone)
      BY <1>11, <2>2
    <3> QED  BY ONLY <3>2, <3>3, <2>2 DEF OnePlace
  <2>3. CASE s # m /\ ~(s <= n + 1)
    <3>1. ~(s <= n)  BY <2>3 DEF Sales
    <3>2. (\A x \in Spots : ~At(x, s, c, r, conf, gone)) /\ ~Holds(c.queue, Event("totalized", s))
      BY <1>3, <3>1 DEF Placed
    <3> QED  BY <1>11, <1>12, <2>3, <3>2
  <2> QED  BY <2>1, <2>2, <2>3
<1>14. Posting(d, r)  BY <1>8 DEF Whole, Posting
<1> QED  BY <1>7, <1>8, <1>13, <1>14 DEF Whole, Placed

\* No session is a session.
LEMMA NoLinkIsLink == NoLink \in LinkType
  BY DEF NoLink, NoEvent, Event, LinkType, Posted

-----------------------------------------------------------------------------
(* Initially.                                                              *)

\* Nothing is queued, posted or timed at first.
LEMMA InitHolds == ASSUME Init PROVE IInv
<1>1. /\ sales = 0 /\ confirmed = {} /\ lost = {} /\ link = NoLink
      /\ retx = [ready |-> FALSE, list |-> <<>>, busy |-> FALSE, failed |-> FALSE]
  BY DEF Init, CubeInit
<1>2. cube = [state |-> "wait", step |-> "1", phase |-> "idle", cur |-> NoEvent,
             json |-> NoEvent, want |-> {}, queue |-> <<>>, arm |-> FALSE,
             config |-> FALSE, ip |-> FALSE, joined |-> FALSE, hb |-> TRUE,
             idle |-> TRUE, internet |-> FALSE]
  BY DEF Init, CubeInit
<1>3. NoEvent \in Posted  BY DEF NoEvent, Event, Posted
<1>4. cube \in CubeType /\ retx \in RetxType  BY <1>1, <1>2, <1>3 DEF CubeType, RetxType
<1>5. cube.queue = <<>> /\ retx.list = <<>>  BY <1>1, <1>2
<1>6. Paired(cube.queue) /\ Distinct(cube.queue) /\ Distinct(retx.list)
  BY <1>5 DEF Paired, Distinct
<1>7. \A e : ~Holds(cube.queue, e) /\ ~Holds(retx.list, e)  BY <1>5 DEF Holds
<1>8. cube.phase = "idle" /\ cube.state = "wait" /\ ~cube.arm /\ cube.cur = NoEvent  BY <1>2
<1>9. Placed(cube, retx, confirmed, lost, sales)
  <2>1. \A s \in Sales : ~(s <= sales)  BY <1>1 DEF Sales
  <2> QED  BY <1>1, <1>7, <1>8, <2>1 DEF Placed, At
<1>10. Posting(cube, retx)  BY <1>8 DEF Posting
<1>11. Whole(cube, retx, confirmed, lost, sales)
  BY <1>1, <1>4, <1>6, <1>9, <1>10 DEF Whole
<1>12. Linked  BY <1>1, <1>8, NoLinkIsLink DEF Linked, Linkable, NoLink
<1>13. TimerTypes  BY CubeAssumption DEF Init, TimerInit, TimerTypes
<1>14. GoesOn  BY <1>8 DEF GoesOn, BusyAt
<1>15. Untimed  BY CubeAssumption DEF Init, TimerInit, Untimed
<1> QED  BY <1>1, <1>8, <1>11, <1>12, <1>13, <1>14, <1>15, CubeAssumption DEF IInv

-----------------------------------------------------------------------------
(* What a handler sends.                                                   *)

\* A step in which the handlers make d of the module's state, with the session at l.
LEMMA Handled ==
  ASSUME IInv, NEW d, NEW l, Does(d, l), Linkable(d, l), sales' \in 0..LastSale,
         Whole(d, retx', confirmed', lost', sales'), alarms' \in [{"cube"} -> Nat],
         d.phase = "idle" /\ BusyAt(d) =>
           d.arm \/ (cube.phase = "idle" /\ BusyAt(cube) /\ alarms' = alarms),
         d.state = "wait" => ~d.arm /\ cube.state = "wait" /\ alarms' = alarms
  PROVE  IInv'
<1>1. d \in CubeType  BY DEF Whole
<1>2. PICK c : c = [d EXCEPT !.arm = FALSE]  OBVIOUS
<1>3. cube' = c  BY <1>2 DEF Does
<1>4. /\ c \in CubeType /\ c.state = d.state /\ c.phase = d.phase /\ c.cur = d.cur
      /\ c.json = d.json /\ c.queue = d.queue /\ c.want = d.want /\ c.hb = d.hb /\ ~c.arm
  BY <1>1, <1>2 DEF CubeType
<1>5. Whole(c, retx', confirmed', lost', sales')  BY <1>4, WholeSame DEF Whole
<1>6. Whole(cube, retx, confirmed, lost, sales)'  BY <1>3, <1>5
<1>7. link' = IF d.phase = "starting" /\ l.stage = "none"
              THEN [NoLink EXCEPT !.stage = "asked"] ELSE l
  BY DEF Does
<1>8. Linked'
  <2>1. CASE d.phase = "starting" /\ l.stage = "none"
    <3>1. link' = [NoLink EXCEPT !.stage = "asked"]  BY <1>7, <2>1
    <3>2. link' \in LinkType /\ link'.stage = "asked"  BY <3>1, NoLinkIsLink DEF LinkType
    <3> QED  BY <1>3, <1>4, <2>1, <3>2 DEF Linked, Linkable
  <2>2. CASE ~(d.phase = "starting" /\ l.stage = "none")
    <3>1. link' = l  BY <1>7, <2>2
    <3> QED  BY <1>3, <1>4, <2>2, <3>1 DEF Linked, Linkable
  <2> QED  BY <2>1, <2>2
<1>9. slots' = slots /\ tick' = tick  BY DEF Does
<1>10. requests \in Seq({StartOfCube})  BY DEF IInv, TimerTypes
<1>11. CASE d.arm
  <2>1. \/ requests' = Append(requests, StartOfCube)
        \/ requests' = requests /\ missed' = missed \cup {StartOfCube.from}
    BY <1>11 DEF Does, Ask, StartOfCube, TimerStart
  <2>2. requests' \in Seq({StartOfCube}) /\ (requests' # <<>> \/ "cube" \in missed')
    <3>1. CASE requests' = Append(requests, StartOfCube)  BY <1>10, <3>1
    <3>2. CASE requests' = requests /\ missed' = missed \cup {StartOfCube.from}
      BY <1>10, <3>2 DEF StartOfCube, TimerStart
    <3> QED  BY <2>1, <3>1, <3>2
  <2>3. TimerTypes'  BY <1>9, <2>2 DEF IInv, TimerTypes
  <2>4. GoesOn'  BY <2>2 DEF GoesOn, Covered
  <2>5. Untimed'  BY <1>3, <1>4, <1>11 DEF Untimed
  <2> QED  BY <1>3, <1>4, <1>6, <1>8, <2>3, <2>4, <2>5 DEF IInv
<1>12. CASE ~d.arm
  <2>1. requests' = requests /\ missed' = missed  BY <1>12 DEF Does
  <2>2. TimerTypes'  BY <1>9, <2>1 DEF IInv, TimerTypes
  <2>3. BusyAt(c) <=> BusyAt(d)  BY <1>4 DEF BusyAt
  <2>4. ASSUME cube'.phase = "idle", BusyAt(c)  PROVE Covered'
    <3>1. cube.phase = "idle" /\ BusyAt(cube) /\ alarms' = alarms
      BY <1>3, <1>4, <1>12, <2>3, <2>4
    <3>2. Covered  BY <3>1 DEF IInv, GoesOn
    <3> QED  BY <1>9, <2>1, <3>1, <3>2 DEF Covered, Armed, Alarm
  <2>5. GoesOn'  BY <1>3, <2>4 DEF GoesOn, BusyAt
  <2>6. Untimed'  BY <1>3, <1>4, <1>9, <2>1 DEF Untimed, IInv
  <2> QED  BY <1>3, <1>4, <1>6, <1>8, <2>2, <2>5, <2>6 DEF IInv
<1> QED  BY <1>11, <1>12

\* _start_next_event does not disturb what the session is at.
LEMMA LinkableStartsNext ==
  ASSUME NEW c \in CubeType, NEW l, Linkable(c, l), NEW d, d = StartsNext(c)
  PROVE  Linkable(d, l)
<1>1. \/ d.phase = c.phase /\ d.cur = c.cur
      \/ c.phase = "idle" /\ d.phase = "starting"
  BY StartsNextFacts
<1> QED  BY <1>1 DEF Linkable

\* A handler that ends with _start_next_event.
LEMMA HandledNext ==
  ASSUME IInv, NEW c, NEW l, Does(StartsNext(c), l), Linkable(c, l), c.state = "running",
         sales' \in 0..LastSale, Whole(c, retx', confirmed', lost', sales'),
         alarms' \in [{"cube"} -> Nat]
  PROVE  IInv'
<1>1. PICK d : d = StartsNext(c)  OBVIOUS
<1>2. c \in CubeType  BY DEF Whole
<1>3. d.state = "running" /\ (d.phase = "idle" /\ BusyAt(d) => d.arm)
  BY <1>1, <1>2, StartsNextFacts
<1>4. Linkable(d, l)  BY <1>1, <1>2, LinkableStartsNext
<1>5. Whole(d, retx', confirmed', lost', sales')  BY <1>1, WholeStartsNext
<1>6. Does(d, l)  BY <1>1
<1> QED  BY <1>3, <1>4, <1>5, <1>6, Handled

\* A handler that ends with _retx_try_send_one.
LEMMA HandledTry ==
  ASSUME IInv, NEW c, NEW r, NEW l, NEW rest, TrySend(c, r, l, rest),
         sales' \in 0..LastSale, Whole(c, r, confirmed', lost, sales'), Linkable(c, l),
         \/ rest = c /\ ~c.arm /\ c.state = cube.state
            /\ (c.phase = "idle" /\ BusyAt(c) => cube.phase = "idle" /\ BusyAt(cube))
         \/ rest = StartsNext(c) /\ c.state = "running",
         alarms' = alarms
  PROVE  IInv'
<1>1. c \in CubeType /\ r \in RetxType /\ alarms' \in [{"cube"} -> Nat]
  BY DEF Whole, IInv, TimerTypes
<1>2. ASSUME Does(rest, l), Whole(c, retx', confirmed', lost', sales')  PROVE IInv'
  <2>1. CASE rest = StartsNext(c) /\ c.state = "running"  BY <1>1, <1>2, <2>1, HandledNext
  <2>2. CASE rest = c /\ ~c.arm /\ c.state = cube.state
             /\ (c.phase = "idle" /\ BusyAt(c) => cube.phase = "idle" /\ BusyAt(cube))
    BY <1>1, <1>2, <2>2, Handled
  <2> QED  BY <2>1, <2>2
<1>3. CASE ~MaySend(c, r)
  <2>1. Does(rest, l)
        /\ retx' = r /\ lost' = lost  BY <1>3 DEF TrySend
  <2> QED  BY <1>2, <2>1
<1>4. CASE MaySend(c, r) /\ Head(r.list) \in Unconfigured
  <2>1. Does(rest, l)
        /\ retx' = [r EXCEPT !.list = Tail(r.list)] /\ lost' = lost \cup {Head(r.list)}
    BY <1>4 DEF TrySend
  <2>2. c.phase = "idle" /\ r.list # <<>>  BY <1>4 DEF MaySend
  <2>3. r.list \in Seq(Sales)  BY <1>1 DEF RetxType
  <2>4. PICK w \in Seq(Sales) : w = Tail(r.list)  BY <2>2, <2>3, TailFacts
  <2>5. retx' \in RetxType /\ retx'.list = w  BY <1>1, <2>1, <2>4 DEF RetxType
  <2>6. Whole(c, retx', confirmed', lost', sales')
    <3>1. PICK n \in Nat : n = sales'  OBVIOUS
    <3>2. PICK f : f = confirmed'  OBVIOUS
    <3>3. PICK g : g = lost  OBVIOUS
    <3>4. PICK g2 : g2 = lost'  OBVIOUS
    <3>5. PICK r2 \in RetxType : r2 = retx'  BY <2>5
    <3>6. Whole(c, r, f, g, n) /\ g2 = g \cup {Head(r.list)} /\ r2.list = Tail(r.list)
      BY <2>1, <2>4, <2>5, <3>1, <3>2, <3>3, <3>4, <3>5
    <3>7. Whole(c, r2, f, g2, n)
      BY ONLY n \in Nat, r2 \in RetxType, <2>2, <3>6, WholeDrops
    <3> QED  BY <3>1, <3>2, <3>4, <3>5, <3>7
  <2> QED  BY <1>2, <2>1, <2>6
<1>5. CASE MaySend(c, r) /\ Head(r.list) \notin Unconfigured
  <2>1. PICK d : d = Posts(c, Event("retx", Head(r.list)))  OBVIOUS
  <2>2. Does(d, l) /\ retx' = [r EXCEPT !.busy = TRUE] /\ lost' = lost
    BY <1>5, <2>1 DEF TrySend
  <2>3. c.state = "running" /\ c.phase = "idle" /\ r.list # <<>>  BY <1>5 DEF MaySend
  <2>4. Whole(d, retx', confirmed', lost', sales') /\ d.phase = "starting" /\ d.state = "running"
    BY <2>1, <2>2, <2>3, WholePosts
  <2>5. Linkable(d, l)  BY <2>3, <2>4 DEF Linkable
  <2> QED  BY <1>1, <2>2, <2>4, <2>5, Handled
<1> QED  BY <1>3, <1>4, <1>5

\* A step that changes no more than the list, the lost sales and fields of cube that say
\* nothing of posts.
LEMMA Aside ==
  ASSUME IInv, UNCHANGED <<link, timerVars>>, sales' \in 0..LastSale,
         Whole(cube', retx', confirmed', lost', sales'), ~cube'.arm,
         cube'.state = cube.state, cube'.phase = cube.phase, cube'.cur = cube.cur,
         BusyAt(cube') = BusyAt(cube)
  PROVE  IInv'
<1>1. Whole(cube, retx, confirmed, lost, sales)'  OBVIOUS
<1>2. Linked'  BY DEF IInv, Linked, Linkable
<1>3. TimerTypes' /\ Covered' = Covered  BY DEF IInv, TimerTypes, timerVars, Covered, Armed, Alarm
<1>4. GoesOn'
  <2>1. GoesOn' = (cube'.phase = "idle" /\ BusyAt(cube') => Covered')  BY DEF GoesOn, BusyAt
  <2> QED  BY <1>3, <2>1 DEF IInv, GoesOn
<1>5. Untimed'  BY DEF IInv, Untimed, timerVars
<1> QED  BY <1>1, <1>2, <1>3, <1>4, <1>5 DEF IInv

-----------------------------------------------------------------------------
(* The handlers of notifications.                                          *)

\* What the steps of the module start from.
LEMMA Now ==
  ASSUME IInv
  PROVE  /\ cube \in CubeType /\ retx \in RetxType /\ ~cube.arm /\ Linkable(cube, link)
         /\ Whole(cube, retx, confirmed, lost, sales) /\ sales \in Nat /\ sales \in 0..LastSale
         /\ alarms \in [{"cube"} -> Nat] /\ LastSale \in Nat
  BY CubeAssumption DEF IInv, Whole, Linked, TimerTypes

\* A sale ends: both its events are queued, or the sale is lost with a trace.
LEMMA SellsStep ==
  ASSUME IInv, Sells
  PROVE  IInv'
<1>1. sales < LastSale /\ sales' = sales + 1 /\ Pumped(sales + 1) /\ confirmed' = confirmed
  BY DEF Sells
<1>2. PICK m \in Sales : m = sales + 1  BY <1>1, Now DEF Sales
<1>3. sales' \in 0..LastSale /\ alarms' = alarms  BY <1>1, Now DEF Pumped, Quiet
<1>4. CASE cube.state = "running" /\ m \notin Unconfigured /\ Room
  <2>1. PICK w : w = Append(Append(cube.queue, Event("pumped", m)), Event("totalized", m))
    OBVIOUS
  <2>2. cube.queue \in Seq(Entry)  BY Now DEF CubeType
  <2>3. Queued(Queued(cube.queue, Event("pumped", m)), Event("totalized", m)) = w
    <3>1. Len(cube.queue) + 2 <= QueueSize /\ Len(cube.queue) \in Nat  BY <1>4, <2>2 DEF Room
    <3>2. PICK e \in Entry : e = Event("pumped", m)  BY DEF Entry, Event
    <3>3. Queued(cube.queue, e) = Append(cube.queue, e)
      BY <3>1, CubeAssumption DEF Queued
    <3>4. Len(Append(cube.queue, e)) = Len(cube.queue) + 1  BY <2>2, AppendFacts
    <3> QED  BY <2>1, <3>1, <3>2, <3>3, <3>4, CubeAssumption DEF Queued
  <2>4. PICK c : c = [cube EXCEPT !.queue = w]  OBVIOUS
  <2>5. c = [cube EXCEPT !.queue = Queued(Queued(@, Event("pumped", m)), Event("totalized", m))]
    BY <2>3, <2>4, Now DEF CubeType
  <2>6. Does(StartsNext(c), link) /\ retx' = retx /\ lost' = lost
    BY <1>1, <1>2, <1>4, <2>5 DEF Pumped
  <2>7. Whole(c, retx, confirmed, lost, sales + 1)
    <3>1. PICK n \in Nat : n = sales  BY Now
    <3>2. PICK q : q = cube  OBVIOUS
    <3>3. Whole(q, retx, confirmed, lost, n) /\ c = [q EXCEPT !.queue = w] /\ m = n + 1
      BY <1>2, <2>4, <3>1, <3>2, Now
    <3>4. w = Append(Append(q.queue, Event("pumped", m)), Event("totalized", m))  BY <2>1, <3>2
    <3>5. Whole(c, retx, confirmed, lost, n + 1)  BY <3>3, <3>4, WholeQueued
    <3> QED  BY <3>1, <3>5
  <2>8. c.state = "running" /\ c.phase = cube.phase /\ c.cur = cube.cur
    BY <1>4, <2>4, Now DEF CubeType
  <2>9. Linkable(c, link)  BY <2>8, Now DEF Linkable
  <2> QED  BY <1>1, <1>3, <2>6, <2>7, <2>8, <2>9, Now, HandledNext
<1>5. CASE ~(cube.state = "running" /\ m \notin Unconfigured /\ Room)
  <2>1. Store(m) /\ UNCHANGED <<cube, link, timerVars>>
    BY <1>1, <1>2, <1>3, <1>5 DEF Pumped, timerVars
  <2>2. \/ retx' = [retx EXCEPT !.list = Append(@, m)] /\ lost' = lost
        \/ lost' = lost \cup {m} /\ retx' = retx
    BY <2>1 DEF Store
  <2>3. Whole(cube, retx', confirmed, lost', sales + 1)
    <3>1. PICK n \in Nat : n = sales  BY Now
    <3>2. PICK r : r = retx  OBVIOUS
    <3>3. PICK g : g = lost  OBVIOUS
    <3>4. Whole(cube, r, confirmed, g, n) /\ m = n + 1  BY <1>2, <3>1, <3>2, <3>3, Now
    <3>5. \/ retx' = [r EXCEPT !.list = Append(@, m)] /\ lost' = g
          \/ lost' = g \cup {m} /\ retx' = r
      BY <2>2, <3>2, <3>3
    <3>6. Whole(cube, retx', confirmed, lost', n + 1)  BY <3>4, <3>5, WholeStores
    <3> QED  BY <3>1, <3>6
  <2>4. Whole(cube', retx', confirmed', lost', sales')  BY <1>1, <2>1, <2>3
  <2> QED  BY <1>3, <2>1, <2>4, Now, Aside
<1> QED  BY <1>4, <1>5

\* A nozzle is lifted or a receipt printed: one more event is wanted.
LEMMA WantedStep ==
  ASSUME IInv, NEW kind \in Wishes, Wanted(kind), UNCHANGED <<sales, confirmed>>
  PROVE  IInv'
<1>1. PICK w \in SUBSET Wishes : w = cube.want \cup {kind}  BY Now DEF CubeType
<1>2. PICK c : c = [cube EXCEPT !.want = w]  OBVIOUS
<1>3. c = [cube EXCEPT !.want = @ \cup {kind}]  BY <1>1, <1>2, Now DEF CubeType
<1>4. /\ cube.state = "running" /\ Does(StartsNext(c), link)
      /\ alarms' = alarms /\ retx' = retx /\ lost' = lost
  BY <1>3 DEF Wanted, Quiet
<1>5. /\ c \in CubeType /\ c.state = "running" /\ c.phase = cube.phase /\ c.cur = cube.cur
      /\ c.json = cube.json /\ c.queue = cube.queue
  BY <1>1, <1>2, <1>4, Now DEF CubeType
<1>6. Whole(c, retx, confirmed, lost, sales)  BY <1>4, <1>5, Now, WholeSame
<1>7. Linkable(c, link)  BY <1>5, Now DEF Linkable
<1> QED  BY <1>4, <1>5, <1>6, <1>7, Now, HandledNext

\* _start_registration and the other steps of it, in a state in which nothing is posted.
LEMMA WholeRegisters ==
  ASSUME NEW c, NEW r, NEW conf, NEW gone, NEW n \in Nat, Whole(c, r, conf, gone, n),
         c.state # "running", c.config, NEW step \in {"1", "2", "3"},
         NEW d, d = Registers(c, step)
  PROVE  /\ Whole(d, r, conf, gone, n)
         /\ d.phase = "starting" /\ d.state = "registering" /\ d.arm = c.arm
<1>1. c \in CubeType /\ c.cur = NoEvent  BY DEF Whole, Posting
<1>2. d = [c EXCEPT !.state = "registering", !.step = step, !.phase = "starting"]
  BY <1>1 DEF Registers, Starts, CubeType
<1>3. /\ d \in CubeType /\ d.state = "registering" /\ d.phase = "starting" /\ d.cur = c.cur
      /\ d.queue = c.queue /\ d.arm = c.arm
  BY ZenonT(60), <1>1, <1>2 DEF CubeType
<1>4. \A s \in Sales : d.cur # Event("pumped", s)  BY <1>1, <1>3 DEF Event, NoEvent
<1>5. \A s \in Sales : \A x \in Spots : At(x, s, d, r, conf, gone) <=> At(x, s, c, r, conf, gone)
  BY <1>3, <1>4 DEF At
<1>6. Placed(d, r, conf, gone, n)  BY <1>3, <1>5, PlacedSame DEF Whole
<1>7. Posting(d, r)  BY <1>1, <1>3 DEF Posting, NoEvent, Event
<1> QED  BY <1>3, <1>6, <1>7 DEF Whole

\* The configuration comes: the first registration may begin.
LEMMA ConfiguredStep ==
  ASSUME IInv, Configured
  PROVE  IInv'
<1>1. PICK hb \in BOOLEAN : CloudConfigured(hb)  BY DEF Configured
<1>2. PICK c : c = [cube EXCEPT !.config = TRUE, !.hb = hb]  OBVIOUS
<1>3. /\ Does(IF c.ip /\ c.state = "wait" THEN Registers(c, "1") ELSE c, link)
      /\ alarms' = alarms /\ retx' = retx /\ lost' = lost
      /\ sales' = sales /\ confirmed' = confirmed
  BY <1>1, <1>2 DEF CloudConfigured, Quiet, Configured, worldVars
<1>4. cube.state = "wait"  BY Now DEF Configured, CubeType
<1>5. cube.phase = "idle"  BY <1>4, Now DEF Whole, Posting
<1>6. /\ c \in CubeType /\ c.state = "wait" /\ c.phase = cube.phase /\ c.cur = cube.cur
      /\ c.json = cube.json /\ c.queue = cube.queue /\ ~c.arm /\ c.config
  BY <1>2, <1>4, <1>5, Now DEF CubeType
<1>7. Whole(c, retx, confirmed, lost, sales)  BY <1>4, <1>6, Now, WholeSame
<1>8. CASE c.ip
  <2>1. PICK d : d = Registers(c, "1")  OBVIOUS
  <2>2. Does(d, link)  BY <1>3, <1>6, <1>8, <2>1
  <2>3. Whole(d, retx, confirmed, lost, sales) /\ d.phase = "starting" /\ d.state = "registering"
    BY <1>6, <1>7, <2>1, Now, WholeRegisters
  <2>4. Linkable(d, link)  BY <1>5, <2>3, Now DEF Linkable
  <2> QED  BY <1>3, <2>2, <2>3, <2>4, Now, Handled
<1>9. CASE ~c.ip
  <2>1. Does(c, link)  BY <1>3, <1>9
  <2>2. Linkable(c, link)  BY <1>6, Now DEF Linkable
  <2>3. ~BusyAt(c)  BY <1>6 DEF BusyAt
  <2> QED  BY <1>3, <1>4, <1>6, <1>7, <2>1, <2>2, <2>3, Now, Handled
<1> QED  BY <1>8, <1>9

\* The device joins a network.
LEMMA GotIpStep ==
  ASSUME IInv, GotIp, UNCHANGED <<sales, confirmed>>
  PROVE  IInv'
<1>1. PICK w \in SUBSET Wishes :
        w = IF cube.joined /\ cube.state = "running"
            THEN cube.want \cup {"reconnect"} ELSE cube.want
  BY Now DEF CubeType, Wishes
<1>2. PICK c : c = [cube EXCEPT !.want = w, !.joined = TRUE, !.ip = TRUE]  OBVIOUS
<1>3. c = [cube EXCEPT !.want = IF cube.joined /\ cube.state = "running"
                                THEN @ \cup {"reconnect"} ELSE @, !.joined = TRUE, !.ip = TRUE]
  BY <1>1, <1>2, Now DEF CubeType
<1>4. /\ Does(IF c.config /\ c.state = "wait" THEN Registers(c, "1") ELSE c, link)
      /\ alarms' = alarms /\ retx' = retx /\ lost' = lost
  BY <1>3 DEF GotIp, Quiet
<1>5. /\ c \in CubeType /\ c.state = cube.state /\ c.phase = cube.phase /\ c.cur = cube.cur
      /\ c.json = cube.json /\ c.queue = cube.queue /\ ~c.arm /\ c.hb = cube.hb /\ c.want = w
  BY ZenonT(60), <1>1, <1>2, Now DEF CubeType
<1>6. Whole(c, retx, confirmed, lost, sales)  BY <1>5, Now, WholeSame
<1>7. CASE c.config /\ c.state = "wait"
  <2>1. PICK d : d = Registers(c, "1")  OBVIOUS
  <2>2. Does(d, link)  BY <1>4, <1>7, <2>1
  <2>3. Whole(d, retx, confirmed, lost, sales) /\ d.phase = "starting" /\ d.state = "registering"
    BY <1>6, <1>7, <2>1, Now, WholeRegisters
  <2>4. cube.phase = "idle"  BY <1>5, <1>7, Now DEF Whole, Posting
  <2>5. Linkable(d, link)  BY <2>3, <2>4, Now DEF Linkable
  <2> QED  BY <1>4, <2>2, <2>3, <2>5, Now, Handled
<1>8. CASE ~(c.config /\ c.state = "wait")
  <2>1. Does(c, link)  BY <1>4, <1>8
  <2>2. Linkable(c, link)  BY <1>5, Now DEF Linkable
  <2>3. BusyAt(c) <=> BusyAt(cube)  BY <1>1, <1>5 DEF BusyAt
  <2> QED  BY <1>4, <1>5, <1>6, <2>1, <2>2, <2>3, Now, Handled
<1> QED  BY <1>7, <1>8

\* Internet, the idleness of the system and the SD card change.
LEMMA SurroundingsStep ==
  ASSUME IInv, Surroundings
  PROVE  IInv'
<1>1. sales' = sales /\ confirmed' = confirmed  BY DEF Surroundings, worldVars
<1>2. CASE InternetChanges
  <2>1. /\ cube' = [cube EXCEPT !.internet = ~cube.internet]
        /\ UNCHANGED <<link, timerVars>> /\ retx' = retx /\ lost' = lost
    BY <1>2 DEF InternetChanges, Quiet, timerVars
  <2>2. PICK c : c = [cube EXCEPT !.internet = ~cube.internet]  OBVIOUS
  <2>3. /\ c \in CubeType /\ c.state = cube.state /\ c.phase = cube.phase /\ c.cur = cube.cur
        /\ c.json = cube.json /\ c.queue = cube.queue /\ ~c.arm /\ c.hb = cube.hb
        /\ c.want = cube.want
    BY <2>2, Now DEF CubeType
  <2>4. Whole(c, retx, confirmed, lost, sales)  BY <2>3, Now, WholeSame
  <2>5. BusyAt(c) = BusyAt(cube)  BY <2>3 DEF BusyAt
  <2>6. cube' = c  BY <2>1, <2>2
  <2> QED  BY <1>1, <2>1, <2>3, <2>4, <2>5, <2>6, Now, Aside
<1>3. CASE StatusChanges
  <2>1. PICK c : c = [cube EXCEPT !.idle = ~cube.idle]  OBVIOUS
  <2>2. TrySend(c, retx, link, c) /\ alarms' = alarms  BY <1>3, <2>1 DEF StatusChanges, Quiet
  <2>3. /\ c \in CubeType /\ c.state = cube.state /\ c.phase = cube.phase /\ c.cur = cube.cur
        /\ c.json = cube.json /\ c.queue = cube.queue /\ ~c.arm /\ c.hb = cube.hb
        /\ c.want = cube.want
    BY <2>1, Now DEF CubeType
  <2>4. Whole(c, retx, confirmed, lost, sales)  BY <2>3, Now, WholeSame
  <2>5. BusyAt(c) <=> BusyAt(cube)  BY <2>3 DEF BusyAt
  <2>6. Linkable(c, link)  BY <2>3, Now DEF Linkable
  <2> QED  BY <1>1, <2>2, <2>3, <2>4, <2>5, <2>6, Now, HandledTry
<1>4. CASE SdReady
  <2>1. /\ retx' = [retx EXCEPT !.ready = TRUE]
        /\ UNCHANGED <<link, timerVars>> /\ cube' = cube /\ lost' = lost
    BY <1>4 DEF SdReady, Quiet, timerVars
  <2>2. retx' \in RetxType /\ retx'.list = retx.list  BY <2>1, Now DEF RetxType
  <2>3. Whole(cube, retx', confirmed, lost, sales)  BY <2>2, Now, WholeSame
  <2> QED  BY <1>1, <2>1, <2>3, Now, Aside
<1> QED  BY <1>2, <1>3, <1>4 DEF Surroundings

\* The minute ticks, or the module handles an alarm.
LEMMA ClockStep ==
  ASSUME IInv, Clock
  PROVE  IInv'
<1>1. sales' = sales /\ confirmed' = confirmed  BY DEF Clock, worldVars
<1>2. CASE MinuteTick
  <2>1. PICK r : r = [retx EXCEPT !.failed = FALSE]  OBVIOUS
  <2>2. TrySend(cube, r, link, cube) /\ alarms' = alarms  BY <1>2, <2>1 DEF MinuteTick, Quiet
  <2>3. r \in RetxType /\ r.list = retx.list  BY <2>1, Now DEF RetxType
  <2>4. Whole(cube, r, confirmed, lost, sales)  BY <2>3, Now, WholeSame
  <2> QED  BY <1>1, <2>2, <2>4, Now, HandledTry
<1>3. CASE OnAlarm
  <2>1. /\ alarms["cube"] > 0 /\ alarms' = [alarms EXCEPT !["cube"] = @ - 1]
        /\ retx' = retx /\ lost' = lost
    BY <1>3 DEF OnAlarm
  <2>2. alarms' \in [{"cube"} -> Nat]  BY <2>1, Now
  <2>3. cube.state # "wait"  BY <2>1, Now DEF IInv, Untimed
  <2>4. CASE cube.state = "running"
    <3>1. PICK w \in SUBSET Wishes : w = cube.want \cup {"heartbeat"}  BY Now DEF CubeType, Wishes
    <3>2. PICK c : c = [cube EXCEPT !.want = w]  OBVIOUS
    <3>3. c = [cube EXCEPT !.want = @ \cup {"heartbeat"}]  BY <3>1, <3>2, Now DEF CubeType
    <3>4. Does(StartsNext(c), link)  BY <1>3, <2>4, <3>3 DEF OnAlarm
    <3>5. /\ c \in CubeType /\ c.state = cube.state /\ c.phase = cube.phase /\ c.cur = cube.cur
          /\ c.json = cube.json /\ c.queue = cube.queue
      BY <3>1, <3>2, Now DEF CubeType
    <3>6. Whole(c, retx, confirmed, lost, sales)  BY <3>5, Now, WholeSame
    <3>7. Linkable(c, link)  BY <3>5, Now DEF Linkable
    <3> QED  BY <1>1, <2>1, <2>2, <2>4, <3>4, <3>5, <3>6, <3>7, Now, HandledNext
  <2>5. CASE cube.state # "running" /\ cube.phase = "idle"
    <3>1. PICK step \in {"1", "2", "3"} : step = IF cube.step = "wait" THEN "2" ELSE "1"
      OBVIOUS
    <3>2. PICK d : d = Registers(cube, step)  OBVIOUS
    <3>3. Does(d, link)  BY <1>3, <2>5, <3>1, <3>2 DEF OnAlarm
    <3>4. cube.config  BY <2>3, Now DEF CubeType
    <3>5. Whole(d, retx, confirmed, lost, sales) /\ d.phase = "starting" /\ d.state = "registering"
      BY <2>5, <3>2, <3>4, Now, WholeRegisters
    <3>6. Linkable(d, link)  BY <2>5, <3>5, Now DEF Linkable
    <3> QED  BY <1>1, <2>1, <2>2, <3>3, <3>5, <3>6, Now, Handled
  <2>6. CASE cube.state # "running" /\ cube.phase # "idle"
    <3>1. Does(cube, link)  BY <1>3, <2>6 DEF OnAlarm
    <3> QED  BY <1>1, <2>1, <2>2, <2>3, <2>6, <3>1, Now, Handled
  <2> QED  BY <2>4, <2>5, <2>6
<1> QED  BY <1>2, <1>3 DEF Clock

-----------------------------------------------------------------------------
(* The HTTP module and the handlers of its answers.                        *)

\* The session goes on without the module.
LEMMA SessionStep ==
  ASSUME IInv, Opens \/ Executes
  PROVE  IInv'
<1>1. /\ \E stage \in {"open", "refused", "ok", "failed"} : link' = [link EXCEPT !.stage = stage]
      /\ UNCHANGED <<timerVars, cube, retx, lost, sales, confirmed>>
  BY DEF Opens, Executes, Reaches, worldVars
<1>2. Whole(cube, retx, confirmed, lost, sales)'  BY <1>1, Now
<1>3. TimerTypes'  BY <1>1 DEF TimerTypes, timerVars, IInv
<1>4. GoesOn' /\ Untimed'  BY <1>1 DEF GoesOn, Untimed, timerVars, IInv, BusyAt, Covered, Armed, Alarm
<1>5. Linked'
  <2>1. CASE Opens
    <3>1. link.stage = "asked" /\ link' \in LinkType /\ link'.stage \in {"open", "refused"}
      <4>1. \/ link' = [link EXCEPT !.stage = "open"] \/ link' = [link EXCEPT !.stage = "refused"]
        BY <2>1 DEF Opens, Reaches
      <4>2. link.stage = "asked"  BY <2>1 DEF Opens
      <4>3. link \in LinkType  BY Now DEF Linkable
      <4> QED  BY <4>1, <4>2, <4>3 DEF LinkType
    <3> QED  BY <1>1, <3>1 DEF IInv, Linked, Linkable
  <2>2. CASE Executes
    <3>1. link.stage = "sent" /\ link' \in LinkType /\ link'.stage \in {"ok", "failed"}
          /\ link'.job = link.job
      <4>1. \/ link' = [link EXCEPT !.stage = "ok"] \/ link' = [link EXCEPT !.stage = "failed"]
        BY <2>2 DEF Executes, Reaches
      <4>2. link.stage = "sent"  BY <2>2 DEF Executes
      <4>3. link \in LinkType  BY Now DEF Linkable
      <4> QED  BY <4>1, <4>2, <4>3 DEF LinkType
    <3> QED  BY <1>1, <3>1 DEF IInv, Linked, Linkable
  <2> QED  BY <2>1, <2>2
<1> QED  BY <1>1, <1>2, <1>3, <1>4, <1>5 DEF IInv

\* What the module is at when an answer comes.
LEMMA Waits ==
  ASSUME IInv
  PROVE  /\ link.stage \in {"refused", "open"} => cube.phase = "starting"
         /\ link.stage \in {"ok", "failed"} => cube.phase = "executing" /\ link.job = cube.cur
         /\ cube.phase # "idle" => cube.state # "wait"
         /\ cube.phase \in {"idle", "starting", "executing"}
<1>1. cube.phase \in {"idle", "starting", "executing"}  BY Now DEF CubeType
<1>2. cube.phase # "idle" => cube.state # "wait"  BY Now DEF Whole, Posting
<1> QED  BY <1>1, <1>2 DEF IInv, Linked, Linkable

\* The HTTP module refuses the session.
LEMMA StartBusyStep ==
  ASSUME IInv, StartBusy, UNCHANGED <<sales, confirmed>>
  PROVE  IInv'
<1>1. /\ link.stage = "refused" /\ Does(Refused(cube), NoLink)
      /\ lost' = (IF cube.cur.kind = "pumped" THEN lost \cup {cube.cur.sale} ELSE lost)
      /\ alarms' = alarms /\ retx' = retx
  BY DEF StartBusy, Quiet
<1>2. cube.phase = "starting" /\ cube.state # "wait"  BY <1>1, Waits
<1>3. PICK d : d = [cube EXCEPT !.phase = "idle", !.arm = TRUE]  OBVIOUS
<1>4. d = Refused(cube)  BY <1>3, Now DEF Refused, Arms, CubeType
<1>5. /\ d \in CubeType /\ d.state = cube.state /\ d.phase = "idle" /\ d.cur = cube.cur
      /\ d.queue = cube.queue /\ d.arm
  BY <1>3, Now DEF CubeType
<1>6. Whole(d, retx, confirmed, lost', sales)  BY <1>1, <1>2, <1>5, Now, WholeFreed
<1>7. Linkable(d, NoLink)  BY <1>5, NoLinkIsLink DEF Linkable, NoLink
<1>8. Does(d, NoLink)  BY <1>1, <1>4
<1> QED  BY <1>1, <1>2, <1>5, <1>6, <1>7, <1>8, Now, Handled

\* The session is open and the request is sent.
LEMMA StartOpenStep ==
  ASSUME IInv, StartOpen, UNCHANGED <<sales, confirmed>>
  PROVE  IInv'
<1>1. PICK l : l = [stage |-> "sent", job |-> IF cube.state = "running" THEN cube.json ELSE NoEvent]
  OBVIOUS
<1>2. PICK d : d = [cube EXCEPT !.phase = "executing"]  OBVIOUS
<1>3. /\ link.stage = "open" /\ Does(d, l) /\ alarms' = alarms /\ retx' = retx /\ lost' = lost
  BY <1>1, <1>2 DEF StartOpen, Quiet
<1>4. cube.phase = "starting" /\ cube.state # "wait"  BY <1>3, Waits
<1>5. /\ d \in CubeType /\ d.state = cube.state /\ d.phase = "executing" /\ d.cur = cube.cur
      /\ d.json = cube.json /\ d.queue = cube.queue
  BY <1>2, <1>4, Now DEF CubeType
<1>6. \A s \in Sales : \A x \in Spots :
        At(x, s, d, retx, confirmed, lost) <=> At(x, s, cube, retx, confirmed, lost)
  BY <1>4, <1>5 DEF At
<1>7. Placed(d, retx, confirmed, lost, sales)  BY <1>5, <1>6, Now, PlacedSame DEF Whole
<1>8. Posting(d, retx)  BY <1>4, <1>5, Now DEF Whole, Posting
<1>9. Whole(d, retx, confirmed, lost, sales)  BY <1>5, <1>7, <1>8, Now DEF Whole
<1>10. l.job = d.cur  BY <1>1, <1>4, <1>5, Now DEF Whole, Posting
<1>11. l \in LinkType  BY <1>1, Now DEF CubeType, LinkType, NoEvent, Event, Posted
<1>12. Linkable(d, l)  BY <1>1, <1>5, <1>10, <1>11 DEF Linkable
<1> QED  BY <1>3, <1>4, <1>5, <1>9, <1>12, Now, Handled

\* The result of one step of the registration.
LEMMA RegResultStep ==
  ASSUME IInv, NEW ok \in BOOLEAN, link.stage \in {"ok", "failed"}, RegResult(ok),
         UNCHANGED <<sales, confirmed>>
  PROVE  IInv'
<1>1. PICK c : c = [cube EXCEPT !.phase = "idle"]  OBVIOUS
<1>2. /\ cube.state = "registering" /\ Does(IF ok THEN Registered(c) ELSE Fails(c), NoLink)
      /\ alarms' = alarms /\ retx' = retx /\ lost' = lost
  BY <1>1 DEF RegResult, Quiet
<1>3. cube.phase = "executing" /\ cube.cur = NoEvent /\ cube.step # "wait" /\ cube.config
  <2>1. cube.phase = "executing"  BY Waits
  <2> QED  BY <1>2, <2>1, Now DEF Whole, Posting, CubeType
<1>4. /\ c \in CubeType /\ c.state = "registering" /\ c.phase = "idle" /\ c.cur = NoEvent
      /\ c.queue = cube.queue /\ c.step = cube.step /\ c.config /\ c.json = cube.json
      /\ ~c.arm
  BY <1>1, <1>2, <1>3, Now DEF CubeType
<1>5. cube.cur.kind # "pumped"  BY <1>3 DEF NoEvent, Event
<1>6. Whole(c, retx, confirmed, lost, sales)
  BY <1>2, <1>3, <1>4, <1>5, Now, WholeFreed
<1>7. \A d \in CubeType : d.phase \in {"idle", "starting"} => Linkable(d, NoLink)
  BY NoLinkIsLink DEF Linkable, NoLink
<1>8. ASSUME NEW d \in CubeType, d.state = "registering", d.phase = "idle", d.cur = c.cur,
             d.json = c.json, d.queue = c.queue, d.arm, Does(d, NoLink)
      PROVE  IInv'
  <2>1. Whole(d, retx, confirmed, lost, sales)  BY <1>4, <1>6, <1>8, Now, WholeSame
  <2> QED  BY <1>2, <1>7, <1>8, <2>1, Now, Handled
<1>9. CASE ~ok
  <2>1. PICK d : d = [c EXCEPT !.arm = TRUE]  OBVIOUS
  <2>2. d = Fails(c)  BY <2>1 DEF Fails, Arms
  <2>3. /\ d \in CubeType /\ d.state = "registering" /\ d.phase = "idle" /\ d.cur = c.cur
        /\ d.json = c.json /\ d.queue = c.queue /\ d.arm
    BY <1>4, <2>1 DEF CubeType
  <2>4. Does(d, NoLink)  BY <1>2, <1>9, <2>2
  <2> QED  BY <1>8, <2>3, <2>4
<1>10. CASE ok /\ c.step = "1"
  <2>1. PICK d : d = [c EXCEPT !.step = "wait", !.arm = TRUE]  OBVIOUS
  <2>2. d = Registered(c)  BY <1>4, <1>10, <2>1 DEF Registered, Arms, CubeType
  <2>3. /\ d \in CubeType /\ d.state = "registering" /\ d.phase = "idle" /\ d.cur = c.cur
        /\ d.json = c.json /\ d.queue = c.queue /\ d.arm
    BY <1>4, <2>1 DEF CubeType
  <2>4. Does(d, NoLink)  BY <1>2, <1>10, <2>2
  <2> QED  BY <1>8, <2>3, <2>4
<1>11. CASE ok /\ c.step = "2"
  <2>1. PICK d : d = Registers(c, "3")  OBVIOUS
  <2>2. d = Registered(c)  BY <1>11, <2>1 DEF Registered
  <2>3. Does(d, NoLink)  BY <1>2, <1>11, <2>2
  <2>4. Whole(d, retx, confirmed, lost, sales) /\ d.phase = "starting" /\ d.state = "registering"
    BY <1>4, <1>6, <2>1, Now, WholeRegisters
  <2>5. Linkable(d, NoLink)  BY <2>4, NoLinkIsLink DEF Linkable, NoLink
  <2> QED  BY <1>2, <2>3, <2>4, <2>5, Now, Handled
<1>12. CASE ok /\ c.step = "3"
  <2>1. PICK d : d = [c EXCEPT !.state = "running", !.want = {"startup"}]  OBVIOUS
  <2>2. Does(StartsNext(d), NoLink)  BY <1>2, <1>12, <2>1 DEF Registered
  <2>3. /\ d \in CubeType /\ d.state = "running" /\ d.phase = "idle" /\ d.cur = c.cur
        /\ d.queue = c.queue
    BY <1>4, <2>1 DEF CubeType, Wishes
  <2>4. \A s \in Sales : \A x \in Spots :
          At(x, s, d, retx, confirmed, lost) <=> At(x, s, c, retx, confirmed, lost)
    BY <1>4, <2>3 DEF At
  <2>5. Placed(d, retx, confirmed, lost, sales)  BY <1>6, <2>3, <2>4, PlacedSame DEF Whole
  <2>6. Posting(d, retx)  BY <2>3 DEF Posting
  <2>7. Whole(d, retx, confirmed, lost, sales)  BY <1>6, <2>3, <2>5, <2>6 DEF Whole
  <2>8. Linkable(d, NoLink)  BY <2>3, NoLinkIsLink DEF Linkable, NoLink
  <2> QED  BY <1>2, <2>2, <2>3, <2>7, <2>8, Now, HandledNext
<1> QED  BY <1>3, <1>4, <1>9, <1>10, <1>11, <1>12 DEF CubeType

\* What the cloud has confirmed when an answer is handled.
LEMMA Confirms ==
  ASSUME IInv, Answers
  PROVE  /\ sales' = sales
         /\ link.stage # "ok" => confirmed' = confirmed
         /\ link.stage = "ok" /\ cube.cur.kind \notin {"pumped", "retx"} => confirmed' = confirmed
         /\ link.stage = "ok" /\ cube.cur.kind \in {"pumped", "retx"} =>
              confirmed' = confirmed \cup {cube.cur.sale}
<1>1. sales' = sales  BY DEF Answers
<1>2. confirmed' = IF link.stage = "ok" /\ link.job.kind \in {"pumped", "retx"}
                   THEN confirmed \cup {link.job.sale} ELSE confirmed
  BY DEF Answers
<1>3. link.stage = "ok" => link.job = cube.cur  BY Waits
<1> QED  BY <1>1, <1>2, <1>3

\* The result of posting an event.
LEMMA EventResultStep ==
  ASSUME IInv, Answers, NEW ok \in BOOLEAN, link.stage \in {"ok", "failed"},
         ok <=> link.stage = "ok", EventResult(ok)
  PROVE  IInv'
<1>1. PICK c : c = [cube EXCEPT !.phase = "idle", !.cur = NoEvent]  OBVIOUS
<1>2. cube.state = "running" /\ alarms' = alarms  BY DEF EventResult, Quiet
<1>3. cube.phase = "executing"  BY Waits
<1>4. /\ c \in CubeType /\ c.state = "running" /\ c.phase = "idle" /\ c.cur = NoEvent
      /\ c.queue = cube.queue
  BY <1>1, <1>2, Now, NoLinkIsLink DEF CubeType, LinkType, NoLink
<1>5. Linkable(c, NoLink)  BY <1>4, NoLinkIsLink DEF Linkable, NoLink
<1>6. sales' = sales /\ sales \in Nat /\ sales' \in 0..LastSale  BY Confirms, Now
<1>7. alarms' \in [{"cube"} -> Nat]  BY <1>2, Now
<1>8. CASE cube.cur.kind = "retx" /\ ok
  <2>1. TrySend(c, AfterRetx(TRUE), NoLink, StartsNext(c))
    BY <1>1, <1>8 DEF EventResult
  <2>2. Whole(c, retx, confirmed, lost, sales)  BY <1>2, <1>3, <1>4, <1>8, Now, WholeFreed
  <2>3. retx.list # <<>> /\ Head(retx.list) = cube.cur.sale
    BY <1>3, <1>8, Now DEF Whole, Posting
  <2>4. retx.list \in Seq(Sales)  BY Now DEF RetxType
  <2>5. PICK w \in Seq(Sales) : w = Tail(retx.list)  BY <2>3, <2>4, TailFacts
  <2>6. PICK r : r = AfterRetx(TRUE)  OBVIOUS
  <2>7. r = [retx EXCEPT !.busy = FALSE, !.failed = retx.failed, !.list = w]
    BY <2>5, <2>6, Now DEF AfterRetx, RetxType
  <2>8. r \in RetxType /\ r.list = w  BY <2>5, <2>7, Now DEF RetxType
  <2>9. confirmed' = confirmed \cup {Head(retx.list)}  BY <1>8, <2>3, Confirms
  <2>10. Whole(c, r, confirmed', lost, sales)
    <3>1. PICK n \in Nat : n = sales  BY <1>6
    <3>2. PICK f : f = confirmed  OBVIOUS
    <3>3. PICK g : g = lost  OBVIOUS
    <3>4. PICK f2 : f2 = confirmed'  OBVIOUS
    <3>5. PICK s : s = retx  OBVIOUS
    <3>6. Whole(c, s, f, g, n) /\ s.list # <<>>  BY <2>2, <2>3, <3>1, <3>2, <3>3, <3>5
    <3>7. f2 = f \cup {Head(s.list)} /\ r.list = Tail(s.list)
      BY <2>5, <2>8, <2>9, <3>2, <3>4, <3>5
    <3>8. Whole(c, r, f2, g, n)
      BY ONLY n \in Nat, <1>4, <2>8, <3>6, <3>7, WholeDrops
    <3> QED  BY <3>1, <3>3, <3>4, <3>8
  <2> QED  BY <1>2, <1>4, <1>5, <1>6, <2>1, <2>6, <2>10, HandledTry
<1>9. CASE ~(cube.cur.kind = "retx" /\ ok)
  <2>1. /\ Does(StartsNext(c), NoLink)
        /\ retx' = (IF cube.cur.kind = "retx" THEN AfterRetx(ok) ELSE retx)
        /\ lost' = (IF cube.cur.kind = "pumped" /\ ~ok THEN lost \cup {cube.cur.sale} ELSE lost)
    BY <1>1, <1>9 DEF EventResult
  <2>2. retx' \in RetxType /\ retx'.list = retx.list
    <3>1. CASE cube.cur.kind # "retx"  BY <2>1, <3>1, Now
    <3>2. CASE cube.cur.kind = "retx" /\ ~ok
      <4>1. retx' = [retx EXCEPT !.busy = FALSE, !.failed = TRUE, !.list = retx.list]
        BY <2>1, <3>2, Now DEF AfterRetx, RetxType
      <4> QED  BY <4>1, Now DEF RetxType
    <3> QED  BY <1>9, <3>1, <3>2
  <2>3. IF cube.cur.kind = "pumped"
        THEN \/ confirmed' = confirmed \cup {cube.cur.sale} /\ lost' = lost
             \/ lost' = lost \cup {cube.cur.sale} /\ confirmed' = confirmed
        ELSE confirmed' = confirmed /\ lost' = lost
    BY <1>9, <2>1, Confirms
  <2>4. Whole(c, retx', confirmed', lost', sales)
    <3>1. PICK n \in Nat : n = sales  BY <1>6
    <3>2. PICK f : f = confirmed  OBVIOUS
    <3>3. PICK g : g = lost  OBVIOUS
    <3>4. PICK f2 : f2 = confirmed'  OBVIOUS
    <3>5. PICK g2 : g2 = lost'  OBVIOUS
    <3>6. PICK r2 \in RetxType : r2 = retx'  BY <2>2
    <3>7. PICK b : b = cube  OBVIOUS
    <3>8. PICK s : s = retx  OBVIOUS
    <3>9. /\ Whole(b, s, f, g, n) /\ b.phase # "idle" /\ c.state = b.state /\ c.queue = b.queue
          /\ c.cur \in {b.cur, NoEvent} /\ r2.list = s.list
      BY <1>2, <1>3, <1>4, <2>2, <3>1, <3>2, <3>3, <3>6, <3>7, <3>8, Now
    <3>10. IF b.cur.kind = "pumped"
           THEN \/ f2 = f \cup {b.cur.sale} /\ g2 = g
                \/ g2 = g \cup {b.cur.sale} /\ f2 = f
           ELSE f2 = f /\ g2 = g
      BY <2>3, <3>2, <3>3, <3>4, <3>5, <3>7
    <3>11. Whole(c, r2, f2, g2, n)
      BY ONLY n \in Nat, r2 \in RetxType, <1>4, <3>9, <3>10, WholeFreed
    <3> QED  BY <3>1, <3>4, <3>5, <3>6, <3>11
  <2> QED  BY <1>4, <1>5, <1>6, <1>7, <2>1, <2>4, HandledNext
<1> QED  BY <1>8, <1>9

\* Every answer of the HTTP module.
LEMMA AnswersStep ==
  ASSUME IInv, Answers
  PROVE  IInv'
<1>1. StartBusy \/ StartOpen \/ OnResult  BY DEF Answers, HttpAnswers
<1>2. CASE StartBusy
  <2>1. confirmed' = confirmed /\ sales' = sales  BY <1>2, Confirms DEF StartBusy
  <2> QED  BY <1>2, <2>1, StartBusyStep
<1>3. CASE StartOpen
  <2>1. confirmed' = confirmed /\ sales' = sales  BY <1>3, Confirms DEF StartOpen
  <2> QED  BY <1>3, <2>1, StartOpenStep
<1>4. CASE OnResult
  <2>1. PICK ok \in BOOLEAN : ok <=> link.stage = "ok"  OBVIOUS
  <2>2. link.stage \in {"ok", "failed"}  BY <1>4 DEF OnResult
  <2>3. RegResult(ok) \/ EventResult(ok)
    <3>1. ok = (link.stage = "ok")  BY <2>1
    <3> QED  BY <1>4, <3>1 DEF OnResult
  <2>4. CASE RegResult(ok)
    <3>1. cube.phase = "executing" /\ cube.state = "registering"  BY <2>2, <2>4, Waits DEF RegResult
    <3>2. cube.cur = NoEvent  BY <3>1, Now DEF Whole, Posting
    <3>3. cube.cur.kind \notin {"pumped", "retx"}  BY <3>2 DEF NoEvent, Event
    <3>4. confirmed' = confirmed /\ sales' = sales  BY <3>3, Confirms
    <3> QED  BY <2>2, <2>4, <3>4, RegResultStep
  <2>5. CASE EventResult(ok)  BY <2>1, <2>2, <2>5, EventResultStep
  <2> QED  BY <2>3, <2>4, <2>5
<1> QED  BY <1>1, <1>2, <1>3, <1>4

-----------------------------------------------------------------------------
(* The timer service.                                                      *)

\* What a step of the timer service leaves to be shown.
LEMMA TimerAside ==
  ASSUME IInv, UNCHANGED <<cubeVars, worldVars>>, TimerTypes', Covered => Covered',
         cube.state # "wait"
  PROVE  IInv'
<1>1. UNCHANGED <<cube, retx, link, lost, sales, confirmed>>  BY DEF cubeVars, worldVars
<1>2. Whole(cube, retx, confirmed, lost, sales)' /\ ~cube'.arm /\ sales' \in 0..LastSale
  BY <1>1, Now
<1>3. Linked'  BY <1>1 DEF IInv, Linked, Linkable
<1>4. GoesOn'  BY <1>1 DEF IInv, GoesOn, BusyAt
<1>5. Untimed'  BY <1>1 DEF Untimed
<1> QED  BY <1>2, <1>3, <1>4, <1>5 DEF IInv

\* The alarms of a tick: at most one slot is in use.
LEMMA TickSnapshotStep ==
  ASSUME IInv, TickSnapshot, UNCHANGED <<cubeVars, worldVars>>
  PROVE  IInv'
<1>1. PICK i \in DueSlots : TRUE  BY DEF TickSnapshot
<1>2. i \in 1..SlotCount /\ slots[i] # None  BY <1>1 DEF DueSlots, Active
<1>3. TimerTypes  BY DEF IInv
<1>4. slots[i] \in Slot  BY <1>2, <1>3 DEF TimerTypes
<1>5. DueSlots = {i}  BY <1>1, <1>2, <1>3 DEF DueSlots, Active, TimerTypes
<1>6. Cardinality(DueSlots) = 1  BY <1>5, FS_Singleton
<1>7. Cardinality({m \in DueSlots : m < i}) = 0
  <2>1. {m \in DueSlots : m < i} = {}  BY <1>2, <1>5
  <2> QED  BY <2>1, FS_EmptySet
<1>8. (CHOOSE j \in DueSlots : Cardinality({m \in DueSlots : m < j}) = 1 - 1) = i
  BY <1>5, <1>7
<1>9. tick' = [pending |-> [k \in 1..1 |->
                LET j == CHOOSE j \in DueSlots : Cardinality({m \in DueSlots : m < j}) = k - 1
                IN [dest |-> slots[j].source, slot |-> j]],
              sent |-> FALSE]
  BY <1>6 DEF TickSnapshot
<1>10. PICK a : a = [dest |-> slots[i].source, slot |-> i]  OBVIOUS
<1>11. a \in [dest : {"cube"}, slot : 1..SlotCount]  BY <1>2, <1>4, <1>10 DEF Slot
<1>12. tick'.pending = [k \in 1..1 |-> a] /\ tick'.sent = FALSE
       /\ tick' = [pending |-> [k \in 1..1 |-> a], sent |-> FALSE]
  <2>1. \A k \in 1..1 : k = 1  OBVIOUS
  <2>2. [k \in 1..1 |->
                LET j == CHOOSE j \in DueSlots : Cardinality({m \in DueSlots : m < j}) = k - 1
                IN [dest |-> slots[j].source, slot |-> j]] = [k \in 1..1 |-> a]
    BY <1>8, <1>10, <2>1
  <2> QED  BY <1>9, <2>2
<1>13. [k \in 1..1 |-> a] \in Seq([dest : {"cube"}, slot : 1..SlotCount])  BY <1>11
<1>14. slots' = slots
  <2>1. \A j \in 1..SlotCount : j \in DueSlots => ~slots[j].repeats
    BY <1>4, <1>5 DEF Slot
  <2>2. slots' = [j \in 1..SlotCount |-> slots[j]]  BY <2>1 DEF TickSnapshot
  <2> QED  BY <1>3, <2>2 DEF TimerTypes
<1>15. requests' = requests /\ alarms' = alarms /\ missed' = missed  BY DEF TickSnapshot
<1>16. TimerTypes'  BY <1>3, <1>12, <1>13, <1>14, <1>15 DEF TimerTypes
<1>17. Covered => Covered'  BY <1>2, <1>12, <1>14, <1>15 DEF Covered, Armed
<1>18. cube.state # "wait"  BY <1>2 DEF IInv, Untimed
<1> QED  BY <1>16, <1>17, <1>18, TimerAside

\* The callback sends an alarm.
LEMMA TickSendsStep ==
  ASSUME IInv, TickSends, UNCHANGED <<cubeVars, worldVars>>
  PROVE  IInv'
<1>1. TimerTypes  BY DEF IInv
<1>2. tick.pending # <<>> /\ tick.pending \in Seq([dest : {"cube"}, slot : 1..SlotCount])
  BY <1>1 DEF TickSends, Sending, TimerTypes
<1>3. Alarm \in [dest : {"cube"}, slot : 1..SlotCount]  BY <1>2, TailFacts DEF Alarm
<1>4. Alarm.dest = "cube"  BY <1>3
<1>5. alarms' = [alarms EXCEPT !["cube"] = @ + 1]  BY <1>4 DEF TickSends
<1>6. alarms' \in [{"cube"} -> Nat] /\ alarms'["cube"] > 0  BY <1>1, <1>5 DEF TimerTypes
<1>7. tick' = [tick EXCEPT !.sent = TRUE] /\ slots' = slots /\ requests' = requests
  BY DEF TickSends
<1>8. TimerTypes'
  <2>1. tick' \in [pending : Seq([dest : {"cube"}, slot : 1..SlotCount]), sent : BOOLEAN]
        /\ tick'.pending = tick.pending
    BY <1>1, <1>7 DEF TimerTypes
  <2> QED  BY <1>1, <1>2, <1>6, <1>7, <2>1 DEF TimerTypes
<1>9. cube.state # "wait"  BY <1>2 DEF IInv, Untimed
<1> QED  BY <1>6, <1>8, <1>9, TimerAside DEF Covered

\* The callback releases the slot of the alarm it has sent.
LEMMA TickClearsStep ==
  ASSUME IInv, TickClears, UNCHANGED <<cubeVars, worldVars>>
  PROVE  IInv'
<1>1. TimerTypes /\ tick.sent /\ tick.pending # <<>>  BY DEF IInv, TickClears, TimerTypes
<1>2. tick.pending \in Seq([dest : {"cube"}, slot : 1..SlotCount])  BY <1>1 DEF TimerTypes
<1>3. PICK w \in Seq([dest : {"cube"}, slot : 1..SlotCount]) : w = Tail(tick.pending)
  BY <1>1, <1>2, TailFacts
<1>4. /\ tick' = [pending |-> w, sent |-> FALSE] /\ requests' = requests /\ alarms' = alarms
      /\ missed' = missed
  BY <1>3 DEF TickClears
<1>5. /\ slots' \in [1..SlotCount -> Slot \cup {None}]
      /\ \A i \in 1..SlotCount : slots'[i] # None => slots[i] # None
      /\ \A i \in 1..SlotCount : i # Alarm.slot => slots'[i] = slots[i]
  <2>1. CASE Clears(slots[Alarm.slot])
    <3>1. slots' = [slots EXCEPT ![Alarm.slot] = None]  BY <2>1 DEF TickClears
    <3> QED  BY <1>1, <3>1 DEF TimerTypes
  <2>2. CASE ~Clears(slots[Alarm.slot])
    <3>1. slots' = slots  BY <2>2 DEF TickClears
    <3> QED  BY <1>1, <3>1 DEF TimerTypes
  <2> QED  BY <2>1, <2>2
<1>6. TimerTypes'  BY <1>1, <1>4, <1>5 DEF TimerTypes
<1>7. Covered => Covered'  BY <1>1, <1>4, <1>5 DEF Covered, Armed
<1>8. cube.state # "wait"  BY <1>1 DEF IInv, Untimed
<1> QED  BY <1>6, <1>7, <1>8, TimerAside

\* An alarm that cannot be sent: its slot stays due.
LEMMA CannotSendStep ==
  ASSUME IInv, TickCannotSend, UNCHANGED <<cubeVars, worldVars>>
  PROVE  IInv'
<1>1. TimerTypes /\ tick.pending # <<>> /\ ~tick.sent  BY DEF IInv, TickCannotSend, Sending
<1>2. tick.pending \in Seq([dest : {"cube"}, slot : 1..SlotCount])  BY <1>1 DEF TimerTypes
<1>3. PICK w \in Seq([dest : {"cube"}, slot : 1..SlotCount]) : w = Tail(tick.pending)
  BY <1>1, <1>2, TailFacts
<1>4. tick' = [tick EXCEPT !.pending = w]  BY <1>1, <1>3 DEF TickCannotSend, TimerTypes
<1>5. requests' = requests /\ alarms' = alarms /\ slots' = slots /\ missed' = missed
  BY DEF TickCannotSend, Unsent
<1>6. TimerTypes' /\ tick'.sent = tick.sent  BY <1>1, <1>4, <1>5 DEF TimerTypes
<1>7. Covered => Covered'  BY <1>1, <1>5, <1>6 DEF Covered, Armed
<1>8. cube.state # "wait"  BY <1>1 DEF IInv, Untimed
<1> QED  BY <1>6, <1>7, <1>8, TimerAside

\* The time of a slot comes.
LEMMA ExpiresStep ==
  ASSUME IInv, NEW i \in 1..SlotCount, Expires(i), UNCHANGED <<cubeVars, worldVars>>
  PROVE  IInv'
<1>1. TimerTypes /\ slots[i] # None  BY DEF IInv, Expires, Active
<1>2. slots[i] \in Slot  BY <1>1 DEF TimerTypes
<1>3. PICK s \in Slot : s = [slots[i] EXCEPT !.due = TRUE]  BY <1>2 DEF Slot
<1>4. /\ slots' = [slots EXCEPT ![i] = s] /\ requests' = requests /\ tick' = tick
      /\ alarms' = alarms /\ missed' = missed
  BY <1>1, <1>3 DEF Expires, TimerTypes
<1>5. s # None  BY <1>3, TimerAssumption, CubeAssumption DEF Slot
<1>6. \A j \in 1..SlotCount : slots'[j] # None <=> slots[j] # None
  BY <1>1, <1>4, <1>5 DEF TimerTypes
<1>7. TimerTypes'  BY <1>1, <1>4, <1>6 DEF TimerTypes
<1>8. Covered => Covered'  BY <1>4, <1>6 DEF Covered, Armed, Alarm
<1>9. cube.state # "wait"  BY <1>1 DEF IInv, Untimed
<1> QED  BY <1>7, <1>8, <1>9, TimerAside

\* A forced start finds the slot of the module, or any slot, free.  If the callback is about
\* to release that slot, the request came to nothing.
LEMMA StartHandledStep ==
  ASSUME IInv, StartHandled, UNCHANGED <<cubeVars, worldVars>>
  PROVE  IInv'
<1>1. TimerTypes /\ requests # <<>> /\ requests \in Seq({StartOfCube})
  BY DEF IInv, StartHandled, Requested, TimerTypes
<1>2. PICK w \in Seq({StartOfCube}) : w = Tail(requests)  BY <1>1, TailFacts
<1>3. Request = StartOfCube  BY <1>1, TailFacts DEF Request
<1>4. Request.from = "cube" /\ Request.forced = TRUE /\ Request.repeats = FALSE
  BY <1>3 DEF StartOfCube, TimerStart
<1>5. Restarted = [i \in 1..SlotCount |-> None]
  <2>1. \A i \in 1..SlotCount : i \in SlotsOf("cube") \/ slots[i] = None
    BY <1>1 DEF SlotsOf, Active, TimerTypes, Slot
  <2>2. \A i \in 1..SlotCount : (IF i \in SlotsOf("cube") THEN None ELSE slots[i]) = None
    BY <2>1
  <2> QED  BY <1>4, <2>2 DEF Restarted, Released
<1>6. {i \in 1..SlotCount : Restarted[i] = None} = 1..SlotCount  BY <1>5
<1>7. 1..SlotCount # {} /\ 1 \in 1..SlotCount
  <2>1. SlotCount \in Nat /\ SlotCount # 0  BY TimerAssumption
  <2>2. 1 \in 1..SlotCount  BY <2>1
  <2> QED  BY <2>2
<1>8. PICK s \in Slot : s = [source |-> "cube", repeats |-> FALSE, due |-> FALSE]  BY DEF Slot
<1>9. slots' = [Restarted EXCEPT ![First(1..SlotCount)] = s]
  BY <1>4, <1>6, <1>7, <1>8 DEF StartHandled
<1>10. First(1..SlotCount) = 1
  <2>1. \A j \in 1..SlotCount : 1 <= j  OBVIOUS
  <2>2. \A i \in 1..SlotCount : (\A j \in 1..SlotCount : i <= j) => i = 1  BY <1>7, TimerAssumption
  <2> QED  BY <1>7, <2>1, <2>2 DEF First
<1>11. s # None  BY <1>8, TimerAssumption, CubeAssumption DEF Slot
<1>12. /\ slots' \in [1..SlotCount -> Slot \cup {None}] /\ slots'[1] # None
       /\ \A i \in 1..SlotCount : i # 1 => slots'[i] = None
  BY <1>5, <1>7, <1>9, <1>10, <1>11
<1>13. requests' = w /\ tick' = tick /\ alarms' = alarms  BY <1>2 DEF StartHandled
<1>14. TimerTypes'  BY <1>1, <1>2, <1>12, <1>13 DEF TimerTypes
<1>15. Covered'
  <2>1. CASE tick.sent /\ Alarm.slot = 1
    <3>1. Alarm \in [dest : {"cube"}, slot : 1..SlotCount]
      BY <1>1, <2>1, TailFacts DEF TimerTypes, Alarm
    <3>2. slots'[1] \in Slot
      <4>1. \A i \in 1..SlotCount : slots'[i] \in Slot \cup {None}  BY <1>12
      <4> QED  BY <1>7, <1>12, <4>1
    <3>3. Clears(slots'[Alarm.slot])  BY <1>12, <2>1, <3>1, <3>2 DEF Clears, Slot
    <3>4. missed' = missed \cup {"cube"}  BY <1>4, <2>1, <3>1, <3>3 DEF StartHandled
    <3> QED  BY <3>4 DEF Covered
  <2>2. CASE ~(tick.sent /\ Alarm.slot = 1)
    BY <1>7, <1>12, <1>13, <2>2 DEF Covered, Armed, Alarm
  <2> QED  BY <2>1, <2>2
<1>16. cube.state # "wait"  BY <1>1 DEF IInv, Untimed
<1> QED  BY <1>14, <1>15, <1>16, TimerAside

-----------------------------------------------------------------------------
(* The theorems.                                                           *)

\* Every step keeps the invariant.
LEMMA IInvKept == ASSUME IInv, [Next]_vars PROVE IInv'
<1>1. CASE UNCHANGED vars
  <2>1. UNCHANGED <<cube, retx, link, lost, sales, confirmed, slots, requests, tick, alarms,
               missed>>
    BY <1>1 DEF vars, timerVars, cubeVars, worldVars
  <2> QED  BY <2>1 DEF IInv, Linked, Linkable, TimerTypes, GoesOn, BusyAt, Covered,
                    Armed, Alarm, Untimed
<1>2. CASE Sells  BY <1>2, SellsStep
<1>3. CASE Other
  <2>1. sales' = sales /\ confirmed' = confirmed  BY <1>3 DEF Other
  <2>2. "pump_start" \in Wishes /\ "print_ok" \in Wishes  BY DEF Wishes
  <2> QED  BY <1>3, <2>1, <2>2, WantedStep, GotIpStep DEF Other
<1>4. CASE Configured  BY <1>4, ConfiguredStep
<1>5. CASE Joins  BY <1>5, GotIpStep DEF Joins, worldVars
<1>6. CASE Surroundings  BY <1>6, SurroundingsStep
<1>7. CASE Clock  BY <1>7, ClockStep
<1>8. CASE Opens \/ Executes  BY <1>8, SessionStep
<1>9. CASE Answers  BY <1>9, AnswersStep
<1>10. CASE Timer
  <2>1. UNCHANGED <<cubeVars, worldVars>>  BY <1>10 DEF Timer
  <2> QED  BY <1>10, <2>1, TickSnapshotStep, TickSendsStep, TickClearsStep, CannotSendStep,
              ExpiresStep,
              StartHandledStep DEF Timer, TimerTicks
<1> QED  BY <1>1, <1>2, <1>3, <1>4, <1>5, <1>6, <1>7, <1>8, <1>9, <1>10 DEF Next

\* The invariant holds in every state.
LEMMA AlwaysIInv == Spec => []IInv
<1> QED  BY InitHolds, IInvKept, PTL DEF Spec

\* module_cubesphere.cpp, retransmission and the queue of events: each of the sales so
\* far is in exactly one place: queued, posted, stored on the card, confirmed by the cloud
\* or lost with a trace.
THEOREM CubeSalesConserved == Spec => []SaleConserved
<1>1. IInv => SaleConserved
  <2> SUFFICES ASSUME IInv, NEW s \in 1..sales  PROVE Cardinality(Places(s)) = 1
    BY DEF SaleConserved
  <2>1. s \in Sales /\ s <= sales
    <3>1. sales \in Nat /\ sales <= LastSale /\ LastSale \in Nat  BY CubeAssumption DEF IInv
    <3>2. s \in Nat /\ 1 <= s /\ s <= sales  BY <3>1
    <3> QED  BY <3>1, <3>2 DEF Sales
  <2>2. OnePlace(s, cube, retx, confirmed, lost)  BY <2>1 DEF IInv, Whole, Placed
  <2>3. PICK p \in Spots : \A x \in Spots : At(x, s, cube, retx, confirmed, lost) <=> x = p
    BY <2>2 DEF OnePlace
  <2>4. \A x \in Spots : x \in Places(s) <=> At(x, s, cube, retx, confirmed, lost)
    <3>1. "queued" \in Places(s) <=> At("queued", s, cube, retx, confirmed, lost)
      BY DEF Places, At, Holds
    <3>2. "posted" \in Places(s) <=> At("posted", s, cube, retx, confirmed, lost)
      BY DEF Places, At
    <3>3. "stored" \in Places(s) <=> At("stored", s, cube, retx, confirmed, lost)
      BY DEF Places, At, Holds
    <3>4. "confirmed" \in Places(s) <=> At("confirmed", s, cube, retx, confirmed, lost)
      BY DEF Places, At
    <3>5. "lost" \in Places(s) <=> At("lost", s, cube, retx, confirmed, lost)
      BY DEF Places, At
    <3> QED  BY <3>1, <3>2, <3>3, <3>4, <3>5 DEF Spots
  <2>5. Places(s) \subseteq Spots  BY DEF Places, Spots
  <2>6. Places(s) = {p}  BY <2>3, <2>4, <2>5
  <2> QED  BY <2>6, FS_Singleton
<1> QED  BY <1>1, AlwaysIInv, PTL

\* _enqueue_pumped and _dequeue: the end of a sale and its totalizer are queued together,
\* so that the queue never holds one of them without the other next to it.
THEOREM CubeNoOrphans == Spec => []NoOrphans
<1>1. IInv => NoOrphans  BY DEF IInv, Whole, Paired, NoOrphans
<1> QED  BY <1>1, AlwaysIInv, PTL

\* module_cubesphere.cpp, the state machine and its timer: the module waits for an answer
\* of the HTTP module exactly when one is due, and when it waits for none while there is
\* something to do a timer runs, is asked for or has rung; unless the last request for one
\* came to nothing.
THEOREM CubeKeepsGoing == Spec => []CubeGoesOn
<1>1. IInv => CubeGoesOn
  <2> SUFFICES ASSUME IInv  PROVE CubeGoesOn
    OBVIOUS
  <2>1. cube.phase \in {"idle", "starting", "executing"}  BY DEF IInv, Whole, CubeType
  <2>2. /\ cube.phase = "idle" => link.stage = "none"
        /\ cube.phase = "starting" => link.stage \in {"asked", "open", "refused"}
        /\ cube.phase = "executing" =>
             link.stage \in {"sent", "ok", "failed"} /\ link.job = cube.cur
    BY DEF IInv, Linked, Linkable
  <2>3. ASSUME cube.phase = "idle", Busy
        PROVE  \/ alarms["cube"] > 0 \/ SlotsOf("cube") # {}
               \/ \E i \in DOMAIN requests : requests[i].id = "Start"
               \/ "cube" \in missed
    <3>1. Covered  BY <2>3 DEF IInv, GoesOn, BusyAt, Busy, HasWork
    <3>2. TimerTypes  BY DEF IInv
    <3>3. CASE alarms["cube"] > 0  BY <3>3
    <3>4. CASE Armed
      BY <3>2, <3>4 DEF Armed, TimerTypes, SlotsOf, Active, Slot
    <3>5. CASE requests # <<>>
      <4>1. requests \in Seq({StartOfCube}) /\ 1 \in DOMAIN requests
        BY <3>2, <3>5 DEF TimerTypes
      <4>2. requests[1] = StartOfCube  BY <4>1
      <4>3. requests[1].id = "Start"  BY <4>2 DEF StartOfCube, TimerStart
      <4> QED  BY <4>1, <4>3
    <3>6. CASE "cube" \in missed  BY <3>6
    <3> QED  BY <3>1, <3>3, <3>4, <3>5, <3>6 DEF Covered
  <2> QED  BY <2>1, <2>2, <2>3 DEF CubeGoesOn
<1> QED  BY <1>1, AlwaysIInv, PTL
=============================================================================
