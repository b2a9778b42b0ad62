--------------------------- MODULE HsysMsgProofs ---------------------------
(***************************************************************************)
(* The message bus for every number of tasks, threads, modules, headers    *)
(* and blocks, every subscription table and every length of the inboxes:   *)
(* the types, that ref_count counts the holders of a header, that no slot  *)
(* is used after it was freed, that payloads live as long as somebody may  *)
(* read them, and that every subscriber gets what was published: once, and *)
(* before the header goes.                                                 *)
(*                                                                         *)
(* The argument goes header by header.  While the call that created it has *)
(* not handed it over, nobody else refers to it.  A fan-out then counts    *)
(* one reference for each subscriber it has still to serve, and serves no  *)
(* task twice, so that an inbox holds a header at most once.  Every later  *)
(* step moves one reference: from the fan-out to an inbox, from there to   *)
(* the dispatch loop, from the loop to a release.                          *)
(*                                                                         *)
(* Delivery follows the same road.  A module is due a message while a call *)
(* has still to queue it for its task, while it waits in that inbox, and   *)
(* while the loop has not yet come to the module.  Whoever is owed a       *)
(* message is due it, and whoever got it is not.                           *)
(***************************************************************************)
EXTENDS HsysMsg, FiniteSetTheorems, SequenceTheorems, TLAPS

\* Subscribers of which no two share a task.
Spread(S) == S # {} /\ \A m, n \in S : m # n => ~SameTask(m, n)

\* One thread inside the bus, in the call c and the release r.
Within(c, r) ==
  /\ c.pc = "idle" => c = NoCall
  /\ c.pc # "idle" => c.msg \in Headers
  /\ c.pc \in FanOut \cup {"stamp"} => Spread(c.pending)
  /\ c.pc = "stamp" => Cardinality(c.pending) <= 255
  /\ r.pc = "none" => r = NoRel
  /\ r.pc # "none" => r.msg \in Headers

Threading == \A t \in Threads : Within(call[t], rel[t])

\* Each dispatch loop and its inbox.
Looping ==
  \A t \in Tasks :
    /\ disp[t].pc = "receive" => disp[t] = Waiting
    /\ disp[t].pc # "receive" => disp[t].msg \in Headers
    /\ disp[t].pc \in {"receive", "dispatch"} => call[t] = NoCall
    /\ disp[t].pc = "dispatch" => rel[t] = NoRel
    /\ \A i, j \in DOMAIN queue[t] : queue[t][i] = queue[t][j] => i = j

SubsBounded == \A id \in MsgIds : Cardinality(subs[id]) <= MaxSubscribers

\* One header: who refers to it, and what its ref_count says.
HeaderInv(h) ==
  /\ \A t, u \in Threads : call[t].msg = h /\ call[u].msg = h => t = u
  /\ RefCount(h) > 0 => h \in used /\ Freeing(h) = {} /\ hdr[h].ref = RefCount(h)
  /\ \A t, u \in Freeing(h) : h \in used /\ t = u
  /\ Calls(h) # {} => Inboxes(h) = {} /\ Dispatching(h) = {} /\ Releasing(h) = {}
  /\ \A t \in Threads : call[t].msg = h /\ call[t].pc \in FanOut =>
       /\ \A m \in call[t].pending : TaskOf(m) \notin Inboxes(h)
       /\ call[t].pc = "enqueue" => hdr[h].receiver \in call[t].pending

\* One header's payload.
PayloadInv(h) ==
  /\ hdr[h].payload # None =>
       /\ h \in used /\ hdr[h].payload \notin free
       /\ \A g \in Headers : hdr[g].payload = hdr[h].payload => g = h
  /\ RefCount(h) > 0 =>
       \/ /\ hdr[h].payload = None /\ hdr[h].id \in PayloadIds
          /\ \E t \in Threads : call[t].msg = h /\ call[t].pc = "payload"
       \/ /\ hdr[h].id \in PayloadIds <=> hdr[h].payload # None
          /\ \A t \in Threads : call[t].msg = h => call[t].pc # "payload"
  /\ \A t \in Threads : rel[t].msg = h /\ rel[t].pc = "payload" => hdr[h].payload # None

IInv == /\ TypeOK /\ Threading /\ Looping /\ SubsBounded
        /\ \A h \in Headers : HeaderInv(h) /\ PayloadInv(h)

-----------------------------------------------------------------------------
(* Counting the holders                                                    *)

\* RefCount in terms of the sets it counts.
Sum(C, P, I, D, R) ==
  Cardinality(C) + Cardinality(P) + Cardinality(I) + Cardinality(D) + Cardinality(R)

\* RefCount is the sum of the sizes of those sets.
LEMMA RefCountIs ==
  ASSUME NEW h
  PROVE  RefCount(h) = Sum(Calls(h), Pending(h), Inboxes(h), Dispatching(h), Releasing(h))
BY DEF RefCount, Sum

\* Sets of threads, tasks and modules can be counted.
LEMMA Countable ==
  /\ IsFiniteSet(Threads) /\ IsFiniteSet(Modules) /\ IsFiniteSet(Tasks)
  /\ \A S \in SUBSET Threads :
       IsFiniteSet(S) /\ Cardinality(S) \in Nat /\ (Cardinality(S) = 0 <=> S = {})
  /\ \A S \in SUBSET Modules :
       IsFiniteSet(S) /\ Cardinality(S) \in Nat /\ (Cardinality(S) = 0 <=> S = {})
  /\ \A S \in SUBSET Tasks :
       IsFiniteSet(S) /\ Cardinality(S) \in Nat /\ (Cardinality(S) = 0 <=> S = {})
<1>1. IsFiniteSet(Threads) /\ IsFiniteSet(Modules)  BY BusAssumption
<1>2. Tasks \in SUBSET Threads  BY DEF Threads
<1>3. IsFiniteSet(Tasks)  BY <1>1, <1>2, FS_Subset
<1>4. ASSUME NEW U, IsFiniteSet(U), NEW S \in SUBSET U
      PROVE  IsFiniteSet(S) /\ Cardinality(S) \in Nat /\ (Cardinality(S) = 0 <=> S = {})
  <2>1. IsFiniteSet(S)  BY <1>4, FS_Subset
  <2>2. Cardinality(S) \in Nat  BY <2>1, FS_CardinalityType
  <2>3. Cardinality(S) = 0 <=> S = {}  BY <2>1, FS_EmptySet
  <2> QED  BY <2>1, <2>2, <2>3
<1> QED  BY <1>1, <1>3, <1>4

\* There is a holder exactly when one of the sets has an element.
LEMMA SumFacts ==
  ASSUME NEW C \in SUBSET Threads, NEW P \in SUBSET Modules, NEW I \in SUBSET Tasks,
         NEW D \in SUBSET Tasks, NEW R \in SUBSET Threads
  PROVE  /\ Sum(C, P, I, D, R) \in Nat
         /\ Sum(C, P, I, D, R) > 0 <=> C # {} \/ P # {} \/ I # {} \/ D # {} \/ R # {}
<1>1. /\ Cardinality(C) \in Nat /\ (Cardinality(C) = 0 <=> C = {})
      /\ Cardinality(P) \in Nat /\ (Cardinality(P) = 0 <=> P = {})
      /\ Cardinality(I) \in Nat /\ (Cardinality(I) = 0 <=> I = {})
      /\ Cardinality(D) \in Nat /\ (Cardinality(D) = 0 <=> D = {})
      /\ Cardinality(R) \in Nat /\ (Cardinality(R) = 0 <=> R = {})
  BY Countable
<1> QED  BY <1>1 DEF Sum

\* One reference more, one less.
LEMMA OneMore ==
  ASSUME NEW S, IsFiniteSet(S), NEW x, x \notin S
  PROVE  Cardinality(S \cup {x}) = Cardinality(S) + 1
BY FS_AddElement

\* Taking an element out of a finite set makes it one smaller.
LEMMA OneLess ==
  ASSUME NEW S, IsFiniteSet(S), NEW x \in S
  PROVE  Cardinality(S \ {x}) = Cardinality(S) - 1
BY FS_RemoveElement

\* The sets RefCount counts are sets of threads, tasks and modules.
LEMMA HolderTypes ==
  ASSUME NEW h
  PROVE  /\ Calls(h) \in SUBSET Threads /\ Pending(h) \in SUBSET Modules
         /\ Inboxes(h) \in SUBSET Tasks /\ Dispatching(h) \in SUBSET Tasks
         /\ Releasing(h) \in SUBSET Threads /\ Freeing(h) \in SUBSET Threads
BY DEF Calls, Pending, Inboxes, Dispatching, Releasing, Freeing

\* A header is referred to exactly when one of the five sets is not empty.
LEMMA Holders ==
  ASSUME NEW h
  PROVE  /\ RefCount(h) \in Nat
         /\ RefCount(h) > 0 <=> \/ Calls(h) # {} \/ Pending(h) # {} \/ Inboxes(h) # {}
                                \/ Dispatching(h) # {} \/ Releasing(h) # {}
<1>1. RefCount(h) = Sum(Calls(h), Pending(h), Inboxes(h), Dispatching(h), Releasing(h))
  BY RefCountIs
<1> QED  BY <1>1, HolderTypes, SumFacts

-----------------------------------------------------------------------------
(* Who holds a header that a call is about to hand over                    *)

\* A header that is still its creator's is nobody else's.
LEMMA OwnerFacts ==
  ASSUME IInv, NEW t \in Threads, call[t].pc \in Owning
  PROVE  LET h == call[t].msg IN
         /\ h \in Headers /\ h \in used /\ Freeing(h) = {} /\ hdr[h].ref = 1
         /\ RefCount(h) > 0
         /\ Calls(h) = {t} /\ Pending(h) = {} /\ Inboxes(h) = {}
         /\ Dispatching(h) = {} /\ Releasing(h) = {}
         /\ \A u \in Threads : call[u].msg = h => u = t
<1> DEFINE h == call[t].msg
<1>1. h \in Headers /\ HeaderInv(h)  BY DEF IInv, Threading, Within, Owning
<1>2. \A u \in Threads : call[u].msg = h => u = t  BY <1>1 DEF HeaderInv
<1>3. Calls(h) = {t}  BY <1>2 DEF Calls
<1>4. Pending(h) = {}  BY <1>2 DEF Pending, Owning, FanOut
<1>5. Inboxes(h) = {} /\ Dispatching(h) = {} /\ Releasing(h) = {}
  BY <1>1, <1>3 DEF HeaderInv
<1>6. RefCount(h) > 0  BY <1>3, Holders
<1>7. h \in used /\ Freeing(h) = {} /\ hdr[h].ref = RefCount(h)  BY <1>1, <1>6 DEF HeaderInv
<1>8. RefCount(h) = 1
  <2>1. Cardinality({t}) = 1 /\ Cardinality({}) = 0  BY FS_Singleton, FS_EmptySet
  <2>2. RefCount(h) = Cardinality({t}) + Cardinality({}) + Cardinality({})
                      + Cardinality({}) + Cardinality({})
    BY <1>3, <1>4, <1>5 DEF RefCount
  <2> QED  BY <2>1, <2>2
<1> QED  BY <1>1, <1>2, <1>3, <1>4, <1>5, <1>6, <1>7, <1>8

\* A fan-out holds one reference for each subscriber it has still to serve.
LEMMA FanOutFacts ==
  ASSUME IInv, NEW t \in Threads, call[t].pc \in FanOut
  PROVE  LET h == call[t].msg IN
         /\ h \in Headers /\ h \in used /\ Freeing(h) = {} /\ hdr[h].ref = RefCount(h)
         /\ Calls(h) = {} /\ Pending(h) = call[t].pending /\ Spread(call[t].pending)
         /\ \A u \in Threads : call[u].msg = h => u = t
<1> DEFINE h == call[t].msg
<1>1. h \in Headers /\ HeaderInv(h) /\ Spread(call[t].pending) /\ TypeOK
  BY DEF IInv, Threading, Within, FanOut
<1>2. \A u \in Threads : call[u].msg = h => u = t  BY <1>1 DEF HeaderInv
<1>3. Calls(h) = {}  BY <1>2 DEF Calls, Owning, FanOut
<1>4. call[t].pending \subseteq Modules  BY <1>1 DEF TypeOK, CallType
<1>5. Pending(h) = call[t].pending  BY <1>2, <1>4 DEF Pending
<1>6. RefCount(h) > 0  BY <1>1, <1>5, Holders DEF Spread
<1>7. h \in used /\ Freeing(h) = {} /\ hdr[h].ref = RefCount(h)  BY <1>1, <1>6 DEF HeaderInv
<1> QED  BY <1>1, <1>2, <1>3, <1>5, <1>7

\* A header without references is in no inbox, no loop and no call.
LEMMA Unreferenced ==
  ASSUME IInv, NEW h \in Headers, ~(RefCount(h) > 0)
  PROVE  /\ Calls(h) = {} /\ Pending(h) = {} /\ Inboxes(h) = {} /\ Dispatching(h) = {}
         /\ Releasing(h) = {} /\ \A t \in Threads : call[t].msg # h
<1>1. TypeOK /\ Threading  BY DEF IInv
<1>2. /\ Calls(h) = {} /\ Pending(h) = {} /\ Inboxes(h) = {} /\ Dispatching(h) = {}
      /\ Releasing(h) = {}
  BY Holders
<1>3. ASSUME NEW t \in Threads, call[t].msg = h  PROVE FALSE
  <2>1. call[t] \in CallType /\ h # None  BY <1>1, BusAssumption DEF TypeOK
  <2>2. call[t].pc # "idle"  BY <1>1, <1>3, <2>1 DEF Threading, Within, NoCall
  <2>3. call[t].pc \in Owning \cup FanOut  BY <2>1, <2>2 DEF CallType, Owning, FanOut
  <2>4. call[t].pc \notin Owning  BY <1>2, <1>3 DEF Calls
  <2>5. call[t].pc \in FanOut  BY <2>3, <2>4
  <2>6. Pending(h) # {}  BY <1>3, <2>5, FanOutFacts DEF Spread
  <2> QED  BY <1>2, <2>6
<1> QED  BY <1>2, <1>3

\* A slot that is not in use is nobody's.
LEMMA UnusedFacts ==
  ASSUME IInv, NEW h \in Headers, h \notin used
  PROVE  /\ Calls(h) = {} /\ Pending(h) = {} /\ Inboxes(h) = {} /\ Dispatching(h) = {}
         /\ Releasing(h) = {} /\ Freeing(h) = {}
         /\ \A t \in Threads : call[t].msg # h
<1>1. HeaderInv(h)  BY DEF IInv
<1>2. ~(RefCount(h) > 0)  BY <1>1 DEF HeaderInv
<1>3. Freeing(h) = {}  BY <1>1 DEF HeaderInv
<1> QED  BY <1>2, <1>3, Unreferenced

-----------------------------------------------------------------------------
(* What a step leaves alone                                                *)

\* The step does not concern the holders of h.
SameHolders(h) ==
  /\ \A t \in Threads : call'[t].msg = h \/ call[t].msg = h => call'[t] = call[t]
  /\ \A t \in Threads : rel'[t].msg = h \/ rel[t].msg = h => rel'[t] = rel[t]
  /\ Inboxes(h)' = Inboxes(h) /\ Dispatching(h)' = Dispatching(h)

SameHeader(h) == SameHolders(h) /\ hdr'[h] = hdr[h] /\ (h \in used') = (h \in used)

\* The sets that count the holders of h are then what they were.
LEMMA SameSets ==
  ASSUME NEW h, h # None, SameHolders(h)
  PROVE  /\ Calls(h)' = Calls(h) /\ Pending(h)' = Pending(h) /\ Releasing(h)' = Releasing(h)
         /\ Freeing(h)' = Freeing(h) /\ RefCount(h)' = RefCount(h)
<1>1. Calls(h)' = Calls(h)  BY DEF SameHolders, Calls
<1>2. Pending(h)' = Pending(h)  BY DEF SameHolders, Pending
<1>3. Releasing(h)' = Releasing(h)
  <2>1. ASSUME NEW t \in Threads  PROVE (rel'[t] = Release(h)) = (rel[t] = Release(h))
    BY DEF SameHolders, Release
  <2> QED  BY <2>1 DEF Releasing, Release
<1>4. Freeing(h)' = Freeing(h)  BY DEF SameHolders, Freeing
<1>5. RefCount(h)' = RefCount(h)  BY <1>1, <1>2, <1>3 DEF SameHolders, RefCount
<1> QED  BY <1>1, <1>2, <1>3, <1>4, <1>5

\* A header the step does not concern keeps its invariant.
LEMMA KeepsHeader ==
  ASSUME NEW h \in Headers, SameHeader(h), HeaderInv(h)
  PROVE  HeaderInv(h)'
<1>1. h # None  BY BusAssumption
<1>2. /\ Calls(h)' = Calls(h) /\ Pending(h)' = Pending(h) /\ Releasing(h)' = Releasing(h)
      /\ Freeing(h)' = Freeing(h) /\ RefCount(h)' = RefCount(h)
      /\ Inboxes(h)' = Inboxes(h) /\ Dispatching(h)' = Dispatching(h)
  BY <1>1, SameSets DEF SameHeader, SameHolders
<1>3. \A t, u \in Threads : call'[t].msg = h /\ call'[u].msg = h => t = u
  BY DEF SameHeader, SameHolders, HeaderInv
<1>4. RefCount(h)' > 0 => h \in used' /\ Freeing(h)' = {} /\ hdr'[h].ref = RefCount(h)'
  BY <1>2 DEF SameHeader, HeaderInv
<1>5. \A t, u \in Freeing(h)' : h \in used' /\ t = u
  BY <1>2 DEF SameHeader, HeaderInv
<1>6. Calls(h)' # {} => Inboxes(h)' = {} /\ Dispatching(h)' = {} /\ Releasing(h)' = {}
  BY <1>2 DEF HeaderInv
<1>7. \A t \in Threads : call'[t].msg = h /\ call'[t].pc \in FanOut =>
        /\ \A m \in call'[t].pending : TaskOf(m) \notin Inboxes(h)'
        /\ call'[t].pc = "enqueue" => hdr'[h].receiver \in call'[t].pending
  BY <1>2 DEF SameHeader, SameHolders, HeaderInv
<1> QED  BY <1>3, <1>4, <1>5, <1>6, <1>7 DEF HeaderInv

\* Nobody else's payload becomes that of h, and the pool does not get it.
Undisturbed(h) ==
  hdr[h].payload # None =>
    /\ hdr[h].payload \notin free'
    /\ \A g \in Headers : hdr'[g].payload = hdr[h].payload => g = h

\* So does its payload.
LEMMA KeepsPayload ==
  ASSUME NEW h \in Headers, SameHeader(h), Undisturbed(h), PayloadInv(h)
  PROVE  PayloadInv(h)'
<1>1. h # None  BY BusAssumption
<1>2. RefCount(h)' = RefCount(h)  BY <1>1, SameSets DEF SameHeader
<1>3. hdr'[h].payload # None =>
        /\ h \in used' /\ hdr'[h].payload \notin free'
        /\ \A g \in Headers : hdr'[g].payload = hdr'[h].payload => g = h
  BY DEF SameHeader, Undisturbed, PayloadInv
<1>4. RefCount(h)' > 0 =>
        \/ /\ hdr'[h].payload = None /\ hdr'[h].id \in PayloadIds
           /\ \E t \in Threads : call'[t].msg = h /\ call'[t].pc = "payload"
        \/ /\ hdr'[h].id \in PayloadIds <=> hdr'[h].payload # None
           /\ \A t \in Threads : call'[t].msg = h => call'[t].pc # "payload"
  BY <1>2 DEF SameHeader, SameHolders, PayloadInv
<1>5. \A t \in Threads : rel'[t].msg = h /\ rel'[t].pc = "payload" => hdr'[h].payload # None
  BY DEF SameHeader, SameHolders, PayloadInv
<1> QED  BY <1>3, <1>4, <1>5 DEF PayloadInv

\* A step that takes no block and gives none back.
LEMMA QuietPool ==
  ASSUME \A h \in Headers : PayloadInv(h), UNCHANGED free,
         \A g \in Headers : hdr'[g].payload \in {hdr[g].payload, None}
  PROVE  \A h \in Headers : Undisturbed(h)
BY DEF PayloadInv, Undisturbed

\* What is left to show of a step that concerns one header.
LEMMA OneHeader ==
  ASSUME IInv, NEW h \in Headers,
         \A g \in Headers : g # h => SameHeader(g) /\ Undisturbed(g),
         HeaderInv(h)', PayloadInv(h)'
  PROVE  \A g \in Headers : (HeaderInv(g) /\ PayloadInv(g))'
<1>1. ASSUME NEW g \in Headers  PROVE (HeaderInv(g) /\ PayloadInv(g))'
  <2>1. CASE g = h  BY <2>1
  <2>2. CASE g # h  BY <2>2, KeepsHeader, KeepsPayload DEF IInv
  <2> QED  BY <2>1, <2>2
<1> QED  BY <1>1

\* A thread inside a bus call, or about to enter one, is not between two
\* messages of its dispatch loop.
Busy(t) == t \in Tasks => disp[t].pc \notin {"receive", "dispatch"}

\* A task inside a bus call is inside a handler.
LEMMA InCallIsBusy ==
  ASSUME IInv, NEW t \in Threads, call[t].pc # "idle"
  PROVE  Busy(t)
BY DEF IInv, Looping, NoCall, Busy

\* So is a task that may enter one.
LEMMA CanCallIsBusy ==
  ASSUME NEW t \in Threads, CanCall(t)
  PROVE  Busy(t)
BY DEF CanCall, InHandler, Busy

\* The inboxes keep no header twice.
Distinct(q) == \A i, j \in DOMAIN q : q[i] = q[j] => i = j

\* A thread that moves inside the bus leaves the dispatch loops as they are.
LEMMA KeepsLooping ==
  ASSUME IInv, NEW t \in Threads, Busy(t), UNCHANGED disp,
         \A u \in Threads : u # t => call'[u] = call[u] /\ rel'[u] = rel[u],
         \A u \in Tasks : Distinct(queue'[u])
  PROVE  Looping'
<1>1. Looping  BY DEF IInv
<1>2. \A u \in Tasks : u \in Threads  BY DEF Threads
<1> QED  BY <1>1, <1>2 DEF Looping, Busy, Distinct

\* No inbox holds a header twice.
LEMMA DistinctNow == IInv => \A u \in Tasks : Distinct(queue[u])
BY DEF IInv, Looping, Distinct

\* A step of t inside the bus keeps the threads and the dispatch loops right.
LEMMA CallStep ==
  ASSUME IInv, NEW t \in Threads, Busy(t), UNCHANGED disp,
         NEW c \in CallType, NEW r \in RelType, Within(c, r),
         call' = [call EXCEPT ![t] = c], rel' = [rel EXCEPT ![t] = r],
         \A u \in Tasks : Distinct(queue'[u])
  PROVE  /\ call' \in [Threads -> CallType] /\ rel' \in [Threads -> RelType]
         /\ call'[t] = c /\ \A u \in Threads : u # t => call'[u] = call[u]
         /\ rel'[t] = r /\ \A u \in Threads : u # t => rel'[u] = rel[u]
         /\ Threading' /\ Looping'
<1>1. TypeOK /\ Threading  BY DEF IInv
<1>2. call' \in [Threads -> CallType] /\ rel' \in [Threads -> RelType]  BY <1>1 DEF TypeOK
<1>3. call'[t] = c /\ \A u \in Threads : u # t => call'[u] = call[u]  BY <1>1 DEF TypeOK
<1>4. rel'[t] = r /\ \A u \in Threads : u # t => rel'[u] = rel[u]  BY <1>1 DEF TypeOK
<1>5. ASSUME NEW u \in Threads  PROVE Within(call'[u], rel'[u])
  <2>1. CASE u = t  BY <2>1, <1>3, <1>4
  <2>2. CASE u # t  BY <2>2, <1>1, <1>3, <1>4 DEF Threading
  <2> QED  BY <2>1, <2>2
<1>6. Threading'  BY <1>5 DEF Threading, Within, Spread
<1>7. Looping'  BY <1>3, <1>4, KeepsLooping
<1> QED  BY <1>2, <1>3, <1>4, <1>6, <1>7

\* A header that only the call of t refers to.
LEMMA OwnedBy ==
  ASSUME NEW t \in Threads, NEW h \in Headers, NEW c, c.msg = h, c.pc \in Owning,
         call'[t] = c, \A u \in Threads : call'[u].msg = h => u = t,
         h \in used', hdr'[h].ref = 1,
         Inboxes(h)' = {}, Dispatching(h)' = {}, Releasing(h)' = {}, Freeing(h)' = {}
  PROVE  HeaderInv(h)' /\ RefCount(h)' > 0
<1>1. c.pc \notin FanOut  BY DEF Owning, FanOut
<1>2. Calls(h)' = {t}  BY DEF Calls
<1>3. Pending(h)' = {}  BY <1>1 DEF Pending
<1>4. RefCount(h)' = 1
  <2>1. Cardinality({t}) = 1 /\ Cardinality({}) = 0  BY FS_Singleton, FS_EmptySet
  <2>2. RefCount(h)' = Cardinality({t}) + Cardinality({}) + Cardinality({})
                       + Cardinality({}) + Cardinality({})
    BY <1>2, <1>3 DEF RefCount
  <2> QED  BY <2>1, <2>2
<1> QED  BY <1>1, <1>2, <1>3, <1>4 DEF HeaderInv

\* A header on its way to its subscribers.
LEMMA FannedOut ==
  ASSUME NEW t \in Threads, NEW h \in Headers, NEW c, c.msg = h, c.pc \in FanOut,
         c.pending \in SUBSET Modules, c.pending # {},
         call'[t] = c, \A u \in Threads : call'[u].msg = h => u = t,
         NEW I \in SUBSET Tasks, NEW D \in SUBSET Tasks, NEW R \in SUBSET Threads,
         Inboxes(h)' = I, Dispatching(h)' = D, Releasing(h)' = R, Freeing(h)' = {},
         h \in used', hdr'[h].ref = Cardinality(c.pending) + Cardinality(I)
                                    + Cardinality(D) + Cardinality(R),
         \A m \in c.pending : TaskOf(m) \notin I,
         c.pc = "enqueue" => hdr'[h].receiver \in c.pending
  PROVE  HeaderInv(h)'
<1>1. Calls(h)' = {}  BY DEF Calls, Owning, FanOut
<1>2. Pending(h)' = c.pending  BY DEF Pending
<1>3. RefCount(h)' = hdr'[h].ref
  <2>1. Cardinality({}) = 0  BY FS_EmptySet
  <2>2. RefCount(h)' = Cardinality({}) + Cardinality(c.pending) + Cardinality(I)
                       + Cardinality(D) + Cardinality(R)
    BY <1>1, <1>2 DEF RefCount
  <2>3. /\ Cardinality(c.pending) \in Nat /\ Cardinality(I) \in Nat
        /\ Cardinality(D) \in Nat /\ Cardinality(R) \in Nat
    BY Countable
  <2> QED  BY <2>1, <2>2, <2>3
<1> QED  BY <1>1, <1>3 DEF HeaderInv

\* A header that no call refers to.
LEMMA HandedOver ==
  ASSUME NEW h \in Headers, \A u \in Threads : call'[u].msg # h,
         NEW I \in SUBSET Tasks, NEW D \in SUBSET Tasks, NEW R \in SUBSET Threads,
         I # {} \/ D # {} \/ R # {} =>
           /\ h \in used'
           /\ hdr'[h].ref = Cardinality(I) + Cardinality(D) + Cardinality(R),
         Inboxes(h)' = I, Dispatching(h)' = D, Releasing(h)' = R, Freeing(h)' = {}
  PROVE  /\ HeaderInv(h)' /\ RefCount(h)' = Cardinality(I) + Cardinality(D) + Cardinality(R)
         /\ RefCount(h)' > 0 => I # {} \/ D # {} \/ R # {}
<1>1. Calls(h)' = {} /\ Pending(h)' = {}  BY DEF Calls, Pending
<1>2. RefCount(h)' = Cardinality(I) + Cardinality(D) + Cardinality(R)
  <2>1. Cardinality({}) = 0  BY FS_EmptySet
  <2>2. RefCount(h)' = Cardinality({}) + Cardinality({}) + Cardinality(I)
                       + Cardinality(D) + Cardinality(R)
    BY <1>1 DEF RefCount
  <2>3. Cardinality(I) \in Nat /\ Cardinality(D) \in Nat /\ Cardinality(R) \in Nat
    BY Countable
  <2> QED  BY <2>1, <2>2, <2>3
<1>3. RefCount(h)' > 0 => I # {} \/ D # {} \/ R # {}
  BY <1>2, FS_EmptySet
<1> QED  BY <1>1, <1>2, <1>3 DEF HeaderInv

-----------------------------------------------------------------------------
(* Creating                                                                *)

\* hsys_msg_create and hsys_msg_create_wake take a slot.
LEMMA TakeStep ==
  ASSUME IInv, NEW t \in Threads, NEW h \in Headers \ used, CanCall(t),
         NEW c \in CallType, c.msg = h, c.pc \in {"payload", "created", "wake"},
         NEW e \in HeaderType, e.ref = 1, e.payload = None,
         e.id \in PayloadIds <=> c.pc = "payload",
         call' = [call EXCEPT ![t] = c], used' = used \cup {h},
         hdr' = [hdr EXCEPT ![h] = e],
         UNCHANGED <<free, subs, queue, disp, rel, hist>>
  PROVE  IInv'
<1>1. /\ TypeOK /\ Threading /\ Looping /\ SubsBounded /\ h \in Headers /\ h # None
      /\ call[t] = NoCall /\ rel[t] = NoRel /\ c.pc \in Owning
  BY BusAssumption DEF IInv, CanCall, Owning
<1>2. /\ call'[t] = c /\ \A u \in Threads : u # t => call'[u] = call[u]
      /\ hdr'[h] = e /\ \A g \in Headers : g # h => hdr'[g] = hdr[g]
  BY <1>1 DEF TypeOK
<1>3. call' \in [Threads -> CallType] /\ Threading' /\ Looping'
  <2>1. NoRel \in RelType /\ Within(c, NoRel) /\ rel' = [rel EXCEPT ![t] = NoRel]
    BY <1>1 DEF Within, NoRel, RelType, FanOut, TypeOK
  <2> QED  BY <2>1, CanCallIsBusy, DistinctNow, CallStep
<1>4. TypeOK'
  <2>1. used' \subseteq Headers  BY <1>1 DEF TypeOK
  <2>2. hdr' \in [Headers -> HeaderType]  BY <1>1 DEF TypeOK
  <2> QED  BY <1>1, <1>3, <2>1, <2>2 DEF TypeOK
<1>6. SubsBounded'  BY <1>1 DEF SubsBounded
<1>7. HeaderInv(h)' /\ RefCount(h)' > 0
  <2>1. hdr'[h].ref = 1 /\ h \in used'  BY <1>2
  <2>2. \A u \in Threads : call'[u].msg = h => u = t  BY <1>2, UnusedFacts
  <2>3. Inboxes(h)' = {} /\ Dispatching(h)' = {} /\ Releasing(h)' = {} /\ Freeing(h)' = {}
    BY UnusedFacts DEF Inboxes, Dispatching, Releasing, Freeing
  <2> QED  BY <1>1, <1>2, <2>1, <2>2, <2>3, OwnedBy
<1>8. \A u \in Threads : call[u].msg # h
  BY UnusedFacts
<1>9. PayloadInv(h)'
  <2>1. \A u \in Threads : rel'[u].msg = h => rel'[u].pc # "payload"
    BY <1>1, UnusedFacts DEF Freeing
  <2>2. \A u \in Threads : call'[u].msg = h => u = t  BY <1>2, <1>8
  <2>3. CASE c.pc = "payload"  BY <1>2, <2>1, <2>3 DEF PayloadInv
  <2>4. CASE c.pc # "payload"  BY <1>2, <2>1, <2>2, <2>4 DEF PayloadInv
  <2> QED  BY <2>3, <2>4
<1>10. \A g \in Headers : Undisturbed(g)  BY <1>2, QuietPool DEF IInv
<1>11. ASSUME NEW g \in Headers, g # h  PROVE SameHeader(g)
  <2>1. \A u \in Threads : call'[u].msg = g \/ call[u].msg = g => call'[u] = call[u]
    BY <1>1, <1>2, <1>11, BusAssumption DEF NoCall
  <2> QED  BY <1>2, <1>11, <2>1 DEF SameHeader, SameHolders, Inboxes, Dispatching
<1>12. \A g \in Headers : (HeaderInv(g) /\ PayloadInv(g))'
  BY <1>7, <1>9, <1>10, <1>11, OneHeader
<1> QED  BY <1>3, <1>4, <1>6, <1>12 DEF IInv

\* hsys_msg_create, the slot: the new header is its creator's alone.
LEMMA CreateHeaderStep ==
  ASSUME IInv, NEW t \in Threads, NEW id \in MsgIds, CreateHeader(t, id)
  PROVE  IInv'
<1>1. PICK h \in Headers \ used :
        /\ used' = used \cup {h}
        /\ hdr' = [hdr EXCEPT ![h] = NewHeader(id, None)]
        /\ call' = [call EXCEPT ![t] =
                      Begun(IF id \in PayloadIds THEN "payload" ELSE "created", h)]
  BY DEF CreateHeader
<1>2. PICK p \in {"payload", "created"} : p = IF id \in PayloadIds THEN "payload" ELSE "created"
  OBVIOUS
<1>3. PICK c \in CallType : c = Begun(p, h)  BY DEF Begun, CallType
<1>4. c.msg = h /\ c.pc = p  BY <1>3 DEF Begun
<1>5. PICK e \in HeaderType : e = NewHeader(id, None)
  <2>1. 1 \in 0..255  OBVIOUS
  <2> QED  BY <2>1 DEF NewHeader, HeaderType
<1>6. e.ref = 1 /\ e.payload = None /\ e.id = id  BY <1>5 DEF NewHeader
<1>7. CanCall(t) /\ UNCHANGED <<free, subs, queue, disp, rel, hist>>  BY DEF CreateHeader
<1>8. c.pc \in {"payload", "created", "wake"} /\ (e.id \in PayloadIds <=> c.pc = "payload")
  BY <1>2, <1>4, <1>6
<1>9. call' = [call EXCEPT ![t] = c] /\ hdr' = [hdr EXCEPT ![h] = e]  BY <1>1, <1>2, <1>3, <1>5
<1> QED  BY ZenonT(60), <1>1, <1>4, <1>6, <1>7, <1>8, <1>9, TakeStep

\* hsys_task_mgr_wake_module, the slot: likewise.
LEMMA WakeCreateStep ==
  ASSUME IInv, NEW t \in Threads, NEW m \in Modules, WakeCreate(t, m)
  PROVE  IInv'
<1>1. PICK h \in Headers \ used :
        /\ used' = used \cup {h}
        /\ hdr' = [hdr EXCEPT ![h] = NewHeader(Wake, m)]
        /\ call' = [call EXCEPT ![t] = Begun("wake", h)]
  BY DEF WakeCreate
<1>2. PICK c \in CallType : c = Begun("wake", h)  BY DEF Begun, CallType
<1>3. c.msg = h /\ c.pc = "wake"  BY <1>2 DEF Begun
<1>4. PICK e \in HeaderType : e = NewHeader(Wake, m)
  <2>1. 1 \in 0..255  OBVIOUS
  <2> QED  BY <2>1 DEF NewHeader, HeaderType
<1>5. e.ref = 1 /\ e.payload = None /\ e.id \notin PayloadIds
  BY <1>4, BusAssumption DEF NewHeader
<1>6. CanCall(t) /\ UNCHANGED <<free, subs, queue, disp, rel, hist>>  BY DEF WakeCreate
<1> QED  BY <1>1, <1>2, <1>3, <1>4, <1>5, <1>6, TakeStep
-----------------------------------------------------------------------------
(* A call moves on with its header                                         *)

\* What a step of t inside the bus, with the header h, owes the invariant.
LEMMA CallMoves ==
  ASSUME IInv, NEW t \in Threads, Busy(t), NEW h \in Headers,
         call[t].msg \in {h, None}, rel[t] = NoRel,
         NEW c \in CallType, NEW r \in RelType, Within(c, r),
         c.msg \in {h, None}, r.msg \in {h, None},
         call' = [call EXCEPT ![t] = c], rel' = [rel EXCEPT ![t] = r],
         NEW e \in HeaderType, hdr' = [hdr EXCEPT ![h] = e],
         UNCHANGED <<disp, subs>>, free' \subseteq Blocks, used' \subseteq Headers,
         \A g \in Headers : g # h => (g \in used') = (g \in used),
         hist' \in [Headers -> HistRecord],
         queue' \in [Tasks -> Seq(Headers)], \A u \in Tasks : Distinct(queue'[u]),
         \A g \in Headers : g # h => Inboxes(g)' = Inboxes(g) /\ Undisturbed(g),
         HeaderInv(h)', PayloadInv(h)'
  PROVE  IInv'
<1>1. TypeOK /\ SubsBounded /\ h # None  BY BusAssumption DEF IInv
<1>2. /\ call' \in [Threads -> CallType] /\ rel' \in [Threads -> RelType]
      /\ call'[t] = c /\ \A u \in Threads : u # t => call'[u] = call[u]
      /\ rel'[t] = r /\ \A u \in Threads : u # t => rel'[u] = rel[u]
      /\ Threading' /\ Looping'
  BY CallStep
<1>3. TypeOK'
  <2>1. hdr' \in [Headers -> HeaderType]  BY <1>1 DEF TypeOK
  <2>2. used' \subseteq Headers /\ free' \subseteq Blocks  OBVIOUS
  <2>3. subs' \in [MsgIds -> SUBSET Modules] /\ disp' \in [Tasks -> DispType]
    BY <1>1 DEF TypeOK
  <2> QED  BY <1>2, <2>1, <2>2, <2>3 DEF TypeOK
<1>4. SubsBounded'  BY <1>1 DEF SubsBounded
<1>5. ASSUME NEW g \in Headers, g # h  PROVE SameHeader(g)
  <2>1. g # None  BY BusAssumption
  <2>2. \A u \in Threads : call'[u].msg = g \/ call[u].msg = g => call'[u] = call[u]
    BY <1>2, <1>5, <2>1
  <2>3. \A u \in Threads : rel'[u].msg = g \/ rel[u].msg = g => rel'[u] = rel[u]
    BY <1>2, <1>5, <2>1 DEF NoRel
  <2>4. hdr'[g] = hdr[g]  BY <1>1, <1>5 DEF TypeOK
  <2>5. Dispatching(g)' = Dispatching(g)  BY DEF Dispatching
  <2> QED  BY <1>5, <2>2, <2>3, <2>4, <2>5 DEF SameHeader, SameHolders
<1>6. \A g \in Headers : (HeaderInv(g) /\ PayloadInv(g))'  BY <1>5, OneHeader
<1> QED  BY <1>2, <1>3, <1>4, <1>6 DEF IInv

\* The payload of a header that stays in use.
LEMMA KeepsBlock ==
  ASSUME IInv, NEW h \in Headers, RefCount(h) > 0, Freeing(h)' = {}, UNCHANGED free,
         h \in used', hdr'[h].payload = hdr[h].payload, hdr'[h].id = hdr[h].id,
         \A g \in Headers : g # h => hdr'[g] = hdr[g],
         \A u \in Threads : call[u].msg = h => call[u].pc # "payload",
         \A u \in Threads : call'[u].msg = h => call'[u].pc # "payload"
  PROVE  PayloadInv(h)'
<1>1. PayloadInv(h)  BY DEF IInv
<1>2. hdr[h].id \in PayloadIds <=> hdr[h].payload # None  BY <1>1 DEF PayloadInv
<1>3. \A u \in Threads : rel'[u].msg = h => rel'[u].pc # "payload"  BY DEF Freeing
<1>4. hdr'[h].payload # None =>
        /\ h \in used' /\ hdr'[h].payload \notin free'
        /\ \A g \in Headers : hdr'[g].payload = hdr'[h].payload => g = h
  BY <1>1 DEF PayloadInv
<1> QED  BY <1>2, <1>3, <1>4 DEF PayloadInv

\* Putting h into an inbox that does not hold it.
LEMMA Deposited ==
  ASSUME IInv, NEW h \in Headers, Deposit(h), TaskOf(hdr[h].receiver) \notin Inboxes(h)
  PROVE  /\ queue' \in [Tasks -> Seq(Headers)]
         /\ \A u \in Tasks : Distinct(queue'[u])
         /\ TaskOf(hdr[h].receiver) \in Tasks
         /\ Inboxes(h)' = Inboxes(h) \cup {TaskOf(hdr[h].receiver)}
         /\ \A g \in Headers : g # h => Inboxes(g)' = Inboxes(g)
<1> DEFINE k == TaskOf(hdr[h].receiver)
<1>1. TypeOK /\ Looping  BY DEF IInv
<1>2. k \in Tasks
  <2>1. k # None  BY DEF Deposit
  <2>2. Hosts(hdr[h].receiver) # {}  BY <2>1 DEF TaskOf
  <2>3. k \in Hosts(hdr[h].receiver)  BY <2>2 DEF TaskOf
  <2> QED  BY <2>3 DEF Hosts
<1>3. PICK q \in Seq(Headers) : q = queue[k]  BY <1>1, <1>2 DEF TypeOK
<1>4. queue' = [queue EXCEPT ![k] = Append(q, h)]  BY <1>3 DEF Deposit
<1>5. /\ Append(q, h) \in Seq(Headers) /\ Len(q) \in Nat /\ DOMAIN q = 1..Len(q)
      /\ DOMAIN Append(q, h) = 1..(Len(q) + 1)
      /\ \A i \in 1..Len(q) : Append(q, h)[i] = q[i]
      /\ Append(q, h)[Len(q) + 1] = h
  OBVIOUS
<1>6. /\ queue'[k] = Append(q, h) /\ \A u \in Tasks : u # k => queue'[u] = queue[u]
      /\ queue' \in [Tasks -> Seq(Headers)]
  BY <1>1, <1>2, <1>4, <1>5 DEF TypeOK
<1>7. \A i \in DOMAIN q : q[i] # h  BY <1>2, <1>3 DEF Inboxes
<1>8. Distinct(Append(q, h))
  <2>1. \A i, j \in 1..Len(q) : q[i] = q[j] => i = j  BY <1>1, <1>2, <1>3, <1>5 DEF Looping
  <2>2. \A i \in 1..(Len(q) + 1) : i \in 1..Len(q) \/ i = Len(q) + 1  BY <1>5
  <2> QED  BY <1>5, <1>7, <2>1, <2>2 DEF Distinct
<1>9. \A u \in Tasks : Distinct(queue'[u])  BY <1>6, <1>8, DistinctNow
<1>10. \A g : (\E i \in DOMAIN Append(q, h) : Append(q, h)[i] = g)
                <=> g = h \/ \E i \in DOMAIN q : q[i] = g
  <2>1. Len(q) + 1 \in DOMAIN Append(q, h)  BY <1>5
  <2>2. \A i \in DOMAIN Append(q, h) : i \in DOMAIN q \/ i = Len(q) + 1  BY <1>5
  <2>3. \A i \in DOMAIN q : i \in DOMAIN Append(q, h)  BY <1>5
  <2> QED  BY <1>5, <2>1, <2>2, <2>3
<1>11. ASSUME NEW g, NEW u \in Tasks
       PROVE  u \in Inboxes(g)' <=> (u = k /\ g = h) \/ u \in Inboxes(g)
  <2>1. u \in Inboxes(g)' <=> \E i \in DOMAIN queue'[u] : queue'[u][i] = g  BY DEF Inboxes
  <2>2. u \in Inboxes(g) <=> \E i \in DOMAIN queue[u] : queue[u][i] = g  BY DEF Inboxes
  <2>3. CASE u = k
    <3>1. queue'[u] = Append(q, h) /\ queue[u] = q  BY <1>3, <1>6, <2>3
    <3>2. u \in Inboxes(g)' <=> g = h \/ u \in Inboxes(g)
      BY <1>10, <2>1, <2>2, <3>1
    <3> QED  BY <2>3, <3>2
  <2>4. CASE u # k  BY <1>6, <2>1, <2>2, <2>4
  <2> QED  BY <2>3, <2>4
<1>12. \A g : Inboxes(g) \subseteq Tasks /\ Inboxes(g)' \subseteq Tasks  BY DEF Inboxes
<1>13. Inboxes(h)' = Inboxes(h) \cup {k}  BY <1>2, <1>11, <1>12
<1>14. ASSUME NEW g \in Headers, g # h  PROVE Inboxes(g)' = Inboxes(g)
  <2>1. \A u \in Tasks : u \in Inboxes(g)' <=> u \in Inboxes(g)  BY <1>11, <1>14
  <2>2. Inboxes(g) \subseteq Tasks /\ Inboxes(g)' \subseteq Tasks  BY <1>12
  <2> QED  BY <2>1, <2>2
<1> QED  BY <1>2, <1>6, <1>9, <1>13, <1>14
\* What CallMoves asks of a step inside the bus, and what is there to give.
LEMMA Entering ==
  ASSUME IInv, NEW t \in Threads, NEW pc, At(t, pc), pc # "idle"
  PROVE  /\ Busy(t) /\ rel[t] = NoRel /\ call[t].msg \in Headers
         /\ call[t] \in CallType /\ call[t].pc = pc /\ hdr[call[t].msg] \in HeaderType
         /\ NoRel \in RelType /\ NoCall \in CallType
         /\ rel' = rel => rel' = [rel EXCEPT ![t] = NoRel]
<1>1. TypeOK /\ Threading /\ call[t].pc # "idle"  BY DEF IInv, At
<1>2. Busy(t)  BY <1>1, InCallIsBusy
<1>3. call[t].msg \in Headers  BY <1>1 DEF Threading, Within
<1>4. hdr[call[t].msg] \in HeaderType  BY <1>1, <1>3 DEF TypeOK
<1>5. NoRel \in RelType /\ NoCall \in CallType  BY DEF NoRel, NoCall, RelType, CallType
<1>6. rel = [rel EXCEPT ![t] = rel[t]]  BY <1>1 DEF TypeOK
<1> QED  BY <1>1, <1>2, <1>3, <1>4, <1>5, <1>6 DEF At, TypeOK

\* hsys_msg_create, the payload: the block was free, so it is no other message's.
LEMMA CreatePayloadStep ==
  ASSUME IInv, NEW t \in Threads, CreatePayload(t)
  PROVE  IInv'
<1>1. PICK h \in Headers : h = call[t].msg  BY Entering DEF CreatePayload
<1>2. PICK b \in free : /\ free' = free \ {b}
                        /\ hdr' = [hdr EXCEPT ![h].payload = b]
  BY <1>1 DEF CreatePayload
<1>3. /\ TypeOK /\ h # None /\ At(t, "payload")
      /\ UNCHANGED <<used, subs, queue, disp, rel, hist>>
  BY BusAssumption DEF IInv, CreatePayload
<1>4. /\ Busy(t) /\ rel[t] = NoRel /\ call[t] \in CallType /\ call[t].pc = "payload"
      /\ hdr[h] \in HeaderType /\ NoRel \in RelType /\ rel' = [rel EXCEPT ![t] = NoRel]
  BY <1>1, <1>3, Entering
<1>5. b \in Blocks /\ b # None  BY <1>3, BusAssumption DEF TypeOK
<1>6. PICK c \in CallType : c = [call[t] EXCEPT !.pc = "created"]  BY <1>4 DEF CallType
<1>7. PICK e \in HeaderType : e = [hdr[h] EXCEPT !.payload = b]  BY <1>4, <1>5 DEF HeaderType
<1>8. /\ call' = [call EXCEPT ![t] = c] /\ hdr' = [hdr EXCEPT ![h] = e]
      /\ c.pc = "created" /\ c.msg = h /\ e.payload = b /\ e.id = hdr[h].id /\ e.ref = hdr[h].ref
  BY ZenonT(60), <1>1, <1>2, <1>4, <1>6, <1>7 DEF CreatePayload, CallType, HeaderType
<1>9. /\ call'[t] = c /\ \A u \in Threads : u # t => call'[u] = call[u]
      /\ hdr'[h] = e /\ \A g \in Headers : g # h => hdr'[g] = hdr[g]
  BY <1>3, <1>8 DEF TypeOK
<1>10. /\ h \in used /\ Freeing(h) = {} /\ hdr[h].ref = 1 /\ RefCount(h) > 0
       /\ Inboxes(h) = {} /\ Dispatching(h) = {} /\ Releasing(h) = {}
       /\ \A u \in Threads : call[u].msg = h => u = t
  BY <1>1, <1>4, OwnerFacts DEF Owning
<1>11. HeaderInv(h)' /\ RefCount(h)' > 0
  <2>1. \A u \in Threads : call'[u].msg = h => u = t  BY <1>9, <1>10
  <2>2. Inboxes(h)' = {} /\ Dispatching(h)' = {} /\ Releasing(h)' = {} /\ Freeing(h)' = {}
    BY <1>3, <1>10 DEF Inboxes, Dispatching, Releasing, Freeing
  <2>3. c.pc \in Owning /\ h \in used' /\ hdr'[h].ref = 1
    BY <1>3, <1>8, <1>9, <1>10 DEF Owning
  <2> QED  BY <1>8, <1>9, <2>1, <2>2, <2>3, OwnedBy
<1>12. \A g \in Headers : hdr[g].payload # b  BY <1>5 DEF IInv, PayloadInv
<1>13. PayloadInv(h)'
  <2>1. hdr[h].id \in PayloadIds
    BY <1>1, <1>4, <1>10 DEF IInv, PayloadInv
  <2>2. \A u \in Threads : rel'[u].msg = h => rel'[u].pc # "payload"
    BY <1>3, <1>10 DEF Freeing
  <2>3. \A u \in Threads : call'[u].msg = h => call'[u].pc # "payload"
    BY <1>8, <1>9, <1>10
  <2>4. hdr'[h].payload \notin free' /\ h \in used' /\ hdr'[h].payload = b
    BY <1>2, <1>3, <1>8, <1>9, <1>10
  <2>5. \A g \in Headers : hdr'[g].payload = b => g = h  BY <1>9, <1>12
  <2> QED  BY <1>5, <1>8, <1>9, <2>1, <2>2, <2>3, <2>4, <2>5 DEF PayloadInv
<1>14. ASSUME NEW g \in Headers, g # h  PROVE Inboxes(g)' = Inboxes(g) /\ Undisturbed(g)
  <2>1. Inboxes(g)' = Inboxes(g)  BY <1>3 DEF Inboxes
  <2>2. Undisturbed(g)
    BY <1>2, <1>8, <1>9, <1>12, <1>14 DEF IInv, PayloadInv, Undisturbed
  <2> QED  BY <2>1, <2>2
<1>15. Within(c, NoRel)  BY <1>8 DEF Within, NoRel, FanOut
<1>16. \A u \in Tasks : Distinct(queue'[u])  BY <1>3, DistinctNow
<1>17. /\ free' \subseteq Blocks /\ used' \subseteq Headers /\ queue' \in [Tasks -> Seq(Headers)]
       /\ hist' \in [Headers -> HistRecord]
  BY <1>2, <1>3 DEF TypeOK
<1>18. NoRel.msg = None  BY DEF NoRel
<1> QED
  BY <1>1, <1>3, <1>4, <1>8, <1>11, <1>13, <1>14, <1>15, <1>16, <1>17, <1>18, CallMoves
\* The thread t takes its call to c and its release to r, and leaves e in its header.
Moves(t, c, r, e) ==
  /\ call' = [call EXCEPT ![t] = c] /\ rel' = [rel EXCEPT ![t] = r]
  /\ hdr' = [hdr EXCEPT ![call[t].msg] = e]
  /\ UNCHANGED <<used, free, subs, disp>>

\* Who refers to the header after such a step.
LEMMA MoveFacts ==
  ASSUME IInv, NEW t \in Threads, NEW pc, At(t, pc), pc \notin {"idle", "payload"},
         NEW c \in CallType, NEW r \in RelType, NEW e \in HeaderType, Moves(t, c, r, e),
         NEW h \in Headers, h = call[t].msg, r = NoRel \/ r = Release(h)
  PROVE  /\ h # None /\ h \in used /\ h \in used'
         /\ RefCount(h) > 0 /\ Freeing(h) = {} /\ hdr[h].ref = RefCount(h)
         /\ \A u \in Threads : call[u].msg = h => u = t
         /\ call'[t] = c /\ \A u \in Threads : u # t => call'[u] = call[u]
         /\ rel'[t] = r /\ \A u \in Threads : u # t => rel'[u] = rel[u]
         /\ hdr'[h] = e /\ \A g \in Headers : g # h => hdr'[g] = hdr[g]
         /\ \A u \in Threads : call'[u].msg = h => u = t
         /\ c.msg # h => \A u \in Threads : call'[u].msg # h
         /\ Dispatching(h)' = Dispatching(h)
         /\ Freeing(h)' = Freeing(h)
         /\ r = NoRel => Releasing(h)' = Releasing(h)
         /\ r = Release(h) => Releasing(h)' = Releasing(h) \cup {t}
         /\ t \notin Releasing(h)
<1>1. /\ TypeOK /\ rel[t] = NoRel /\ call[t].pc = pc /\ call[t] \in CallType
      /\ h # None
  BY Entering, BusAssumption DEF IInv
<1>2. pc \in Owning \cup FanOut  BY <1>1 DEF CallType, Owning, FanOut
<1>3. /\ h \in used /\ Freeing(h) = {} /\ hdr[h].ref = RefCount(h) /\ RefCount(h) > 0
      /\ \A u \in Threads : call[u].msg = h => u = t
  <2>1. CASE pc \in Owning
    <3>1. call[t].pc \in Owning  BY <1>1, <2>1
    <3>2. /\ h \in used /\ Freeing(h) = {} /\ RefCount(h) > 0
          /\ \A u \in Threads : call[u].msg = h => u = t
      BY <3>1, OwnerFacts
    <3>3. HeaderInv(h)  BY <1>1 DEF IInv
    <3> QED  BY <3>2, <3>3 DEF HeaderInv
  <2>2. CASE pc \in FanOut
    <3>1. call[t].pc \in FanOut  BY <1>1, <2>2
    <3>2. /\ h \in used /\ Freeing(h) = {} /\ hdr[h].ref = RefCount(h)
          /\ Pending(h) = call[t].pending /\ Spread(call[t].pending)
          /\ \A u \in Threads : call[u].msg = h => u = t
      BY <3>1, FanOutFacts
    <3>3. RefCount(h) > 0  BY <3>2, Holders DEF Spread
    <3> QED  BY <3>2, <3>3
  <2> QED  BY <1>2, <2>1, <2>2
<1>4. /\ call'[t] = c /\ \A u \in Threads : u # t => call'[u] = call[u]
      /\ rel'[t] = r /\ \A u \in Threads : u # t => rel'[u] = rel[u]
      /\ hdr'[h] = e /\ \A g \in Headers : g # h => hdr'[g] = hdr[g]
      /\ used' = used /\ disp' = disp
  BY <1>1 DEF TypeOK, Moves
<1>5. /\ \A u \in Threads : call'[u].msg = h => u = t
      /\ c.msg # h => \A u \in Threads : call'[u].msg # h
  BY <1>3, <1>4
<1>6. Dispatching(h)' = Dispatching(h)  BY <1>4 DEF Dispatching
<1>7. t \notin Releasing(h)  BY <1>1 DEF Releasing, Release, NoRel
<1>8. NoRel # Release(h)  BY DEF NoRel, Release
<1>9. r = NoRel => Releasing(h)' = Releasing(h)  BY <1>1, <1>4 DEF Releasing, Release
<1>10. r = Release(h) => Releasing(h)' = Releasing(h) \cup {t}
  BY <1>4 DEF Releasing, Release
<1>11. Freeing(h)' = {}
  BY <1>3, <1>4 DEF Freeing, Release, NoRel
<1> QED  BY <1>1, <1>3, <1>4, <1>5, <1>6, <1>7, <1>9, <1>10, <1>11

\* Such a step keeps the invariant once the header's holders add up.
LEMMA QuietMove ==
  ASSUME IInv, NEW t \in Threads, NEW pc, At(t, pc), pc \notin {"idle", "payload"},
         NEW c \in CallType, NEW r \in RelType, NEW e \in HeaderType, Moves(t, c, r, e),
         NEW h \in Headers, h = call[t].msg,
         c = NoCall \/ c.msg = h, c.pc # "payload", Within(c, r),
         r = NoRel \/ r = Release(h),
         e.id = hdr[h].id, e.payload = hdr[h].payload,
         hist' \in [Headers -> HistRecord],
         queue' \in [Tasks -> Seq(Headers)], \A u \in Tasks : Distinct(queue'[u]),
         \A g \in Headers : g # h => Inboxes(g)' = Inboxes(g),
         HeaderInv(h)'
  PROVE  IInv'
<1>1. /\ TypeOK /\ Busy(t) /\ rel[t] = NoRel /\ call[t].pc = pc
  BY Entering DEF IInv
<1>2. /\ h \in used' /\ RefCount(h) > 0 /\ Freeing(h)' = {}
      /\ \A u \in Threads : call[u].msg = h => u = t
      /\ call'[t] = c /\ \A u \in Threads : call'[u].msg = h => u = t
      /\ hdr'[h] = e /\ \A g \in Headers : g # h => hdr'[g] = hdr[g]
  <2>1. Freeing(h)' = Freeing(h) /\ RefCount(h) > 0  BY MoveFacts
  <2>2. Freeing(h)' = {}  BY <2>1 DEF IInv, HeaderInv
  <2> QED  BY <2>2, MoveFacts
<1>3. UNCHANGED <<used, free, disp, subs>>  BY DEF Moves
<1>4. PayloadInv(h)'
  <2>1. \A u \in Threads : call[u].msg = h => call[u].pc # "payload"  BY <1>1, <1>2
  <2>2. \A u \in Threads : call'[u].msg = h => call'[u].pc # "payload"  BY <1>2
  <2>3. hdr'[h].payload = hdr[h].payload /\ hdr'[h].id = hdr[h].id  BY <1>2
  <2> QED  BY <1>2, <1>3, <2>1, <2>2, <2>3, KeepsBlock
<1>5. \A g \in Headers : Undisturbed(g)
  <2>1. \A g \in Headers : hdr'[g].payload \in {hdr[g].payload, None}  BY <1>2
  <2> QED  BY <1>3, <2>1, QuietPool DEF IInv
<1>6. c.msg \in {h, None} /\ r.msg \in {h, None}  BY DEF NoCall, NoRel, Release
<1>7. free' \subseteq Blocks /\ used' \subseteq Headers  BY <1>1, <1>3 DEF TypeOK
<1>8. /\ call' = [call EXCEPT ![t] = c] /\ rel' = [rel EXCEPT ![t] = r]
      /\ hdr' = [hdr EXCEPT ![h] = e]
  BY DEF Moves
<1>9. \A g \in Headers : g # h => Inboxes(g)' = Inboxes(g) /\ Undisturbed(g)
  BY <1>5
<1>10. \A g \in Headers : g # h => (g \in used') = (g \in used)  BY <1>3
<1>11. call[t].msg \in {h, None}  OBVIOUS
<1> QED
  BY <1>1, <1>3, <1>4, <1>6, <1>7, <1>8, <1>9, <1>10, <1>11, CallMoves
-----------------------------------------------------------------------------
(* Handing over                                                            *)

HistType == [Headers -> HistRecord]

\* The history keeps its type when what is owed changes.
LEMMA OwedTyped ==
  ASSUME hist \in HistType, NEW h \in Headers, NEW S \in SUBSET Modules
  PROVE  [hist EXCEPT ![h].owed = S] \in HistType
BY DEF HistType, HistRecord

\* The inboxes when nothing is enqueued.
LEMMA SameQueues ==
  ASSUME IInv, UNCHANGED queue
  PROVE  /\ queue' \in [Tasks -> Seq(Headers)] /\ \A u \in Tasks : Distinct(queue'[u])
         /\ \A g \in Headers : Inboxes(g)' = Inboxes(g)
<1>1. queue' \in [Tasks -> Seq(Headers)]  BY DEF IInv, TypeOK
<1>2. \A u \in Tasks : Distinct(queue'[u])  BY DistinctNow
<1>3. ASSUME NEW g \in Headers  PROVE Inboxes(g)' = Inboxes(g)  BY DEF Inboxes
<1> QED  BY <1>1, <1>2, <1>3

\* A call that keeps the header to itself.
LEMMA OwnerMoves ==
  ASSUME IInv, NEW t \in Threads, NEW pc \in {"created", "stamp", "send", "wake"}, At(t, pc),
         NEW c \in CallType, NEW e \in HeaderType, Moves(t, c, NoRel, e),
         NEW h \in Headers, h = call[t].msg, c.msg = h, c.pc \in {"stamp", "send"},
         c.pc = "stamp" => Spread(c.pending) /\ Cardinality(c.pending) <= 255,
         e.id = hdr[h].id, e.payload = hdr[h].payload, e.ref = 1, UNCHANGED queue,
         hist' \in HistType
  PROVE  IInv'
<1>1. /\ call[t].pc \in Owning /\ c.pc \in Owning /\ pc \notin {"idle", "payload"}
      /\ NoRel \in RelType
  BY DEF At, Owning, NoRel, RelType
<1>2. Inboxes(h) = {} /\ Dispatching(h) = {} /\ Releasing(h) = {} /\ Freeing(h) = {}
  BY <1>1, OwnerFacts
<1>3. /\ call'[t] = c /\ \A u \in Threads : call'[u].msg = h => u = t
      /\ h \in used' /\ hdr'[h].ref = 1
      /\ Dispatching(h)' = Dispatching(h) /\ Releasing(h)' = Releasing(h)
      /\ Freeing(h)' = Freeing(h)
  BY <1>1, MoveFacts
<1>4. HeaderInv(h)'
  <2>1. Inboxes(h)' = Inboxes(h)  BY SameQueues
  <2>2. Inboxes(h)' = {} /\ Dispatching(h)' = {} /\ Releasing(h)' = {} /\ Freeing(h)' = {}
    BY <1>2, <1>3, <2>1
  <2> QED  BY <1>1, <1>3, <2>2, OwnedBy
<1>5. Within(c, NoRel)  BY DEF Within, NoRel, FanOut
<1>6. hist' \in [Headers -> HistRecord]  BY DEF HistType
<1>7. /\ queue' \in [Tasks -> Seq(Headers)] /\ \A u \in Tasks : Distinct(queue'[u])
      /\ \A g \in Headers : g # h => Inboxes(g)' = Inboxes(g)
  BY SameQueues
<1>8. c.pc # "payload"  OBVIOUS
<1> QED  BY <1>1, <1>4, <1>5, <1>6, <1>7, <1>8, QuietMove

\* hsys_msg_send writes receiver and count of a header that is still its creator's.
LEMMA SendToStep ==
  ASSUME IInv, NEW t \in Threads, NEW m \in Modules, SendTo(t, m)
  PROVE  IInv'
<1>1. At(t, "created") /\ TypeOK  BY DEF SendTo, IInv
<1>2. PICK h \in Headers : h = call[t].msg  BY <1>1, Entering
<1>3. /\ call[t] \in CallType /\ hdr[h] \in HeaderType /\ rel' = [rel EXCEPT ![t] = NoRel]
  BY <1>1, <1>2, Entering DEF SendTo
<1>4. PICK c \in CallType : c = [call[t] EXCEPT !.pc = "send"]  BY <1>3 DEF CallType
<1>5. PICK e \in HeaderType : e = [hdr[h] EXCEPT !.receiver = m, !.ref = 1]
  <2>1. 1 \in 0..255  OBVIOUS
  <2> QED  BY <1>3, <2>1 DEF HeaderType
<1>6. /\ c.msg = h /\ c.pc = "send" /\ e.id = hdr[h].id /\ e.payload = hdr[h].payload
      /\ e.ref = 1
  <2>1. c.msg = h /\ c.pc = "send"  BY <1>2, <1>3, <1>4 DEF CallType
  <2> QED  BY <1>3, <1>5, <2>1 DEF HeaderType
<1>7. Moves(t, c, NoRel, e)
  <2>1. call' = [call EXCEPT ![t] = c]  BY <1>4 DEF SendTo
  <2>2. hdr' = [hdr EXCEPT ![h] = e]  BY <1>1, <1>2, <1>5 DEF SendTo, TypeOK
  <2> QED  BY <1>2, <1>3, <2>1, <2>2 DEF SendTo, Moves
<1>8. hist' \in HistType
  <2>1. hist \in HistType  BY <1>1 DEF TypeOK, HistType
  <2>2. PICK S \in SUBSET Modules : S = {m} \cap subs[hdr[h].id]  OBVIOUS
  <2>3. hist' = [hist EXCEPT ![h].owed = S]  BY <1>2, <2>2 DEF SendTo
  <2> QED  BY <2>1, <2>3, OwedTyped
<1>9. UNCHANGED queue  BY DEF SendTo
<1> QED  BY <1>1, <1>2, <1>6, <1>7, <1>8, <1>9, OwnerMoves
\* De-duplication leaves subscribers of which no two share a task.
LEMMA DedupSpreads ==
  ASSUME IInv, NEW id \in MsgIds, subs[id] # {}, NEW R \in Dedup(subs[id])
  PROVE  R \in SUBSET Modules /\ Spread(R) /\ Cardinality(R) <= 255
<1>1. subs[id] \in SUBSET Modules /\ Cardinality(subs[id]) <= MaxSubscribers
  BY DEF IInv, TypeOK, SubsBounded
<1>2. R \in SUBSET subs[id] /\ Spread(R)
  <2>1. R \in SUBSET subs[id] /\ \A m \in subs[id] : \E r \in R : r = m \/ SameTask(r, m)
    BY DEF Dedup
  <2>2. \A a, b \in R : a # b => ~SameTask(a, b)  BY DEF Dedup
  <2>3. R # {}  BY <2>1
  <2> QED  BY <2>1, <2>2, <2>3 DEF Spread
<1>3. R \in SUBSET Modules  BY <1>1, <1>2
<1>4. Cardinality(R) <= Cardinality(subs[id])
  <2>1. IsFiniteSet(subs[id])  BY <1>1, Countable
  <2> QED  BY <1>2, <2>1, FS_Subset
<1>5. Cardinality(R) \in Nat /\ Cardinality(subs[id]) \in Nat  BY <1>1, <1>3, Countable
<1>6. MaxSubscribers \in 1..255  BY BusAssumption
<1> QED  BY <1>1, <1>2, <1>3, <1>4, <1>5, <1>6

\* A call that ends: the header goes to an inbox, to a release, or to nobody.
LEMMA OwnerLeaves ==
  ASSUME IInv, NEW t \in Threads, NEW pc \in {"created", "stamp", "send", "wake"}, At(t, pc),
         NEW h \in Headers, h = call[t].msg, NEW r \in RelType, r = NoRel \/ r = Release(h),
         Moves(t, NoCall, r, hdr[h]), hist' \in HistType,
         UNCHANGED queue \/ (Deposit(h) /\ r = NoRel)
  PROVE  IInv'
<1>1. /\ call[t].pc \in Owning /\ pc \notin {"idle", "payload"} /\ NoCall \in CallType
      /\ hdr[h] \in HeaderType /\ NoCall.msg # h /\ NoCall.pc # "payload"
  <2>1. pc # "idle"  OBVIOUS
  <2>2. call[t].pc = pc /\ NoCall \in CallType /\ hdr[h] \in HeaderType
    BY <2>1, Entering
  <2>3. pc \in Owning /\ pc \notin {"idle", "payload"}  BY DEF Owning
  <2>4. NoCall.msg = None /\ NoCall.pc = "idle"  BY DEF NoCall
  <2>5. None \notin Headers  BY BusAssumption
  <2> QED  BY <2>2, <2>3, <2>4, <2>5
<1>2. /\ Inboxes(h) = {} /\ Dispatching(h) = {} /\ Releasing(h) = {} /\ Freeing(h) = {}
      /\ hdr[h].ref = 1
  BY <1>1, OwnerFacts
<1>3. /\ \A u \in Threads : call'[u].msg # h
      /\ h \in used' /\ hdr'[h] = hdr[h]
      /\ Dispatching(h)' = Dispatching(h) /\ Freeing(h)' = Freeing(h)
      /\ r = NoRel => Releasing(h)' = Releasing(h)
      /\ r = Release(h) => Releasing(h)' = Releasing(h) \cup {t}
  BY <1>1, MoveFacts
<1>4. Within(NoCall, r)  BY DEF Within, NoCall, FanOut, Release, NoRel
<1>5. hist' \in [Headers -> HistRecord]  BY DEF HistType
<1>6. Dispatching(h)' = {} /\ Freeing(h)' = {} /\ hdr'[h].ref = 1  BY <1>2, <1>3
<1>7. \A x : Cardinality({x}) = 1  BY FS_Singleton
<1>8. Cardinality({}) = 0  BY FS_EmptySet
<1>9. CASE UNCHANGED queue
  <2>1. /\ queue' \in [Tasks -> Seq(Headers)] /\ \A u \in Tasks : Distinct(queue'[u])
        /\ \A g \in Headers : Inboxes(g)' = Inboxes(g)
    BY <1>9, SameQueues
  <2>2. Inboxes(h)' = {}  BY <1>2, <2>1
  <2>3. HeaderInv(h)'
    <3>1. CASE r = NoRel
      <4>1. Releasing(h)' = {}  BY <1>2, <1>3, <3>1
      <4> QED  BY <1>3, <1>6, <2>2, <4>1, HandedOver
    <3>2. CASE r = Release(h)
      <4>1. Releasing(h)' = {t}  BY <1>2, <1>3, <3>2
      <4>2. PICK N \in SUBSET Tasks : N = {}  OBVIOUS
      <4>3. PICK R \in SUBSET Threads : R = {t}  OBVIOUS
      <4>4. hdr'[h].ref = Cardinality(N) + Cardinality(N) + Cardinality(R)
        <5>1. Cardinality(N) = 0 /\ Cardinality(R) = 1  BY <1>7, <1>8, <4>2, <4>3
        <5>2. hdr'[h].ref = 1  BY <1>6
        <5> QED  BY <5>1, <5>2
      <4>5. Inboxes(h)' = N /\ Dispatching(h)' = N /\ Releasing(h)' = R
        BY <1>6, <2>2, <4>1, <4>2, <4>3
      <4> QED  BY <1>3, <1>6, <4>4, <4>5, HandedOver
    <3> QED  BY <3>1, <3>2
  <2> QED  BY <1>1, <1>4, <1>5, <2>1, <2>3, QuietMove
<1>10. CASE Deposit(h) /\ r = NoRel
  <2>1. PICK k \in Tasks : k = TaskOf(hdr[h].receiver)
    BY <1>2, <1>10, Deposited
  <2>2. /\ queue' \in [Tasks -> Seq(Headers)] /\ \A u \in Tasks : Distinct(queue'[u])
        /\ Inboxes(h)' = Inboxes(h) \cup {k}
        /\ \A g \in Headers : g # h => Inboxes(g)' = Inboxes(g)
    BY <1>2, <1>10, <2>1, Deposited
  <2>3. Inboxes(h)' = {k} /\ Releasing(h)' = {}  BY <1>2, <1>3, <1>10, <2>2
  <2>4. PICK I \in SUBSET Tasks : I = {k}  OBVIOUS
  <2>5. PICK D \in SUBSET Tasks : D = {}  OBVIOUS
  <2>6. PICK R \in SUBSET Threads : R = {}  OBVIOUS
  <2>7. hdr'[h].ref = Cardinality(I) + Cardinality(D) + Cardinality(R)
    <3>1. Cardinality(I) = 1 /\ Cardinality(D) = 0 /\ Cardinality(R) = 0
      BY <1>7, <1>8, <2>4, <2>5, <2>6
    <3>2. hdr'[h].ref = 1  BY <1>6
    <3> QED  BY <3>1, <3>2
  <2>8. Inboxes(h)' = I /\ Dispatching(h)' = D /\ Releasing(h)' = R
    BY <1>6, <2>3, <2>4, <2>5, <2>6
  <2>9. HeaderInv(h)'  BY <1>3, <1>6, <2>7, <2>8, HandedOver
  <2> QED  BY <1>1, <1>4, <1>5, <1>10, <2>2, <2>9, QuietMove
<1> QED  BY <1>9, <1>10
\* A thread that leaves its header's fields alone.
LEMMA LeavesHeader ==
  ASSUME IInv, NEW t \in Threads, NEW h \in Headers, h = call[t].msg, NEW c, NEW r,
         call' = [call EXCEPT ![t] = c], rel' = [rel EXCEPT ![t] = r],
         UNCHANGED <<hdr, used, free, subs, disp>>
  PROVE  Moves(t, c, r, hdr[h])
<1>1. hdr = [hdr EXCEPT ![h] = hdr[h]]  BY DEF IInv, TypeOK
<1> QED  BY <1>1 DEF Moves

\* HistType is the type of the history.
LEMMA HistTyped == IInv => hist \in HistType
BY DEF IInv, TypeOK, HistType

\* A release of a header has the type of rel.
LEMMA ReleaseTyped ==
  ASSUME NEW h \in Headers
  PROVE  Release(h) \in RelType
BY DEF Release, RelType

\* The snapshot holds at most 255 subscribers, of which no two share a task.
LEMMA PublishSnapshotStep ==
  ASSUME IInv, NEW t \in Threads, PublishSnapshot(t)
  PROVE  IInv'
<1>1. At(t, "created") /\ TypeOK  BY DEF PublishSnapshot, IInv
<1>2. PICK h \in Headers : h = call[t].msg  BY <1>1, Entering
<1>3. PICK id \in MsgIds : id = hdr[h].id
  <2>1. Published \subseteq MsgIds  BY BusAssumption
  <2> QED  BY <1>2, <2>1 DEF PublishSnapshot
<1>4. PICK S \in SUBSET Modules : S = subs[id]  BY <1>1 DEF TypeOK
<1>5. /\ hist' = [hist EXCEPT ![h].owed = Owed(id, S)]
      /\ UNCHANGED <<hdr, used, free, subs, disp, queue>>
  BY <1>2, <1>3, <1>4 DEF PublishSnapshot
<1>6. hist' \in HistType
  <2>1. PICK O \in SUBSET Modules : O = Owed(id, S)  BY DEF Owed
  <2> QED  BY <1>5, <2>1, HistTyped, OwedTyped
<1>7. /\ call[t] \in CallType /\ hdr[h] \in HeaderType /\ NoRel \in RelType
      /\ rel' = rel => rel' = [rel EXCEPT ![t] = NoRel]
  BY <1>1, <1>2, Entering
<1>8. CASE S = {} /\ Return(t) /\ rel' = [rel EXCEPT ![t] = Release(h)]
  <2>1. Moves(t, NoCall, Release(h), hdr[h])
    <3>1. call' = [call EXCEPT ![t] = NoCall]  BY <1>8 DEF Return
    <3>2. rel' = [rel EXCEPT ![t] = Release(h)]  BY <1>8
    <3> QED  BY <1>2, <1>5, <3>1, <3>2, LeavesHeader
  <2>2. UNCHANGED queue  BY <1>5
  <2> QED  BY <1>1, <1>2, <1>6, <2>1, <2>2, ReleaseTyped, OwnerLeaves
<1>9. ASSUME S # {}, NEW R \in Dedup(S), UNCHANGED rel,
             call' = [call EXCEPT ![t].pc = "stamp", ![t].pending = R]
      PROVE  IInv'
  <2>1. R \in SUBSET Modules /\ Spread(R) /\ Cardinality(R) <= 255
    BY <1>4, <1>9, DedupSpreads
  <2>2. PICK c \in CallType : c = [call[t] EXCEPT !.pc = "stamp", !.pending = R]
    BY <1>7, <2>1 DEF CallType
  <2>3. c.msg = h /\ c.pc = "stamp" /\ c.pending = R  BY <1>2, <1>7, <2>2 DEF CallType
  <2>4. call' = [call EXCEPT ![t] = c]  BY <1>1, <1>9, <2>2 DEF TypeOK
  <2>5. Moves(t, c, NoRel, hdr[h])  BY <1>2, <1>5, <1>7, <1>9, <2>4, LeavesHeader
  <2>6. hdr[h].ref = 1  BY <1>1, <1>2, OwnerFacts DEF At, Owning
  <2>7. UNCHANGED queue  BY <1>5
  <2> QED  BY <1>1, <1>2, <1>6, <1>7, <2>1, <2>3, <2>5, <2>6, <2>7, OwnerMoves
<1> QED  BY <1>2, <1>3, <1>4, <1>8, <1>9 DEF PublishSnapshot

\* The creator's reference becomes that of a release.
LEMMA AbandonStep ==
  ASSUME IInv, NEW t \in Threads, Abandon(t)
  PROVE  IInv'
<1>1. At(t, "created") /\ UNCHANGED <<used, hdr, free, subs, queue, disp, hist>>
  BY DEF Abandon
<1>2. PICK h \in Headers : h = call[t].msg  BY <1>1, Entering
<1>3. Moves(t, NoCall, Release(h), hdr[h])
  BY <1>1, <1>2, LeavesHeader DEF Abandon, Return
<1>4. hist' \in HistType  BY <1>1, HistTyped
<1> QED  BY <1>1, <1>2, <1>3, <1>4, ReleaseTyped, OwnerLeaves

\* The creator's reference becomes that of an inbox.
LEMMA SendEnqueueStep ==
  ASSUME IInv, NEW t \in Threads, SendEnqueue(t)
  PROVE  IInv'
<1>1. At(t, "send") /\ UNCHANGED <<used, hdr, free, subs, disp, rel, hist>>
  BY DEF SendEnqueue
<1>2. PICK h \in Headers : h = call[t].msg  BY <1>1, Entering
<1>3. NoRel \in RelType /\ rel' = [rel EXCEPT ![t] = NoRel]  BY <1>1, Entering
<1>4. Moves(t, NoCall, NoRel, hdr[h])
  BY <1>1, <1>2, <1>3, LeavesHeader DEF SendEnqueue, Return
<1>5. hist' \in HistType  BY <1>1, HistTyped
<1>6. Deposit(h)  BY <1>2 DEF SendEnqueue
<1> QED  BY <1>1, <1>2, <1>3, <1>4, <1>5, <1>6, OwnerLeaves

\* The creator's reference is lost, and with it the header.
LEMMA SendFailsStep ==
  ASSUME IInv, NEW t \in Threads, SendFails(t)
  PROVE  IInv'
<1>1. At(t, "send") /\ UNCHANGED <<used, hdr, free, subs, queue, disp, rel>>
  BY DEF SendFails
<1>2. PICK h \in Headers : h = call[t].msg  BY <1>1, Entering
<1>3. NoRel \in RelType /\ rel' = [rel EXCEPT ![t] = NoRel]  BY <1>1, Entering
<1>4. Moves(t, NoCall, NoRel, hdr[h])
  BY <1>1, <1>2, <1>3, LeavesHeader DEF SendFails, Return
<1>5. hist' \in HistType
  <2>1. PICK x \in HistRecord : x = hist[h]  BY HistTyped DEF HistType
  <2>2. PICK y \in HistRecord : y = [x EXCEPT !.owed = {}, !.lost = TRUE]  BY DEF HistRecord
  <2>3. hist' = [hist EXCEPT ![h] = y]  BY <1>2, <2>1, <2>2 DEF SendFails
  <2> QED  BY <2>2, <2>3, HistTyped DEF HistType
<1> QED  BY <1>1, <1>2, <1>3, <1>4, <1>5, OwnerLeaves

\* A wake token's reference goes to an inbox.
LEMMA WakeEnqueueStep ==
  ASSUME IInv, NEW t \in Threads, WakeEnqueue(t)
  PROVE  IInv'
<1>1. At(t, "wake") /\ UNCHANGED <<used, hdr, free, subs, disp, rel, hist>>
  BY DEF WakeEnqueue
<1>2. PICK h \in Headers : h = call[t].msg  BY <1>1, Entering
<1>3. NoRel \in RelType /\ rel' = [rel EXCEPT ![t] = NoRel]  BY <1>1, Entering
<1>4. Moves(t, NoCall, NoRel, hdr[h])
  BY <1>1, <1>2, <1>3, LeavesHeader DEF WakeEnqueue, Return
<1>5. hist' \in HistType  BY <1>1, HistTyped
<1>6. Deposit(h)  BY <1>2 DEF WakeEnqueue
<1> QED  BY <1>1, <1>2, <1>3, <1>4, <1>5, <1>6, OwnerLeaves

\* A wake token's reference goes to a release.
LEMMA WakeDropStep ==
  ASSUME IInv, NEW t \in Threads, WakeDrop(t)
  PROVE  IInv'
<1>1. At(t, "wake") /\ UNCHANGED <<used, hdr, free, subs, queue, disp, hist>>
  BY DEF WakeDrop
<1>2. PICK h \in Headers : h = call[t].msg  BY <1>1, Entering
<1>3. Moves(t, NoCall, Release(h), hdr[h])
  BY <1>1, <1>2, LeavesHeader DEF WakeDrop, Return
<1>4. hist' \in HistType  BY <1>1, HistTyped
<1> QED  BY <1>1, <1>2, <1>3, <1>4, ReleaseTyped, OwnerLeaves
-----------------------------------------------------------------------------
(* Fanning out                                                             *)

\* ref_count is the number of subscribers still to be served and of tasks and
\* releases that already have the header.
LEMMA FanOutCount ==
  ASSUME IInv, NEW t \in Threads, call[t].pc \in FanOut, NEW h \in Headers, h = call[t].msg
  PROVE  /\ call[t].pending \in SUBSET Modules /\ call[t].pending # {}
         /\ hdr[h].ref = Cardinality(call[t].pending) + Cardinality(Inboxes(h))
                         + Cardinality(Dispatching(h)) + Cardinality(Releasing(h))
         /\ \A m \in call[t].pending : TaskOf(m) \notin Inboxes(h)
<1>1. Calls(h) = {} /\ Pending(h) = call[t].pending /\ hdr[h].ref = RefCount(h)
      /\ Spread(call[t].pending)
  BY FanOutFacts
<1>2. hdr[h].ref = Sum({}, call[t].pending, Inboxes(h), Dispatching(h), Releasing(h))
  BY <1>1, RefCountIs
<1>3. call[t].pending \in SUBSET Modules  BY DEF IInv, TypeOK, CallType
<1>4. /\ Cardinality(call[t].pending) \in Nat /\ Cardinality(Inboxes(h)) \in Nat
      /\ Cardinality(Dispatching(h)) \in Nat /\ Cardinality(Releasing(h)) \in Nat
  BY <1>3, HolderTypes, Countable
<1>5. Cardinality({}) = 0  BY FS_EmptySet
<1>6. \A m \in call[t].pending : TaskOf(m) \notin Inboxes(h)  BY DEF IInv, HeaderInv
<1> QED  BY <1>1, <1>2, <1>3, <1>4, <1>5, <1>6 DEF Sum, Spread

\* One reference becomes as many as there are subscribers.
LEMMA PublishStampStep ==
  ASSUME IInv, NEW t \in Threads, PublishStamp(t)
  PROVE  IInv'
<1>1. /\ At(t, "stamp") /\ UNCHANGED <<used, free, subs, queue, disp, rel, hist>>
      /\ call[t].pc \in Owning /\ "stamp" \notin {"idle", "payload"}
  BY DEF PublishStamp, At, Owning
<1>2. PICK h \in Headers : h = call[t].msg  BY <1>1, Entering
<1>3. /\ call[t] \in CallType /\ hdr[h] \in HeaderType /\ NoRel \in RelType
      /\ rel' = [rel EXCEPT ![t] = NoRel] /\ call[t].pc = "stamp"
  BY <1>1, <1>2, Entering
<1>4. PICK P \in SUBSET Modules : P = call[t].pending  BY <1>3 DEF CallType
<1>5. Spread(P) /\ Cardinality(P) <= 255 /\ P # {}
  BY <1>3, <1>4 DEF IInv, Threading, Within, Spread
<1>6. Cardinality(P) \in 0..255
  <2>1. Cardinality(P) \in Nat  BY Countable
  <2> QED  BY <1>5, <2>1
<1>7. PICK c \in CallType : c = [call[t] EXCEPT !.pc = "target"]  BY <1>3 DEF CallType
<1>8. c.msg = h /\ c.pc = "target" /\ c.pending = P  BY <1>2, <1>3, <1>4, <1>7 DEF CallType
<1>9. PICK e \in HeaderType : e = [hdr[h] EXCEPT !.ref = Cardinality(P)]
  BY <1>3, <1>6 DEF HeaderType
<1>10. e.ref = Cardinality(P) /\ e.id = hdr[h].id /\ e.payload = hdr[h].payload
  BY <1>3, <1>9 DEF HeaderType
<1>11. Moves(t, c, NoRel, e)
  <2>1. call' = [call EXCEPT ![t] = c]  BY <1>7 DEF PublishStamp
  <2>2. hdr' = [hdr EXCEPT ![h] = e]  BY <1>2, <1>4, <1>9 DEF PublishStamp
  <2> QED  BY <1>1, <1>2, <1>3, <2>1, <2>2 DEF Moves
<1>12. Inboxes(h) = {} /\ Dispatching(h) = {} /\ Releasing(h) = {} /\ Freeing(h) = {}
  BY <1>1, <1>2, OwnerFacts
<1>13. /\ call'[t] = c /\ \A u \in Threads : call'[u].msg = h => u = t
       /\ h \in used' /\ hdr'[h] = e
       /\ Dispatching(h)' = Dispatching(h) /\ Releasing(h)' = Releasing(h)
       /\ Freeing(h)' = Freeing(h)
  BY <1>1, <1>2, <1>3, <1>11, MoveFacts
<1>14. /\ queue' \in [Tasks -> Seq(Headers)] /\ \A u \in Tasks : Distinct(queue'[u])
       /\ \A g \in Headers : Inboxes(g)' = Inboxes(g)
  BY <1>1, SameQueues
<1>15. HeaderInv(h)'
  <2>1. PICK N \in SUBSET Tasks : N = {}  OBVIOUS
  <2>2. PICK R \in SUBSET Threads : R = {}  OBVIOUS
  <2>3. hdr'[h].ref = Cardinality(c.pending) + Cardinality(N) + Cardinality(N) + Cardinality(R)
    <3>1. Cardinality(N) = 0 /\ Cardinality(R) = 0  BY <2>1, <2>2, FS_EmptySet
    <3> QED  BY <1>6, <1>8, <1>10, <1>13, <3>1
  <2>4. Inboxes(h)' = N /\ Dispatching(h)' = N /\ Releasing(h)' = R /\ Freeing(h)' = {}
    BY <1>12, <1>13, <1>14, <2>1, <2>2
  <2>5. c.pc \in FanOut /\ c.pc # "enqueue"  BY <1>8 DEF FanOut
  <2>6. \A m \in c.pending : TaskOf(m) \notin N  BY <2>1
  <2> QED  BY <1>5, <1>8, <1>13, <2>3, <2>4, <2>5, <2>6, FannedOut
<1>16. Within(c, NoRel)  BY <1>5, <1>8 DEF Within, NoRel, FanOut
<1>17. hist' \in [Headers -> HistRecord]
  BY <1>1 DEF IInv, TypeOK
<1> QED
  BY <1>1, <1>2, <1>3, <1>8, <1>10, <1>11, <1>14, <1>15, <1>16, <1>17, QuietMove

\* Writing receiver_id changes nobody's reference.
LEMMA PublishTargetStep ==
  ASSUME IInv, NEW t \in Threads, PublishTarget(t)
  PROVE  IInv'
<1>1. /\ At(t, "target") /\ UNCHANGED <<used, free, subs, queue, disp, rel, hist>>
      /\ call[t].pc \in FanOut /\ "target" \notin {"idle", "payload"}
  BY DEF PublishTarget, At, FanOut
<1>2. PICK h \in Headers : h = call[t].msg  BY <1>1, Entering
<1>3. /\ call[t] \in CallType /\ hdr[h] \in HeaderType /\ NoRel \in RelType
      /\ rel' = [rel EXCEPT ![t] = NoRel]
  BY <1>1, <1>2, Entering
<1>4. PICK P \in SUBSET Modules : P = call[t].pending  BY <1>3 DEF CallType
<1>5. PICK m \in P : hdr' = [hdr EXCEPT ![h].receiver = m]  BY <1>2, <1>4 DEF PublishTarget
<1>6. /\ P # {} /\ \A n \in P : TaskOf(n) \notin Inboxes(h)
      /\ hdr[h].ref = Cardinality(P) + Cardinality(Inboxes(h))
                      + Cardinality(Dispatching(h)) + Cardinality(Releasing(h))
  BY <1>1, <1>2, <1>4, FanOutCount
<1>7. PICK c \in CallType : c = [call[t] EXCEPT !.pc = "enqueue"]  BY <1>3 DEF CallType
<1>8. c.msg = h /\ c.pc = "enqueue" /\ c.pending = P  BY <1>2, <1>3, <1>4, <1>7 DEF CallType
<1>9. PICK e \in HeaderType : e = [hdr[h] EXCEPT !.receiver = m]
  BY <1>3 DEF HeaderType
<1>10. /\ e.ref = hdr[h].ref /\ e.id = hdr[h].id /\ e.payload = hdr[h].payload
       /\ e.receiver = m
  BY <1>3, <1>9 DEF HeaderType
<1>11. Moves(t, c, NoRel, e)
  <2>1. call' = [call EXCEPT ![t] = c]  BY <1>7 DEF PublishTarget
  <2>2. hdr' = [hdr EXCEPT ![h] = e]  BY <1>5, <1>9
  <2> QED  BY <1>1, <1>2, <1>3, <2>1, <2>2 DEF Moves
<1>12. /\ call'[t] = c /\ \A u \in Threads : call'[u].msg = h => u = t
       /\ h \in used' /\ hdr'[h] = e
       /\ Dispatching(h)' = Dispatching(h) /\ Releasing(h)' = Releasing(h)
       /\ Freeing(h)' = Freeing(h)
  BY <1>1, <1>2, <1>3, <1>11, MoveFacts
<1>13. /\ queue' \in [Tasks -> Seq(Headers)] /\ \A u \in Tasks : Distinct(queue'[u])
       /\ \A g \in Headers : Inboxes(g)' = Inboxes(g)
  BY <1>1, SameQueues
<1>14. HeaderInv(h)'
  <2>1. PICK I \in SUBSET Tasks : I = Inboxes(h)  BY HolderTypes
  <2>2. PICK D \in SUBSET Tasks : D = Dispatching(h)  BY HolderTypes
  <2>3. PICK R \in SUBSET Threads : R = Releasing(h)  BY HolderTypes
  <2>4. hdr'[h].ref = Cardinality(c.pending) + Cardinality(I) + Cardinality(D) + Cardinality(R)
    BY <1>6, <1>8, <1>10, <1>12, <2>1, <2>2, <2>3
  <2>5. Freeing(h) = {}  BY <1>1, <1>2, FanOutFacts
  <2>6. Inboxes(h)' = I /\ Dispatching(h)' = D /\ Releasing(h)' = R /\ Freeing(h)' = {}
    BY <1>12, <1>13, <2>1, <2>2, <2>3, <2>5
  <2>7. c.pc \in FanOut /\ hdr'[h].receiver \in c.pending
    BY <1>8, <1>10, <1>12 DEF FanOut
  <2>8. \A n \in c.pending : TaskOf(n) \notin I  BY <1>6, <1>8, <2>1
  <2>9. c.pending \in SUBSET Modules /\ c.pending # {}  BY <1>6, <1>8
  <2> QED  BY <1>8, <1>12, <2>4, <2>6, <2>7, <2>8, <2>9, FannedOut
<1>15. Within(c, NoRel)
  BY <1>1, <1>2, <1>4, <1>8, FanOutFacts DEF Within, NoRel, FanOut
<1>16. hist' \in [Headers -> HistRecord]
  BY <1>1 DEF IInv, TypeOK
<1> QED
  BY <1>1, <1>2, <1>3, <1>8, <1>10, <1>11, <1>13, <1>14, <1>15, <1>16, QuietMove
\* The loop step after an enqueue: the reference of the served subscriber has
\* gone to its inbox, or to a release.
LEMMA NextTargetStep ==
  ASSUME IInv, NEW t \in Threads, At(t, "enqueue"), NextTarget(t),
         NEW h \in Headers, h = call[t].msg, NEW r \in RelType,
         \/ r = NoRel /\ Deposit(h)
         \/ r = Release(h) /\ UNCHANGED queue,
         rel' = [rel EXCEPT ![t] = r], UNCHANGED <<hdr, used, free, subs, disp>>,
         hist' \in HistType
  PROVE  IInv'
<1>1. /\ call[t].pc \in FanOut /\ call[t].pc = "enqueue" /\ "enqueue" \notin {"idle", "payload"}
      /\ call[t] \in CallType /\ hdr[h] \in HeaderType /\ NoCall \in CallType /\ h # None
  <2>1. h # None  BY BusAssumption
  <2>2. call[t] \in CallType /\ hdr[h] \in HeaderType /\ NoCall \in CallType  BY Entering
  <2> QED  BY <2>1, <2>2 DEF At, FanOut
<1>2. PICK P \in SUBSET Modules : P = call[t].pending  BY <1>1 DEF CallType
<1>3. PICK m \in P : m = hdr[h].receiver  BY <1>1, <1>2 DEF IInv, HeaderInv
<1>4. PICK k : k = TaskOf(m)  OBVIOUS
<1>5. PICK I \in SUBSET Tasks : I = Inboxes(h)  BY HolderTypes
<1>6. PICK D \in SUBSET Tasks : D = Dispatching(h)  BY HolderTypes
<1>7. PICK R \in SUBSET Threads : R = Releasing(h)  BY HolderTypes
<1>8. /\ Spread(P) /\ Freeing(h) = {}  BY <1>1, <1>2, FanOutFacts
<1>9. /\ \A n \in P : TaskOf(n) \notin I
      /\ hdr[h].ref = Cardinality(P) + Cardinality(I) + Cardinality(D) + Cardinality(R)
  BY <1>1, <1>2, <1>5, <1>6, <1>7, FanOutCount
<1>10. PICK rest \in SUBSET P : rest = P \ {m}  OBVIOUS
<1>11. PICK c \in CallType :
         c = IF rest = {} THEN NoCall ELSE [call[t] EXCEPT !.pc = "target", !.pending = rest]
  BY <1>1, <1>10 DEF CallType
<1>12. call' = [call EXCEPT ![t] = c]  BY <1>2, <1>3, <1>10, <1>11 DEF NextTarget
<1>13. rest # {} => c.msg = h /\ c.pc = "target" /\ c.pending = rest
  BY <1>1, <1>11 DEF CallType
<1>14. Moves(t, c, r, hdr[h])  BY <1>12, LeavesHeader
<1>15. /\ call'[t] = c /\ \A u \in Threads : call'[u].msg = h => u = t
       /\ c.msg # h => \A u \in Threads : call'[u].msg # h
       /\ h \in used' /\ hdr'[h] = hdr[h] /\ Freeing(h)' = Freeing(h)
       /\ Dispatching(h)' = Dispatching(h) /\ t \notin Releasing(h)
       /\ r = NoRel => Releasing(h)' = Releasing(h)
       /\ r = Release(h) => Releasing(h)' = Releasing(h) \cup {t}
  BY <1>1, <1>14, MoveFacts
<1>16. NoRel # Release(h)  BY DEF NoRel, Release
\* The inboxes and the releases after the step.
<1>17. PICK J \in SUBSET Tasks, Q \in SUBSET Threads :
         /\ Inboxes(h)' = J /\ Releasing(h)' = Q
         /\ Cardinality(J) + Cardinality(Q) = Cardinality(I) + Cardinality(R) + 1
         /\ \A n \in rest : TaskOf(n) \notin J
         /\ queue' \in [Tasks -> Seq(Headers)] /\ \A u \in Tasks : Distinct(queue'[u])
         /\ \A g \in Headers : g # h => Inboxes(g)' = Inboxes(g)
  <2>1. /\ IsFiniteSet(I) /\ Cardinality(I) \in Nat
        /\ IsFiniteSet(R) /\ Cardinality(R) \in Nat
    BY Countable
  <2>2. CASE r = NoRel /\ Deposit(h)
    <3>1. k \notin I  BY <1>3, <1>4, <1>9
    <3>2. TaskOf(hdr[h].receiver) = k /\ TaskOf(hdr[h].receiver) \notin Inboxes(h)
      BY <1>3, <1>4, <1>5, <3>1
    <3>3. k \in Tasks  BY <2>2, <3>2, Deposited
    <3>4. /\ queue' \in [Tasks -> Seq(Headers)] /\ \A u \in Tasks : Distinct(queue'[u])
          /\ Inboxes(h)' = I \cup {k}
          /\ \A g \in Headers : g # h => Inboxes(g)' = Inboxes(g)
      BY <1>5, <2>2, <3>2, Deposited
    <3>5. PICK J \in SUBSET Tasks : J = I \cup {k}  BY <3>3
    <3>6. Cardinality(J) = Cardinality(I) + 1  BY <2>1, <3>1, <3>5, OneMore
    <3>7. \A n \in rest : TaskOf(n) # k
      <4>1. k # None  BY <3>2, <2>2 DEF Deposit
      <4>2. ASSUME NEW n \in rest  PROVE ~SameTask(n, m)
        <5>1. n \in P /\ n # m  BY <1>10
        <5> QED  BY <1>8, <5>1 DEF Spread
      <4> QED  BY <1>4, <4>1, <4>2 DEF SameTask
    <3>8. \A n \in rest : TaskOf(n) \notin J  BY <1>9, <1>10, <3>5, <3>7
    <3>9. Releasing(h)' = R  BY <1>7, <1>15, <2>2
    <3>10. Cardinality(J) + Cardinality(R) = Cardinality(I) + Cardinality(R) + 1
      BY <2>1, <3>6
    <3>11. Inboxes(h)' = J  BY <3>4, <3>5
    <3> QED  BY <3>4, <3>8, <3>9, <3>10, <3>11
  <2>3. CASE r = Release(h) /\ UNCHANGED queue
    <3>1. /\ queue' \in [Tasks -> Seq(Headers)] /\ \A u \in Tasks : Distinct(queue'[u])
          /\ \A g \in Headers : Inboxes(g)' = Inboxes(g)
      BY <2>3, SameQueues
    <3>2. PICK Q \in SUBSET Threads : Q = R \cup {t}  OBVIOUS
    <3>3. Cardinality(Q) = Cardinality(R) + 1  BY <1>7, <1>15, <2>1, <3>2, OneMore
    <3>4. Releasing(h)' = Q  BY <1>7, <1>15, <2>3, <3>2
    <3>5. Inboxes(h)' = I  BY <1>5, <3>1
    <3>6. Cardinality(I) + Cardinality(Q) = Cardinality(I) + Cardinality(R) + 1
      BY <2>1, <3>3
    <3>7. \A n \in rest : TaskOf(n) \notin I  BY <1>9, <1>10
    <3> QED  BY <3>1, <3>4, <3>5, <3>6, <3>7
  <2> QED  BY <2>2, <2>3
<1>18. /\ hdr'[h].ref = Cardinality(rest) + Cardinality(J) + Cardinality(D) + Cardinality(Q)
       /\ Dispatching(h)' = D /\ Freeing(h)' = {}
  <2>1. /\ Cardinality(I) \in Nat /\ Cardinality(R) \in Nat /\ Cardinality(D) \in Nat
        /\ Cardinality(J) \in Nat /\ Cardinality(Q) \in Nat
    BY Countable
  <2>2. IsFiniteSet(P) /\ Cardinality(P) \in Nat /\ Cardinality(rest) \in Nat  BY Countable
  <2>3. Cardinality(rest) = Cardinality(P) - 1  BY <1>10, <2>2, OneLess
  <2>4. hdr'[h].ref = Cardinality(rest) + Cardinality(J) + Cardinality(D) + Cardinality(Q)
    <3>1. hdr'[h].ref = Cardinality(P) + Cardinality(I) + Cardinality(D) + Cardinality(R)
      BY <1>9, <1>15
    <3>2. Cardinality(J) + Cardinality(Q) = Cardinality(I) + Cardinality(R) + 1  BY <1>17
    <3> QED  BY <2>1, <2>2, <2>3, <3>1, <3>2
  <2> QED  BY <1>6, <1>8, <1>15, <2>4
<1>19. HeaderInv(h)'
  <2>1. CASE rest = {}
    <3>1. c = NoCall  BY <1>11, <2>1
    <3>2. \A u \in Threads : call'[u].msg # h  BY <1>1, <1>15, <3>1 DEF NoCall
    <3>3. hdr'[h].ref = Cardinality(J) + Cardinality(D) + Cardinality(Q)
      <4>1. Cardinality(rest) = 0  BY <2>1, FS_EmptySet
      <4>2. /\ Cardinality(D) \in Nat /\ Cardinality(J) \in Nat /\ Cardinality(Q) \in Nat
        BY Countable
      <4> QED  BY <1>18, <4>1, <4>2
    <3> QED  BY <1>15, <1>17, <1>18, <3>2, <3>3, HandedOver
  <2>2. CASE rest # {}
    <3>1. /\ c.msg = h /\ c.pending = rest /\ c.pc \in FanOut /\ c.pc # "enqueue"
      BY <1>13, <2>2 DEF FanOut
    <3>2. /\ c.pending \in SUBSET Modules /\ c.pending # {}
          /\ \A n \in c.pending : TaskOf(n) \notin J
          /\ hdr'[h].ref = Cardinality(c.pending) + Cardinality(J) + Cardinality(D)
                           + Cardinality(Q)
      BY <1>17, <1>18, <2>2, <3>1
    <3> QED  BY <1>15, <1>17, <1>18, <3>1, <3>2, FannedOut
  <2> QED  BY <2>1, <2>2
<1>20. Within(c, r) /\ (c = NoCall \/ c.msg = h) /\ c.pc # "payload"
  <2>1. CASE rest = {}  BY <1>11, <2>1 DEF Within, NoCall, FanOut, NoRel, Release
  <2>2. CASE rest # {}
    <3>1. Spread(rest)  BY <1>8, <2>2 DEF Spread
    <3> QED  BY <1>13, <2>2, <3>1 DEF Within, FanOut, NoRel, Release
  <2> QED  BY <2>1, <2>2
<1>21. hist' \in [Headers -> HistRecord]  BY DEF HistType
<1>22. r = NoRel \/ r = Release(h)  OBVIOUS
<1> QED  BY <1>1, <1>14, <1>17, <1>19, <1>20, <1>21, <1>22, QuietMove
\* The reference of the served subscriber goes to its inbox.
LEMMA PublishEnqueueStep ==
  ASSUME IInv, NEW t \in Threads, PublishEnqueue(t)
  PROVE  IInv'
<1>1. /\ At(t, "enqueue") /\ NextTarget(t)
      /\ UNCHANGED <<used, hdr, free, subs, disp, rel, hist>>
  BY DEF PublishEnqueue
<1>2. PICK h \in Headers : h = call[t].msg  BY <1>1, Entering
<1>3. NoRel \in RelType /\ rel' = [rel EXCEPT ![t] = NoRel]  BY <1>1, Entering
<1>4. Deposit(h)  BY <1>2 DEF PublishEnqueue
<1>5. hist' \in HistType  BY <1>1, HistTyped
<1> QED  BY <1>1, <1>2, <1>3, <1>4, <1>5, NextTargetStep

\* The reference of a subscriber whose inbox is full goes to a release.
LEMMA PublishDropStep ==
  ASSUME IInv, NEW t \in Threads, PublishDrop(t)
  PROVE  IInv'
<1>1. /\ At(t, "enqueue") /\ NextTarget(t)
      /\ UNCHANGED <<used, hdr, free, subs, queue, disp>>
  BY DEF PublishDrop
<1>2. PICK h \in Headers : h = call[t].msg  BY <1>1, Entering
<1>3. Release(h) \in RelType /\ rel' = [rel EXCEPT ![t] = Release(h)]
  BY <1>2, ReleaseTyped DEF PublishDrop
<1>4. hist' \in HistType
  <2>1. PICK S \in SUBSET Modules : S = hist[h].owed \ Cohort(hdr[h].receiver)
    <3>1. hist[h].owed \in SUBSET Modules  BY HistTyped DEF HistType, HistRecord
    <3> QED  BY <3>1
  <2>2. hist' = [hist EXCEPT ![h].owed = S]  BY <1>2, <2>1 DEF PublishDrop
  <2> QED  BY <2>2, HistTyped, OwedTyped
<1> QED  BY <1>1, <1>2, <1>3, <1>4, NextTargetStep

-----------------------------------------------------------------------------
(* Giving up and subscribing                                               *)

\* Without a payload the slot goes back; nobody refers to it.
LEMMA CreateFailsStep ==
  ASSUME IInv, NEW t \in Threads, CreateFails(t)
  PROVE  IInv'
<1>1. /\ At(t, "payload") /\ UNCHANGED <<free, subs, queue, disp, rel, hist>>
  BY DEF CreateFails
<1>2. PICK h \in Headers : h = call[t].msg  BY <1>1, Entering
<1>3. /\ used' = used \ {h} /\ hdr' = [hdr EXCEPT ![h] = BlankHeader]
      /\ call' = [call EXCEPT ![t] = NoCall]
  BY <1>2 DEF CreateFails, Return
<1>4. TypeOK /\ h # None  BY BusAssumption DEF IInv
<1>5. /\ Busy(t) /\ rel[t] = NoRel /\ NoCall \in CallType /\ NoRel \in RelType
      /\ rel' = [rel EXCEPT ![t] = NoRel] /\ call[t].pc \in Owning
  <2>1. call[t].pc = "payload"  BY <1>1, Entering
  <2> QED  BY <1>1, <2>1, Entering DEF Owning
<1>6. PICK e \in HeaderType : e = BlankHeader
  <2>1. 0 \in 0..255  OBVIOUS
  <2> QED  BY <2>1 DEF BlankHeader, HeaderType
<1>7. /\ call'[t] = NoCall /\ \A u \in Threads : u # t => call'[u] = call[u]
      /\ hdr'[h] = e /\ \A g \in Headers : g # h => hdr'[g] = hdr[g]
  BY <1>3, <1>4, <1>6 DEF TypeOK
<1>8. /\ Inboxes(h) = {} /\ Dispatching(h) = {} /\ Releasing(h) = {} /\ Freeing(h) = {}
      /\ \A u \in Threads : call[u].msg = h => u = t
  BY <1>2, <1>5, OwnerFacts
<1>9. \A u \in Threads : call'[u].msg # h  BY <1>4, <1>7, <1>8 DEF NoCall
<1>10. Inboxes(h)' = {} /\ Dispatching(h)' = {} /\ Releasing(h)' = {} /\ Freeing(h)' = {}
  BY <1>1, <1>8 DEF Inboxes, Dispatching, Releasing, Freeing
<1>11. HeaderInv(h)' /\ ~(RefCount(h)' > 0)
  <2>1. PICK N \in SUBSET Tasks : N = {}  OBVIOUS
  <2>2. PICK R \in SUBSET Threads : R = {}  OBVIOUS
  <2>3. Inboxes(h)' = N /\ Dispatching(h)' = N /\ Releasing(h)' = R  BY <1>10, <2>1, <2>2
  <2> QED  BY <1>9, <1>10, <2>1, <2>2, <2>3, HandedOver
<1>12. PayloadInv(h)'
  <2>1. hdr'[h].payload = None  BY <1>6, <1>7 DEF BlankHeader
  <2>2. \A u \in Threads : rel'[u].msg = h => rel'[u].pc # "payload"  BY <1>10 DEF Freeing
  <2> QED  BY <1>11, <2>1, <2>2 DEF PayloadInv
<1>13. \A g \in Headers : Undisturbed(g)
  <2>1. \A g \in Headers : hdr'[g].payload \in {hdr[g].payload, None}
    BY <1>6, <1>7 DEF BlankHeader
  <2> QED  BY <1>1, <2>1, QuietPool DEF IInv
<1>14. /\ queue' \in [Tasks -> Seq(Headers)] /\ \A u \in Tasks : Distinct(queue'[u])
       /\ \A g \in Headers : Inboxes(g)' = Inboxes(g)
  BY <1>1, SameQueues
<1>15. Within(NoCall, NoRel)  BY DEF Within, NoCall, NoRel, FanOut
<1>16. NoCall.msg = None /\ NoRel.msg = None  BY DEF NoCall, NoRel
<1>17. /\ free' \subseteq Blocks /\ used' \subseteq Headers
       /\ hist' \in [Headers -> HistRecord]
  BY <1>1, <1>3, <1>4 DEF TypeOK
<1>18. \A g \in Headers : g # h => (g \in used') = (g \in used)  BY <1>3
<1>19. UNCHANGED <<disp, subs>> /\ call[t].msg \in {h, None}  BY <1>1, <1>2
<1>20. hdr' = [hdr EXCEPT ![h] = e]  BY <1>3, <1>6
<1> QED
  BY <1>3, <1>5, <1>11, <1>12, <1>13, <1>14, <1>15, <1>16, <1>17, <1>18, <1>19, <1>20,
     CallMoves

\* A change to the subscriptions concerns no header in flight.
LEMMA SubscriptionStep ==
  ASSUME IInv, UNCHANGED <<used, hdr, free, queue, disp, call, rel>>,
         subs' \in [MsgIds -> SUBSET Modules], SubsBounded', hist' \in HistType
  PROVE  IInv'
<1>1. TypeOK /\ Threading /\ Looping  BY DEF IInv
<1>2. TypeOK'  BY <1>1 DEF TypeOK, HistType
<1>3. Threading'  BY <1>1 DEF Threading, Within, Spread
<1>4. Looping'  BY <1>1 DEF Looping
<1>5. ASSUME NEW h \in Headers  PROVE (HeaderInv(h) /\ PayloadInv(h))'
  <2>1. SameHeader(h)  BY DEF SameHeader, SameHolders, Inboxes, Dispatching
  <2>2. HeaderInv(h) /\ PayloadInv(h)  BY DEF IInv
  <2>3. Undisturbed(h)  BY <2>2 DEF Undisturbed, PayloadInv
  <2> QED  BY <2>1, <2>2, <2>3, KeepsHeader, KeepsPayload
<1> QED  BY <1>2, <1>3, <1>4, <1>5 DEF IInv

\* A new subscriber fits the table.
LEMMA SubscribeStep ==
  ASSUME IInv, NEW t \in Threads, NEW id \in MsgIds, NEW m \in Modules, Subscribe(t, id, m)
  PROVE  IInv'
<1>1. /\ subs \in [MsgIds -> SUBSET Modules] /\ SubsBounded
      /\ m \notin subs[id] /\ Cardinality(subs[id]) < MaxSubscribers
      /\ subs' = [subs EXCEPT ![id] = subs[id] \cup {m}]
      /\ UNCHANGED <<used, hdr, free, queue, disp, call, rel, hist>>
  BY DEF IInv, TypeOK, Subscribe
<1>2. subs' \in [MsgIds -> SUBSET Modules]  BY <1>1
<1>3. Cardinality(subs[id] \cup {m}) <= MaxSubscribers
  <2>1. IsFiniteSet(subs[id]) /\ Cardinality(subs[id]) \in Nat  BY <1>1, Countable
  <2>2. Cardinality(subs[id] \cup {m}) = Cardinality(subs[id]) + 1  BY <1>1, <2>1, OneMore
  <2>3. MaxSubscribers \in Nat  BY BusAssumption
  <2> QED  BY <1>1, <2>1, <2>2, <2>3
<1>4. SubsBounded'  BY <1>1, <1>3 DEF SubsBounded
<1> QED  BY <1>1, <1>2, <1>4, HistTyped, SubscriptionStep

\* A subscriber that leaves shortens its list.
LEMMA UnsubscribeStep ==
  ASSUME IInv, NEW t \in Threads, NEW id \in MsgIds, NEW m \in Modules, Unsubscribe(t, id, m)
  PROVE  IInv'
<1>1. /\ subs \in [MsgIds -> SUBSET Modules] /\ SubsBounded
      /\ m \in subs[id] /\ subs' = [subs EXCEPT ![id] = subs[id] \ {m}]
      /\ UNCHANGED <<used, hdr, free, queue, disp, call, rel>>
  BY DEF IInv, TypeOK, Unsubscribe
<1>2. subs' \in [MsgIds -> SUBSET Modules]  BY <1>1
<1>3. Cardinality(subs[id] \ {m}) <= MaxSubscribers
  <2>1. IsFiniteSet(subs[id]) /\ Cardinality(subs[id]) \in Nat  BY <1>1, Countable
  <2>2. Cardinality(subs[id] \ {m}) = Cardinality(subs[id]) - 1  BY <1>1, <2>1, OneLess
  <2>3. MaxSubscribers \in Nat /\ Cardinality(subs[id]) <= MaxSubscribers
    BY <1>1, BusAssumption DEF SubsBounded
  <2> QED  BY <2>1, <2>2, <2>3
<1>4. SubsBounded'  BY <1>1, <1>3 DEF SubsBounded
<1>5. hist' \in HistType
  <2>1. \A h \in Headers : hist[h] \in HistRecord
    BY HistTyped DEF HistType
  <2>2. \A h \in Headers : [hist[h] EXCEPT !.owed = @ \ {m}] \in HistRecord
    BY <2>1 DEF HistRecord
  <2> QED  BY <2>1, <2>2 DEF Unsubscribe, HistType
<1> QED  BY <1>1, <1>2, <1>4, <1>5, SubscriptionStep
-----------------------------------------------------------------------------
(* Releasing                                                               *)

\* What a step of hsys_msg_release owes the invariant.
LEMMA ReleaseMoves ==
  ASSUME IInv, NEW t \in Threads, rel[t] # NoRel, NEW h \in Headers, rel[t].msg = h,
         NEW r \in RelType, r = NoRel \/ (r.pc # "none" /\ r.msg = h),
         rel' = [rel EXCEPT ![t] = r],
         NEW e \in HeaderType, hdr' = [hdr EXCEPT ![h] = e],
         UNCHANGED <<queue, disp, call, subs>>, free' \subseteq Blocks, used' \subseteq Headers,
         hist' \in HistType,
         \A g \in Headers : g # h => ((g \in used') = (g \in used)) /\ Undisturbed(g),
         HeaderInv(h)', PayloadInv(h)'
  PROVE  IInv'
<1>1. TypeOK /\ Threading /\ Looping /\ SubsBounded  BY DEF IInv
<1>2. /\ rel'[t] = r /\ \A u \in Threads : u # t => rel'[u] = rel[u]
      /\ \A g \in Headers : g # h => hdr'[g] = hdr[g]
  BY <1>1 DEF TypeOK
<1>3. TypeOK'
  <2>1. hdr' \in [Headers -> HeaderType] /\ rel' \in [Threads -> RelType]
    BY <1>1 DEF TypeOK
  <2> QED  BY <1>1, <2>1 DEF TypeOK, HistType
<1>4. Threading'
  <2>1. ASSUME NEW u \in Threads  PROVE Within(call[u], rel'[u])
    <3>1. CASE u = t
      BY <1>1, <1>2, <3>1 DEF Threading, Within, NoRel
    <3>2. CASE u # t  BY <1>1, <1>2, <3>2 DEF Threading
    <3> QED  BY <3>1, <3>2
  <2> QED  BY <2>1 DEF Threading, Within, Spread
<1>5. Looping'
  <2>1. \A u \in Tasks : u \in Threads  BY DEF Threads
  <2>2. \A u \in Tasks : disp[u].pc = "dispatch" => rel'[u] = NoRel
    BY <1>1, <1>2, <2>1 DEF Looping
  <2> QED  BY <1>1, <2>2 DEF Looping
<1>6. SubsBounded'  BY <1>1 DEF SubsBounded
<1>7. ASSUME NEW g \in Headers, g # h  PROVE SameHeader(g) /\ Undisturbed(g)
  <2>1. g # None  BY BusAssumption
  <2>2. \A u \in Threads : rel'[u].msg = g \/ rel[u].msg = g => rel'[u] = rel[u]
    BY <1>2, <1>7, <2>1 DEF NoRel
  <2>3. Inboxes(g)' = Inboxes(g) /\ Dispatching(g)' = Dispatching(g)
    BY DEF Inboxes, Dispatching
  <2> QED  BY <1>2, <1>7, <2>2, <2>3 DEF SameHeader, SameHolders
<1>8. \A g \in Headers : (HeaderInv(g) /\ PayloadInv(g))'  BY <1>7, OneHeader
<1> QED  BY <1>3, <1>4, <1>5, <1>6, <1>8 DEF IInv

\* The thread that releases h, before and after its step.
LEMMA ReleaseFacts ==
  ASSUME IInv, NEW t \in Threads, rel[t].pc # "none"
  PROVE  /\ rel[t].msg \in Headers /\ rel[t] # NoRel /\ rel[t] \in RelType
         /\ hdr[rel[t].msg] \in HeaderType
         /\ rel[t].pc = "decrement" => t \in Releasing(rel[t].msg)
         /\ rel[t].pc # "decrement" => t \in Freeing(rel[t].msg)
<1>1. TypeOK /\ Within(call[t], rel[t])  BY DEF IInv, Threading
<1>2. rel[t].msg \in Headers /\ rel[t] # NoRel /\ rel[t] \in RelType
  BY <1>1 DEF Within, NoRel, TypeOK
<1>3. hdr[rel[t].msg] \in HeaderType  BY <1>1, <1>2 DEF TypeOK
<1>4. rel[t].pc = "decrement" => t \in Releasing(rel[t].msg)
  BY <1>2 DEF RelType, Releasing, Release
<1>5. rel[t].pc # "decrement" => t \in Freeing(rel[t].msg)
  BY <1>2 DEF RelType, Freeing
<1> QED  BY <1>2, <1>3, <1>4, <1>5

\* A header that t has begun to free is nobody else's.
LEMMA FreeingFacts ==
  ASSUME IInv, NEW t \in Threads, NEW h \in Headers, t \in Freeing(h)
  PROVE  /\ h \in used /\ Freeing(h) = {t} /\ ~(RefCount(h) > 0)
         /\ Inboxes(h) = {} /\ Dispatching(h) = {} /\ Releasing(h) = {}
         /\ \A u \in Threads : call[u].msg # h
<1>1. HeaderInv(h)  BY DEF IInv
<1>2. h \in used /\ Freeing(h) = {t} /\ ~(RefCount(h) > 0)  BY <1>1 DEF HeaderInv
<1> QED  BY <1>2, Unreferenced

\* The thread that reached zero gives the block back; the slot stays in use.
LEMMA ReleasePayloadStep ==
  ASSUME IInv, NEW t \in Threads, ReleasePayload(t)
  PROVE  IInv'
<1>1. /\ TypeOK /\ rel[t].pc = "payload"
      /\ UNCHANGED <<used, subs, queue, disp, call, hist>>
  BY DEF IInv, ReleasePayload
<1>2. PICK h \in Headers : h = rel[t].msg  BY <1>1, ReleaseFacts
<1>3. rel[t] # NoRel /\ rel[t] \in RelType /\ hdr[h] \in HeaderType /\ t \in Freeing(h)
  BY <1>1, <1>2, ReleaseFacts
<1>4. PICK b \in Blocks : b = hdr[h].payload
  <2>1. hdr[h].payload # None  BY <1>1, <1>2 DEF IInv, PayloadInv
  <2> QED  BY <1>3, <2>1 DEF HeaderType
<1>5. free' = free \cup {b}  BY <1>2, <1>4 DEF ReleasePayload
<1>6. PICK e \in HeaderType : e = [hdr[h] EXCEPT !.payload = None]  BY <1>3 DEF HeaderType
<1>7. hdr' = [hdr EXCEPT ![h] = e] /\ e.payload = None
  BY <1>2, <1>3, <1>6 DEF ReleasePayload, HeaderType
<1>8. PICK r \in RelType : r = [rel[t] EXCEPT !.pc = "header"]  BY <1>3 DEF RelType
<1>9. rel' = [rel EXCEPT ![t] = r] /\ r.pc = "header" /\ r.msg = h
  BY <1>2, <1>3, <1>8 DEF ReleasePayload, RelType
<1>10. /\ rel'[t] = r /\ \A u \in Threads : u # t => rel'[u] = rel[u]
       /\ hdr'[h] = e /\ \A g \in Headers : g # h => hdr'[g] = hdr[g]
  BY <1>1, <1>7, <1>9 DEF TypeOK
<1>11. /\ h \in used /\ Freeing(h) = {t} /\ Inboxes(h) = {} /\ Dispatching(h) = {}
       /\ Releasing(h) = {} /\ \A u \in Threads : call[u].msg # h
  BY <1>3, FreeingFacts
<1>12. Freeing(h)' = {t}
  <2>1. \A u \in Threads : (u \in Freeing(h)') = (u \in Freeing(h))
    BY <1>2, <1>3, <1>9, <1>10 DEF Freeing
  <2> QED  BY <1>11, <2>1 DEF Freeing
<1>13. Inboxes(h)' = {} /\ Dispatching(h)' = {} /\ Releasing(h)' = {}
  <2>1. Releasing(h)' = {}  BY <1>9, <1>10, <1>11 DEF Releasing, Release
  <2> QED  BY <1>1, <1>11, <2>1 DEF Inboxes, Dispatching
<1>14. ~(RefCount(h)' > 0) /\ \A u \in Threads : call'[u].msg # h
  <2>1. \A u \in Threads : call'[u].msg # h  BY <1>1, <1>11
  <2>2. Calls(h)' = {} /\ Pending(h)' = {}  BY <2>1 DEF Calls, Pending
  <2>3. RefCount(h)' = Cardinality({}) + Cardinality({}) + Cardinality({}) + Cardinality({})
                       + Cardinality({})
    BY <1>13, <2>2 DEF RefCount
  <2>4. Cardinality({}) = 0  BY FS_EmptySet
  <2> QED  BY <2>1, <2>3, <2>4
<1>15. HeaderInv(h)'  BY <1>1, <1>11, <1>12, <1>13, <1>14 DEF HeaderInv
<1>16. PayloadInv(h)'
  <2>1. \A u \in Threads : rel'[u].msg = h => rel'[u].pc # "payload"
    BY <1>9, <1>10, <1>12 DEF Freeing
  <2> QED  BY <1>7, <1>10, <1>14, <2>1 DEF PayloadInv
<1>17. ASSUME NEW g \in Headers, g # h  PROVE Undisturbed(g)
  <2>1. b # None /\ hdr[g].payload # b  BY <1>4, <1>17, BusAssumption DEF IInv, PayloadInv
  <2>2. hdr[g].payload # None =>
          /\ hdr[g].payload \notin free
          /\ \A f \in Headers : hdr[f].payload = hdr[g].payload => f = g
    BY DEF IInv, PayloadInv
  <2> QED  BY <1>5, <1>7, <1>10, <2>1, <2>2 DEF Undisturbed
<1>18. /\ free' \subseteq Blocks /\ used' \subseteq Headers /\ hist' \in HistType
       /\ \A g \in Headers : g # h => ((g \in used') = (g \in used)) /\ Undisturbed(g)
  BY <1>1, <1>5, <1>17, HistTyped DEF TypeOK
<1>19. r.pc # "none" /\ r.msg = h /\ rel[t].msg = h  BY <1>2, <1>9
<1> QED
  BY <1>1, <1>3, <1>7, <1>9, <1>15, <1>16, <1>18, <1>19, ReleaseMoves
\* The thread that reached zero gives the slot back; nobody refers to it.
LEMMA ReleaseHeaderStep ==
  ASSUME IInv, NEW t \in Threads, ReleaseHeader(t)
  PROVE  IInv'
<1>1. /\ TypeOK /\ rel[t].pc = "header"
      /\ UNCHANGED <<free, subs, queue, disp, call>>
  BY DEF IInv, ReleaseHeader
<1>2. PICK h \in Headers : h = rel[t].msg  BY <1>1, ReleaseFacts
<1>3. rel[t] # NoRel /\ t \in Freeing(h)  BY <1>1, <1>2, ReleaseFacts
<1>4. /\ used' = used \ {h} /\ hdr' = [hdr EXCEPT ![h] = BlankHeader]
      /\ hist' = [hist EXCEPT ![h] = NoHist] /\ rel' = [rel EXCEPT ![t] = NoRel]
  BY <1>2 DEF ReleaseHeader
<1>5. NoRel \in RelType  BY DEF NoRel, RelType
<1>6. PICK e \in HeaderType : e = BlankHeader
  <2>1. 0 \in 0..255  OBVIOUS
  <2> QED  BY <2>1 DEF BlankHeader, HeaderType
<1>7. /\ rel'[t] = NoRel /\ \A u \in Threads : u # t => rel'[u] = rel[u]
      /\ hdr'[h] = e /\ \A g \in Headers : g # h => hdr'[g] = hdr[g]
  BY <1>1, <1>4, <1>6 DEF TypeOK
<1>8. /\ Freeing(h) = {t} /\ Inboxes(h) = {} /\ Dispatching(h) = {} /\ Releasing(h) = {}
      /\ \A u \in Threads : call[u].msg # h
  BY <1>3, FreeingFacts
<1>9. Freeing(h)' = {} /\ Inboxes(h)' = {} /\ Dispatching(h)' = {} /\ Releasing(h)' = {}
  <2>1. Freeing(h)' = {}  BY <1>7, <1>8 DEF Freeing, NoRel
  <2>2. Releasing(h)' = {}  BY <1>7, <1>8 DEF Releasing, Release, NoRel
  <2> QED  BY <1>1, <1>8, <2>1, <2>2 DEF Inboxes, Dispatching
<1>10. HeaderInv(h)' /\ ~(RefCount(h)' > 0)
  <2>1. PICK N \in SUBSET Tasks : N = {}  OBVIOUS
  <2>2. PICK R \in SUBSET Threads : R = {}  OBVIOUS
  <2>3. Inboxes(h)' = N /\ Dispatching(h)' = N /\ Releasing(h)' = R  BY <1>9, <2>1, <2>2
  <2>4. \A u \in Threads : call'[u].msg # h  BY <1>1, <1>8
  <2> QED  BY <1>9, <2>1, <2>2, <2>3, <2>4, HandedOver
<1>11. PayloadInv(h)'
  <2>1. \A u \in Threads : rel'[u].msg = h => rel'[u].pc # "payload"  BY <1>9 DEF Freeing
  <2>2. hdr'[h].payload = None  BY <1>6, <1>7 DEF BlankHeader
  <2> QED  BY <1>10, <2>1, <2>2 DEF PayloadInv
<1>12. \A g \in Headers : Undisturbed(g)
  <2>1. \A g \in Headers : hdr'[g].payload \in {hdr[g].payload, None}
    BY <1>6, <1>7 DEF BlankHeader
  <2> QED  BY <1>1, <2>1, QuietPool DEF IInv
<1>13. hist' \in HistType
  <2>1. NoHist \in HistRecord  BY DEF NoHist, HistRecord
  <2> QED  BY <1>4, <2>1, HistTyped DEF HistType
<1>14. /\ free' \subseteq Blocks /\ used' \subseteq Headers
       /\ \A g \in Headers : g # h => ((g \in used') = (g \in used)) /\ Undisturbed(g)
  BY <1>1, <1>4, <1>12 DEF TypeOK
<1>15. rel[t].msg = h /\ hdr' = [hdr EXCEPT ![h] = e]  BY <1>2, <1>4, <1>6
<1> QED
  BY <1>1, <1>3, <1>4, <1>5, <1>10, <1>11, <1>13, <1>14, <1>15, ReleaseMoves

\* The decrement drops one reference; only the last one begins to free.
LEMMA ReleaseDecrementStep ==
  ASSUME IInv, NEW t \in Threads, ReleaseDecrement(t)
  PROVE  IInv'
<1>1. /\ TypeOK /\ rel[t].pc = "decrement"
      /\ UNCHANGED <<used, free, subs, queue, disp, call, hist>>
  BY DEF IInv, ReleaseDecrement
<1>2. PICK h \in Headers : h = rel[t].msg  BY <1>1, ReleaseFacts
<1>3. rel[t] # NoRel /\ rel[t] \in RelType /\ hdr[h] \in HeaderType /\ t \in Releasing(h)
  BY <1>1, <1>2, ReleaseFacts
<1>4. HeaderInv(h) /\ PayloadInv(h)  BY DEF IInv
<1>5. RefCount(h) > 0  BY <1>3, Holders
<1>6. h \in used /\ Freeing(h) = {} /\ hdr[h].ref = RefCount(h) /\ Calls(h) = {}
  BY <1>3, <1>4, <1>5 DEF HeaderInv
<1>7. PICK n \in 0..254 : hdr[h].ref = n + 1 /\ Less(h) = n
  <2>1. hdr[h].ref \in 0..255  BY <1>3 DEF HeaderType
  <2>2. hdr[h].ref \in 1..255  BY <1>5, <1>6, <2>1
  <2>3. PICK k \in 1..255 : hdr[h].ref = k  BY <2>2
  <2>4. (k + 255) % 256 = k - 1  OBVIOUS
  <2>5. Less(h) = k - 1  BY <2>3, <2>4 DEF Less
  <2> QED  BY <2>3, <2>5
<1>8. PICK e \in HeaderType : e = [hdr[h] EXCEPT !.ref = n]
  <2>1. n \in 0..255  OBVIOUS
  <2> QED  BY <1>3, <2>1 DEF HeaderType
<1>9. /\ hdr' = [hdr EXCEPT ![h] = e] /\ e.ref = n /\ e.id = hdr[h].id
      /\ e.payload = hdr[h].payload
  BY <1>2, <1>3, <1>7, <1>8 DEF ReleaseDecrement, HeaderType
<1>10. PICK p \in {"payload", "header"} :
         p = IF hdr[h].payload # None THEN "payload" ELSE "header"
  OBVIOUS
<1>11. PICK r \in RelType : r = IF n # 0 THEN NoRel ELSE [rel[t] EXCEPT !.pc = p]
  BY <1>3 DEF NoRel, RelType
<1>12. n = 0 => r.pc = p /\ r.msg = h  BY <1>2, <1>3, <1>11 DEF RelType
<1>13. rel' = [rel EXCEPT ![t] = r]  BY <1>2, <1>7, <1>10, <1>11 DEF ReleaseDecrement
<1>14. /\ rel'[t] = r /\ \A u \in Threads : u # t => rel'[u] = rel[u]
       /\ hdr'[h] = e /\ \A g \in Headers : g # h => hdr'[g] = hdr[g]
  BY <1>1, <1>9, <1>13 DEF TypeOK
<1>15. Calls(h)' = Calls(h) /\ Pending(h)' = Pending(h) /\ Inboxes(h)' = Inboxes(h)
       /\ Dispatching(h)' = Dispatching(h)
  BY <1>1 DEF Calls, Pending, Inboxes, Dispatching
<1>16. Releasing(h)' = Releasing(h) \ {t}
  <2>1. r # Release(h)  BY <1>11, <1>12 DEF NoRel, Release
  <2> QED  BY <1>14, <2>1 DEF Releasing, Release
<1>17. RefCount(h)' = n
  <2>1. /\ Cardinality(Calls(h)) \in Nat /\ Cardinality(Pending(h)) \in Nat
        /\ Cardinality(Inboxes(h)) \in Nat /\ Cardinality(Dispatching(h)) \in Nat
        /\ IsFiniteSet(Releasing(h)) /\ Cardinality(Releasing(h)) \in Nat
    BY HolderTypes, Countable
  <2>2. Cardinality(Releasing(h) \ {t}) = Cardinality(Releasing(h)) - 1
    BY <1>3, <2>1, OneLess
  <2>3. RefCount(h)' = Cardinality(Calls(h)) + Cardinality(Pending(h)) + Cardinality(Inboxes(h))
                       + Cardinality(Dispatching(h)) + Cardinality(Releasing(h) \ {t})
    BY <1>15, <1>16 DEF RefCount
  <2>4. n + 1 = Cardinality(Calls(h)) + Cardinality(Pending(h)) + Cardinality(Inboxes(h))
                + Cardinality(Dispatching(h)) + Cardinality(Releasing(h))
    BY <1>6, <1>7 DEF RefCount
  <2> QED  BY <2>1, <2>2, <2>3, <2>4
<1>18. HeaderInv(h)' /\ PayloadInv(h)'
  <2>1. h \in used' /\ hdr'[h].ref = RefCount(h)'  BY <1>1, <1>6, <1>9, <1>14, <1>17
  <2>2. CASE n # 0
    <3>1. Freeing(h)' = {}  BY <1>6, <1>11, <1>14, <2>2 DEF Freeing, NoRel
    <3>2. HeaderInv(h)'
      <4>1. \A u, v \in Threads : call'[u].msg = h /\ call'[v].msg = h => u = v
        BY <1>1, <1>4 DEF HeaderInv
      <4>2. Calls(h)' = {}  BY <1>6, <1>15
      <4>3. \A u \in Threads : call'[u].msg = h /\ call'[u].pc \in FanOut =>
              /\ \A m \in call'[u].pending : TaskOf(m) \notin Inboxes(h)'
              /\ call'[u].pc = "enqueue" => hdr'[h].receiver \in call'[u].pending
        <5>1. hdr'[h].receiver = hdr[h].receiver  BY <1>3, <1>8, <1>14 DEF HeaderType
        <5> QED  BY <1>1, <1>4, <1>15, <5>1 DEF HeaderInv
      <4> QED  BY <2>1, <3>1, <4>1, <4>2, <4>3 DEF HeaderInv
    <3>3. \A u \in Threads : call[u].msg = h => call[u].pc # "payload"
      BY <1>6 DEF Calls, Owning
    <3>4. PayloadInv(h)'
      <4>1. \A u \in Threads : call'[u].msg = h => call'[u].pc # "payload"  BY <1>1, <3>3
      <4>2. hdr'[h].payload = hdr[h].payload /\ hdr'[h].id = hdr[h].id  BY <1>9, <1>14
      <4>3. UNCHANGED free  BY <1>1
      <4> QED  BY <1>5, <1>14, <2>1, <3>1, <3>3, <4>1, <4>2, <4>3, KeepsBlock
    <3> QED  BY <3>2, <3>4
  <2>3. CASE n = 0
    <3>1. Freeing(h)' = {t}
      <4>1. r.msg = h /\ r.pc \in {"payload", "header"}  BY <1>12, <2>3
      <4> QED  BY <1>6, <1>14, <4>1 DEF Freeing
    <3>2. ~(RefCount(h)' > 0)  BY <1>17, <2>3
    <3>3. ASSUME NEW u \in Threads, call[u].msg = h  PROVE FALSE
      <4>1. call[u].pc \notin Owning  BY <1>6, <3>3 DEF Calls
      <4>2. call[u] \in CallType /\ h # None /\ Within(call[u], rel[u])
        BY <1>1, BusAssumption DEF TypeOK, IInv, Threading
      <4>3. call[u].pc \in FanOut  BY <3>3, <4>1, <4>2 DEF Within, NoCall, CallType, Owning, FanOut
      <4>4. Pending(h) # {}  BY <3>3, <4>3, FanOutFacts DEF Spread
      <4>5. RefCount(h) = Cardinality(Calls(h)) + Cardinality(Pending(h)) + Cardinality(Inboxes(h))
                          + Cardinality(Dispatching(h)) + Cardinality(Releasing(h))
        BY DEF RefCount
      <4>6. /\ Cardinality(Pending(h)) \in Nat /\ Cardinality(Pending(h)) # 0
            /\ Cardinality(Releasing(h)) \in Nat /\ Cardinality(Releasing(h)) # 0
            /\ Cardinality(Inboxes(h)) \in Nat /\ Cardinality(Dispatching(h)) \in Nat
        BY <1>3, <4>4, HolderTypes, Countable
      <4>7. Cardinality(Calls(h)) = 0 /\ RefCount(h) = 1  BY <1>6, <1>7, <2>3, FS_EmptySet
      <4>8. \A k, l, m, o \in Nat : k # 0 /\ o # 0 => 0 + k + l + m + o # 1  OBVIOUS
      <4> QED  BY <4>5, <4>6, <4>7, <4>8
    <3>4. Calls(h)' = {} /\ \A u \in Threads : call'[u].msg # h  BY <1>1, <1>6, <1>15, <3>3
    <3>5. HeaderInv(h)'  BY <2>1, <3>1, <3>2, <3>4 DEF HeaderInv
    <3>6. PayloadInv(h)'
      <4>1. \A u \in Threads : rel'[u].msg = h /\ rel'[u].pc = "payload" => hdr'[h].payload # None
        <5>1. \A u \in Threads : rel'[u].msg = h /\ rel'[u].pc = "payload" => u = t
          BY <3>1 DEF Freeing
        <5> QED  BY <1>9, <1>10, <1>12, <1>14, <2>3, <5>1
      <4>2. hdr'[h].payload # None =>
              /\ h \in used' /\ hdr'[h].payload \notin free'
              /\ \A g \in Headers : hdr'[g].payload = hdr'[h].payload => g = h
        BY <1>1, <1>4, <1>6, <1>9, <1>14 DEF PayloadInv
      <4> QED  BY <3>2, <4>1, <4>2 DEF PayloadInv
    <3> QED  BY <3>5, <3>6
  <2> QED  BY <2>2, <2>3
<1>19. \A g \in Headers : Undisturbed(g)
  <2>1. \A g \in Headers : hdr'[g].payload \in {hdr[g].payload, None}  BY <1>9, <1>14
  <2> QED  BY <1>1, <2>1, QuietPool DEF IInv
<1>20. /\ free' \subseteq Blocks /\ used' \subseteq Headers /\ hist' \in HistType
       /\ \A g \in Headers : g # h => ((g \in used') = (g \in used)) /\ Undisturbed(g)
  BY <1>1, <1>19, HistTyped DEF TypeOK
<1>21. rel[t].msg = h /\ (r = NoRel \/ (r.pc # "none" /\ r.msg = h))
  BY <1>2, <1>11, <1>12
<1> QED
  BY <1>1, <1>3, <1>9, <1>13, <1>18, <1>20, <1>21, ReleaseMoves
-----------------------------------------------------------------------------
(* The dispatch loop                                                       *)

\* A step of the loop of t that moves its reference to h from one place to the next.
LEMMA LoopMoves ==
  ASSUME IInv, NEW t \in Tasks, call[t] = NoCall, rel[t] = NoRel,
         NEW h \in Headers, disp[t].msg \in {h, None}, t \in Inboxes(h) \cup Dispatching(h),
         NEW d \in DispType, d.msg \in {h, None}, d.pc # "handler",
         d.pc = "receive" => d = Waiting, d.pc # "receive" => d.msg = h,
         NEW r \in RelType, r = NoRel \/ (r = Release(h) /\ d = Waiting),
         disp' = [disp EXCEPT ![t] = d], rel' = [rel EXCEPT ![t] = r],
         UNCHANGED <<used, hdr, free, subs, call, hist>>,
         queue' \in [Tasks -> Seq(Headers)], \A u \in Tasks : Distinct(queue'[u]),
         Inboxes(h)' \subseteq Inboxes(h), \A g \in Headers : g # h => Inboxes(g)' = Inboxes(g),
         Cardinality(Inboxes(h)') + Cardinality(Dispatching(h)') + Cardinality(Releasing(h)')
           = Cardinality(Inboxes(h)) + Cardinality(Dispatching(h)) + Cardinality(Releasing(h))
  PROVE  IInv'
<1>1. /\ TypeOK /\ Threading /\ Looping /\ SubsBounded /\ t \in Threads /\ h # None
      /\ HeaderInv(h) /\ PayloadInv(h)
  BY BusAssumption DEF IInv, Threads
<1>2. /\ rel'[t] = r /\ \A u \in Threads : u # t => rel'[u] = rel[u]
      /\ disp'[t] = d /\ \A u \in Tasks : u # t => disp'[u] = disp[u]
  BY <1>1 DEF TypeOK
<1>3. TypeOK'
  <2>1. disp' \in [Tasks -> DispType] /\ rel' \in [Threads -> RelType]  BY <1>1 DEF TypeOK
  <2> QED  BY <1>1, <2>1 DEF TypeOK
<1>4. Threading'
  <2>1. ASSUME NEW u \in Threads  PROVE Within(call[u], rel'[u])
    <3>1. CASE u = t
      BY <1>2, <3>1 DEF Within, NoRel, NoCall, Release, FanOut
    <3>2. CASE u # t  BY <1>1, <1>2, <3>2 DEF Threading
    <3> QED  BY <3>1, <3>2
  <2> QED  BY <2>1 DEF Threading, Within, Spread
<1>5. Looping'
  <2>1. ASSUME NEW u \in Tasks
        PROVE  /\ disp'[u].pc = "receive" => disp'[u] = Waiting
               /\ disp'[u].pc # "receive" => disp'[u].msg \in Headers
               /\ disp'[u].pc \in {"receive", "dispatch"} => call'[u] = NoCall
               /\ disp'[u].pc = "dispatch" => rel'[u] = NoRel
    <3>1. CASE u = t
      <4>1. d.pc = "dispatch" => r = NoRel  BY DEF Waiting
      <4> QED  BY <1>2, <3>1, <4>1
    <3>2. CASE u # t
      <4>1. u \in Threads  BY DEF Threads
      <4> QED  BY <1>1, <1>2, <3>2, <4>1 DEF Looping
    <3> QED  BY <3>1, <3>2
  <2> QED  BY <2>1 DEF Looping, Distinct
<1>6. SubsBounded'  BY <1>1 DEF SubsBounded
<1>7. ASSUME NEW g \in Headers, g # h  PROVE SameHeader(g) /\ Undisturbed(g)
  <2>1. g # None  BY BusAssumption
  <2>2. \A u \in Threads : rel'[u].msg = g \/ rel[u].msg = g => rel'[u] = rel[u]
    BY <1>2, <1>7, <2>1 DEF NoRel, Release
  <2>3. Dispatching(g)' = Dispatching(g)
    <3>1. \A u \in Tasks : (disp'[u].msg = g) = (disp[u].msg = g)
      BY <1>2, <1>7, <2>1
    <3> QED  BY <3>1 DEF Dispatching
  <2>4. Inboxes(g)' = Inboxes(g)  BY <1>7
  <2>5. PayloadInv(g)  BY DEF IInv
  <2>6. Undisturbed(g)  BY <2>5 DEF Undisturbed, PayloadInv
  <2> QED  BY <2>2, <2>3, <2>4, <2>6 DEF SameHeader, SameHolders
<1>8. RefCount(h) > 0 /\ Calls(h) = {} /\ Freeing(h) = {}
  <2>1. Inboxes(h) # {} \/ Dispatching(h) # {}  OBVIOUS
  <2>2. RefCount(h) > 0  BY <2>1, Holders
  <2> QED  BY <1>1, <2>1, <2>2 DEF HeaderInv
<1>9. Calls(h)' = Calls(h) /\ Pending(h)' = Pending(h)  BY DEF Calls, Pending
<1>10. RefCount(h)' = RefCount(h)
  <2> DEFINE i == Cardinality(Inboxes(h))      j == Cardinality(Inboxes(h)')
             e == Cardinality(Dispatching(h))  f == Cardinality(Dispatching(h)')
             p == Cardinality(Releasing(h))    q == Cardinality(Releasing(h)')
             a == Cardinality(Calls(h))        b == Cardinality(Pending(h))
  <2>1. i \in Nat /\ e \in Nat /\ p \in Nat /\ a \in Nat /\ b \in Nat
    BY HolderTypes, Countable
  <2>2. j \in Nat /\ f \in Nat /\ q \in Nat
    <3>1. /\ Inboxes(h)' \in SUBSET Tasks /\ Dispatching(h)' \in SUBSET Tasks
          /\ Releasing(h)' \in SUBSET Threads
      BY DEF Inboxes, Dispatching, Releasing
    <3> QED  BY <3>1, Countable
  <2>3. RefCount(h) = a + b + i + e + p  BY DEF RefCount
  <2>4. RefCount(h)' = a + b + j + f + q  BY <1>9 DEF RefCount
  <2>5. j + f + q = i + e + p  OBVIOUS
  <2> HIDE DEF i, j, e, f, p, q, a, b
  <2> QED  BY <2>1, <2>2, <2>3, <2>4, <2>5
<1>11. Freeing(h)' = {}  BY <1>2, <1>8 DEF Freeing, NoRel, Release
<1>12. HeaderInv(h)'
  BY <1>1, <1>8, <1>9, <1>10, <1>11 DEF HeaderInv
<1>13. PayloadInv(h)'
  <2>1. \A u \in Threads : call[u].msg = h => call[u].pc # "payload"
    BY <1>8 DEF Calls, Owning
  <2>2. h \in used'  BY <1>1, <1>8 DEF HeaderInv
  <2> QED  BY <1>8, <1>11, <2>1, <2>2, KeepsBlock
<1>14. \A g \in Headers : (HeaderInv(g) /\ PayloadInv(g))'  BY <1>7, <1>12, <1>13, OneHeader
<1> QED  BY <1>3, <1>4, <1>5, <1>6, <1>14 DEF IInv
\* The reference of the inbox becomes that of the dispatch loop.
LEMMA ReceiveFacts ==
  ASSUME IInv, NEW t \in Tasks, Receive(t)
  PROVE  \E h \in Headers, d \in DispType :
           /\ d.pc \in {"on_wake", "dispatch"} /\ (d.pc = "on_wake" <=> hdr[h].id = Wake)
           /\ d.msg = h /\ d.idx = 1 /\ disp' = [disp EXCEPT ![t] = d]
           /\ disp[t] = Waiting /\ call[t] = NoCall /\ rel[t] = NoRel
           /\ queue' \in [Tasks -> Seq(Headers)] /\ \A u \in Tasks : Distinct(queue'[u])
           /\ Inboxes(h)' = Inboxes(h) \ {t} /\ t \in Inboxes(h)
           /\ \A g \in Headers : g # h => Inboxes(g)' = Inboxes(g)
           /\ Dispatching(h)' = Dispatching(h) \cup {t} /\ t \notin Dispatching(h)
<1>1. /\ TypeOK /\ Looping /\ t \in Threads /\ disp[t].pc = "receive" /\ rel[t] = NoRel
      /\ queue[t] # <<>> /\ UNCHANGED <<used, hdr, free, subs, call, rel, hist>>
  BY DEF IInv, Threads, Receive
<1>2. PICK q \in Seq(Headers) : q = queue[t] /\ q # <<>>  BY <1>1 DEF TypeOK
<1>3. /\ Head(q) \in Headers /\ Tail(q) \in Seq(Headers) /\ Len(q) \in Nat \ {0}
      /\ DOMAIN q = 1..Len(q) /\ DOMAIN Tail(q) = 1..(Len(q) - 1) /\ Head(q) = q[1]
      /\ \A i \in 1..(Len(q) - 1) : Tail(q)[i] = q[i + 1]
  BY <1>2
<1>4. PICK h \in Headers : h = Head(q)  BY <1>3
<1>5. h # None  BY BusAssumption
<1>6. PICK p \in {"on_wake", "dispatch"} :
        p = IF hdr[Head(queue[t])].id = Wake THEN "on_wake" ELSE "dispatch"
  OBVIOUS
<1>7. PICK d \in DispType : d = [pc |-> p, msg |-> h, idx |-> 1]
  <2>1. 1 \in Nat \ {0}  OBVIOUS
  <2> QED  BY <2>1 DEF DispType
<1>8. /\ d.pc \in {"on_wake", "dispatch"} /\ d.msg = h
      /\ disp' = [disp EXCEPT ![t] = d] /\ queue' = [queue EXCEPT ![t] = Tail(q)]
  BY <1>2, <1>4, <1>6, <1>7 DEF Receive
<1>9. /\ queue'[t] = Tail(q) /\ \A u \in Tasks : u # t => queue'[u] = queue[u]
      /\ disp'[t] = d /\ \A u \in Tasks : u # t => disp'[u] = disp[u]
      /\ queue' \in [Tasks -> Seq(Headers)]
  BY <1>1, <1>3, <1>8 DEF TypeOK
<1>10. \A i, j \in 1..Len(q) : q[i] = q[j] => i = j  BY <1>1, <1>2, <1>3 DEF Looping
<1>11. \A u \in Tasks : Distinct(queue'[u])
  <2>1. Distinct(Tail(q))
    <3>1. ASSUME NEW i \in 1..(Len(q) - 1), NEW j \in 1..(Len(q) - 1),
                 Tail(q)[i] = Tail(q)[j]
          PROVE  i = j
      <4>1. q[i + 1] = q[j + 1] /\ i + 1 \in 1..Len(q) /\ j + 1 \in 1..Len(q)
        BY <1>3, <3>1
      <4> QED  BY <1>10, <4>1
    <3> QED  BY <1>3, <3>1 DEF Distinct
  <2> QED  BY <1>9, <2>1, DistinctNow
<1>12. ASSUME NEW g
       PROVE  (\E i \in DOMAIN Tail(q) : Tail(q)[i] = g) <=> g # h /\ \E i \in DOMAIN q : q[i] = g
  <2>1. ASSUME NEW i \in DOMAIN Tail(q), Tail(q)[i] = g
        PROVE  g # h /\ \E j \in DOMAIN q : q[j] = g
    <3>1. i \in 1..(Len(q) - 1) /\ i + 1 \in 1..Len(q) /\ 1 \in 1..Len(q) /\ i + 1 # 1
      BY <1>3
    <3>2. q[i + 1] = g  BY <1>3, <2>1, <3>1
    <3>3. q[1] # q[i + 1]  BY <1>10, <3>1
    <3> QED  BY <1>3, <1>4, <3>1, <3>2, <3>3
  <2>2. ASSUME g # h, NEW i \in DOMAIN q, q[i] = g
        PROVE  \E j \in DOMAIN Tail(q) : Tail(q)[j] = g
    <3>1. i \in 1..Len(q) /\ i # 1  BY <1>3, <1>4, <2>2
    <3>2. i - 1 \in 1..(Len(q) - 1) /\ (i - 1) + 1 = i  BY <1>3, <3>1
    <3>3. Tail(q)[i - 1] = g  BY <1>3, <2>2, <3>2
    <3> QED  BY <1>3, <3>2, <3>3
  <2> QED  BY <2>1, <2>2
<1>13. ASSUME NEW g, NEW u \in Tasks
       PROVE  u \in Inboxes(g)' <=> u \in Inboxes(g) /\ ~(u = t /\ g = h)
  <2>1. u \in Inboxes(g)' <=> \E i \in DOMAIN queue'[u] : queue'[u][i] = g  BY DEF Inboxes
  <2>2. u \in Inboxes(g) <=> \E i \in DOMAIN queue[u] : queue[u][i] = g  BY DEF Inboxes
  <2>3. CASE u = t
    <3>1. queue'[u] = Tail(q) /\ queue[u] = q  BY <1>2, <1>9, <2>3
    <3>2. u \in Inboxes(g)' <=> g # h /\ u \in Inboxes(g)  BY ZenonT(60), <1>12, <2>1, <2>2, <3>1
    <3> QED  BY <2>3, <3>2
  <2>4. CASE u # t  BY <1>9, <2>1, <2>2, <2>4
  <2> QED  BY <2>3, <2>4
<1>14. \A g : Inboxes(g) \subseteq Tasks /\ Inboxes(g)' \subseteq Tasks  BY DEF Inboxes
<1>15. Inboxes(h)' = Inboxes(h) \ {t} /\ t \in Inboxes(h)
  <2>1. t \in Inboxes(h)
    <3>1. 1 \in DOMAIN queue[t] /\ queue[t][1] = h  BY <1>2, <1>3, <1>4
    <3> QED  BY <3>1 DEF Inboxes
  <2> QED  BY <1>13, <1>14, <2>1
<1>16. ASSUME NEW g \in Headers, g # h  PROVE Inboxes(g)' = Inboxes(g)
  <2>1. \A u \in Tasks : u \in Inboxes(g)' <=> u \in Inboxes(g)  BY <1>13, <1>16
  <2>2. Inboxes(g) \subseteq Tasks /\ Inboxes(g)' \subseteq Tasks  BY <1>14
  <2> QED  BY <2>1, <2>2
<1>17. disp[t] = Waiting /\ disp[t].msg = None /\ call[t] = NoCall
  BY <1>1 DEF Looping, Waiting
<1>18. Dispatching(h)' = Dispatching(h) \cup {t} /\ t \notin Dispatching(h)
  BY <1>5, <1>8, <1>9, <1>17 DEF Dispatching
<1>19. /\ d.pc \in {"on_wake", "dispatch"} /\ (d.pc = "on_wake" <=> hdr[h].id = Wake)
       /\ d.msg = h /\ d.idx = 1
  BY <1>2, <1>4, <1>6, <1>7
<1> QED  BY <1>1, <1>8, <1>9, <1>11, <1>15, <1>16, <1>17, <1>18, <1>19

\* The loop holds the header in place of the inbox.
LEMMA ReceiveStep ==
  ASSUME IInv, NEW t \in Tasks, Receive(t)
  PROVE  IInv'
<1>1. PICK h \in Headers, d \in DispType :
        /\ d.pc \in {"on_wake", "dispatch"} /\ d.msg = h
        /\ disp' = [disp EXCEPT ![t] = d]
        /\ disp[t] = Waiting /\ call[t] = NoCall /\ rel[t] = NoRel
        /\ queue' \in [Tasks -> Seq(Headers)] /\ \A u \in Tasks : Distinct(queue'[u])
        /\ Inboxes(h)' = Inboxes(h) \ {t} /\ t \in Inboxes(h)
        /\ \A g \in Headers : g # h => Inboxes(g)' = Inboxes(g)
        /\ Dispatching(h)' = Dispatching(h) \cup {t} /\ t \notin Dispatching(h)
  BY ReceiveFacts
<1>2. TypeOK /\ UNCHANGED <<used, hdr, free, subs, call, rel, hist>>  BY DEF IInv, Receive
<1>3. Releasing(h)' = Releasing(h)  BY <1>2 DEF Releasing
<1>4. Cardinality(Inboxes(h)') + Cardinality(Dispatching(h)') + Cardinality(Releasing(h)')
        = Cardinality(Inboxes(h)) + Cardinality(Dispatching(h)) + Cardinality(Releasing(h))
  <2>1. /\ IsFiniteSet(Inboxes(h)) /\ Cardinality(Inboxes(h)) \in Nat
        /\ IsFiniteSet(Dispatching(h)) /\ Cardinality(Dispatching(h)) \in Nat
        /\ Cardinality(Releasing(h)) \in Nat
    BY HolderTypes, Countable
  <2>2. Cardinality(Inboxes(h)') = Cardinality(Inboxes(h)) - 1  BY <1>1, <2>1, OneLess
  <2>3. Cardinality(Dispatching(h)') = Cardinality(Dispatching(h)) + 1
    BY <1>1, <2>1, OneMore
  <2> QED  BY <1>3, <2>1, <2>2, <2>3
<1>5. PICK r \in RelType : r = NoRel  BY DEF NoRel, RelType
<1>6. rel' = [rel EXCEPT ![t] = r]  BY <1>1, <1>2, <1>5 DEF Threads, TypeOK
<1>7. /\ disp[t].msg \in {h, None} /\ t \in Inboxes(h) \cup Dispatching(h)
      /\ d.msg \in {h, None} /\ d.pc # "handler" /\ d.pc # "receive"
      /\ Inboxes(h)' \subseteq Inboxes(h) /\ UNCHANGED <<used, hdr, free, subs, call, hist>>
  BY <1>1, <1>2 DEF Waiting
<1> QED  BY <1>1, <1>4, <1>5, <1>6, <1>7, LoopMoves

\* The reference of the dispatch loop becomes that of a release.
LEMMA DispatchDoneStep ==
  ASSUME IInv, NEW t \in Tasks, DispatchDone(t)
  PROVE  IInv'
<1>1. /\ TypeOK /\ Looping /\ t \in Threads
      /\ disp[t].pc \in {"dispatch", "on_wake"} /\ call[t] = NoCall /\ rel[t] = NoRel
      /\ UNCHANGED <<used, hdr, free, subs, queue, call, hist>>
  BY DEF IInv, Threads, DispatchDone, Looping
<1>2. PICK h \in Headers : h = disp[t].msg  BY <1>1 DEF Looping
<1>3. h # None  BY BusAssumption
<1>4. PICK d \in DispType : d = Waiting
  <2>1. 1 \in Nat \ {0}  OBVIOUS
  <2> QED  BY <2>1 DEF Waiting, DispType
<1>5. PICK r \in RelType : r = Release(h)  BY ReleaseTyped
<1>6. disp' = [disp EXCEPT ![t] = d] /\ rel' = [rel EXCEPT ![t] = r]
  BY <1>2, <1>4, <1>5 DEF DispatchDone
<1>7. /\ disp'[t] = d /\ \A u \in Tasks : u # t => disp'[u] = disp[u]
      /\ rel'[t] = r /\ \A u \in Threads : u # t => rel'[u] = rel[u]
  BY <1>1, <1>6 DEF TypeOK
<1>8. d.pc = "receive" /\ d.msg = None  BY <1>4 DEF Waiting
<1>9. Dispatching(h)' = Dispatching(h) \ {t} /\ t \in Dispatching(h)
  BY <1>2, <1>3, <1>7, <1>8 DEF Dispatching
<1>10. Releasing(h)' = Releasing(h) \cup {t} /\ t \notin Releasing(h)
  BY <1>1, <1>5, <1>7 DEF Releasing, Release, NoRel
<1>11. /\ queue' \in [Tasks -> Seq(Headers)] /\ \A u \in Tasks : Distinct(queue'[u])
       /\ \A g \in Headers : Inboxes(g)' = Inboxes(g)
  BY <1>1, SameQueues
<1>12. Cardinality(Inboxes(h)') + Cardinality(Dispatching(h)') + Cardinality(Releasing(h)')
         = Cardinality(Inboxes(h)) + Cardinality(Dispatching(h)) + Cardinality(Releasing(h))
  <2>1. /\ Cardinality(Inboxes(h)) \in Nat
        /\ IsFiniteSet(Dispatching(h)) /\ Cardinality(Dispatching(h)) \in Nat
        /\ IsFiniteSet(Releasing(h)) /\ Cardinality(Releasing(h)) \in Nat
    BY HolderTypes, Countable
  <2>2. Cardinality(Dispatching(h)') = Cardinality(Dispatching(h)) - 1
    BY <1>9, <2>1, OneLess
  <2>3. Cardinality(Releasing(h)') = Cardinality(Releasing(h)) + 1
    BY <1>10, <2>1, OneMore
  <2>4. Inboxes(h)' = Inboxes(h)  BY <1>11
  <2> QED  BY <2>1, <2>2, <2>3, <2>4
<1>13. /\ disp[t].msg \in {h, None} /\ t \in Inboxes(h) \cup Dispatching(h)
       /\ d.msg \in {h, None} /\ d.pc # "handler"
  BY <1>2, <1>8, <1>9
<1> QED
  BY <1>1, <1>4, <1>5, <1>6, <1>8, <1>11, <1>12, <1>13, LoopMoves
\* A step between two modules of the same message.
LEMMA SameMessageStep ==
  ASSUME IInv, NEW t \in Tasks, disp[t].pc # "receive", NEW d \in DispType,
         d.msg = disp[t].msg, d.pc \in {"dispatch", "handler"},
         d.pc = "dispatch" => call[t] = NoCall /\ rel[t] = NoRel,
         disp' = [disp EXCEPT ![t] = d],
         UNCHANGED <<used, hdr, free, subs, queue, call, rel>>, hist' \in HistType
  PROVE  IInv'
<1>1. TypeOK /\ Threading /\ Looping /\ SubsBounded  BY DEF IInv
<1>2. disp'[t] = d /\ \A u \in Tasks : u # t => disp'[u] = disp[u]  BY <1>1 DEF TypeOK
<1>3. TypeOK'
  <2>1. disp' \in [Tasks -> DispType]  BY <1>1 DEF TypeOK
  <2> QED  BY <1>1, <2>1 DEF TypeOK, HistType
<1>4. Threading'  BY <1>1 DEF Threading, Within, Spread
<1>5. Looping'
  <2>1. disp[t].msg \in Headers  BY <1>1 DEF Looping
  <2> QED  BY <1>1, <1>2, <2>1 DEF Looping
<1>6. SubsBounded'  BY <1>1 DEF SubsBounded
<1>7. ASSUME NEW g \in Headers  PROVE (HeaderInv(g) /\ PayloadInv(g))'
  <2>1. Dispatching(g)' = Dispatching(g)
    <3>1. \A u \in Tasks : disp'[u].msg = disp[u].msg  BY <1>2
    <3> QED  BY <3>1 DEF Dispatching
  <2>2. SameHeader(g)  BY <2>1 DEF SameHeader, SameHolders, Inboxes
  <2>3. HeaderInv(g) /\ PayloadInv(g)  BY DEF IInv
  <2>4. Undisturbed(g)  BY <2>3 DEF Undisturbed, PayloadInv
  <2> QED  BY <2>2, <2>3, <2>4, KeepsHeader, KeepsPayload
<1> QED  BY <1>3, <1>4, <1>5, <1>6, <1>7 DEF IInv

\* A handler starts: the loop keeps its reference.
LEMMA DeliverStep ==
  ASSUME IInv, NEW t \in Tasks, Deliver(t)
  PROVE  IInv'
<1>1. /\ TypeOK /\ Looping /\ disp[t].pc = "dispatch" /\ disp[t] \in DispType
      /\ disp' = [disp EXCEPT ![t].pc = "handler"]
      /\ UNCHANGED <<used, hdr, free, subs, queue, call, rel>>
  BY DEF IInv, TypeOK, Deliver, DispatchMore
<1>2. PICK d \in DispType : d = [disp[t] EXCEPT !.pc = "handler"]  BY <1>1 DEF DispType
<1>3. d.msg = disp[t].msg /\ d.pc = "handler" /\ disp' = [disp EXCEPT ![t] = d]
  BY <1>1, <1>2 DEF DispType
<1>4. disp[t].msg \in Headers  BY <1>1 DEF Looping
<1>5. Candidate(t) \in Modules
  <2>1. BoundModules[t] \in Seq(Modules)  BY BusAssumption
  <2>2. disp[t].idx \in DOMAIN BoundModules[t]  BY DEF Deliver, DispatchMore
  <2> QED  BY <2>1, <2>2 DEF Candidate
<1>6. hist' \in HistType
  <2>1. PICK x \in HistRecord : x = hist[disp[t].msg]
    BY <1>4, HistTyped DEF HistType
  <2>2. PICK m \in Modules : m = Candidate(t)  BY <1>5
  <2>3. [x EXCEPT !.owed = x.owed \ {m}, !.got = x.got \cup {m}]
          \in HistRecord
    BY DEF HistRecord
  <2>4. hist' = [hist EXCEPT ![disp[t].msg] =
                   [x EXCEPT !.owed = x.owed \ {m}, !.got = x.got \cup {m}]]
    BY <1>4, <2>1, <2>2, HistTyped DEF Deliver, HistType
  <2> QED  BY <1>4, <2>3, <2>4, HistTyped DEF HistType
<1> QED  BY <1>1, <1>3, <1>6, SameMessageStep

\* A module is passed over: the loop keeps its reference.
LEMMA SkipStep ==
  ASSUME IInv, NEW t \in Tasks, Skip(t)
  PROVE  IInv'
<1>1. /\ TypeOK /\ Looping /\ disp[t].pc = "dispatch" /\ disp[t] \in DispType
      /\ disp' = [disp EXCEPT ![t].idx = disp[t].idx + 1]
      /\ UNCHANGED <<used, hdr, free, subs, queue, call, rel, hist>>
  BY DEF IInv, TypeOK, Skip, DispatchMore
<1>2. PICK d \in DispType : d = [disp[t] EXCEPT !.idx = disp[t].idx + 1]
  <2>1. disp[t].idx + 1 \in Nat \ {0}  BY <1>1 DEF DispType
  <2> QED  BY <1>1, <2>1 DEF DispType
<1>3. d.msg = disp[t].msg /\ d.pc = "dispatch" /\ disp' = [disp EXCEPT ![t] = d]
  BY <1>1, <1>2 DEF DispType
<1>4. call[t] = NoCall /\ rel[t] = NoRel  BY <1>1 DEF Looping
<1>5. hist' \in HistType  BY <1>1, HistTyped
<1> QED  BY <1>1, <1>3, <1>4, <1>5, SameMessageStep

\* A handler returns: the loop keeps its reference.
LEMMA HandlerReturnsStep ==
  ASSUME IInv, NEW t \in Tasks, HandlerReturns(t)
  PROVE  IInv'
<1>1. /\ TypeOK /\ disp[t].pc = "handler" /\ disp[t] \in DispType
      /\ call[t] = NoCall /\ rel[t] = NoRel
      /\ UNCHANGED <<used, hdr, free, subs, queue, call, rel, hist>>
  BY DEF IInv, TypeOK, HandlerReturns
<1>2. PICK d \in DispType : d = [disp[t] EXCEPT !.pc = "dispatch", !.idx = disp[t].idx + 1]
  <2>1. disp[t].idx + 1 \in Nat \ {0}  BY <1>1 DEF DispType
  <2> QED  BY <1>1, <2>1 DEF DispType
<1>3. d.msg = disp[t].msg /\ d.pc = "dispatch"  BY <1>1, <1>2 DEF DispType
<1>4. disp' = [disp EXCEPT ![t] = d]  BY <1>1, <1>2 DEF HandlerReturns, TypeOK
<1>5. hist' \in HistType  BY <1>1, HistTyped
<1> QED  BY <1>1, <1>3, <1>4, <1>5, SameMessageStep

-----------------------------------------------------------------------------
(* The theorems                                                            *)

\* At boot no slot is in use and nobody refers to one.
LEMMA InitInv == Init => IInv
<1> SUFFICES ASSUME Init PROVE IInv
  OBVIOUS
<1>1. NoCall \in CallType /\ NoRel \in RelType  BY DEF NoCall, NoRel, CallType, RelType
<1>2. Waiting \in DispType
  <2>1. 1 \in Nat \ {0}  OBVIOUS
  <2> QED  BY <2>1 DEF Waiting, DispType
<1>3. BlankHeader \in HeaderType
  <2>1. 0 \in 0..255  OBVIOUS
  <2> QED  BY <2>1 DEF BlankHeader, HeaderType
<1>4. NoHist \in HistRecord  BY DEF NoHist, HistRecord
<1>5. TypeOK
  <2>1. subs \in [MsgIds -> SUBSET Modules]  BY BusAssumption DEF Init
  <2>2. hdr \in [Headers -> HeaderType] /\ disp \in [Tasks -> DispType]
    BY <1>2, <1>3 DEF Init
  <2>3. call \in [Threads -> CallType] /\ rel \in [Threads -> RelType]
    BY <1>1 DEF Init
  <2>4. hist \in [Headers -> HistRecord]
    BY <1>4 DEF Init
  <2>5. queue \in [Tasks -> Seq(Headers)] /\ used \subseteq Headers /\ free \subseteq Blocks
    BY DEF Init
  <2> QED  BY <2>1, <2>2, <2>3, <2>4, <2>5 DEF TypeOK
<1>6. Threading  BY DEF Init, Threading, Within, NoCall, NoRel, FanOut
<1>7. Looping
  <2>1. \A t \in Tasks : t \in Threads  BY DEF Threads
  <2> QED  BY <2>1 DEF Init, Looping, Waiting
<1>8. SubsBounded  BY BusAssumption DEF Init, SubsBounded
<1>9. ASSUME NEW h \in Headers  PROVE HeaderInv(h) /\ PayloadInv(h)
  <2>1. h # None  BY BusAssumption
  <2>2. /\ \A t \in Threads : call[t] = NoCall /\ rel[t] = NoRel
        /\ \A t \in Tasks : disp[t] = Waiting /\ queue[t] = <<>>
        /\ hdr[h] = BlankHeader
    BY DEF Init
  <2>3. \A t \in Threads : call[t].msg # h /\ rel[t].msg # h
    BY <2>1, <2>2 DEF NoCall, NoRel
  <2>4. Calls(h) = {} /\ Pending(h) = {}  BY <2>3 DEF Calls, Pending
  <2>5. Freeing(h) = {} /\ Releasing(h) = {}  BY <2>3 DEF Freeing, Releasing, Release
  <2>6. Inboxes(h) = {} /\ Dispatching(h) = {}
    BY <2>1, <2>2 DEF Inboxes, Dispatching, Waiting
  <2>7. ~(RefCount(h) > 0)  BY <2>4, <2>5, <2>6, Holders
  <2>8. HeaderInv(h)  BY <2>3, <2>4, <2>5, <2>7 DEF HeaderInv
  <2>9. hdr[h].payload = None  BY <2>2 DEF BlankHeader
  <2>10. PayloadInv(h)  BY <2>3, <2>7, <2>9 DEF PayloadInv
  <2> QED  BY <2>8, <2>10
<1> QED  BY <1>5, <1>6, <1>7, <1>8, <1>9 DEF IInv
\* Every action keeps the invariant.
LEMMA NextInv == IInv /\ [Next]_vars => IInv'
<1> SUFFICES ASSUME IInv, [Next]_vars PROVE IInv'
  OBVIOUS
<1>1. CASE UNCHANGED vars
  <2>1. /\ UNCHANGED <<used, hdr, free, queue, disp, call, rel>> /\ UNCHANGED <<subs, hist>>
    BY <1>1 DEF vars
  <2>2. subs' \in [MsgIds -> SUBSET Modules]  BY <2>1 DEF IInv, TypeOK
  <2>3. SubsBounded'  BY <2>1 DEF IInv, SubsBounded
  <2>4. hist' \in HistType  BY <2>1, HistTyped
  <2> QED  BY <2>1, <2>2, <2>3, <2>4, SubscriptionStep
<1>2. ASSUME NEW t \in Threads, Create(t)  PROVE IInv'
  BY <1>2, CreateHeaderStep, CreatePayloadStep, CreateFailsStep, AbandonStep DEF Create
<1>3. ASSUME NEW t \in Threads, Publish(t)  PROVE IInv'
  BY <1>3, PublishSnapshotStep, PublishStampStep, PublishTargetStep, PublishEnqueueStep,
     PublishDropStep DEF Publish
<1>4. ASSUME NEW t \in Threads, Send(t)  PROVE IInv'
  BY <1>4, SendToStep, SendEnqueueStep, SendFailsStep DEF Send
<1>5. ASSUME NEW t \in Threads, WakeUp(t)  PROVE IInv'
  BY <1>5, WakeCreateStep, WakeEnqueueStep, WakeDropStep DEF WakeUp
<1>6. ASSUME NEW t \in Threads, Resub(t)  PROVE IInv'
  BY <1>6, SubscribeStep, UnsubscribeStep DEF Resub
<1>7. ASSUME NEW t \in Threads, Drop(t)  PROVE IInv'
  BY <1>7, ReleaseDecrementStep, ReleasePayloadStep, ReleaseHeaderStep DEF Drop
<1>8. ASSUME NEW t \in Tasks, Loop(t)  PROVE IInv'
  BY <1>8, ReceiveStep, DeliverStep, SkipStep, HandlerReturnsStep, DispatchDoneStep DEF Loop
<1> QED  BY <1>1, <1>2, <1>3, <1>4, <1>5, <1>6, <1>7, <1>8 DEF Next

\* The invariant holds in every reachable state.
LEMMA BusInvariant == Spec => []IInv
BY InitInv, NextInv, PTL DEF Spec

\* Every variable of the bus keeps its type, in particular ref_count stays a uint8_t.
THEOREM BusTypes == Spec => []TypeOK
<1>1. IInv => TypeOK  BY DEF IInv
<1> QED  BY <1>1, BusInvariant, PTL

\* ref_count is the number of holders of a header, whatever publishers, inboxes,
\* dispatch loops and releases interleave.
THEOREM BusRefCounts == Spec => []RefCountExact
<1>1. IInv => RefCountExact  BY DEF IInv, TypeOK, HeaderInv, RefCountExact
<1> QED  BY <1>1, BusInvariant, PTL

\* No slot is handed out or freed while somebody refers to it, and one thread frees it.
THEOREM BusNoUseAfterFree == Spec => []NoUseAfterFree
<1>1. IInv => NoUseAfterFree
  <2> SUFFICES ASSUME IInv, NEW h \in Headers
               PROVE  /\ RefCount(h) > 0 => h \in used /\ Freeing(h) = {}
                      /\ Freeing(h) # {} => h \in used /\ Cardinality(Freeing(h)) = 1
    BY DEF NoUseAfterFree
  <2>1. RefCount(h) > 0 => h \in used /\ Freeing(h) = {}  BY DEF IInv, HeaderInv
  <2>2. ASSUME Freeing(h) # {}  PROVE h \in used /\ Cardinality(Freeing(h)) = 1
    <3>1. PICK t \in Threads : t \in Freeing(h)  BY <2>2, HolderTypes
    <3>2. h \in used /\ Freeing(h) = {t}  BY <3>1, FreeingFacts
    <3> QED  BY <3>2, FS_Singleton
  <2> QED  BY <2>1, <2>2
<1> QED  BY <1>1, BusInvariant, PTL

\* A handler finds the payload the message was created with: it is freed after the
\* last reference, and no block serves two messages.
THEOREM BusPayloadAlive == Spec => []PayloadAlive
<1>1. IInv => PayloadAlive
  <2> SUFFICES ASSUME IInv PROVE PayloadAlive
    OBVIOUS
  <2>1. ASSUME NEW t \in Tasks, NEW h, h = disp[t].msg, h # None
        PROVE  hdr[h].id \in PayloadIds <=> hdr[h].payload # None
    <3>1. disp[t].pc # "receive"  BY <2>1 DEF IInv, Looping, Waiting
    <3>2. h \in Headers  BY <2>1, <3>1 DEF IInv, Looping
    <3>3. t \in Dispatching(h)  BY <2>1 DEF Dispatching
    <3>4. RefCount(h) > 0  BY <3>3, Holders
    <3>5. Calls(h) = {}  BY <3>2, <3>3 DEF IInv, HeaderInv
    <3>6. ~ \E u \in Threads : call[u].msg = h /\ call[u].pc = "payload"
      BY <3>5 DEF Calls, Owning
    <3> QED  BY <3>2, <3>4, <3>6 DEF IInv, PayloadInv
  <2>2. \A g, h \in Headers : hdr[g].payload # None =>
          /\ hdr[g].payload \notin free
          /\ hdr[g].payload = hdr[h].payload => g = h
    BY DEF IInv, PayloadInv
  <2> QED  BY <2>1, <2>2 DEF PayloadAlive
<1> QED  BY <1>1, BusInvariant, PTL

-----------------------------------------------------------------------------
(* Who is still to be given a message                                      *)

\* The call c, with receiver_id r, is going to queue a message that m can take.
Promise(c, r, m) ==
  \/ c.pc = "send" /\ r = m
  \/ /\ c.pc \in FanOut \cup {"stamp"}
     /\ \E n \in c.pending : m \in Cohort(n)

Promised(h, m) ==
  \E t \in Threads : call[t].msg = h /\ Promise(call[t], hdr[h].receiver, m)

\* The dispatch loop d of t has still to come to m.
Reached(d) == IF d.pc = "handler" THEN d.idx + 1 ELSE d.idx

Coming(t, d, m) ==
  /\ d.pc \in {"dispatch", "handler"}
  /\ \E i \in DOMAIN BoundModules[t] : i >= Reached(d) /\ BoundModules[t][i] = m

Ahead(h, m) == \E t \in Tasks : disp[t].msg = h /\ Coming(t, disp[t], m)

\* h is in the inbox of the task of m.
Queued(h, m) == TaskOf(m) # None /\ TaskOf(m) \in Inboxes(h)

Due(h, m) == Promised(h, m) \/ Queued(h, m) \/ Ahead(h, m)

\* A message is on the way its id allows.
Routed(h) ==
  \A t \in Threads : call[t].msg = h =>
    /\ call[t].pc \in FanOut \cup {"stamp"} => hdr[h].id \in Published
    /\ call[t].pc = "send" => hdr[h].id \in Sent

\* No task is served twice: one that dispatches h has no other h to come.
Apart(h) ==
  /\ Inboxes(h) \cap Dispatching(h) = {}
  /\ \A t \in Threads : call[t].msg = h /\ call[t].pc \in FanOut =>
       \A m \in call[t].pending : TaskOf(m) \notin Dispatching(h)

\* h is for m alone: m is the only one left to serve, and once it is receiver_id
\* nothing rewrites it.
Aim(h, m) ==
  /\ \A t \in Threads : call[t].msg = h /\ call[t].pc \in FanOut \cup {"stamp"} =>
       call[t].pending = {m}
  /\ \/ \E t \in Threads : call[t].msg = h /\ call[t].pc \in {"stamp", "target"}
     \/ hdr[h].receiver = m

\* The same of the only call c with it, and of its fields e.
Aimed(c, e, m) ==
  /\ c.pc \in FanOut \cup {"stamp"} => c.pending = {m}
  /\ c.pc \in {"stamp", "target"} \/ e.receiver = m

\* Whoever is owed h is a subscriber and h is on its way to it.
OwedInv(h) ==
  \A m \in hist[h].owed :
    /\ hdr[h].id \in MsgIds /\ m \in subs[hdr[h].id]
    /\ hdr[h].id \in DirectIds => Aim(h, m)
    /\ Due(h, m)

\* Whoever got h is not to be given it again.
GotInv(h) ==
  /\ \A m \in hist[h].got : ~Due(h, m)
  /\ h \notin used \/ Calls(h) # {} => hist[h].got = {}

\* Somebody refers to h.
Held(h) == \/ Calls(h) # {} \/ Pending(h) # {} \/ Inboxes(h) # {}
           \/ Dispatching(h) # {} \/ Releasing(h) # {}

\* Only a direct send that fails loses a header.
LostInv(h) == h \in used => Held(h) \/ Freeing(h) # {} \/ hist[h].lost

DeliveryInv(h) == Routed(h) /\ Apart(h) /\ OwedInv(h) /\ GotInv(h) /\ LostInv(h)

Delivery == \A h \in Headers : DeliveryInv(h)

DInv == IInv /\ Delivery

-----------------------------------------------------------------------------
(* What a step leaves alone                                                *)

\* The step leaves h on its way: nobody comes to be due it or stops being so, and
\* it is owed to no one else.
SameWay(h) ==
  /\ \A t \in Threads : call'[t].msg = h \/ call[t].msg = h => call'[t] = call[t]
  /\ \A t \in Tasks : disp'[t].msg = h \/ disp[t].msg = h => disp'[t] = disp[t]
  /\ Inboxes(h)' = Inboxes(h)
  /\ hdr'[h].id = hdr[h].id /\ hdr'[h].receiver = hdr[h].receiver
  /\ (h \in used') = (h \in used)
  /\ hist'[h].got = hist[h].got /\ hist'[h].owed \subseteq hist[h].owed
  /\ hist'[h].lost = hist[h].lost
  /\ \A m \in hist'[h].owed : m \in subs'[hdr[h].id]

\* The step does not concern the delivery of h.
Unmoved(h) == SameHolders(h) /\ SameWay(h)

\* Such a header stays with whom it is due.
LEMMA KeepsWay ==
  ASSUME NEW h \in Headers, SameWay(h), DeliveryInv(h), LostInv(h)'
  PROVE  DeliveryInv(h)'
<1>1. h # None  BY BusAssumption
<1>2. /\ Inboxes(h)' = Inboxes(h) /\ Calls(h)' = Calls(h)
      /\ Dispatching(h)' = Dispatching(h)
  BY <1>1 DEF SameWay, Calls, Dispatching
<1>3. \A t \in Threads : call'[t].msg = h \/ call[t].msg = h => call'[t] = call[t]
  BY DEF SameWay
<1>4. Routed(h)'  BY <1>3 DEF DeliveryInv, SameWay, Routed
<1>5. Apart(h)'  BY <1>2, <1>3 DEF DeliveryInv, Apart
<1>6. ASSUME NEW m  PROVE Due(h, m)' <=> Due(h, m)
  <2>1. Promised(h, m)' <=> Promised(h, m)
    BY <1>3 DEF SameWay, Promised, Promise
  <2>2. Ahead(h, m)' <=> Ahead(h, m)
    BY DEF SameWay, Ahead, Coming, Reached
  <2> QED  BY <1>2, <2>1, <2>2 DEF Due, Queued
<1>7. OwedInv(h)'
  <2>1. \A m : Aim(h, m) => Aim(h, m)'  BY <1>3 DEF SameWay, Aim
  <2> QED  BY <1>6, <2>1 DEF DeliveryInv, SameWay, OwedInv
<1>8. GotInv(h)'  BY <1>2, <1>6 DEF DeliveryInv, SameWay, GotInv
<1> QED  BY <1>4, <1>5, <1>7, <1>8 DEF DeliveryInv

\* A header whose delivery the step does not concern keeps its invariant.
LEMMA KeepsDelivery ==
  ASSUME NEW h \in Headers, Unmoved(h), DeliveryInv(h)
  PROVE  DeliveryInv(h)'
<1>1. h # None  BY BusAssumption
<1>2. /\ Calls(h)' = Calls(h) /\ Pending(h)' = Pending(h) /\ Releasing(h)' = Releasing(h)
      /\ Freeing(h)' = Freeing(h) /\ Inboxes(h)' = Inboxes(h)
      /\ Dispatching(h)' = Dispatching(h)
  BY <1>1, SameSets DEF Unmoved, SameHolders
<1>3. LostInv(h)'  BY <1>2 DEF DeliveryInv, Unmoved, SameWay, LostInv, Held
<1> QED  BY <1>3, KeepsWay DEF Unmoved

\* What is left to show of a step that concerns one header.
LEMMA OneDelivery ==
  ASSUME DInv, NEW h \in Headers, \A g \in Headers : g # h => Unmoved(g), DeliveryInv(h)'
  PROVE  Delivery'
<1>1. ASSUME NEW g \in Headers  PROVE DeliveryInv(g)'
  <2>1. CASE g = h  BY <2>1
  <2>2. CASE g # h  BY <2>2, KeepsDelivery DEF DInv, Delivery
  <2> QED  BY <2>1, <2>2
<1> QED  BY <1>1 DEF Delivery

\* A module is bound to one task.
LEMMA BoundOnce ==
  ASSUME NEW t \in Tasks, NEW i \in DOMAIN BoundModules[t]
  PROVE  /\ TaskOf(BoundModules[t][i]) = t /\ BoundModules[t][i] \in Modules
         /\ \A j \in DOMAIN BoundModules[t] : BoundModules[t][j] = BoundModules[t][i] => j = i
<1> DEFINE m == BoundModules[t][i]
<1>1. t \in Hosts(m) /\ \A u \in Hosts(m) : u = t  BY BusAssumption DEF Hosts
<1>2. TaskOf(m) = t  BY <1>1 DEF TaskOf
<1>3. BoundModules[t] \in Seq(Modules)  BY BusAssumption
<1>4. m \in Modules  BY <1>3
<1> QED  BY <1>2, <1>4, BusAssumption

\* None is no task.
LEMMA TaskIs ==
  ASSUME NEW m
  PROVE  TaskOf(m) \in Tasks \cup {None}
<1>1. CASE Hosts(m) = {}  BY <1>1 DEF TaskOf
<1>2. CASE Hosts(m) # {}
  <2>1. TaskOf(m) \in Hosts(m)  BY <1>2 DEF TaskOf
  <2> QED  BY <2>1 DEF Hosts
<1> QED  BY <1>1, <1>2

-----------------------------------------------------------------------------
(* A step inside the bus                                                   *)

\* The step writes no other header than h.
Alone(h) ==
  /\ \A g \in Headers : g # h =>
       /\ hdr'[g] = hdr[g] /\ (g \in used' <=> g \in used)
       /\ hist'[g] = hist[g] /\ Inboxes(g)' = Inboxes(g)
  /\ UNCHANGED <<disp, subs>>

\* A thread that moves with h does not concern the delivery of another header.
LEMMA OthersUnmoved ==
  ASSUME DInv, NEW t \in Threads, NEW h \in Headers,
         call[t].msg \in {h, None}, rel[t].msg \in {h, None},
         NEW c \in CallType, NEW r \in RelType, c.msg \in {h, None}, r.msg \in {h, None},
         call' = [call EXCEPT ![t] = c], rel' = [rel EXCEPT ![t] = r],
         Alone(h)
  PROVE  \A g \in Headers : g # h => Unmoved(g)
<1> SUFFICES ASSUME NEW g \in Headers, g # h PROVE Unmoved(g)
  OBVIOUS
<1>1. TypeOK /\ g # None  BY BusAssumption DEF DInv, IInv
<1>2. /\ call'[t] = c /\ \A u \in Threads : u # t => call'[u] = call[u]
      /\ rel'[t] = r /\ \A u \in Threads : u # t => rel'[u] = rel[u]
  BY <1>1 DEF TypeOK
<1>3. /\ \A u \in Threads : call'[u].msg = g \/ call[u].msg = g => call'[u] = call[u]
      /\ \A u \in Threads : rel'[u].msg = g \/ rel[u].msg = g => rel'[u] = rel[u]
  BY <1>1, <1>2
<1>4. Dispatching(g)' = Dispatching(g)  BY DEF Alone, Dispatching
<1>5. \A m \in hist[g].owed : m \in subs'[hdr[g].id]
  BY DEF DInv, Delivery, DeliveryInv, OwedInv, Alone
<1>6. SameHolders(g)  BY <1>3, <1>4 DEF SameHolders, Alone
<1>7. SameWay(g)  BY <1>3, <1>5 DEF SameWay, Alone
<1> QED  BY <1>6, <1>7 DEF Unmoved

\* Who is due h when one thread alone has a call with it.
LEMMA OneCaller ==
  ASSUME NEW t \in Threads, NEW h, call[t].msg = h,
         \A u \in Threads : call[u].msg = h => u = t, NEW m
  PROVE  Promised(h, m) <=> Promise(call[t], hdr[h].receiver, m)
BY DEF Promised

\* And whether it is for one of them alone.
LEMMA OneAims ==
  ASSUME NEW t \in Threads, NEW h, call[t].msg = h,
         \A u \in Threads : call[u].msg = h => u = t, NEW m
  PROVE  Aim(h, m) <=> Aimed(call[t], hdr[h], m)
BY DEF Aim, Aimed

\* m is due a header e that the call c still has and the inboxes I hold.
StillDue(h, c, e, I, m) ==
  \/ Promise(c, e.receiver, m)
  \/ TaskOf(m) # None /\ TaskOf(m) \in I
  \/ Ahead(h, m)

\* The delivery of h when its fields are e, its history is x, c is the only call
\* with it and I are the inboxes it is in.
Fits(h, c, e, I, x) ==
  /\ I \cap Dispatching(h) = {}
  /\ c.pc \in FanOut => \A m \in c.pending : TaskOf(m) \notin Dispatching(h)
  /\ c.pc \in FanOut \cup {"stamp"} => e.id \in Published
  /\ c.pc = "send" => e.id \in Sent
  /\ \A m \in x.owed :
       /\ e.id \in MsgIds /\ m \in subs[e.id]
       /\ e.id \in DirectIds => Aimed(c, e, m)
       /\ StillDue(h, c, e, I, m)
  /\ \A m \in x.got : ~StillDue(h, c, e, I, m)
  /\ c.pc \in Owning => x.got = {}

\* The bus call of t goes on with its header h, or ends.
LEMMA DeliveryMove ==
  ASSUME DInv, NEW t \in Threads, NEW pc, At(t, pc), pc \notin {"idle", "payload"},
         NEW c \in CallType, NEW r \in RelType, NEW e \in HeaderType, Moves(t, c, r, e),
         NEW h \in Headers, h = call[t].msg, c = NoCall \/ c.msg = h,
         r = NoRel \/ r = Release(h),
         \A g \in Headers : g # h => Inboxes(g)' = Inboxes(g) /\ hist'[g] = hist[g],
         NEW I \in SUBSET Tasks, Inboxes(h)' = I,
         NEW x, hist'[h] = x, Fits(h, c, e, I, x),
         \/ c.pc \in Owning \/ (c.pc \in FanOut /\ c.pending # {}) \/ I # {}
         \/ r = Release(h) \/ x.lost
  PROVE  Delivery'
<1>1. /\ IInv /\ TypeOK /\ h # None /\ call[t].msg = h /\ rel[t] = NoRel
      /\ NoCall.msg = None /\ NoRel.msg = None /\ Release(h).msg = h
      /\ NoCall.pc \notin Owning \cup FanOut \cup {"stamp", "send"}
  BY BusAssumption DEF DInv, IInv, At, NoCall, NoRel, Release, Owning, FanOut
<1>2. /\ h \in used' /\ \A u \in Threads : call'[u].msg = h => u = t
      /\ call'[t] = c /\ rel'[t] = r /\ hdr'[h] = e
      /\ \A g \in Headers : g # h => hdr'[g] = hdr[g]
      /\ Dispatching(h)' = Dispatching(h)
      /\ r = Release(h) => Releasing(h)' = Releasing(h) \cup {t}
  BY <1>1, MoveFacts
<1>3. ~Promise(NoCall, e.receiver, 0) /\ \A m : c = NoCall => ~Promise(c, e.receiver, m)
  BY <1>1 DEF Promise
<1>4. ASSUME NEW m  PROVE Due(h, m)' <=> StillDue(h, c, e, I, m)
  <2>1. Promised(h, m)' <=> Promise(c, e.receiver, m)
    BY <1>1, <1>2, <1>3 DEF Promised, Promise
  <2>2. Ahead(h, m)' <=> Ahead(h, m)  BY DEF Ahead, Moves, Coming, Reached
  <2>3. Queued(h, m)' <=> TaskOf(m) # None /\ TaskOf(m) \in I  BY DEF Queued
  <2> QED  BY <2>1, <2>2, <2>3 DEF Due, StillDue
<1>5. UNCHANGED <<subs, disp, used>>  BY DEF Moves
<1>6. DeliveryInv(h)'
  <2>1. Routed(h)'  BY <1>1, <1>2 DEF Routed, Fits
  <2>2. Apart(h)'  BY <1>2 DEF Apart, Fits
  <2>3. OwedInv(h)'
    <3>1. hist'[h].owed = x.owed /\ hdr'[h] = e /\ subs' = subs  BY <1>2, <1>5
    <3>2. ASSUME NEW m \in x.owed
          PROVE  /\ e.id \in MsgIds /\ m \in subs[e.id]
                 /\ e.id \in DirectIds => Aim(h, m)'
                 /\ Due(h, m)'
      <4>1. Aimed(c, e, m) => Aim(h, m)'
        <5>1. c.pc \in {"stamp", "target"} => c.msg = h  BY <1>1 DEF FanOut
        <5> QED  BY <1>2, <5>1 DEF Aim, Aimed
      <4> QED  BY <1>4, <4>1 DEF Fits
    <3> QED  BY <3>1, <3>2 DEF OwedInv
  <2>4. GotInv(h)'
    <3>1. Calls(h)' # {} => c.pc \in Owning  BY <1>2 DEF Calls
    <3> QED  BY <1>2, <1>4, <3>1 DEF GotInv, Fits
  <2>5. LostInv(h)'
    <3>1. c.pc \in Owning => c.msg = h /\ t \in Calls(h)'  BY <1>1, <1>2 DEF Calls
    <3>2. ASSUME c.pc \in FanOut, c.pending # {}  PROVE Pending(h)' # {}
      <4>1. PICK m \in Modules : m \in c.pending  BY <3>2 DEF CallType
      <4>2. c.msg = h  BY <1>1, <3>2
      <4>3. m \in Pending(h)'  BY <1>2, <3>2, <4>1, <4>2 DEF Pending
      <4> QED  BY <4>3
    <3> QED  BY <1>2, <3>1, <3>2 DEF LostInv, Held
  <2> QED  BY <2>1, <2>2, <2>3, <2>4, <2>5 DEF DeliveryInv
<1>7. \A g \in Headers : g # h => Unmoved(g)
  <2>1. /\ call[t].msg \in {h, None} /\ rel[t].msg \in {h, None}
        /\ c.msg \in {h, None} /\ r.msg \in {h, None}
    BY <1>1
  <2>2. call' = [call EXCEPT ![t] = c] /\ rel' = [rel EXCEPT ![t] = r]  BY DEF Moves
  <2>3. Alone(h)  BY <1>2, <1>5 DEF Alone
  <2> QED  BY <2>1, <2>2, <2>3, OthersUnmoved
<1> QED  BY <1>6, <1>7, OneDelivery

\* Before it is handed over nobody got a header, and nobody is owed it unless it
\* was published or sent.
LEMMA OwnedDelivery ==
  ASSUME DInv, NEW t \in Threads, call[t].pc \in Owning, NEW h, h = call[t].msg
  PROVE  /\ hist[h].got = {} /\ Inboxes(h) = {} /\ Dispatching(h) = {}
         /\ \A m : ~Ahead(h, m)
         /\ \A m \in hist[h].owed : Promise(call[t], hdr[h].receiver, m)
         /\ call[t].pc \in {"payload", "created", "wake"} => hist[h].owed = {}
<1>1. /\ h \in Headers /\ Inboxes(h) = {} /\ Dispatching(h) = {} /\ Calls(h) # {}
      /\ \A u \in Threads : call[u].msg = h => u = t
  BY OwnerFacts DEF DInv
<1>2. \A m : ~Ahead(h, m)  BY <1>1 DEF Ahead, Dispatching
<1>3. hist[h].got = {}  BY <1>1 DEF DInv, Delivery, DeliveryInv, GotInv
<1>4. \A m \in hist[h].owed : Promise(call[t], hdr[h].receiver, m)
  BY <1>1, <1>2, OneCaller DEF DInv, Delivery, DeliveryInv, OwedInv, Due, Queued
<1>5. call[t].pc \in {"payload", "created", "wake"} => \A m : ~Promise(call[t], hdr[h].receiver, m)
  BY DEF Promise, FanOut
<1> QED  BY <1>1, <1>2, <1>3, <1>4, <1>5

\* A call that ends with nobody owed its header, which a release or nobody has now.
LEMMA CallEnds ==
  ASSUME DInv, NEW t \in Threads, NEW pc \in {"created", "send", "wake"}, At(t, pc),
         NEW h \in Headers, h = call[t].msg, NEW r \in RelType, r = NoRel \/ r = Release(h),
         Moves(t, NoCall, r, hdr[h]), UNCHANGED queue,
         hist'[h].owed = {}, hist'[h].got = hist[h].got,
         \A g \in Headers : g # h => hist'[g] = hist[g],
         r = Release(h) \/ hist'[h].lost
  PROVE  Delivery'
<1>1. /\ call[t].pc \in Owning /\ pc \notin {"idle", "payload"} /\ IInv
      /\ NoCall.pc \notin Owning \cup FanOut \cup {"stamp", "send"}
  BY DEF At, Owning, DInv, NoCall, FanOut
<1>2. NoCall \in CallType /\ hdr[h] \in HeaderType  BY <1>1, Entering
<1>3. hist[h].got = {}  BY <1>1, OwnedDelivery
<1>4. \A g \in Headers : Inboxes(g)' = Inboxes(g)  BY <1>1, SameQueues
<1>5. PICK I \in SUBSET Tasks : I = {}  OBVIOUS
<1>6. Inboxes(h)' = I  BY <1>1, <1>4, <1>5, OwnedDelivery
<1>7. PICK x : x = hist'[h]  OBVIOUS
<1>8. Fits(h, NoCall, hdr[h], I, x)  BY <1>1, <1>3, <1>5, <1>7 DEF Fits
<1>9. \A g \in Headers : g # h => Inboxes(g)' = Inboxes(g) /\ hist'[g] = hist[g]
  BY <1>4
<1> QED  BY <1>1, <1>2, <1>6, <1>7, <1>8, <1>9, DeliveryMove

\* A call that ends with its header in the inbox of the receiver.
LEMMA CallDelivers ==
  ASSUME DInv, NEW t \in Threads, NEW pc \in {"send", "wake"}, At(t, pc),
         NEW h \in Headers, h = call[t].msg,
         Moves(t, NoCall, NoRel, hdr[h]), Deposit(h), UNCHANGED hist
  PROVE  Delivery'
<1>1. /\ call[t].pc \in Owning /\ pc \notin {"idle", "payload"} /\ IInv /\ NoRel \in RelType
      /\ NoCall.pc \notin Owning \cup FanOut \cup {"stamp", "send"} /\ call[t].pc = pc
  BY DEF At, Owning, DInv, NoCall, FanOut, NoRel, RelType
<1>2. NoCall \in CallType /\ hdr[h] \in HeaderType  BY <1>1, Entering
<1>3. /\ hist[h].got = {} /\ Inboxes(h) = {} /\ Dispatching(h) = {}
      /\ \A m \in hist[h].owed : Promise(call[t], hdr[h].receiver, m)
  BY <1>1, OwnedDelivery
<1>4. PICK k \in Tasks : k = TaskOf(hdr[h].receiver) /\ k # None
  BY <1>1, <1>3, Deposited DEF Deposit
<1>5. PICK I \in SUBSET Tasks : I = {k}  OBVIOUS
<1>6. Inboxes(h)' = I /\ \A g \in Headers : g # h => Inboxes(g)' = Inboxes(g)
  BY <1>1, <1>3, <1>4, <1>5, Deposited
<1>7. \A m \in hist[h].owed : hdr[h].receiver = m
  BY <1>1, <1>3 DEF Promise, FanOut
<1>8. Fits(h, NoCall, hdr[h], I, hist[h])
  <2>1. OwedInv(h)  BY DEF DInv, Delivery, DeliveryInv
  <2>2. \A m \in hist[h].owed : TaskOf(m) # None /\ TaskOf(m) \in I  BY <1>4, <1>5, <1>7
  <2>3. \A m \in hist[h].owed : Aimed(NoCall, hdr[h], m)  BY <1>1, <1>7 DEF Aimed
  <2> QED  BY <1>1, <1>3, <2>1, <2>2, <2>3 DEF Fits, StillDue, OwedInv
<1>9. \A g \in Headers : g # h => Inboxes(g)' = Inboxes(g) /\ hist'[g] = hist[g]
  BY <1>6
<1>10. I # {} /\ hist'[h] = hist[h]  BY <1>5
<1> QED  BY <1>1, <1>2, <1>6, <1>8, <1>9, <1>10, DeliveryMove

\* A call that keeps its header to itself.
LEMMA CallKeeps ==
  ASSUME DInv, NEW t \in Threads, NEW pc \in {"created", "stamp"}, At(t, pc),
         NEW c \in CallType, NEW e \in HeaderType, Moves(t, c, NoRel, e),
         NEW h \in Headers, h = call[t].msg, c.msg = h,
         c.pc \in {"stamp", "send"} \/ (c.pc = "target" /\ c.pending # {}),
         UNCHANGED queue, hist'[h].got = hist[h].got,
         \A g \in Headers : g # h => hist'[g] = hist[g],
         c.pc \in {"stamp", "target"} => e.id \in Published,
         c.pc = "send" => e.id \in Sent,
         \A m \in hist'[h].owed :
           /\ e.id \in MsgIds /\ m \in subs[e.id]
           /\ e.id \in DirectIds => Aimed(c, e, m)
           /\ Promise(c, e.receiver, m)
  PROVE  Delivery'
<1>1. /\ call[t].pc \in Owning /\ pc \notin {"idle", "payload"} /\ IInv /\ NoRel \in RelType
  BY DEF At, Owning, DInv, NoRel, RelType
<1>2. hist[h].got = {} /\ Inboxes(h) = {} /\ Dispatching(h) = {}  BY <1>1, OwnedDelivery
<1>3. \A g \in Headers : Inboxes(g)' = Inboxes(g)  BY <1>1, SameQueues
<1>4. PICK I \in SUBSET Tasks : I = {}  OBVIOUS
<1>5. Inboxes(h)' = I  BY <1>2, <1>3, <1>4
<1>6. PICK x : x = hist'[h]  OBVIOUS
<1>7. Fits(h, c, e, I, x)
  <2>1. x.got = {}  BY <1>2, <1>6
  <2>2. \A m \in x.owed :
          /\ e.id \in MsgIds /\ m \in subs[e.id]
          /\ e.id \in DirectIds => Aimed(c, e, m)
          /\ StillDue(h, c, e, I, m)
    BY <1>6 DEF StillDue
  <2>3. c.pc \in FanOut \cup {"stamp"} => e.id \in Published  BY DEF FanOut
  <2> QED  BY <1>2, <1>4, <2>1, <2>2, <2>3 DEF Fits
<1>8. \A g \in Headers : g # h => Inboxes(g)' = Inboxes(g) /\ hist'[g] = hist[g]
  BY <1>3
<1>9. c.pc \in Owning \/ (c.pc \in FanOut /\ c.pending # {})  BY DEF Owning, FanOut
<1> QED  BY <1>1, <1>5, <1>6, <1>7, <1>8, <1>9, DeliveryMove

\* Nobody is owed what its creator gives up.
LEMMA AbandonDelivers ==
  ASSUME DInv, NEW t \in Threads, Abandon(t)
  PROVE  Delivery'
<1>1. /\ At(t, "created") /\ UNCHANGED <<used, hdr, free, subs, queue, disp, hist>>
      /\ call[t].pc \in Owning /\ IInv
  BY DEF Abandon, At, Owning, DInv
<1>2. PICK h \in Headers : h = call[t].msg  BY <1>1, Entering
<1>3. Moves(t, NoCall, Release(h), hdr[h])
  BY <1>1, <1>2, LeavesHeader DEF Abandon, Return
<1>4. hist[h].owed = {}  BY <1>1, <1>2, OwnedDelivery DEF At
<1>5. /\ hist'[h].owed = {} /\ hist'[h].got = hist[h].got
      /\ \A g \in Headers : g # h => hist'[g] = hist[g]
  BY <1>1, <1>4
<1> QED  BY <1>1, <1>2, <1>3, <1>5, ReleaseTyped, CallEnds

\* The history of one header, when what is owed of it changes.
LEMMA OwedChanges ==
  ASSUME IInv, NEW h \in Headers, NEW S, hist' = [hist EXCEPT ![h].owed = S]
  PROVE  /\ hist'[h].owed = S /\ hist'[h].got = hist[h].got
         /\ \A g \in Headers : g # h => hist'[g] = hist[g]
<1>1. hist \in HistType  BY HistTyped
<1>2. hist[h] \in HistRecord  BY <1>1 DEF HistType
<1>3. hist'[h] = [hist[h] EXCEPT !.owed = S]  BY <1>1 DEF HistType
<1>4. \A g \in Headers : g # h => hist'[g] = hist[g]  BY <1>1 DEF HistType
<1> QED  BY <1>2, <1>3, <1>4 DEF HistRecord

\* De-duplication leaves somebody in the task of each subscriber.
LEMMA DedupCovers ==
  ASSUME NEW S \in SUBSET Modules, NEW R \in Dedup(S), NEW m \in S
  PROVE  \E r \in R : m \in Cohort(r)
<1>1. PICK r \in R : r = m \/ SameTask(r, m)  BY DEF Dedup
<1>2. m \in Cohort(r)  BY <1>1 DEF Cohort, SameTask
<1> QED  BY <1>2

\* Everybody in the snapshot shares a task with somebody the fan-out is going to
\* serve; a direct message that is owed at all has one subscriber.
LEMMA PublishSnapshotDelivers ==
  ASSUME DInv, NEW t \in Threads, PublishSnapshot(t)
  PROVE  Delivery'
<1>1. At(t, "created") /\ TypeOK /\ IInv  BY DEF PublishSnapshot, DInv, IInv
<1>2. PICK h \in Headers : h = call[t].msg  BY <1>1, Entering
<1>3. PICK id \in MsgIds : id = hdr[h].id /\ id \in Published
  <2>1. Published \subseteq MsgIds  BY BusAssumption
  <2> QED  BY <1>2, <2>1 DEF PublishSnapshot
<1>4. PICK S \in SUBSET Modules : S = subs[id]  BY <1>1 DEF TypeOK
<1>5. /\ hist' = [hist EXCEPT ![h].owed = Owed(id, S)]
      /\ UNCHANGED <<hdr, used, free, subs, disp, queue>>
  BY <1>2, <1>3, <1>4 DEF PublishSnapshot
<1>6. /\ hist'[h].owed = Owed(id, S) /\ hist'[h].got = hist[h].got
      /\ \A g \in Headers : g # h => hist'[g] = hist[g]
  BY <1>1, <1>5, OwedChanges
<1>7. /\ call[t] \in CallType /\ hdr[h] \in HeaderType /\ NoRel \in RelType
      /\ rel' = rel => rel' = [rel EXCEPT ![t] = NoRel]
  BY <1>1, <1>2, Entering
<1>8. CASE S = {} /\ Return(t) /\ rel' = [rel EXCEPT ![t] = Release(h)]
  <2>1. Moves(t, NoCall, Release(h), hdr[h])
    <3>1. call' = [call EXCEPT ![t] = NoCall]  BY <1>8 DEF Return
    <3>2. rel' = [rel EXCEPT ![t] = Release(h)]  BY <1>8
    <3> QED  BY <1>1, <1>2, <1>5, <3>1, <3>2, LeavesHeader
  <2>2. UNCHANGED queue  BY <1>5
  <2>3. hist'[h].owed = {}  BY <1>6, <1>8 DEF Owed
  <2> QED  BY <1>1, <1>2, <1>6, <2>1, <2>2, <2>3, ReleaseTyped, CallEnds
<1>9. ASSUME S # {}, NEW R \in Dedup(S), UNCHANGED rel,
             call' = [call EXCEPT ![t].pc = "stamp", ![t].pending = R]
      PROVE  Delivery'
  <2>1. R \in SUBSET Modules  BY <1>1, <1>4, <1>9, DedupSpreads
  <2>2. PICK c \in CallType : c = [call[t] EXCEPT !.pc = "stamp", !.pending = R]
    BY <1>7, <2>1 DEF CallType
  <2>3. c.msg = h /\ c.pc = "stamp" /\ c.pending = R  BY <1>2, <1>7, <2>2 DEF CallType
  <2>4. call' = [call EXCEPT ![t] = c]  BY <1>1, <1>9, <2>2 DEF TypeOK
  <2>5. Moves(t, c, NoRel, hdr[h])  BY <1>1, <1>2, <1>5, <1>7, <1>9, <2>4, LeavesHeader
  <2>6. UNCHANGED queue  BY <1>5
  <2>7. \A m \in hist'[h].owed :
          /\ hdr[h].id \in MsgIds /\ m \in subs[hdr[h].id]
          /\ hdr[h].id \in DirectIds => Aimed(c, hdr[h], m)
          /\ Promise(c, hdr[h].receiver, m)
    <3>1. \A m \in S : Promise(c, hdr[h].receiver, m)  BY <1>9, <2>3, DedupCovers DEF Promise
    <3>2. Owed(id, S) \subseteq S  BY DEF Owed
    <3>3. ASSUME id \in DirectIds, NEW m \in Owed(id, S)  PROVE Aimed(c, hdr[h], m)
      <4>1. S = {m}  BY <3>3 DEF Owed
      <4>2. R = {m}  BY <1>9, <4>1 DEF Dedup
      <4> QED  BY <2>3, <4>2 DEF Aimed
    <3> QED  BY <1>3, <1>4, <1>6, <3>1, <3>2, <3>3
  <2>8. hdr[h].id \in Published  BY <1>3
  <2> QED  BY <1>1, <1>2, <1>6, <1>7, <2>3, <2>5, <2>6, <2>7, <2>8, CallKeeps
<1> QED  BY <1>2, <1>3, <1>4, <1>8, <1>9 DEF PublishSnapshot

\* Counting the subscribers promises nothing new.
LEMMA PublishStampDelivers ==
  ASSUME DInv, NEW t \in Threads, PublishStamp(t)
  PROVE  Delivery'
<1>1. /\ At(t, "stamp") /\ UNCHANGED <<used, free, subs, queue, disp, rel, hist>>
      /\ call[t].pc \in Owning /\ IInv
  BY DEF PublishStamp, At, Owning, DInv
<1>2. PICK h \in Headers : h = call[t].msg  BY <1>1, Entering
<1>3. /\ call[t] \in CallType /\ hdr[h] \in HeaderType /\ NoRel \in RelType
      /\ rel' = [rel EXCEPT ![t] = NoRel] /\ call[t].pc = "stamp"
  BY <1>1, <1>2, Entering
<1>4. PICK P \in SUBSET Modules : P = call[t].pending  BY <1>3 DEF CallType
<1>5. P # {} /\ Cardinality(P) \in 0..255
  <2>1. Spread(P) /\ Cardinality(P) <= 255
    BY <1>1, <1>3, <1>4 DEF IInv, Threading, Within
  <2>2. Cardinality(P) \in Nat  BY Countable
  <2> QED  BY <2>1, <2>2 DEF Spread
<1>6. PICK c \in CallType : c = [call[t] EXCEPT !.pc = "target"]  BY <1>3 DEF CallType
<1>7. c.msg = h /\ c.pc = "target" /\ c.pending = P  BY <1>2, <1>3, <1>4, <1>6 DEF CallType
<1>8. PICK e \in HeaderType : e = [hdr[h] EXCEPT !.ref = Cardinality(P)]
  BY <1>3, <1>5 DEF HeaderType
<1>9. e.id = hdr[h].id /\ e.receiver = hdr[h].receiver  BY <1>3, <1>8 DEF HeaderType
<1>10. Moves(t, c, NoRel, e)
  <2>1. call' = [call EXCEPT ![t] = c]  BY <1>6 DEF PublishStamp
  <2>2. hdr' = [hdr EXCEPT ![h] = e]  BY <1>2, <1>4, <1>8 DEF PublishStamp
  <2> QED  BY <1>1, <1>2, <1>3, <2>1, <2>2 DEF Moves
<1>11. e.id \in Published
  BY <1>2, <1>3, <1>9 DEF DInv, Delivery, DeliveryInv, Routed
<1>12. \A m \in hist'[h].owed :
         /\ e.id \in MsgIds /\ m \in subs[e.id]
         /\ e.id \in DirectIds => Aimed(c, e, m)
         /\ Promise(c, e.receiver, m)
  <2>1. OwedInv(h)  BY DEF DInv, Delivery, DeliveryInv
  <2>2. \A m \in hist[h].owed : Promise(call[t], hdr[h].receiver, m)
    BY <1>1, <1>2, OwnedDelivery
  <2>3. \A m \in hist[h].owed : Promise(c, e.receiver, m)
    BY <1>3, <1>4, <1>7, <2>2 DEF Promise, FanOut
  <2>4. \A u \in Threads : call[u].msg = h => u = t  BY <1>1, <1>2, OwnerFacts
  <2>5. \A m : Aim(h, m) => Aimed(c, e, m)
    <3>1. \A m : Aim(h, m) => P = {m}  BY <1>2, <1>3, <1>4, <2>4 DEF Aim
    <3> QED  BY <1>7, <3>1 DEF Aimed
  <2> QED  BY <1>1, <1>9, <2>1, <2>3, <2>5 DEF OwedInv
<1>13. UNCHANGED queue /\ UNCHANGED hist  BY <1>1
<1> QED  BY <1>1, <1>2, <1>5, <1>7, <1>10, <1>11, <1>12, <1>13, CallKeeps

\* The receiver is owed what is sent to it, if it is a subscriber.
LEMMA SendToDelivers ==
  ASSUME DInv, NEW t \in Threads, NEW m \in Modules, SendTo(t, m)
  PROVE  Delivery'
<1>1. At(t, "created") /\ TypeOK /\ IInv  BY DEF SendTo, DInv, IInv
<1>2. PICK h \in Headers : h = call[t].msg  BY <1>1, Entering
<1>3. /\ call[t] \in CallType /\ hdr[h] \in HeaderType /\ rel' = [rel EXCEPT ![t] = NoRel]
  BY <1>1, <1>2, Entering DEF SendTo
<1>4. PICK c \in CallType : c = [call[t] EXCEPT !.pc = "send"]  BY <1>3 DEF CallType
<1>5. PICK e \in HeaderType : e = [hdr[h] EXCEPT !.receiver = m, !.ref = 1]
  <2>1. 1 \in 0..255  OBVIOUS
  <2> QED  BY <1>3, <2>1 DEF HeaderType
<1>6. c.msg = h /\ c.pc = "send" /\ e.id = hdr[h].id /\ e.receiver = m
  <2>1. c.msg = h /\ c.pc = "send"  BY <1>2, <1>3, <1>4 DEF CallType
  <2> QED  BY <1>3, <1>5, <2>1 DEF HeaderType
<1>7. Moves(t, c, NoRel, e)
  <2>1. call' = [call EXCEPT ![t] = c]  BY <1>4 DEF SendTo
  <2>2. hdr' = [hdr EXCEPT ![h] = e]  BY <1>1, <1>2, <1>5 DEF SendTo, TypeOK
  <2> QED  BY <1>2, <1>3, <2>1, <2>2 DEF SendTo, Moves
<1>8. PICK S : S = {m} \cap subs[hdr[h].id]  OBVIOUS
<1>9. hist' = [hist EXCEPT ![h].owed = S]  BY <1>2, <1>8 DEF SendTo
<1>10. /\ hist'[h].owed = S /\ hist'[h].got = hist[h].got
       /\ \A g \in Headers : g # h => hist'[g] = hist[g]
  BY <1>1, <1>9, OwedChanges
<1>11. e.id \in Sent /\ e.id \in MsgIds
  <2>1. Sent \subseteq MsgIds  BY BusAssumption
  <2> QED  BY <1>2, <1>6, <2>1 DEF SendTo
<1>12. \A n \in hist'[h].owed :
         /\ e.id \in MsgIds /\ n \in subs[e.id]
         /\ e.id \in DirectIds => Aimed(c, e, n)
         /\ Promise(c, e.receiver, n)
  BY <1>6, <1>8, <1>10, <1>11 DEF Promise, Aimed, FanOut
<1>13. UNCHANGED queue /\ c.pc \notin {"stamp", "target"}  BY <1>6 DEF SendTo
<1> QED  BY <1>1, <1>2, <1>6, <1>7, <1>10, <1>11, <1>12, <1>13, CallKeeps

\* What was promised is in the inbox.
LEMMA SendEnqueueDelivers ==
  ASSUME DInv, NEW t \in Threads, SendEnqueue(t)
  PROVE  Delivery'
<1>1. At(t, "send") /\ UNCHANGED <<used, hdr, free, subs, disp, rel, hist>> /\ IInv
  BY DEF SendEnqueue, DInv
<1>2. PICK h \in Headers : h = call[t].msg  BY <1>1, Entering
<1>3. NoRel \in RelType /\ rel' = [rel EXCEPT ![t] = NoRel]  BY <1>1, Entering
<1>4. Moves(t, NoCall, NoRel, hdr[h])
  BY <1>1, <1>2, <1>3, LeavesHeader DEF SendEnqueue, Return
<1>5. Deposit(h) /\ UNCHANGED hist  BY <1>1, <1>2 DEF SendEnqueue
<1> QED  BY <1>1, <1>2, <1>4, <1>5, CallDelivers

\* A refused message is owed to nobody; its header is lost.
LEMMA SendFailsDelivers ==
  ASSUME DInv, NEW t \in Threads, SendFails(t)
  PROVE  Delivery'
<1>1. /\ At(t, "send") /\ UNCHANGED <<used, hdr, free, subs, queue, disp, rel>> /\ IInv
      /\ call[t].pc = "send"
  BY DEF SendFails, DInv, At
<1>2. PICK h \in Headers : h = call[t].msg  BY <1>1, Entering
<1>3. NoRel \in RelType /\ rel' = [rel EXCEPT ![t] = NoRel]  BY <1>1, Entering
<1>4. Moves(t, NoCall, NoRel, hdr[h])
  BY <1>1, <1>2, <1>3, LeavesHeader DEF SendFails, Return
<1>5. PICK x \in HistRecord : x = hist[h]  BY <1>1, HistTyped DEF HistType
<1>6. PICK y : y = [x EXCEPT !.owed = {}, !.lost = TRUE]  OBVIOUS
<1>7. /\ hist'[h].owed = {} /\ hist'[h].got = hist[h].got /\ hist'[h].lost
      /\ \A g \in Headers : g # h => hist'[g] = hist[g]
  <2>1. hist' = [hist EXCEPT ![h] = y]  BY <1>2, <1>5, <1>6 DEF SendFails
  <2>2. hist'[h] = y /\ \A g \in Headers : g # h => hist'[g] = hist[g]
    BY <1>1, <2>1, HistTyped DEF HistType
  <2>3. y.owed = {} /\ y.got = x.got /\ y.lost  BY <1>6 DEF HistRecord
  <2> QED  BY <1>5, <2>2, <2>3
<1>8. UNCHANGED queue  BY <1>1
<1> QED  BY <1>1, <1>2, <1>3, <1>4, <1>6, <1>7, <1>8, CallEnds

\* Nobody is owed a wake token.
LEMMA WakeEnqueueDelivers ==
  ASSUME DInv, NEW t \in Threads, WakeEnqueue(t)
  PROVE  Delivery'
<1>1. At(t, "wake") /\ UNCHANGED <<used, hdr, free, subs, disp, rel, hist>> /\ IInv
  BY DEF WakeEnqueue, DInv
<1>2. PICK h \in Headers : h = call[t].msg  BY <1>1, Entering
<1>3. NoRel \in RelType /\ rel' = [rel EXCEPT ![t] = NoRel]  BY <1>1, Entering
<1>4. Moves(t, NoCall, NoRel, hdr[h])
  BY <1>1, <1>2, <1>3, LeavesHeader DEF WakeEnqueue, Return
<1>5. Deposit(h) /\ UNCHANGED hist  BY <1>1, <1>2 DEF WakeEnqueue
<1> QED  BY <1>1, <1>2, <1>4, <1>5, CallDelivers

\* Nor one that a full inbox refused.
LEMMA WakeDropDelivers ==
  ASSUME DInv, NEW t \in Threads, WakeDrop(t)
  PROVE  Delivery'
<1>1. /\ At(t, "wake") /\ UNCHANGED <<used, hdr, free, subs, queue, disp, hist>>
      /\ call[t].pc \in Owning /\ IInv
  BY DEF WakeDrop, At, Owning, DInv
<1>2. PICK h \in Headers : h = call[t].msg  BY <1>1, Entering
<1>3. Moves(t, NoCall, Release(h), hdr[h])
  BY <1>1, <1>2, LeavesHeader DEF WakeDrop, Return
<1>4. hist[h].owed = {}  BY <1>1, <1>2, OwnedDelivery DEF At
<1>5. /\ hist'[h].owed = {} /\ hist'[h].got = hist[h].got
      /\ \A g \in Headers : g # h => hist'[g] = hist[g]
  BY <1>1, <1>4
<1> QED  BY <1>1, <1>2, <1>3, <1>5, ReleaseTyped, CallEnds

\* Who is due h during a fan-out.
LEMMA FanOutDelivery ==
  ASSUME DInv, NEW t \in Threads, call[t].pc \in FanOut, NEW h, h = call[t].msg
  PROVE  /\ h \in Headers /\ Apart(h) /\ OwedInv(h) /\ hdr[h].id \in Published
         /\ \A m : Due(h, m) <=> StillDue(h, call[t], hdr[h], Inboxes(h), m)
         /\ \A m \in hist[h].got : ~Due(h, m)
         /\ Inboxes(h) \cap Dispatching(h) = {}
         /\ \A m \in call[t].pending : TaskOf(m) \notin Dispatching(h)
         /\ \A m : Aim(h, m) <=> Aimed(call[t], hdr[h], m)
<1>1. h \in Headers /\ \A u \in Threads : call[u].msg = h => u = t
  BY FanOutFacts DEF DInv
<1>2. Apart(h) /\ OwedInv(h) /\ GotInv(h) /\ Routed(h)
  BY <1>1 DEF DInv, Delivery, DeliveryInv
<1>3. hdr[h].id \in Published  BY <1>2 DEF Routed
<1>4. \A m : Promised(h, m) <=> Promise(call[t], hdr[h].receiver, m)
  BY <1>1, OneCaller
<1>5. \A m : Due(h, m) <=> StillDue(h, call[t], hdr[h], Inboxes(h), m)
  BY <1>4 DEF Due, Queued, StillDue
<1>6. \A m \in hist[h].got : ~Due(h, m)  BY <1>2 DEF GotInv
<1>7. Inboxes(h) \cap Dispatching(h) = {}  BY <1>2 DEF Apart
<1>8. \A m \in call[t].pending : TaskOf(m) \notin Dispatching(h)  BY <1>2 DEF Apart
<1>9. \A m : Aim(h, m) <=> Aimed(call[t], hdr[h], m)  BY <1>1, OneAims
<1> QED  BY <1>1, <1>2, <1>3, <1>5, <1>6, <1>7, <1>8, <1>9

\* receiver_id says nothing of a message that is not direct, and of one that is
\* owed it names the only subscriber left to serve.
LEMMA PublishTargetDelivers ==
  ASSUME DInv, NEW t \in Threads, PublishTarget(t)
  PROVE  Delivery'
<1>1. /\ At(t, "target") /\ UNCHANGED <<used, free, subs, queue, disp, rel, hist>> /\ IInv
      /\ call[t].pc \in FanOut /\ "target" \notin {"idle", "payload"}
  BY DEF PublishTarget, At, FanOut, DInv
<1>2. PICK h \in Headers : h = call[t].msg  BY <1>1, Entering
<1>3. /\ call[t] \in CallType /\ hdr[h] \in HeaderType /\ NoRel \in RelType
      /\ rel' = [rel EXCEPT ![t] = NoRel]
  BY <1>1, <1>2, Entering
<1>4. PICK P \in SUBSET Modules : P = call[t].pending  BY <1>3 DEF CallType
<1>5. PICK m \in P : hdr' = [hdr EXCEPT ![h].receiver = m]  BY <1>2, <1>4 DEF PublishTarget
<1>6. PICK c \in CallType : c = [call[t] EXCEPT !.pc = "enqueue"]  BY <1>3 DEF CallType
<1>7. c.msg = h /\ c.pc = "enqueue" /\ c.pending = P  BY <1>2, <1>3, <1>4, <1>6 DEF CallType
<1>8. PICK e \in HeaderType : e = [hdr[h] EXCEPT !.receiver = m]  BY <1>3 DEF HeaderType
<1>9. e.id = hdr[h].id  BY <1>3, <1>8 DEF HeaderType
<1>10. Moves(t, c, NoRel, e)
  <2>1. call' = [call EXCEPT ![t] = c]  BY <1>6 DEF PublishTarget
  <2>2. hdr' = [hdr EXCEPT ![h] = e]  BY <1>5, <1>8
  <2> QED  BY <1>1, <1>2, <1>3, <2>1, <2>2 DEF Moves
<1>11. \A g \in Headers : Inboxes(g)' = Inboxes(g)  BY <1>1, SameQueues
<1>12. PICK I \in SUBSET Tasks : I = Inboxes(h)  BY HolderTypes
<1>13. /\ OwedInv(h) /\ hdr[h].id \in Published
       /\ \A n : Due(h, n) <=> StillDue(h, call[t], hdr[h], I, n)
       /\ \A n \in hist[h].got : ~Due(h, n)
       /\ I \cap Dispatching(h) = {} /\ \A n \in P : TaskOf(n) \notin Dispatching(h)
       /\ \A n : Aim(h, n) <=> Aimed(call[t], hdr[h], n)
  BY <1>1, <1>2, <1>4, <1>12, FanOutDelivery
<1>14. \A n : StillDue(h, call[t], hdr[h], I, n) <=> StillDue(h, c, e, I, n)
  <2>1. \A n : Promise(call[t], hdr[h].receiver, n) <=> Promise(c, e.receiver, n)
    BY <1>1, <1>4, <1>7 DEF Promise, FanOut
  <2> QED  BY <2>1 DEF StillDue
<1>15. Fits(h, c, e, I, hist[h])
  <2>1. e.id \in Published  BY <1>9, <1>13
  <2>2. \A n \in hist[h].owed : e.id \in MsgIds /\ n \in subs[e.id] /\ StillDue(h, c, e, I, n)
    BY <1>9, <1>13, <1>14 DEF OwedInv
  <2>5. ASSUME e.id \in DirectIds, NEW n \in hist[h].owed  PROVE Aimed(c, e, n)
    <3>1. Aimed(call[t], hdr[h], n)  BY <1>9, <1>13, <2>5 DEF OwedInv
    <3>2. P = {n}  BY <1>1, <1>4, <3>1 DEF Aimed
    <3>3. m = n  BY <1>5, <3>2
    <3>4. e.receiver = m  BY <1>3, <1>8 DEF HeaderType
    <3> QED  BY <1>7, <3>2, <3>3, <3>4 DEF Aimed
  <2>3. \A n \in hist[h].got : ~StillDue(h, c, e, I, n)  BY <1>13, <1>14
  <2>4. c.pc \notin Owning /\ c.pc # "send"  BY <1>7 DEF Owning
  <2> QED  BY <1>7, <1>13, <2>1, <2>2, <2>3, <2>4, <2>5 DEF Fits
<1>16. Inboxes(h)' = I /\ hist'[h] = hist[h]  BY <1>1, <1>11, <1>12
<1>17. \A g \in Headers : g # h => Inboxes(g)' = Inboxes(g) /\ hist'[g] = hist[g]
  BY <1>1, <1>11
<1>18. c.pc \in FanOut /\ c.pending # {}  BY <1>5, <1>7 DEF FanOut
<1> QED  BY <1>1, <1>2, <1>3, <1>7, <1>10, <1>15, <1>16, <1>17, <1>18, DeliveryMove

\* The loop step after an enqueue: the subscriber just served has the message in
\* its inbox, with all of its task, or is no longer owed it.
LEMMA NextTargetDelivers ==
  ASSUME DInv, NEW t \in Threads, At(t, "enqueue"), NextTarget(t),
         NEW h \in Headers, h = call[t].msg, NEW r \in RelType,
         \/ r = NoRel /\ Deposit(h) /\ UNCHANGED hist
         \/ /\ r = Release(h) /\ UNCHANGED queue
            /\ hist' = [hist EXCEPT ![h].owed = @ \ Cohort(hdr[h].receiver)],
         rel' = [rel EXCEPT ![t] = r], UNCHANGED <<hdr, used, free, subs, disp>>
  PROVE  Delivery'
<1>1. /\ call[t].pc \in FanOut /\ call[t].pc = "enqueue" /\ "enqueue" \notin {"idle", "payload"}
      /\ call[t] \in CallType /\ hdr[h] \in HeaderType /\ NoCall \in CallType /\ IInv
  <2>1. IInv  BY DEF DInv
  <2>2. call[t] \in CallType /\ hdr[h] \in HeaderType /\ NoCall \in CallType
    BY <2>1, Entering
  <2> QED  BY <2>1, <2>2 DEF At, FanOut
<1>2. PICK P \in SUBSET Modules : P = call[t].pending  BY <1>1 DEF CallType
<1>3. PICK m \in P : m = hdr[h].receiver  BY <1>1, <1>2 DEF IInv, HeaderInv
<1>4. PICK I \in SUBSET Tasks : I = Inboxes(h)  BY HolderTypes
<1>5. \A n \in P : TaskOf(n) \notin I  BY <1>1, <1>2, <1>4, FanOutCount
<1>6. /\ OwedInv(h) /\ hdr[h].id \in Published
      /\ \A n : Due(h, n) <=> StillDue(h, call[t], hdr[h], I, n)
      /\ \A n \in hist[h].got : ~Due(h, n)
      /\ I \cap Dispatching(h) = {} /\ \A n \in P : TaskOf(n) \notin Dispatching(h)
      /\ \A n : Aim(h, n) <=> Aimed(call[t], hdr[h], n)
  BY <1>1, <1>2, <1>4, FanOutDelivery
<1>7. PICK rest \in SUBSET P : rest = P \ {m}  OBVIOUS
<1>8. PICK c \in CallType :
        c = IF rest = {} THEN NoCall ELSE [call[t] EXCEPT !.pc = "target", !.pending = rest]
  BY <1>1, <1>7 DEF CallType
<1>9. call' = [call EXCEPT ![t] = c]  BY <1>2, <1>3, <1>7, <1>8 DEF NextTarget
<1>10. /\ c = NoCall \/ c.msg = h
       /\ rest # {} => c.pc = "target" /\ c.pending = rest
       /\ rest = {} => c.pc = "idle" /\ c.pending = {}
  BY <1>1, <1>8 DEF CallType, NoCall
<1>11. Moves(t, c, r, hdr[h])  BY <1>1, <1>9, LeavesHeader
<1>12. \A n : Promise(c, hdr[h].receiver, n) <=> \E q \in rest : n \in Cohort(q)
  <2>1. CASE rest = {}  BY <1>10, <2>1 DEF Promise, FanOut
  <2>2. CASE rest # {}  BY <1>10, <2>2 DEF Promise, FanOut
  <2> QED  BY <2>1, <2>2
<1>13. \A n : Promise(call[t], hdr[h].receiver, n) <=> \E q \in P : n \in Cohort(q)
  BY <1>1, <1>2 DEF Promise, FanOut
<1>14. \A n : Promise(call[t], hdr[h].receiver, n)
                <=> Promise(c, hdr[h].receiver, n) \/ n \in Cohort(m)
  BY <1>7, <1>12, <1>13
<1>15. /\ c.pc \in FanOut => c.pending = rest
       /\ c.pc \notin Owning /\ c.pc # "send" /\ c.pc # "stamp"
       /\ hdr[h].id \in DirectIds => \A n \in hist[h].owed : Aimed(c, hdr[h], n)
  <2>1. ASSUME hdr[h].id \in DirectIds, NEW n \in hist[h].owed  PROVE Aimed(c, hdr[h], n)
    <3>1. Aimed(call[t], hdr[h], n)  BY <1>6, <2>1 DEF OwedInv
    <3>2. P = {n} /\ m = n  BY <1>1, <1>2, <1>3, <3>1 DEF Aimed
    <3>3. c.pc = "idle"  BY <1>7, <1>10, <3>2
    <3> QED  BY <1>3, <3>2, <3>3 DEF Aimed, FanOut
  <2>2. c.pc = "target" \/ c.pc = "idle"  BY <1>10
  <2> QED  BY <1>10, <2>1, <2>2 DEF Owning, FanOut
<1>16. hist[h].owed \subseteq Modules /\ hist[h].got \subseteq Modules
  <2>1. hist[h] \in HistRecord  BY <1>1, HistTyped DEF HistType
  <2> QED  BY <2>1 DEF HistRecord
<1>17. CASE r = NoRel /\ Deposit(h) /\ UNCHANGED hist
  <2>1. PICK k \in Tasks : k = TaskOf(m) /\ k # None
    BY <1>1, <1>3, <1>4, <1>5, <1>17, Deposited DEF Deposit
  <2>2. PICK J \in SUBSET Tasks : J = I \cup {k}  OBVIOUS
  <2>3. Inboxes(h)' = J /\ \A g \in Headers : g # h => Inboxes(g)' = Inboxes(g)
    BY <1>1, <1>3, <1>4, <1>5, <1>17, <2>1, <2>2, Deposited
  <2>4. ASSUME NEW n \in Modules
        PROVE  StillDue(h, c, hdr[h], J, n) <=> StillDue(h, call[t], hdr[h], I, n)
    <3>1. n \in Cohort(m) <=> TaskOf(n) = k \/ n = m
      BY <2>1 DEF Cohort, SameTask
    <3>2. n \in Cohort(m) <=> TaskOf(n) = k  BY <2>1, <3>1
    <3>3. (TaskOf(n) # None /\ TaskOf(n) \in J)
            <=> (TaskOf(n) # None /\ TaskOf(n) \in I) \/ n \in Cohort(m)
      BY <2>1, <2>2, <3>2
    <3> QED  BY <1>14, <3>3 DEF StillDue
  <2>5. Fits(h, c, hdr[h], J, hist[h])
    <3>1. J \cap Dispatching(h) = {}  BY <1>6, <2>1, <2>2
    <3>2. \A n \in hist[h].owed :
            hdr[h].id \in MsgIds /\ n \in subs[hdr[h].id] /\ StillDue(h, c, hdr[h], J, n)
      BY <1>6, <1>16, <2>4 DEF OwedInv
    <3>3. \A n \in hist[h].got : ~StillDue(h, c, hdr[h], J, n)  BY <1>6, <1>16, <2>4
    <3> QED  BY <1>6, <1>15, <3>1, <3>2, <3>3 DEF Fits
  <2>6. J # {} /\ hist'[h] = hist[h] /\ \A g \in Headers : hist'[g] = hist[g]
    BY <1>17, <2>2
  <2>7. \A g \in Headers : g # h => Inboxes(g)' = Inboxes(g) /\ hist'[g] = hist[g]
    BY <2>3, <2>6
  <2> QED  BY <1>1, <1>10, <1>11, <1>17, <2>3, <2>5, <2>6, <2>7, DeliveryMove
<1>18. CASE /\ r = Release(h) /\ UNCHANGED queue
            /\ hist' = [hist EXCEPT ![h].owed = @ \ Cohort(hdr[h].receiver)]
  <2>1. \A g \in Headers : Inboxes(g)' = Inboxes(g)  BY <1>1, <1>18, SameQueues
  <2>2. PICK S : S = hist[h].owed \ Cohort(m)  OBVIOUS
  <2>3. hist' = [hist EXCEPT ![h].owed = S]  BY <1>3, <1>18, <2>2
  <2>4. /\ hist'[h].owed = S /\ hist'[h].got = hist[h].got
        /\ \A g \in Headers : g # h => hist'[g] = hist[g]
    BY <1>1, <2>3, OwedChanges
  <2>5. \A n : n \notin Cohort(m) =>
           (StillDue(h, c, hdr[h], I, n) <=> StillDue(h, call[t], hdr[h], I, n))
    BY <1>14 DEF StillDue
  <2>6. \A n : StillDue(h, c, hdr[h], I, n) => StillDue(h, call[t], hdr[h], I, n)
    BY <1>14 DEF StillDue
  <2>7. PICK x : x = hist'[h]  OBVIOUS
  <2>8. Fits(h, c, hdr[h], I, x)
    <3>1. x.owed = S /\ x.got = hist[h].got  BY <2>4, <2>7
    <3>2. \A n \in S :
            hdr[h].id \in MsgIds /\ n \in subs[hdr[h].id] /\ StillDue(h, c, hdr[h], I, n)
      BY <1>6, <2>2, <2>5 DEF OwedInv
    <3>3. \A n \in hist[h].got : ~StillDue(h, c, hdr[h], I, n)  BY <1>6, <2>6
    <3>4. hdr[h].id \in DirectIds => \A n \in S : Aimed(c, hdr[h], n)  BY <1>15, <2>2
    <3> QED  BY <1>6, <1>15, <3>1, <3>2, <3>3, <3>4 DEF Fits
  <2>9. Inboxes(h)' = I  BY <1>4, <2>1
  <2>10. \A g \in Headers : g # h => Inboxes(g)' = Inboxes(g) /\ hist'[g] = hist[g]
    BY <2>1, <2>4
  <2>11. r = Release(h)  BY ONLY <1>18
  <2>12. PICK e \in HeaderType : e = hdr[h]  BY <1>1
  <2>13. Moves(t, c, r, e) /\ Fits(h, c, e, I, x)  BY ONLY <1>11, <2>8, <2>12
  <2> QED  BY <1>1, <1>10, <2>7, <2>9, <2>10, <2>11, <2>12, <2>13, DeliveryMove
<1> QED  BY <1>17, <1>18

\* The subscriber's task has the message in its inbox.
LEMMA PublishEnqueueDelivers ==
  ASSUME DInv, NEW t \in Threads, PublishEnqueue(t)
  PROVE  Delivery'
<1>1. /\ At(t, "enqueue") /\ NextTarget(t) /\ IInv
      /\ UNCHANGED <<used, hdr, free, subs, disp, rel, hist>>
  BY DEF PublishEnqueue, DInv
<1>2. PICK h \in Headers : h = call[t].msg  BY <1>1, Entering
<1>3. NoRel \in RelType /\ rel' = [rel EXCEPT ![t] = NoRel]  BY <1>1, Entering
<1>4. Deposit(h) /\ UNCHANGED hist  BY <1>1, <1>2 DEF PublishEnqueue
<1> QED  BY <1>1, <1>2, <1>3, <1>4, NextTargetDelivers

\* The subscriber's task refused the message and is no longer owed it.
LEMMA PublishDropDelivers ==
  ASSUME DInv, NEW t \in Threads, PublishDrop(t)
  PROVE  Delivery'
<1>1. /\ At(t, "enqueue") /\ NextTarget(t) /\ IInv
      /\ UNCHANGED <<used, hdr, free, subs, queue, disp>>
  BY DEF PublishDrop, DInv
<1>2. PICK h \in Headers : h = call[t].msg  BY <1>1, Entering
<1>3. Release(h) \in RelType /\ rel' = [rel EXCEPT ![t] = Release(h)]
  BY <1>2, ReleaseTyped DEF PublishDrop
<1>4. hist' = [hist EXCEPT ![h].owed = @ \ Cohort(hdr[h].receiver)]
  BY <1>2 DEF PublishDrop
<1>5. UNCHANGED queue  BY <1>1
<1> QED  BY <1>1, <1>2, <1>3, <1>4, <1>5, NextTargetDelivers

-----------------------------------------------------------------------------
(* A header that is not on its way                                         *)

\* A slot that is free, or its creator's alone, is owed to nobody.
LEMMA FreshDelivery ==
  ASSUME NEW h \in Headers, hist'[h].owed = {}, hist'[h].got = {},
         Inboxes(h)' = {}, Dispatching(h)' = {},
         \A u \in Threads : call'[u].msg = h => call'[u].pc \in {"payload", "created", "wake"},
         h \in used' => Calls(h)' # {}
  PROVE  DeliveryInv(h)'
<1>1. \A u \in Threads : call'[u].msg = h => call'[u].pc \notin FanOut \cup {"stamp", "send"}
  BY DEF FanOut
<1>2. Routed(h)'  BY <1>1 DEF Routed
<1>3. Apart(h)'  BY <1>1 DEF Apart
<1>4. OwedInv(h)'  BY DEF OwedInv
<1>5. GotInv(h)'  BY DEF GotInv
<1>6. LostInv(h)'  BY DEF LostInv, Held
<1> QED  BY <1>2, <1>3, <1>4, <1>5, <1>6 DEF DeliveryInv

\* A free slot is owed to nobody.
LEMMA UnusedDelivery ==
  ASSUME DInv, NEW h \in Headers, h \notin used
  PROVE  hist[h].owed = {} /\ hist[h].got = {}
<1>1. /\ Inboxes(h) = {} /\ Dispatching(h) = {} /\ \A u \in Threads : call[u].msg # h
  BY UnusedFacts DEF DInv
<1>2. OwedInv(h) /\ GotInv(h)  BY DEF DInv, Delivery, DeliveryInv
<1>3. \A m : ~Due(h, m)  BY <1>1 DEF Due, Promised, Queued, Ahead, Dispatching
<1> QED  BY <1>2, <1>3 DEF OwedInv, GotInv

\* hsys_msg_create and hsys_msg_create_wake: nobody is owed the new header yet.
LEMMA TakeDelivers ==
  ASSUME DInv, NEW t \in Threads, NEW h \in Headers \ used, CanCall(t),
         NEW c \in CallType, c.msg = h, c.pc \in {"payload", "created", "wake"},
         call' = [call EXCEPT ![t] = c], used' = used \cup {h},
         \A g \in Headers : g # h => hdr'[g] = hdr[g],
         UNCHANGED <<free, subs, queue, disp, rel, hist>>
  PROVE  Delivery'
<1>1. /\ TypeOK /\ h \in Headers /\ call[t] = NoCall /\ rel[t] = NoRel
      /\ c.pc \in Owning /\ NoRel \in RelType /\ NoCall.msg = None /\ NoRel.msg = None
  BY DEF DInv, IInv, CanCall, Owning, NoRel, NoCall, RelType
<1>2. call'[t] = c /\ \A u \in Threads : u # t => call'[u] = call[u]
  BY <1>1 DEF TypeOK
<1>3. /\ Inboxes(h) = {} /\ Dispatching(h) = {} /\ \A u \in Threads : call[u].msg # h
  BY <1>1, UnusedFacts DEF DInv
<1>4. Inboxes(h)' = {} /\ Dispatching(h)' = {}  BY <1>3 DEF Inboxes, Dispatching
<1>5. hist'[h].owed = {} /\ hist'[h].got = {}  BY <1>1, UnusedDelivery
<1>6. t \in Calls(h)'  BY <1>1, <1>2 DEF Calls
<1>7. \A u \in Threads : call'[u].msg = h => call'[u].pc \in {"payload", "created", "wake"}
  BY <1>2, <1>3
<1>8. DeliveryInv(h)'  BY <1>1, <1>4, <1>5, <1>6, <1>7, FreshDelivery
<1>9. \A g \in Headers : g # h => Unmoved(g)
  <2>1. Alone(h)  BY DEF Alone, Inboxes
  <2>2. PICK r \in RelType : r = NoRel  BY <1>1
  <2>3. rel' = [rel EXCEPT ![t] = r]  BY <1>1, <2>2 DEF TypeOK
  <2>4. call[t].msg \in {h, None} /\ rel[t].msg \in {h, None} /\ c.msg \in {h, None}
        /\ r.msg \in {h, None}
    BY <1>1, <2>2
  <2> QED  BY ZenonT(60), <1>1, <2>1, <2>3, <2>4, OthersUnmoved
<1> QED  BY <1>1, <1>8, <1>9, OneDelivery

\* The slot of a message.
LEMMA CreateHeaderDelivers ==
  ASSUME DInv, NEW t \in Threads, NEW id \in MsgIds, CreateHeader(t, id)
  PROVE  Delivery'
<1>1. PICK h \in Headers \ used :
        /\ used' = used \cup {h}
        /\ hdr' = [hdr EXCEPT ![h] = NewHeader(id, None)]
        /\ call' = [call EXCEPT ![t] =
                      Begun(IF id \in PayloadIds THEN "payload" ELSE "created", h)]
  BY DEF CreateHeader
<1>2. PICK p \in {"payload", "created"} : p = IF id \in PayloadIds THEN "payload" ELSE "created"
  OBVIOUS
<1>3. PICK c \in CallType : c = Begun(p, h)  BY DEF Begun, CallType
<1>4. c.msg = h /\ c.pc = p /\ call' = [call EXCEPT ![t] = c]  BY <1>1, <1>2, <1>3 DEF Begun
<1>5. CanCall(t) /\ UNCHANGED <<free, subs, queue, disp, rel, hist>>  BY DEF CreateHeader
<1>6. \A g \in Headers : g # h => hdr'[g] = hdr[g]  BY <1>1 DEF DInv, IInv, TypeOK
<1>7. c.pc \in {"payload", "created", "wake"}  BY <1>4
<1> QED  BY ZenonT(60), <1>1, <1>4, <1>5, <1>6, <1>7, TakeDelivers

\* The slot of a wake token.
LEMMA WakeCreateDelivers ==
  ASSUME DInv, NEW t \in Threads, NEW m \in Modules, WakeCreate(t, m)
  PROVE  Delivery'
<1>1. PICK h \in Headers \ used :
        /\ used' = used \cup {h}
        /\ hdr' = [hdr EXCEPT ![h] = NewHeader(Wake, m)]
        /\ call' = [call EXCEPT ![t] = Begun("wake", h)]
  BY DEF WakeCreate
<1>2. PICK c \in CallType : c = Begun("wake", h)  BY DEF Begun, CallType
<1>3. c.msg = h /\ c.pc = "wake" /\ call' = [call EXCEPT ![t] = c]  BY <1>1, <1>2 DEF Begun
<1>4. CanCall(t) /\ UNCHANGED <<free, subs, queue, disp, rel, hist>>  BY DEF WakeCreate
<1>5. \A g \in Headers : g # h => hdr'[g] = hdr[g]  BY <1>1 DEF DInv, IInv, TypeOK
<1>6. c.pc \in {"payload", "created", "wake"}  BY <1>3
<1> QED  BY <1>1, <1>3, <1>4, <1>5, <1>6, TakeDelivers

\* The second half of hsys_msg_create, and its failure: nobody is owed the header
\* before, and nobody after.
LEMMA CreatorMoves ==
  ASSUME DInv, NEW t \in Threads, At(t, "payload"), NEW h \in Headers, h = call[t].msg,
         NEW c \in CallType, call' = [call EXCEPT ![t] = c],
         \/ c.pc = "created" /\ c.msg = h
         \/ c = NoCall /\ h \notin used',
         \A g \in Headers : g # h => hdr'[g] = hdr[g] /\ (g \in used' <=> g \in used),
         UNCHANGED <<subs, queue, disp, rel, hist>>
  PROVE  Delivery'
<1>1. /\ TypeOK /\ IInv /\ h # None /\ rel[t] = NoRel /\ call[t].pc = "payload"
      /\ call[t].pc \in Owning /\ NoRel \in RelType /\ NoCall.msg = None /\ NoRel.msg = None
  BY BusAssumption DEF DInv, IInv, At, Owning, NoRel, NoCall, RelType
<1>2. call'[t] = c /\ \A u \in Threads : u # t => call'[u] = call[u]
  BY <1>1 DEF TypeOK
<1>3. /\ hist[h].owed = {} /\ hist[h].got = {} /\ Inboxes(h) = {} /\ Dispatching(h) = {}
  BY <1>1, OwnedDelivery
<1>4. \A u \in Threads : call[u].msg = h => u = t  BY <1>1, OwnerFacts
<1>5. Inboxes(h)' = {} /\ Dispatching(h)' = {}  BY <1>3 DEF Inboxes, Dispatching
<1>6. h \in used' => Calls(h)' # {}
  <2>1. c.pc = "created" /\ c.msg = h => t \in Calls(h)'  BY <1>2 DEF Calls, Owning
  <2> QED  BY <2>1
<1>7. \A u \in Threads : call'[u].msg = h => call'[u].pc \in {"payload", "created", "wake"}
  <2>1. c.msg = h => c.pc = "created"  BY <1>1
  <2> QED  BY <1>2, <1>4, <2>1
<1>8. DeliveryInv(h)'  BY <1>3, <1>5, <1>6, <1>7, FreshDelivery
<1>9. \A g \in Headers : g # h => Unmoved(g)
  <2>1. Alone(h)  BY DEF Alone, Inboxes
  <2>2. PICK r \in RelType : r = NoRel  BY <1>1
  <2>3. rel' = [rel EXCEPT ![t] = r]  BY <1>1, <2>2 DEF TypeOK
  <2>4. call[t].msg \in {h, None} /\ rel[t].msg \in {h, None} /\ c.msg \in {h, None}
        /\ r.msg \in {h, None}
    BY <1>1, <2>2
  <2>5. call' = [call EXCEPT ![t] = c]  OBVIOUS
  <2> QED
    BY ONLY DInv, t \in Threads, h \in Headers, c \in CallType, r \in RelType,
       <2>1, <2>3, <2>4, <2>5, OthersUnmoved
<1> QED  BY <1>8, <1>9, OneDelivery

\* The payload.
LEMMA CreatePayloadDelivers ==
  ASSUME DInv, NEW t \in Threads, CreatePayload(t)
  PROVE  Delivery'
<1>1. /\ At(t, "payload") /\ UNCHANGED <<used, subs, queue, disp, rel, hist>>
      /\ IInv /\ TypeOK
  BY DEF CreatePayload, DInv, IInv
<1>2. PICK h \in Headers : h = call[t].msg  BY <1>1, Entering
<1>3. call[t] \in CallType  BY <1>1, Entering
<1>4. PICK c \in CallType : c = [call[t] EXCEPT !.pc = "created"]  BY <1>3 DEF CallType
<1>5. c.pc = "created" /\ c.msg = h /\ call' = [call EXCEPT ![t] = c]
  BY <1>2, <1>3, <1>4 DEF CallType, CreatePayload
<1>6. \A g \in Headers : g # h => hdr'[g] = hdr[g] /\ (g \in used' <=> g \in used)
  BY <1>1, <1>2 DEF CreatePayload, TypeOK
<1> QED  BY <1>1, <1>2, <1>5, <1>6, CreatorMoves

\* No payload.
LEMMA CreateFailsDelivers ==
  ASSUME DInv, NEW t \in Threads, CreateFails(t)
  PROVE  Delivery'
<1>1. /\ At(t, "payload") /\ UNCHANGED <<subs, queue, disp, rel, hist>>
      /\ IInv /\ TypeOK
  BY DEF CreateFails, DInv, IInv
<1>2. PICK h \in Headers : h = call[t].msg  BY <1>1, Entering
<1>3. PICK c \in CallType : c = NoCall  BY <1>1, Entering
<1>4. call' = [call EXCEPT ![t] = c] /\ used' = used \ {h}
  BY <1>2, <1>3 DEF CreateFails, Return
<1>5. \A g \in Headers : g # h => hdr'[g] = hdr[g] /\ (g \in used' <=> g \in used)
  BY <1>1, <1>2, <1>4 DEF CreateFails, TypeOK
<1> QED  BY <1>1, <1>2, <1>3, <1>4, <1>5, CreatorMoves

-----------------------------------------------------------------------------
(* Subscriptions                                                           *)

\* Every header is still owed to subscribers only.
LEMMA SubscriptionDelivers ==
  ASSUME DInv, UNCHANGED <<used, hdr, free, queue, disp, call, rel>>,
         \A h \in Headers :
           /\ hist'[h].got = hist[h].got /\ hist'[h].owed \subseteq hist[h].owed
           /\ hist'[h].lost = hist[h].lost
           /\ \A m \in hist'[h].owed : m \in subs'[hdr[h].id]
  PROVE  Delivery'
<1>1. ASSUME NEW h \in Headers  PROVE DeliveryInv(h)'
  <2>1. SameHolders(h)  BY DEF SameHolders, Inboxes, Dispatching
  <2>2. SameWay(h)  BY DEF SameWay, Inboxes
  <2>3. DeliveryInv(h)  BY DEF DInv, Delivery
  <2> QED  BY <2>1, <2>2, <2>3, KeepsDelivery DEF Unmoved
<1> QED  BY <1>1 DEF Delivery

\* Who subscribes is not owed what was published before.
LEMMA SubscribeDelivers ==
  ASSUME DInv, NEW t \in Threads, NEW id \in MsgIds, NEW m \in Modules, Subscribe(t, id, m)
  PROVE  Delivery'
<1>1. /\ subs' = [subs EXCEPT ![id] = subs[id] \cup {m}] /\ TypeOK
      /\ UNCHANGED <<used, hdr, free, queue, disp, call, rel, hist>>
  BY DEF DInv, IInv, Subscribe
<1>2. \A i \in MsgIds : subs[i] \subseteq subs'[i]  BY <1>1 DEF TypeOK
<1>3. ASSUME NEW h \in Headers
      PROVE  /\ hist'[h].got = hist[h].got /\ hist'[h].owed \subseteq hist[h].owed
             /\ hist'[h].lost = hist[h].lost
             /\ \A n \in hist'[h].owed : n \in subs'[hdr[h].id]
  <2>1. OwedInv(h)  BY DEF DInv, Delivery, DeliveryInv
  <2> QED  BY <1>1, <1>2, <2>1 DEF OwedInv
<1> QED  BY <1>1, <1>3, SubscriptionDelivers

\* Who unsubscribes is owed nothing of that id any more.
LEMMA UnsubscribeDelivers ==
  ASSUME DInv, NEW t \in Threads, NEW id \in MsgIds, NEW m \in Modules, Unsubscribe(t, id, m)
  PROVE  Delivery'
<1>1. /\ subs' = [subs EXCEPT ![id] = subs[id] \ {m}] /\ TypeOK
      /\ UNCHANGED <<used, hdr, free, queue, disp, call, rel>>
      /\ hist' = [h \in Headers |->
                    IF hdr[h].id = id THEN [hist[h] EXCEPT !.owed = hist[h].owed \ {m}]
                    ELSE hist[h]]
  BY DEF DInv, IInv, Unsubscribe
<1>2. ASSUME NEW h \in Headers
      PROVE  /\ hist'[h].got = hist[h].got /\ hist'[h].owed \subseteq hist[h].owed
             /\ hist'[h].lost = hist[h].lost
             /\ \A n \in hist'[h].owed : n \in subs'[hdr[h].id]
  <2>1. OwedInv(h)  BY DEF DInv, Delivery, DeliveryInv
  <2>2. PICK x \in HistRecord : x = hist[h]
    BY <1>1 DEF TypeOK, HistRecord
  <2>3. CASE hdr[h].id = id
    <3>1. hist'[h] = [x EXCEPT !.owed = x.owed \ {m}]  BY <1>1, <2>2, <2>3
    <3>2. /\ hist'[h].got = x.got /\ hist'[h].owed = x.owed \ {m}
          /\ hist'[h].lost = x.lost
      BY <2>2, <3>1 DEF HistRecord
    <3>3. subs'[id] = subs[id] \ {m}  BY <1>1 DEF TypeOK
    <3> QED  BY <2>1, <2>2, <2>3, <3>2, <3>3 DEF OwedInv
  <2>4. CASE hdr[h].id # id
    <3>1. hist'[h] = hist[h]  BY <1>1, <2>4
    <3>2. \A i \in MsgIds : i # id => subs'[i] = subs[i]  BY <1>1 DEF TypeOK
    <3> QED  BY <2>1, <2>4, <3>1, <3>2 DEF OwedInv
  <2> QED  BY <2>3, <2>4
<1> QED  BY <1>1, <1>2, SubscriptionDelivers

-----------------------------------------------------------------------------
(* hsys_msg_release                                                        *)

\* A release does not concern the delivery of another header.
LEMMA ReleaseDelivers ==
  ASSUME DInv, NEW t \in Threads, NEW h \in Headers, rel[t].msg = h,
         NEW r \in RelType, r.msg \in {h, None}, rel' = [rel EXCEPT ![t] = r],
         UNCHANGED <<queue, disp, call, subs>>,
         \A g \in Headers : g # h =>
           hdr'[g] = hdr[g] /\ (g \in used' <=> g \in used) /\ hist'[g] = hist[g],
         DeliveryInv(h)'
  PROVE  Delivery'
<1>1. TypeOK  BY DEF DInv, IInv
<1>2. rel'[t] = r /\ \A u \in Threads : u # t => rel'[u] = rel[u]  BY <1>1 DEF TypeOK
<1>3. ASSUME NEW g \in Headers, g # h  PROVE Unmoved(g)
  <2>1. g # None  BY BusAssumption
  <2>2. \A u \in Threads : rel'[u].msg = g \/ rel[u].msg = g => rel'[u] = rel[u]
    BY <1>2, <1>3, <2>1
  <2>3. Inboxes(g)' = Inboxes(g) /\ Dispatching(g)' = Dispatching(g)
    BY DEF Inboxes, Dispatching
  <2>4. SameHolders(g)  BY <2>2, <2>3 DEF SameHolders
  <2>5. OwedInv(g)  BY DEF DInv, Delivery, DeliveryInv
  <2>6. SameWay(g)  BY <1>3, <2>3, <2>5 DEF SameWay, OwedInv
  <2> QED  BY <2>4, <2>6 DEF Unmoved
<1> QED  BY <1>3, OneDelivery

\* The reference that is given back is nobody's way to the message.
LEMMA ReleaseDecrementDelivers ==
  ASSUME DInv, NEW t \in Threads, ReleaseDecrement(t)
  PROVE  Delivery'
<1>1. /\ TypeOK /\ IInv /\ rel[t].pc = "decrement" /\ rel[t].pc # "none"
      /\ UNCHANGED <<used, free, subs, queue, disp, call, hist>>
  BY DEF DInv, IInv, ReleaseDecrement
<1>2. PICK h \in Headers : h = rel[t].msg  BY <1>1, ReleaseFacts
<1>3. /\ rel[t] \in RelType /\ hdr[h] \in HeaderType /\ t \in Releasing(h) /\ h # None
  BY <1>1, <1>2, ReleaseFacts, BusAssumption
<1>4. PICK n \in Nat : n = Less(h)
  <2>1. hdr[h].ref \in Nat  BY <1>3 DEF HeaderType
  <2> QED  BY <2>1 DEF Less
<1>5. /\ hdr' = [hdr EXCEPT ![h].ref = n]
      /\ rel' = [rel EXCEPT ![t] =
                   IF n # 0 THEN NoRel
                   ELSE [rel[t] EXCEPT !.pc = IF hdr[h].payload # None THEN "payload"
                                              ELSE "header"]]
  BY <1>2, <1>4 DEF ReleaseDecrement
<1>6. PICK p \in {"payload", "header"} :
        p = IF hdr[h].payload # None THEN "payload" ELSE "header"
  OBVIOUS
<1>7. PICK r \in RelType : r = IF n # 0 THEN NoRel ELSE [rel[t] EXCEPT !.pc = p]
  BY <1>3 DEF NoRel, RelType
<1>8. /\ n # 0 => r = NoRel
      /\ n = 0 => r.msg = h /\ r.pc = p
      /\ r.msg \in {h, None}
      /\ rel' = [rel EXCEPT ![t] = r]
  BY <1>2, <1>3, <1>5, <1>6, <1>7 DEF RelType, NoRel
<1>9. /\ rel'[t] = r /\ \A u \in Threads : u # t => rel'[u] = rel[u]
      /\ hdr'[h].id = hdr[h].id /\ hdr'[h].receiver = hdr[h].receiver
      /\ \A g \in Headers : g # h => hdr'[g] = hdr[g]
  <2>1. hdr' = [hdr EXCEPT ![h] = [hdr[h] EXCEPT !.ref = n]]  BY <1>5
  <2> QED  BY <1>1, <1>3, <1>8, <2>1 DEF TypeOK, HeaderType
<1>10. /\ Calls(h)' = Calls(h) /\ Pending(h)' = Pending(h) /\ Inboxes(h)' = Inboxes(h)
       /\ Dispatching(h)' = Dispatching(h)
  BY <1>1 DEF Calls, Pending, Inboxes, Dispatching
<1>11. LostInv(h)'
  <2>1. CASE n = 0
    <3>1. t \in Freeing(h)'  BY <1>8, <1>9, <2>1 DEF Freeing
    <3> QED  BY <3>1 DEF LostInv
  <2>2. CASE n # 0 /\ Calls(h) = {} /\ Pending(h) = {} /\ Inboxes(h) = {} /\ Dispatching(h) = {}
    <3>1. PICK u \in Releasing(h) : u # t
      <4>1. SUFFICES ASSUME \A u \in Releasing(h) : u = t  PROVE FALSE
        OBVIOUS
      <4>2. Releasing(h) = {t}  BY <1>3, <4>1
      <4>3. Cardinality({t}) = 1 /\ Cardinality({}) = 0  BY FS_Singleton, FS_EmptySet
      <4>4. RefCount(h) = Cardinality({}) + Cardinality({}) + Cardinality({})
                          + Cardinality({}) + Cardinality({t})
        BY <2>2, <4>2 DEF RefCount
      <4>5. RefCount(h) = 1  BY <4>3, <4>4
      <4>6. hdr[h].ref = 1  BY <1>1, <4>5 DEF IInv, HeaderInv
      <4>7. Less(h) = 0  BY <4>6 DEF Less
      <4> QED  BY <1>4, <2>2, <4>7
    <3>2. u \in Releasing(h)'  BY <1>9, <3>1 DEF Releasing, Release
    <3> QED  BY <3>2 DEF LostInv, Held
  <2>3. CASE ~(Calls(h) = {} /\ Pending(h) = {} /\ Inboxes(h) = {} /\ Dispatching(h) = {})
    BY <1>10, <2>3 DEF LostInv, Held
  <2> QED  BY <2>1, <2>2, <2>3
<1>12. DeliveryInv(h)'
  <2>1. DeliveryInv(h)  BY DEF DInv, Delivery
  <2>2. SameWay(h)  BY <1>1, <1>9, <1>10, <2>1 DEF SameWay, DeliveryInv, OwedInv
  <2> QED  BY <1>11, <2>1, <2>2, KeepsWay
<1>13. \A g \in Headers : g # h =>
         hdr'[g] = hdr[g] /\ (g \in used' <=> g \in used) /\ hist'[g] = hist[g]
  BY <1>1, <1>9
<1> QED  BY <1>1, <1>2, <1>8, <1>12, <1>13, ReleaseDelivers

\* By now nobody refers to the header.
LEMMA ReleasePayloadDelivers ==
  ASSUME DInv, NEW t \in Threads, ReleasePayload(t)
  PROVE  Delivery'
<1>1. /\ TypeOK /\ IInv /\ rel[t].pc = "payload" /\ rel[t].pc # "none"
      /\ UNCHANGED <<used, subs, queue, disp, call, hist>>
  BY DEF DInv, IInv, ReleasePayload
<1>2. PICK h \in Headers : h = rel[t].msg  BY <1>1, ReleaseFacts
<1>3. rel[t] \in RelType /\ hdr[h] \in HeaderType  BY <1>1, <1>2, ReleaseFacts
<1>4. PICK r \in RelType : r = [rel[t] EXCEPT !.pc = "header"]  BY <1>3 DEF RelType
<1>5. rel' = [rel EXCEPT ![t] = r] /\ r.pc = "header" /\ r.msg = h
  BY <1>2, <1>3, <1>4 DEF ReleasePayload, RelType
<1>6. /\ rel'[t] = r
      /\ hdr'[h].id = hdr[h].id /\ hdr'[h].receiver = hdr[h].receiver
      /\ \A g \in Headers : g # h => hdr'[g] = hdr[g]
  <2>1. hdr' = [hdr EXCEPT ![h] = [hdr[h] EXCEPT !.payload = None]]
    BY <1>2 DEF ReleasePayload
  <2> QED  BY <1>1, <1>3, <1>5, <2>1 DEF TypeOK, HeaderType
<1>7. LostInv(h)'
  <2>1. t \in Freeing(h)'  BY <1>5, <1>6 DEF Freeing
  <2> QED  BY <2>1 DEF LostInv
<1>8. DeliveryInv(h)'
  <2>1. DeliveryInv(h)  BY DEF DInv, Delivery
  <2>2. SameWay(h)
    <3>1. Inboxes(h)' = Inboxes(h)  BY <1>1 DEF Inboxes
    <3> QED  BY <1>1, <1>6, <2>1, <3>1 DEF SameWay, DeliveryInv, OwedInv
  <2> QED  BY <1>7, <2>1, <2>2, KeepsWay
<1>9. \A g \in Headers : g # h =>
        hdr'[g] = hdr[g] /\ (g \in used' <=> g \in used) /\ hist'[g] = hist[g]
  BY <1>1, <1>6
<1> QED  BY <1>1, <1>2, <1>5, <1>8, <1>9, ReleaseDelivers

\* The slot and its history go together.
LEMMA ReleaseHeaderDelivers ==
  ASSUME DInv, NEW t \in Threads, ReleaseHeader(t)
  PROVE  Delivery'
<1>1. /\ TypeOK /\ IInv /\ rel[t].pc = "header" /\ rel[t].pc # "none"
      /\ rel[t].pc # "decrement" /\ UNCHANGED <<free, subs, queue, disp, call>>
  BY DEF DInv, IInv, ReleaseHeader
<1>2. PICK h \in Headers : h = rel[t].msg  BY <1>1, ReleaseFacts
<1>3. t \in Freeing(h)  BY <1>1, <1>2, ReleaseFacts
<1>4. PICK r \in RelType : r = NoRel  BY DEF NoRel, RelType
<1>5. /\ used' = used \ {h} /\ hdr' = [hdr EXCEPT ![h] = BlankHeader]
      /\ hist' = [hist EXCEPT ![h] = NoHist] /\ rel' = [rel EXCEPT ![t] = r] /\ r.msg = None
  BY <1>2, <1>4 DEF ReleaseHeader, NoRel
<1>6. /\ Inboxes(h) = {} /\ Dispatching(h) = {} /\ \A u \in Threads : call[u].msg # h
  BY <1>1, <1>3, FreeingFacts
<1>7. hist'[h].owed = {} /\ hist'[h].got = {}  BY <1>1, <1>5 DEF NoHist, TypeOK
<1>8. Inboxes(h)' = {} /\ Dispatching(h)' = {}  BY <1>1, <1>6 DEF Inboxes, Dispatching
<1>9. h \notin used' /\ \A u \in Threads : call'[u].msg # h  BY <1>1, <1>5, <1>6
<1>10. DeliveryInv(h)'  BY <1>7, <1>8, <1>9, FreshDelivery
<1>11. \A g \in Headers : g # h =>
         hdr'[g] = hdr[g] /\ (g \in used' <=> g \in used) /\ hist'[g] = hist[g]
  BY <1>1, <1>5 DEF TypeOK
<1> QED  BY <1>1, <1>2, <1>5, <1>10, <1>11, ReleaseDelivers

-----------------------------------------------------------------------------
(* The dispatch loop                                                       *)

\* m is due h once the loop of t is at d and h is in the inboxes I.
DueAfter(h, t, d, I, m) ==
  \/ Promised(h, m)
  \/ TaskOf(m) # None /\ TaskOf(m) \in I
  \/ d.msg = h /\ Coming(t, d, m)
  \/ \E u \in Tasks \ {t} : disp[u].msg = h /\ Coming(u, disp[u], m)

\* Before the step it is at disp[t].
LEMMA DueNow ==
  ASSUME NEW t \in Tasks, NEW h, NEW m
  PROVE  Due(h, m) <=> DueAfter(h, t, disp[t], Inboxes(h), m)
BY DEF Due, Queued, Ahead, DueAfter

\* A step of the loop of t concerns the header it works on, and leaves it with
\* whom it is still due.
LEMMA LoopDelivers ==
  ASSUME DInv, NEW t \in Tasks, NEW h \in Headers, t \in Inboxes(h) \cup Dispatching(h),
         disp[t].msg \in {h, None}, rel[t] = NoRel,
         NEW d \in DispType, d.msg \in {h, None}, disp' = [disp EXCEPT ![t] = d],
         NEW r \in RelType, r.msg \in {h, None}, rel' = [rel EXCEPT ![t] = r],
         UNCHANGED <<used, hdr, subs, call>>,
         \A g \in Headers : g # h => Inboxes(g)' = Inboxes(g) /\ hist'[g] = hist[g],
         NEW I \in SUBSET Tasks, Inboxes(h)' = I,
         NEW D \in SUBSET Tasks, Dispatching(h)' = D, I \cap D = {},
         D # {} \/ r = Release(h),
         \A u \in Threads : call[u].msg = h /\ call[u].pc \in FanOut =>
           \A m \in call[u].pending : TaskOf(m) \notin D,
         NEW x, hist'[h] = x,
         \A m \in x.owed : m \in hist[h].owed /\ DueAfter(h, t, d, I, m),
         \A m \in x.got : ~DueAfter(h, t, d, I, m)
  PROVE  Delivery'
<1>1. /\ TypeOK /\ IInv /\ DeliveryInv(h) /\ NoRel.msg = None /\ t \in Threads
  BY DEF DInv, IInv, Delivery, NoRel, Threads
<1>2. /\ disp'[t] = d /\ \A u \in Tasks : u # t => disp'[u] = disp[u]
      /\ rel'[t] = r /\ \A u \in Threads : u # t => rel'[u] = rel[u]
  BY <1>1 DEF TypeOK
<1>3. ASSUME NEW m  PROVE Due(h, m)' <=> DueAfter(h, t, d, I, m)
  <2>1. Promised(h, m)' <=> Promised(h, m)  BY DEF Promised, Promise
  <2>2. Queued(h, m)' <=> TaskOf(m) # None /\ TaskOf(m) \in I  BY DEF Queued
  <2>3. Ahead(h, m)' <=> \E u \in Tasks : disp'[u].msg = h /\ Coming(u, disp'[u], m)
    BY DEF Ahead, Coming, Reached
  <2>4. Ahead(h, m)' <=> \/ d.msg = h /\ Coming(t, d, m)
                         \/ \E u \in Tasks \ {t} : disp[u].msg = h /\ Coming(u, disp[u], m)
    BY <1>2, <2>3
  <2> QED  BY <2>1, <2>2, <2>4 DEF Due, DueAfter
<1>4. h \in used /\ Calls(h) = {}
  <2>1. Inboxes(h) # {} \/ Dispatching(h) # {}  OBVIOUS
  <2>2. RefCount(h) > 0  BY <2>1, Holders
  <2> QED  BY <1>1, <2>1, <2>2 DEF IInv, HeaderInv
<1>5. Calls(h)' = Calls(h)  BY DEF Calls
<1>6. DeliveryInv(h)'
  <2>1. Routed(h)'  BY <1>1 DEF DeliveryInv, Routed
  <2>2. Apart(h)'  BY DEF Apart
  <2>3. OwedInv(h)'
    <3>1. ASSUME NEW m \in x.owed
          PROVE  /\ hdr[h].id \in MsgIds /\ m \in subs[hdr[h].id]
                 /\ hdr[h].id \in DirectIds => Aim(h, m)'
                 /\ Due(h, m)'
      <4>1. Aim(h, m)' <=> Aim(h, m)  BY DEF Aim
      <4> QED  BY <1>1, <1>3, <4>1 DEF DeliveryInv, OwedInv
    <3>2. hdr' = hdr /\ subs' = subs  OBVIOUS
    <3> QED  BY <3>1, <3>2 DEF OwedInv
  <2>4. GotInv(h)'  BY <1>3, <1>4, <1>5 DEF GotInv
  <2>5. LostInv(h)'
    <3>1. r = Release(h) => t \in Releasing(h)'  BY <1>1, <1>2 DEF Releasing, Release
    <3> QED  BY <3>1 DEF LostInv, Held
  <2> QED  BY <2>1, <2>2, <2>3, <2>4, <2>5 DEF DeliveryInv
<1>7. ASSUME NEW g \in Headers, g # h  PROVE Unmoved(g)
  <2>1. g # None  BY BusAssumption
  <2>2. \A u \in Threads : rel'[u].msg = g \/ rel[u].msg = g => rel'[u] = rel[u]
    BY <1>1, <1>2, <1>7, <2>1
  <2>3. \A u \in Tasks : disp'[u].msg = g \/ disp[u].msg = g => disp'[u] = disp[u]
    BY <1>2, <1>7, <2>1
  <2>4. Inboxes(g)' = Inboxes(g) /\ hist'[g] = hist[g]  BY <1>7
  <2>5. Dispatching(g)' = Dispatching(g)  BY <2>3 DEF Dispatching
  <2>6. SameHolders(g)  BY <2>2, <2>4, <2>5 DEF SameHolders
  <2>7. OwedInv(g)  BY DEF DInv, Delivery, DeliveryInv
  <2>8. SameWay(g)  BY <2>3, <2>4, <2>7 DEF SameWay, OwedInv
  <2> QED  BY <2>6, <2>8 DEF Unmoved
<1> QED  BY <1>6, <1>7, OneDelivery

\* A loop that has just begun comes to every module of its task.
LEMMA BeginsAll ==
  ASSUME NEW t \in Tasks, NEW d \in DispType, d.pc = "dispatch", d.idx = 1, NEW m
  PROVE  Coming(t, d, m) <=> TaskOf(m) = t
<1>1. \A i \in DOMAIN BoundModules[t] : i >= 1
  <2>1. BoundModules[t] \in Seq(Modules)  BY BusAssumption
  <2> QED  BY <2>1
<1>2. t # None  BY BusAssumption
<1>3. TaskOf(m) = t => t \in Hosts(m)
  <2>1. CASE Hosts(m) = {}  BY <1>2, <2>1 DEF TaskOf
  <2>2. CASE Hosts(m) # {}  BY <2>2 DEF TaskOf
  <2> QED  BY <2>1, <2>2
<1>4. Coming(t, d, m) <=> \E i \in DOMAIN BoundModules[t] : BoundModules[t][i] = m
  BY <1>1 DEF Coming, Reached
<1> QED  BY <1>3, <1>4, BoundOnce DEF Hosts

\* From the inbox to the loop, which will come to every module of the task.
LEMMA ReceiveDelivers ==
  ASSUME DInv, NEW t \in Tasks, Receive(t)
  PROVE  Delivery'
<1>1. PICK h \in Headers, d \in DispType :
        /\ d.pc \in {"on_wake", "dispatch"} /\ (d.pc = "on_wake" <=> hdr[h].id = Wake)
        /\ d.msg = h /\ d.idx = 1 /\ disp' = [disp EXCEPT ![t] = d]
        /\ disp[t] = Waiting /\ call[t] = NoCall /\ rel[t] = NoRel
        /\ Inboxes(h)' = Inboxes(h) \ {t} /\ t \in Inboxes(h)
        /\ \A g \in Headers : g # h => Inboxes(g)' = Inboxes(g)
        /\ Dispatching(h)' = Dispatching(h) \cup {t} /\ t \notin Dispatching(h)
  BY ReceiveFacts DEF DInv
<1>2. /\ TypeOK /\ HeaderInv(h) /\ DeliveryInv(h) /\ h # None /\ t # None
      /\ UNCHANGED <<used, hdr, free, subs, call, rel, hist>>
  BY BusAssumption DEF DInv, IInv, Delivery, Receive
<1>3. PICK I \in SUBSET Tasks : I = Inboxes(h) \ {t}  BY HolderTypes
<1>4. PICK D \in SUBSET Tasks : D = Dispatching(h) \cup {t}  BY HolderTypes
<1>5. I \cap D = {}  BY <1>2, <1>3, <1>4 DEF DeliveryInv, Apart
<1>6. \A u \in Threads : call[u].msg = h /\ call[u].pc \in FanOut =>
        \A m \in call[u].pending : TaskOf(m) \notin D
  BY <1>1, <1>2, <1>4 DEF DeliveryInv, Apart, HeaderInv
<1>7. PICK r \in RelType : r = NoRel  BY DEF NoRel, RelType
<1>8. rel' = [rel EXCEPT ![t] = r] /\ r.msg = None
  BY <1>1, <1>2, <1>7 DEF Threads, TypeOK, NoRel
<1>9. disp[t].msg = None /\ ~ \E m : Coming(t, disp[t], m)
  BY <1>1 DEF Waiting, Coming
<1>10. \A m : DueAfter(h, t, d, I, m) => Due(h, m)
  <2>1. \A m : Coming(t, d, m) => TaskOf(m) = t
    BY <1>1, BeginsAll DEF Coming
  <2> QED  BY <1>1, <1>2, <1>3, <2>1 DEF DueAfter, Due, Queued, Ahead
<1>11. d.pc = "dispatch" => \A m : Due(h, m) => DueAfter(h, t, d, I, m)
  <2>1. d.pc = "dispatch" => \A m : TaskOf(m) = t => Coming(t, d, m)
    BY <1>1, BeginsAll
  <2>2. \A m : Due(h, m) => DueAfter(h, t, disp[t], Inboxes(h), m)  BY DueNow
  <2> QED  BY <1>1, <1>3, <1>9, <2>1, <2>2 DEF DueAfter
<1>12. PICK x : x = hist[h]  OBVIOUS
<1>13. \A m \in x.owed : m \in hist[h].owed /\ DueAfter(h, t, d, I, m)
  <2>1. d.pc = "on_wake" => x.owed = {}
    BY <1>1, <1>2, <1>12, BusAssumption DEF DeliveryInv, OwedInv
  <2> QED  BY <1>1, <1>2, <1>11, <1>12, <2>1 DEF DeliveryInv, OwedInv
<1>14. \A m \in x.got : ~DueAfter(h, t, d, I, m)
  BY <1>2, <1>10, <1>12 DEF DeliveryInv, GotInv
<1>15. hist'[h] = x /\ \A g \in Headers : g # h => Inboxes(g)' = Inboxes(g) /\ hist'[g] = hist[g]
  BY <1>1, <1>2, <1>12
<1>16. /\ Inboxes(h)' = I /\ Dispatching(h)' = D /\ D # {} /\ d.msg \in {h, None}
       /\ disp[t].msg \in {h, None} /\ r.msg \in {h, None} /\ t \in Inboxes(h) \cup Dispatching(h)
       /\ UNCHANGED <<used, hdr, subs, call>>
  BY <1>1, <1>2, <1>3, <1>4, <1>8, <1>9
<1> QED
  BY ZenonT(60), <1>1, <1>5, <1>6, <1>8, <1>13, <1>14, <1>15, <1>16, LoopDelivers

\* A loop at h between two steps.
LEMMA LoopFacts ==
  ASSUME DInv, NEW t \in Tasks, disp[t].pc \in {"dispatch", "handler", "on_wake"}
  PROVE  LET h == disp[t].msg IN
         /\ h \in Headers /\ h # None /\ disp[t] \in DispType /\ t \in Dispatching(h)
         /\ Calls(h) = {} /\ Inboxes(h) \cap Dispatching(h) = {}
         /\ \A u \in Threads : call[u].msg = h /\ call[u].pc \in FanOut =>
              \A m \in call[u].pending : TaskOf(m) \notin Dispatching(h)
         /\ OwedInv(h) /\ \A m \in hist[h].got : ~Due(h, m)
<1> DEFINE h == disp[t].msg
<1>1. h \in Headers /\ disp[t] \in DispType  BY DEF DInv, IInv, Looping, TypeOK
<1>2. h # None /\ t \in Dispatching(h)  BY <1>1, BusAssumption DEF Dispatching
<1>3. HeaderInv(h) /\ DeliveryInv(h)  BY <1>1 DEF DInv, IInv, Delivery
<1>4. Calls(h) = {}  BY <1>2, <1>3 DEF HeaderInv
<1>5. Apart(h) /\ OwedInv(h) /\ GotInv(h)  BY <1>3 DEF DeliveryInv
<1> QED  BY <1>1, <1>2, <1>4, <1>5 DEF Apart, GotInv

\* A step between two modules of the same message: those that are due it are as
\* before, or all but the one that gets it.
LEMMA BetweenDelivers ==
  ASSUME DInv, NEW t \in Tasks, NEW h, h = disp[t].msg,
         disp[t].pc \in {"dispatch", "handler", "on_wake"}, rel[t] = NoRel,
         NEW d \in DispType, d.msg = h, disp' = [disp EXCEPT ![t] = d],
         UNCHANGED <<used, hdr, free, subs, queue, call, rel>>,
         \A g \in Headers : g # h => hist'[g] = hist[g],
         NEW x, hist'[h] = x,
         \A m \in x.owed : m \in hist[h].owed /\ DueAfter(h, t, d, Inboxes(h), m),
         \A m \in x.got : ~DueAfter(h, t, d, Inboxes(h), m)
  PROVE  Delivery'
<1>1. TypeOK /\ IInv /\ t \in Threads  BY DEF DInv, IInv, Threads
<1>2. /\ h \in Headers /\ h # None /\ t \in Dispatching(h)
      /\ Inboxes(h) \cap Dispatching(h) = {}
      /\ \A u \in Threads : call[u].msg = h /\ call[u].pc \in FanOut =>
           \A m \in call[u].pending : TaskOf(m) \notin Dispatching(h)
  BY LoopFacts
<1>3. PICK I \in SUBSET Tasks : I = Inboxes(h)  BY HolderTypes
<1>4. PICK D \in SUBSET Tasks : D = Dispatching(h)  BY HolderTypes
<1>5. \A u \in Tasks : disp'[u].msg = disp[u].msg  BY <1>1 DEF TypeOK
<1>6. Inboxes(h)' = I /\ Dispatching(h)' = D  BY <1>3, <1>4, <1>5 DEF Inboxes, Dispatching
<1>7. \A g \in Headers : g # h => Inboxes(g)' = Inboxes(g) /\ hist'[g] = hist[g]
  BY DEF Inboxes
<1>8. PICK r \in RelType : r = NoRel  BY DEF NoRel, RelType
<1>9. rel' = [rel EXCEPT ![t] = r] /\ r.msg \in {h, None}
  BY <1>1, <1>8 DEF TypeOK, NoRel
<1>10. I \cap D = {} /\ D # {} /\ t \in Inboxes(h) \cup Dispatching(h)
  BY <1>2, <1>3, <1>4
<1>11. /\ \A m \in x.owed : m \in hist[h].owed /\ DueAfter(h, t, d, I, m)
       /\ \A m \in x.got : ~DueAfter(h, t, d, I, m)
  BY <1>3
<1>12. \A u \in Threads : call[u].msg = h /\ call[u].pc \in FanOut =>
         \A m \in call[u].pending : TaskOf(m) \notin D
  BY <1>2, <1>4
<1>13. UNCHANGED <<used, hdr, subs, call>> /\ d.msg \in {h, None} /\ disp[t].msg \in {h, None}
  OBVIOUS
<1>14. PICK k \in Headers : k = h  BY <1>2
<1> QED
  BY ZenonT(60), <1>6, <1>7, <1>9, <1>10, <1>11, <1>12, <1>13, <1>14, LoopDelivers

\* Past the candidate, the loop still comes to all it was to come to but that one.
LEMMA PastCandidate ==
  ASSUME NEW t \in Tasks, DispatchMore(t), disp[t] \in DispType, NEW d \in DispType,
         d.pc \in {"dispatch", "handler"}, Reached(d) = disp[t].idx + 1, NEW m
  PROVE  /\ Coming(t, disp[t], m) <=> Coming(t, d, m) \/ m = Candidate(t)
         /\ ~Coming(t, d, Candidate(t)) /\ TaskOf(Candidate(t)) = t
         /\ Candidate(t) \in Modules
<1>1. /\ disp[t].pc = "dispatch" /\ disp[t].idx \in DOMAIN BoundModules[t]
      /\ disp[t].idx \in Nat /\ Reached(disp[t]) = disp[t].idx
      /\ Candidate(t) = BoundModules[t][disp[t].idx]
  BY DEF DispatchMore, DispType, Reached, Candidate
<1>2. \A i \in DOMAIN BoundModules[t] : i \in Nat
  <2>1. BoundModules[t] \in Seq(Modules)  BY BusAssumption
  <2> QED  BY <2>1
<1>3. \A i \in DOMAIN BoundModules[t] :
        i >= disp[t].idx <=> i >= disp[t].idx + 1 \/ i = disp[t].idx
  BY <1>1, <1>2
<1>4. /\ TaskOf(Candidate(t)) = t /\ Candidate(t) \in Modules
      /\ \A i \in DOMAIN BoundModules[t] : BoundModules[t][i] = Candidate(t) => i = disp[t].idx
  BY <1>1, BoundOnce
<1>5. Coming(t, d, m) <=> \E i \in DOMAIN BoundModules[t] :
                            i >= disp[t].idx + 1 /\ BoundModules[t][i] = m
  BY DEF Coming
<1>6. Coming(t, disp[t], m) <=> \E i \in DOMAIN BoundModules[t] :
                                  i >= disp[t].idx /\ BoundModules[t][i] = m
  BY <1>1 DEF Coming
<1>7. Coming(t, disp[t], m) <=> Coming(t, d, m) \/ m = Candidate(t)
  BY <1>1, <1>3, <1>5, <1>6
<1>8. ~Coming(t, d, Candidate(t))
  <2>1. ASSUME NEW i \in DOMAIN BoundModules[t], i >= disp[t].idx + 1,
               BoundModules[t][i] = Candidate(t)
        PROVE  FALSE
    <3>1. i = disp[t].idx  BY <1>4, <2>1
    <3> QED  BY <1>1, <2>1, <3>1
  <2> QED  BY <2>1 DEF Coming
<1> QED  BY <1>4, <1>7, <1>8

\* Nobody else brings h to the module a loop is at.
LEMMA OnlyHere ==
  ASSUME DInv, NEW t \in Tasks, DispatchMore(t), NEW h, h = disp[t].msg,
         NEW d \in DispType, d.msg = h, d.pc \in {"dispatch", "handler"},
         Reached(d) = disp[t].idx + 1
  PROVE  ~DueAfter(h, t, d, Inboxes(h), Candidate(t))
<1> DEFINE c == Candidate(t)
<1>1. /\ h \in Headers /\ t \in Dispatching(h) /\ disp[t] \in DispType
      /\ Calls(h) = {} /\ Inboxes(h) \cap Dispatching(h) = {}
      /\ \A u \in Threads : call[u].msg = h /\ call[u].pc \in FanOut =>
           \A m \in call[u].pending : TaskOf(m) \notin Dispatching(h)
  BY LoopFacts DEF DispatchMore
<1>2. ~Coming(t, d, c) /\ TaskOf(c) = t /\ t # None
  BY ZenonT(60), <1>1, PastCandidate, BusAssumption
<1>3. TaskOf(c) \notin Inboxes(h)  BY <1>1, <1>2
<1>4. ASSUME NEW u \in Tasks \ {t}, Coming(u, disp[u], c)  PROVE FALSE
  <2>1. PICK i \in DOMAIN BoundModules[u] : BoundModules[u][i] = c  BY <1>4 DEF Coming
  <2>2. TaskOf(c) = u  BY <2>1, BoundOnce
  <2> QED  BY <1>2, <2>2
<1>5. ASSUME NEW u \in Threads, call[u].msg = h, Promise(call[u], hdr[h].receiver, c)
      PROVE  FALSE
  <2>1. call[u].pc \notin {"send", "stamp"}  BY <1>1, <1>5 DEF Calls, Owning
  <2>2. PICK n \in call[u].pending : c \in Cohort(n)  BY <1>5, <2>1 DEF Promise
  <2>3. TaskOf(n) = t  BY <1>2, <2>2 DEF Cohort, SameTask
  <2>4. call[u].pc \in FanOut  BY <1>5, <2>1 DEF Promise
  <2> QED  BY <1>1, <1>5, <2>2, <2>3, <2>4
<1>6. ~Promised(h, c)  BY <1>5 DEF Promised
<1> HIDE DEF c
<1> QED  BY <1>2, <1>3, <1>4, <1>6 DEF DueAfter, c

\* The module at which the loop is gets the message, and is owed it no longer.
LEMMA DeliverDelivers ==
  ASSUME DInv, NEW t \in Tasks, Deliver(t)
  PROVE  Delivery'
<1>1. /\ DispatchMore(t) /\ disp[t].pc = "dispatch" /\ TypeOK
      /\ UNCHANGED <<used, hdr, free, subs, queue, call, rel>> /\ rel[t] = NoRel
  BY DEF Deliver, DispatchMore, DInv, IInv, Looping
<1>2. PICK h \in Headers : h = disp[t].msg  BY <1>1, LoopFacts
<1>3. disp[t] \in DispType  BY <1>1 DEF TypeOK
<1>4. PICK d \in DispType : d = [disp[t] EXCEPT !.pc = "handler"]  BY <1>3 DEF DispType
<1>5. /\ d.msg = h /\ d.pc = "handler" /\ d.idx = disp[t].idx
      /\ disp' = [disp EXCEPT ![t] = d]
  BY <1>2, <1>3, <1>4 DEF DispType, Deliver
<1>6. Reached(d) = disp[t].idx + 1  BY <1>5 DEF Reached
<1>7. PICK c \in Modules : c = Candidate(t)  BY <1>1, <1>3, <1>5, <1>6, PastCandidate
<1>8. /\ hist'[h].owed = hist[h].owed \ {c} /\ hist'[h].got = hist[h].got \cup {c}
      /\ \A g \in Headers : g # h => hist'[g] = hist[g]
  <2>1. PICK y \in HistRecord : y = hist[h]
    BY <1>1 DEF TypeOK
  <2>2. hist' = [hist EXCEPT ![h] = [y EXCEPT !.owed = y.owed \ {c}, !.got = y.got \cup {c}]]
    BY <1>1, <1>2, <1>7, <2>1 DEF Deliver, TypeOK
  <2>3. hist'[h] = [y EXCEPT !.owed = y.owed \ {c}, !.got = y.got \cup {c}]
    BY <1>1, <2>2 DEF TypeOK
  <2> QED  BY <1>1, <2>1, <2>2, <2>3 DEF TypeOK
<1>9. \A m : Due(h, m) <=> DueAfter(h, t, disp[t], Inboxes(h), m)  BY DueNow
<1>10. \A m : m # c => (Coming(t, disp[t], m) <=> Coming(t, d, m))
  BY <1>1, <1>3, <1>5, <1>6, <1>7, PastCandidate
<1>11. \A m : m # c => (DueAfter(h, t, d, Inboxes(h), m) <=> Due(h, m))
  BY <1>2, <1>5, <1>9, <1>10 DEF DueAfter
<1>12. ~DueAfter(h, t, d, Inboxes(h), c)  BY <1>1, <1>2, <1>5, <1>6, <1>7, OnlyHere
<1>13. OwedInv(h) /\ \A m \in hist[h].got : ~Due(h, m)  BY <1>1, <1>2, LoopFacts
<1>14. PICK x : x = hist'[h]  OBVIOUS
<1>15. /\ \A m \in x.owed : m \in hist[h].owed /\ DueAfter(h, t, d, Inboxes(h), m)
       /\ \A m \in x.got : ~DueAfter(h, t, d, Inboxes(h), m)
  BY <1>8, <1>11, <1>12, <1>13, <1>14 DEF OwedInv
<1> QED  BY <1>1, <1>2, <1>5, <1>8, <1>14, <1>15, BetweenDelivers

\* Whoever is passed over was owed nothing.
LEMMA SkipDelivers ==
  ASSUME DInv, NEW t \in Tasks, Skip(t)
  PROVE  Delivery'
<1>1. /\ DispatchMore(t) /\ disp[t].pc = "dispatch" /\ TypeOK /\ rel[t] = NoRel
      /\ UNCHANGED <<used, hdr, free, subs, queue, call, rel>> /\ UNCHANGED hist
  BY DEF Skip, DispatchMore, DInv, IInv, Looping
<1>2. PICK h \in Headers : h = disp[t].msg  BY <1>1, LoopFacts
<1>3. disp[t] \in DispType  BY <1>1 DEF TypeOK
<1>4. PICK d \in DispType : d = [disp[t] EXCEPT !.idx = disp[t].idx + 1]
  <2>1. disp[t].idx + 1 \in Nat \ {0}  BY <1>3 DEF DispType
  <2> QED  BY <1>3, <2>1 DEF DispType
<1>5. /\ d.msg = h /\ d.pc = "dispatch" /\ d.idx = disp[t].idx + 1
      /\ disp' = [disp EXCEPT ![t] = d]
  BY <1>1, <1>2, <1>3, <1>4 DEF DispType, Skip
<1>6. Reached(d) = disp[t].idx + 1  BY <1>5 DEF Reached
<1>7. PICK c : c = Candidate(t)  OBVIOUS
<1>8. OwedInv(h) /\ \A m \in hist[h].got : ~Due(h, m)  BY <1>1, <1>2, LoopFacts
<1>9. ASSUME c \in hist[h].owed  PROVE FALSE
  <2>1. Aim(h, c) /\ hdr[h].receiver # c
    BY <1>2, <1>7, <1>8, <1>9 DEF Skip, Accepts, OwedInv
  <2>2. PICK u \in Threads : call[u].msg = h /\ call[u].pc \in {"stamp", "target"}
    BY <2>1 DEF Aim
  <2>3. call[u].pending = {c}  BY <2>1, <2>2 DEF Aim, FanOut
  <2>4. TaskOf(c) = t  BY <1>1, <1>3, <1>5, <1>6, <1>7, PastCandidate
  <2>5. /\ Calls(h) = {} /\ t \in Dispatching(h)
        /\ \A v \in Threads : call[v].msg = h /\ call[v].pc \in FanOut =>
             \A m \in call[v].pending : TaskOf(m) \notin Dispatching(h)
    BY <1>1, <1>2, LoopFacts
  <2>6. call[u].pc # "stamp"  BY <2>2, <2>5 DEF Calls, Owning
  <2> QED  BY <2>2, <2>3, <2>4, <2>5, <2>6 DEF FanOut
<1>10. \A m : Due(h, m) <=> DueAfter(h, t, disp[t], Inboxes(h), m)  BY DueNow
<1>11. \A m : Coming(t, disp[t], m) <=> Coming(t, d, m) \/ m = c
  BY <1>1, <1>3, <1>5, <1>6, <1>7, PastCandidate
<1>12. /\ \A m : DueAfter(h, t, d, Inboxes(h), m) => Due(h, m)
       /\ \A m : m # c => (Due(h, m) => DueAfter(h, t, d, Inboxes(h), m))
  BY <1>2, <1>5, <1>10, <1>11 DEF DueAfter
<1>13. PICK x : x = hist[h]  OBVIOUS
<1>14. /\ \A m \in x.owed : m \in hist[h].owed /\ DueAfter(h, t, d, Inboxes(h), m)
       /\ \A m \in x.got : ~DueAfter(h, t, d, Inboxes(h), m)
  BY <1>8, <1>9, <1>12, <1>13 DEF OwedInv
<1>15. hist'[h] = x /\ \A g \in Headers : g # h => hist'[g] = hist[g]  BY <1>1, <1>13
<1> QED  BY <1>1, <1>2, <1>5, <1>14, <1>15, BetweenDelivers

\* A handler returns: the modules to come are the same.
LEMMA HandlerReturnsDelivers ==
  ASSUME DInv, NEW t \in Tasks, HandlerReturns(t)
  PROVE  Delivery'
<1>1. /\ disp[t].pc = "handler" /\ TypeOK /\ rel[t] = NoRel
      /\ UNCHANGED <<used, hdr, free, subs, queue, call, rel>> /\ UNCHANGED hist
  BY DEF HandlerReturns, DInv, IInv
<1>2. PICK h \in Headers : h = disp[t].msg  BY <1>1, LoopFacts
<1>3. disp[t] \in DispType  BY <1>1 DEF TypeOK
<1>4. PICK d \in DispType : d = [disp[t] EXCEPT !.pc = "dispatch", !.idx = disp[t].idx + 1]
  <2>1. disp[t].idx + 1 \in Nat \ {0}  BY <1>3 DEF DispType
  <2> QED  BY <1>3, <2>1 DEF DispType
<1>5. d.msg = h /\ d.pc = "dispatch" /\ d.idx = disp[t].idx + 1
  BY <1>2, <1>3, <1>4 DEF DispType
<1>6. disp' = [disp EXCEPT ![t] = d]  BY <1>1, <1>4 DEF HandlerReturns, TypeOK
<1>7. \A m : Coming(t, d, m) <=> Coming(t, disp[t], m)  BY <1>1, <1>5 DEF Coming, Reached
<1>8. OwedInv(h) /\ \A m \in hist[h].got : ~Due(h, m)  BY <1>1, <1>2, LoopFacts
<1>9. \A m : Due(h, m) <=> DueAfter(h, t, disp[t], Inboxes(h), m)  BY DueNow
<1>10. \A m : DueAfter(h, t, d, Inboxes(h), m) <=> Due(h, m)
  BY <1>2, <1>5, <1>7, <1>9 DEF DueAfter
<1>11. PICK x : x = hist[h]  OBVIOUS
<1>12. /\ \A m \in x.owed : m \in hist[h].owed /\ DueAfter(h, t, d, Inboxes(h), m)
       /\ \A m \in x.got : ~DueAfter(h, t, d, Inboxes(h), m)
  BY <1>8, <1>10, <1>11 DEF OwedInv
<1>13. hist'[h] = x /\ \A g \in Headers : g # h => hist'[g] = hist[g]  BY <1>1, <1>11
<1> QED  BY <1>1, <1>2, <1>5, <1>6, <1>12, <1>13, BetweenDelivers

\* A loop that is over had nobody left to come to.
LEMMA DispatchDoneDelivers ==
  ASSUME DInv, NEW t \in Tasks, DispatchDone(t)
  PROVE  Delivery'
<1>1. /\ disp[t].pc \in {"dispatch", "on_wake"} /\ TypeOK /\ rel[t] = NoRel
      /\ UNCHANGED <<used, hdr, free, subs, queue, call, hist>> /\ t \in Threads
      /\ disp[t].pc = "dispatch" => ~DispatchMore(t)
  BY DEF DispatchDone, DInv, IInv, Looping, Threads
<1>2. PICK h \in Headers : h = disp[t].msg  BY <1>1, LoopFacts
<1>3. /\ h # None /\ disp[t] \in DispType /\ t \in Dispatching(h)
      /\ Inboxes(h) \cap Dispatching(h) = {}
      /\ \A u \in Threads : call[u].msg = h /\ call[u].pc \in FanOut =>
           \A m \in call[u].pending : TaskOf(m) \notin Dispatching(h)
      /\ OwedInv(h) /\ \A m \in hist[h].got : ~Due(h, m)
  BY <1>1, <1>2, LoopFacts
<1>4. PICK d \in DispType : d = Waiting
  <2>1. 1 \in Nat \ {0}  OBVIOUS
  <2> QED  BY <2>1 DEF Waiting, DispType
<1>5. PICK r \in RelType : r = Release(h)  BY ReleaseTyped
<1>6. /\ disp' = [disp EXCEPT ![t] = d] /\ rel' = [rel EXCEPT ![t] = r]
      /\ d.msg = None /\ r.msg = h
  BY <1>2, <1>4, <1>5 DEF DispatchDone, Waiting, Release
<1>7. \A m : ~Coming(t, disp[t], m)
  <2>1. CASE disp[t].pc = "on_wake"  BY <2>1 DEF Coming
  <2>2. CASE disp[t].pc = "dispatch"
    <3>1. disp[t].idx \notin DOMAIN BoundModules[t]  BY <1>1, <2>2 DEF DispatchMore
    <3>2. BoundModules[t] \in Seq(Modules)  BY BusAssumption
    <3>3. PICK n \in Nat : DOMAIN BoundModules[t] = 1..n  BY <3>2
    <3>4. disp[t].idx \in Nat \ {0}  BY <1>3 DEF DispType
    <3>5. \A i \in DOMAIN BoundModules[t] : ~(i >= disp[t].idx)  BY <3>1, <3>3, <3>4
    <3> QED  BY <2>2, <3>5 DEF Coming, Reached
  <2> QED  BY <1>1, <2>1, <2>2
<1>8. \A m : Due(h, m) <=> DueAfter(h, t, disp[t], Inboxes(h), m)  BY DueNow
<1>9. \A m : DueAfter(h, t, d, Inboxes(h), m) <=> Due(h, m)
  BY <1>2, <1>3, <1>6, <1>7, <1>8 DEF DueAfter
<1>10. PICK I \in SUBSET Tasks : I = Inboxes(h)  BY HolderTypes
<1>11. PICK D \in SUBSET Tasks : D = Dispatching(h) \ {t}  BY HolderTypes
<1>12. Inboxes(h)' = I /\ Dispatching(h)' = D
  <2>1. disp'[t] = d /\ \A u \in Tasks : u # t => disp'[u] = disp[u]  BY <1>1, <1>6 DEF TypeOK
  <2> QED  BY <1>1, <1>3, <1>6, <1>10, <1>11, <2>1 DEF Inboxes, Dispatching
<1>13. PICK x : x = hist[h]  OBVIOUS
<1>14. /\ \A m \in x.owed : m \in hist[h].owed /\ DueAfter(h, t, d, I, m)
       /\ \A m \in x.got : ~DueAfter(h, t, d, I, m)
  BY <1>3, <1>9, <1>10, <1>13 DEF OwedInv
<1>15. /\ hist'[h] = x
       /\ \A g \in Headers : g # h => Inboxes(g)' = Inboxes(g) /\ hist'[g] = hist[g]
  BY <1>1, <1>13 DEF Inboxes
<1>16. /\ I \cap D = {} /\ t \in Inboxes(h) \cup Dispatching(h)
       /\ d.msg \in {h, None} /\ disp[t].msg \in {h, None} /\ r.msg \in {h, None}
       /\ UNCHANGED <<used, hdr, subs, call>>
       /\ \A u \in Threads : call[u].msg = h /\ call[u].pc \in FanOut =>
            \A m \in call[u].pending : TaskOf(m) \notin D
  BY <1>1, <1>2, <1>3, <1>6, <1>10, <1>11
<1> QED
  BY <1>1, <1>5, <1>6, <1>12, <1>14, <1>15, <1>16, LoopDelivers

-----------------------------------------------------------------------------
(* The delivery theorems                                                   *)

\* At boot nothing is on its way.
LEMMA InitDelivery == Init => Delivery
<1> SUFFICES ASSUME Init, NEW h \in Headers PROVE DeliveryInv(h)
  BY DEF Delivery
<1>1. h # None  BY BusAssumption
<1>2. /\ \A t \in Threads : call[t] = NoCall
      /\ \A t \in Tasks : disp[t] = Waiting /\ queue[t] = <<>>
      /\ hist[h] = NoHist /\ h \notin used
  BY DEF Init
<1>3. \A t \in Threads : call[t].msg # h  BY <1>1, <1>2 DEF NoCall
<1>4. Inboxes(h) = {}  BY <1>2 DEF Inboxes
<1>5. Routed(h)  BY <1>3 DEF Routed
<1>6. Apart(h)  BY <1>3, <1>4 DEF Apart
<1>7. OwedInv(h)  BY <1>2 DEF OwedInv, NoHist
<1>8. GotInv(h)  BY <1>2 DEF GotInv, NoHist
<1>9. LostInv(h)  BY <1>2 DEF LostInv
<1> QED  BY <1>5, <1>6, <1>7, <1>8, <1>9 DEF DeliveryInv

\* Every action keeps the delivery invariant.
LEMMA NextDelivery == DInv /\ [Next]_vars => DInv'
<1> SUFFICES ASSUME DInv, [Next]_vars PROVE DInv'
  OBVIOUS
<1>1. IInv'  BY NextInv DEF DInv
<1>2. CASE UNCHANGED vars
  <2>1. UNCHANGED <<used, hdr, free, queue, disp, call, rel>> /\ UNCHANGED <<subs, hist>>
    BY <1>2 DEF vars
  <2>2. ASSUME NEW h \in Headers
        PROVE  /\ hist'[h].got = hist[h].got /\ hist'[h].owed \subseteq hist[h].owed
               /\ hist'[h].lost = hist[h].lost
               /\ \A m \in hist'[h].owed : m \in subs'[hdr[h].id]
    BY <2>1 DEF DInv, Delivery, DeliveryInv, OwedInv
  <2> QED  BY <1>1, <2>1, <2>2, SubscriptionDelivers DEF DInv
<1>3. ASSUME NEW t \in Threads, Create(t)  PROVE Delivery'
  BY <1>3, CreateHeaderDelivers, CreatePayloadDelivers, CreateFailsDelivers, AbandonDelivers
     DEF Create
<1>4. ASSUME NEW t \in Threads, Publish(t)  PROVE Delivery'
  BY <1>4, PublishSnapshotDelivers, PublishStampDelivers, PublishTargetDelivers,
     PublishEnqueueDelivers, PublishDropDelivers DEF Publish
<1>5. ASSUME NEW t \in Threads, Send(t)  PROVE Delivery'
  BY <1>5, SendToDelivers, SendEnqueueDelivers, SendFailsDelivers DEF Send
<1>6. ASSUME NEW t \in Threads, WakeUp(t)  PROVE Delivery'
  BY <1>6, WakeCreateDelivers, WakeEnqueueDelivers, WakeDropDelivers DEF WakeUp
<1>7. ASSUME NEW t \in Threads, Resub(t)  PROVE Delivery'
  BY <1>7, SubscribeDelivers, UnsubscribeDelivers DEF Resub
<1>8. ASSUME NEW t \in Threads, Drop(t)  PROVE Delivery'
  BY <1>8, ReleaseDecrementDelivers, ReleasePayloadDelivers, ReleaseHeaderDelivers DEF Drop
<1>9. ASSUME NEW t \in Tasks, Loop(t)  PROVE Delivery'
  BY <1>9, ReceiveDelivers, DeliverDelivers, SkipDelivers, HandlerReturnsDelivers,
     DispatchDoneDelivers DEF Loop
<1> QED
  BY <1>1, <1>2, <1>3, <1>4, <1>5, <1>6, <1>7, <1>8, <1>9 DEF Next, DInv

\* Both invariants hold in every reachable state.
LEMMA BusDelivery == Spec => []DInv
<1>1. Init => DInv  BY InitInv, InitDelivery DEF DInv
<1>2. DInv /\ [Next]_vars => DInv'  BY NextDelivery
<1> QED  BY <1>1, <1>2, PTL DEF Spec

\* When the last reference to a message goes, nobody is still owed it: each module
\* that was subscribed when it was published has had it, unless a full inbox
\* refused it or the module left the list.  A direct message published to several
\* subscribers is owed to none of them.
THEOREM BusDeliversToAll == Spec => []DeliveredToAll
<1>1. DInv => DeliveredToAll
  <2> SUFFICES ASSUME DInv, NEW t \in Threads, rel[t].pc \in {"payload", "header"}
               PROVE  hist[rel[t].msg].owed = {}
    BY DEF DeliveredToAll
  <2>1. PICK h \in Headers : h = rel[t].msg  BY ReleaseFacts DEF DInv
  <2>2. t \in Freeing(h)  BY <2>1, ReleaseFacts DEF DInv
  <2>3. /\ Inboxes(h) = {} /\ Dispatching(h) = {} /\ \A u \in Threads : call[u].msg # h
    BY <2>2, FreeingFacts DEF DInv
  <2>4. \A m : ~Due(h, m)  BY <2>3 DEF Due, Promised, Queued, Ahead, Dispatching
  <2> QED  BY <2>1, <2>4 DEF DInv, Delivery, DeliveryInv, OwedInv
<1> QED  BY <1>1, BusDelivery, PTL

\* Only Deliver takes a loop from the list of modules into a handler.
LEMMA OnlyDeliverStarts ==
  ASSUME IInv, [Next]_vars, NEW t \in Tasks, disp[t].pc = "dispatch", disp'[t].pc = "handler"
  PROVE  Deliver(t)
<1>1. TypeOK /\ disp' # disp  BY DEF IInv
<1>2. PICK u \in Tasks : Loop(u)
  <2>1. ~UNCHANGED vars  BY <1>1 DEF vars
  <2>2. ASSUME NEW u \in Threads, Create(u) \/ Publish(u)  PROVE FALSE
    BY <1>1, <2>2 DEF Create, CreateHeader, CreatePayload, CreateFails, Abandon, Publish,
       PublishSnapshot, PublishStamp, PublishTarget, PublishEnqueue, PublishDrop
  <2>3. ASSUME NEW u \in Threads, Send(u) \/ WakeUp(u)  PROVE FALSE
    BY <1>1, <2>3 DEF Send, SendTo, SendEnqueue, SendFails, WakeUp, WakeCreate, WakeEnqueue,
       WakeDrop
  <2>4. ASSUME NEW u \in Threads, Resub(u) \/ Drop(u)  PROVE FALSE
    BY <1>1, <2>4 DEF Resub, Subscribe, Unsubscribe, Drop, ReleaseDecrement, ReleasePayload,
       ReleaseHeader
  <2> QED  BY <2>1, <2>2, <2>3, <2>4 DEF Next
<1>3. CASE Deliver(u)
  <2>1. u = t  BY <1>1, <1>3 DEF Deliver, TypeOK
  <2> QED  BY <1>3, <2>1
<1>4. ASSUME Receive(u)  PROVE FALSE
  <2>1. PICK h \in Headers, d \in DispType :
          d.pc \in {"on_wake", "dispatch"} /\ disp' = [disp EXCEPT ![u] = d]
    BY <1>4, ReceiveFacts
  <2> QED  BY <1>1, <2>1 DEF TypeOK
<1>5. ASSUME Skip(u)  PROVE FALSE
  <2>1. disp[u].pc = "dispatch" /\ disp[u] \in DispType
    BY <1>1, <1>5 DEF Skip, DispatchMore, TypeOK
  <2>2. PICK d : d = [disp[u] EXCEPT !.idx = disp[u].idx + 1]  OBVIOUS
  <2>3. d.pc = "dispatch" /\ disp' = [disp EXCEPT ![u] = d]  BY <1>5, <2>1, <2>2 DEF Skip, DispType
  <2> QED  BY <1>1, <2>3 DEF TypeOK
<1>6. ASSUME HandlerReturns(u)  PROVE FALSE
  <2>1. disp[u].pc = "handler" /\ disp[u] \in DispType  BY <1>1, <1>6 DEF HandlerReturns, TypeOK
  <2>2. PICK d : d = [disp[u] EXCEPT !.pc = "dispatch", !.idx = disp[u].idx + 1]  OBVIOUS
  <2>3. d.pc = "dispatch"  BY <2>1, <2>2 DEF DispType
  <2>4. disp' = [disp EXCEPT ![u] = d]  BY <1>1, <1>6, <2>2 DEF HandlerReturns, TypeOK
  <2> QED  BY <1>1, <2>3, <2>4 DEF TypeOK
<1>7. ASSUME DispatchDone(u)  PROVE FALSE
  BY <1>1, <1>7 DEF DispatchDone, Waiting, TypeOK
<1> QED  BY <1>2, <1>3, <1>4, <1>5, <1>6, <1>7 DEF Loop

\* One step of AtMostOnce.
GivenOnce ==
  \A t \in Tasks :
    disp[t].pc = "dispatch" /\ disp'[t].pc = "handler"
      => Candidate(t) \notin hist[disp[t].msg].got

\* No module is given the same message twice, however many subscribers share its task.
THEOREM BusAtMostOnce == Spec => AtMostOnce
<1>1. DInv /\ [Next]_vars => [GivenOnce]_vars
  <2> SUFFICES ASSUME DInv, [Next]_vars, NEW t \in Tasks, disp[t].pc = "dispatch",
                      disp'[t].pc = "handler"
               PROVE  Candidate(t) \notin hist[disp[t].msg].got
    BY DEF GivenOnce
  <2>1. Deliver(t)  BY OnlyDeliverStarts DEF DInv
  <2>2. PICK h \in Headers : h = disp[t].msg  BY LoopFacts
  <2>3. \A m \in hist[h].got : ~Due(h, m)  BY <2>2, LoopFacts
  <2>4. disp[t].idx \in DOMAIN BoundModules[t] /\ disp[t].idx \in Nat
    BY <2>1 DEF Deliver, DispatchMore, DInv, IInv, TypeOK, DispType
  <2>5. Coming(t, disp[t], Candidate(t))
    BY <2>4 DEF Coming, Reached, Candidate
  <2>6. Due(h, Candidate(t))  BY <2>2, <2>5 DEF Due, Ahead
  <2> QED  BY <2>2, <2>3, <2>6
<1> QED  BY <1>1, BusDelivery, PTL DEF Spec, AtMostOnce, GivenOnce

\* A header in use has a holder or is being freed, unless a direct send found the
\* inbox full: the one call that returns an error without giving its reference back.
THEOREM BusNothingLeaks == Spec => []NothingLeaks
<1>1. DInv => NothingLeaks
  <2> SUFFICES ASSUME DInv, NEW h \in used
               PROVE  RefCount(h) > 0 \/ Freeing(h) # {} \/ hist[h].lost
    BY DEF NothingLeaks
  <2>1. LostInv(h)  BY DEF DInv, IInv, TypeOK, Delivery, DeliveryInv
  <2> QED  BY <2>1, Holders DEF LostInv, Held
<1> QED  BY <1>1, BusDelivery, PTL
=============================================================================
