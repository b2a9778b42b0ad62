------------------------------- MODULE HsysMsg -------------------------------
(***************************************************************************)
(* The message bus of the HSYS framework: message headers taken from a     *)
(* fixed slab, payload buffers taken from the buffer pool, reference       *)
(* counted fan-out of one pointer into the inbox queue of every subscribed *)
(* task, and the dispatch loop each task runs.                             *)
(*                                                                         *)
(*   hsys_msg.cpp       header slab, create, publish, send, release        *)
(*   hsys_task_mgr.cpp  enqueue, wake, the dispatch loop                   *)
(*   hsys_module.cpp    delivery of one dequeued message inside a task     *)
(*                                                                         *)
(* Threads run concurrently.  A step of the model is one critical section, *)
(* one mutex-protected block, one queue operation or one write to a header *)
(* that another thread may hold, so every interleaving the locks of the    *)
(* code leave open is explored.                                            *)
(*                                                                         *)
(* The payload pool appears through what HsysPoolSpec promises of it: a    *)
(* set of blocks, each given to one owner at a time.                       *)
(***************************************************************************)
EXTENDS Naturals, Sequences, FiniteSets

CONSTANTS
  Tasks,          \* managed tasks (k_task_table), each with one inbox queue
  Foreign,        \* threads outside the task manager: PAL callbacks, timers
  Modules,        \* module identifiers
  BoundModules,   \* [Tasks -> Seq(Modules)]: entry->bound_modules
  MsgIds,         \* identifiers of the descriptor table
  DirectIds,      \* those whose descriptor says HSYS_MSG_DIRECT
  PayloadIds,     \* those whose descriptor says payload_size > 0
  Headers,        \* the slots of s_header_pool
  Blocks,         \* the payload blocks
  QueueDepth,     \* [Tasks -> Nat]: length of each inbox
  MaxSubscribers, \* HSYS_MAX_SUBSCRIBERS_PER_MSG
  InitSubs,       \* [MsgIds -> SUBSET Modules]: subscriptions after init()
  Callers,        \* threads whose code calls the bus
  Published,      \* message ids the application publishes
  Sent,           \* message ids the application sends to one module
  Woken,          \* modules some caller wakes
  Resubscribing,  \* modules that (un)subscribe while the system runs
  Wake,           \* HSYS_MSG_ID_WAKE
  None            \* a null pointer or HSYS_MODULE_ID_INVALID

Threads == Tasks \cup Foreign

ASSUME BusAssumption ==
  /\ Tasks \cap Foreign = {}
  /\ None \notin Tasks \cup Headers \cup Blocks \cup Modules \cup MsgIds
  /\ Wake \notin MsgIds \cup {None}
  /\ BoundModules \in [Tasks -> Seq(Modules)]
  /\ \A t \in Tasks, u \in Tasks :               \* one binding per module
       \A i \in DOMAIN BoundModules[t], j \in DOMAIN BoundModules[u] :
         BoundModules[t][i] = BoundModules[u][j] => t = u /\ i = j
  /\ DirectIds \subseteq MsgIds /\ PayloadIds \subseteq MsgIds
  /\ Published \subseteq MsgIds /\ Sent \subseteq MsgIds
  /\ Callers \subseteq Threads
  /\ Woken \subseteq Modules /\ Resubscribing \subseteq Modules
  /\ QueueDepth \in [Tasks -> Nat]
  /\ MaxSubscribers \in 1..255
  /\ InitSubs \in [MsgIds -> SUBSET Modules]
  /\ \A id \in MsgIds : Cardinality(InitSubs[id]) <= MaxSubscribers
  /\ IsFiniteSet(Threads) /\ IsFiniteSet(Modules)

VARIABLES
  used,    \* s_header_used: the slots in use
  hdr,     \* s_header_pool: the fields of each slot
  free,    \* the payload blocks that are free
  subs,    \* s_sub_table
  queue,   \* the inbox of each task
  disp,    \* the dispatch loop of each task
  call,    \* the bus call each thread is in
  rel,     \* the hsys_msg_release() each thread is in
  hist     \* history, read by no action: who is owed and who got a message,
           \* and whether a failed send left it to nobody

vars == <<used, hdr, free, subs, queue, disp, call, rel, hist>>

(***************************************************************************)
(* find_task_for_module: the first task a module is bound to, or None.     *)
(* The binding is fixed once the tasks exist.                              *)
(***************************************************************************)
Hosts(m) == {t \in Tasks : \E i \in DOMAIN BoundModules[t] : BoundModules[t][i] = m}
TaskOf(m) == IF Hosts(m) = {} THEN None ELSE CHOOSE t \in Hosts(m) : TRUE

SameTask(a, b) == TaskOf(a) # None /\ TaskOf(a) = TaskOf(b)

\* The modules a message queued on behalf of m can reach: those of m's task.
Cohort(m) == {n \in Modules : n = m \/ SameTask(n, m)}

(***************************************************************************)
(* De-duplication in publish: one subscriber stands for all of its task;   *)
(* subscribers bound to no task stand for themselves.  The order in which  *)
(* the table lists them is left open.                                      *)
(***************************************************************************)
DedupNone(S) == {S}   \* variant of Dedup: every subscriber is enqueued

Dedup(S) ==
  {R \in SUBSET S : /\ \A m \in S : \E r \in R : r = m \/ SameTask(r, m)
                    /\ \A a, b \in R : a # b => ~SameTask(a, b)}

BlankHeader == [id |-> None, receiver |-> None, ref |-> 0, payload |-> None]
NoHist  == [owed |-> {}, got |-> {}, lost |-> FALSE]
NoCall  == [pc |-> "idle", msg |-> None, pending |-> {}]
NoRel   == [pc |-> "none", msg |-> None]
Waiting == [pc |-> "receive", msg |-> None, idx |-> 1]

Release(h) == [pc |-> "decrement", msg |-> h]

Init ==
  /\ used = {}
  /\ hdr = [h \in Headers |-> BlankHeader]
  /\ free = Blocks
  /\ subs = InitSubs
  /\ queue = [t \in Tasks |-> <<>>]
  /\ disp = [t \in Tasks |-> Waiting]
  /\ call = [t \in Threads |-> NoCall]
  /\ rel = [t \in Threads |-> NoRel]
  /\ hist = [h \in Headers |-> NoHist]

-----------------------------------------------------------------------------
(* Which thread may do what.  A task calls the bus from inside a handler   *)
(* (on_msg_received, on_wake); a foreign thread calls it at any time.      *)

InHandler(t) == t \in Tasks => disp[t].pc \in {"handler", "on_wake"}

\* t is free to enter a bus function.
CanCall(t) ==
  /\ t \in Callers
  /\ InHandler(t)
  /\ call[t] = NoCall
  /\ rel[t] = NoRel

\* t is at step pc of a bus function and not inside a nested release.
At(t, pc) == call[t].pc = pc /\ rel[t] = NoRel

Begun(pc, h) == [pc |-> pc, msg |-> h, pending |-> {}]

Return(t) == call' = [call EXCEPT ![t] = NoCall]

-----------------------------------------------------------------------------
(* hsys_msg_create: header_alloc, the memset of the slot, then the pool.   *)

\* Variant of NewHeader: ref_count is left at zero.
UnownedHeader(id, receiver) ==
  [id |-> id, receiver |-> receiver, ref |-> 0, payload |-> None]

NewHeader(id, receiver) ==
  [id |-> id, receiver |-> receiver, ref |-> 1, payload |-> None]

\* header_alloc takes the first free slot; slots are interchangeable.
CreateHeader(t, id) ==
  /\ CanCall(t)
  /\ id \in Published \cup Sent
  /\ \E h \in Headers \ used :
       /\ used' = used \cup {h}
       /\ hdr' = [hdr EXCEPT ![h] = NewHeader(id, None)]
       /\ call' = [call EXCEPT ![t] =
                     Begun(IF id \in PayloadIds THEN "payload" ELSE "created", h)]
  /\ UNCHANGED <<free, subs, queue, disp, rel, hist>>

CreatePayload(t) ==
  /\ At(t, "payload")
  /\ \E b \in free :
       /\ free' = free \ {b}
       /\ hdr' = [hdr EXCEPT ![call[t].msg].payload = b]
  /\ call' = [call EXCEPT ![t].pc = "created"]
  /\ UNCHANGED <<used, subs, queue, disp, rel, hist>>

\* Pool exhausted: header_free and return nullptr.
CreateFails(t) ==
  /\ At(t, "payload")
  /\ free = {}
  /\ used' = used \ {call[t].msg}
  /\ hdr' = [hdr EXCEPT ![call[t].msg] = BlankHeader]
  /\ Return(t)
  /\ UNCHANGED <<free, subs, queue, disp, rel, hist>>

\* A caller that finds no route for what it created gives it back.
Abandon(t) ==
  /\ At(t, "created")
  /\ rel' = [rel EXCEPT ![t] = Release(call[t].msg)]
  /\ Return(t)
  /\ UNCHANGED <<used, hdr, free, subs, queue, disp, hist>>

-----------------------------------------------------------------------------
(* hsys_msg_publish                                                        *)

(***************************************************************************)
(* Who of the subscribers S can count on a publish of id.  A message whose *)
(* descriptor says HSYS_MSG_DIRECT is given to its receiver_id only, and   *)
(* the fan-out rewrites receiver_id for every target: with two subscribers *)
(* none is sure of it, and only a sole subscriber is.                      *)
(***************************************************************************)
Owed(id, S) == IF id \in DirectIds /\ (\E a, b \in S : a # b) THEN {} ELSE S

\* Snapshot of the subscriber list under s_sub_mutex, and its de-duplication.
PublishSnapshot(t) ==
  /\ At(t, "created")
  /\ LET h == call[t].msg
         S == subs[hdr[h].id]
     IN /\ hdr[h].id \in Published
        /\ hist' = [hist EXCEPT ![h].owed = Owed(hdr[h].id, S)]
        /\ \/ /\ S = {}
              /\ Return(t)
              /\ rel' = [rel EXCEPT ![t] = Release(h)]
           \/ /\ S # {}
              /\ \E R \in Dedup(S) :
                   call' = [call EXCEPT ![t].pc = "stamp", ![t].pending = R]
              /\ UNCHANGED rel
  /\ UNCHANGED <<used, hdr, free, subs, queue, disp>>

\* Variant of PublishStamp: the count made by create stays.
PublishUnstamped(t) ==
  /\ At(t, "stamp")
  /\ call' = [call EXCEPT ![t].pc = "target"]
  /\ UNCHANGED <<used, hdr, free, subs, queue, disp, rel, hist>>

PublishStamp(t) ==
  /\ At(t, "stamp")
  /\ hdr' = [hdr EXCEPT ![call[t].msg].ref = Cardinality(call[t].pending)]
  /\ call' = [call EXCEPT ![t].pc = "target"]
  /\ UNCHANGED <<used, free, subs, queue, disp, rel, hist>>

\* msg->receiver_id = snapshot[i], written while other tasks hold the pointer.
PublishTarget(t) ==
  /\ At(t, "target")
  /\ \E m \in call[t].pending :
       hdr' = [hdr EXCEPT ![call[t].msg].receiver = m]
  /\ call' = [call EXCEPT ![t].pc = "enqueue"]
  /\ UNCHANGED <<used, free, subs, queue, disp, rel, hist>>

\* The loop step after an enqueue: the next receiver, or return.
NextTarget(t) ==
  LET rest == call[t].pending \ {hdr[call[t].msg].receiver}
  IN call' = [call EXCEPT ![t] = IF rest = {} THEN NoCall
                                 ELSE [@ EXCEPT !.pc = "target", !.pending = rest]]

HasRoom(task) == Len(queue[task]) < QueueDepth[task]

\* hsys_task_mgr_enqueue_ptr finds the inbox and there is room in it.
Deposit(h) ==
  LET task == TaskOf(hdr[h].receiver)
  IN /\ task # None
     /\ HasRoom(task)
     /\ queue' = [queue EXCEPT ![task] = Append(@, h)]

\* HSYS_ERR_NOT_FOUND or HSYS_ERR_QUEUE_FULL.
Refused(h) ==
  LET task == TaskOf(hdr[h].receiver)
  IN task # None => ~HasRoom(task)

PublishEnqueue(t) ==
  /\ At(t, "enqueue")
  /\ Deposit(call[t].msg)
  /\ NextTarget(t)
  /\ UNCHANGED <<used, hdr, free, subs, disp, rel, hist>>

\* Variant of PublishDrop: a refused enqueue gives nothing back.
PublishForgets(t) ==
  /\ At(t, "enqueue")
  /\ Refused(call[t].msg)
  /\ hist' = [hist EXCEPT ![call[t].msg].owed = @ \ Cohort(hdr[call[t].msg].receiver)]
  /\ NextTarget(t)
  /\ UNCHANGED <<used, hdr, free, subs, queue, disp, rel>>

\* A refused enqueue gives back the reference counted for that subscriber.
PublishDrop(t) ==
  /\ At(t, "enqueue")
  /\ Refused(call[t].msg)
  /\ rel' = [rel EXCEPT ![t] = Release(call[t].msg)]
  /\ hist' = [hist EXCEPT ![call[t].msg].owed = @ \ Cohort(hdr[call[t].msg].receiver)]
  /\ NextTarget(t)
  /\ UNCHANGED <<used, hdr, free, subs, queue, disp>>

-----------------------------------------------------------------------------
(* HsysModule::send and hsys_msg_send: receiver_id, ref_count = 1, enqueue.*)
(* A thread that waits timeout_ms for room in the inbox is one that has    *)
(* not yet taken SendEnqueue; when the wait ends it takes SendFails.       *)

SendTo(t, m) ==
  /\ At(t, "created")
  /\ hdr[call[t].msg].id \in Sent
  /\ m \in Modules
  /\ hdr' = [hdr EXCEPT ![call[t].msg].receiver = m, ![call[t].msg].ref = 1]
  /\ hist' = [hist EXCEPT ![call[t].msg].owed = {m} \cap subs[hdr[call[t].msg].id]]
  /\ call' = [call EXCEPT ![t].pc = "send"]
  /\ UNCHANGED <<used, free, subs, queue, disp, rel>>

SendEnqueue(t) ==
  /\ At(t, "send")
  /\ Deposit(call[t].msg)
  /\ Return(t)
  /\ UNCHANGED <<used, hdr, free, subs, disp, rel, hist>>

\* The error is returned; nobody releases the message.
SendFails(t) ==
  /\ At(t, "send")
  /\ Refused(call[t].msg)
  /\ hist' = [hist EXCEPT ![call[t].msg] = [@ EXCEPT !.owed = {}, !.lost = TRUE]]
  /\ Return(t)
  /\ UNCHANGED <<used, hdr, free, subs, queue, disp, rel>>

-----------------------------------------------------------------------------
(* hsys_task_mgr_wake_module: a token that is a header with no payload.    *)

WakeCreate(t, m) ==
  /\ CanCall(t)
  /\ m \in Woken
  /\ \E h \in Headers \ used :
       /\ used' = used \cup {h}
       /\ hdr' = [hdr EXCEPT ![h] = NewHeader(Wake, m)]
       /\ call' = [call EXCEPT ![t] = Begun("wake", h)]
  /\ UNCHANGED <<free, subs, queue, disp, rel, hist>>

WakeEnqueue(t) ==
  /\ At(t, "wake")
  /\ Deposit(call[t].msg)
  /\ Return(t)
  /\ UNCHANGED <<used, hdr, free, subs, disp, rel, hist>>

WakeDrop(t) ==
  /\ At(t, "wake")
  /\ Refused(call[t].msg)
  /\ rel' = [rel EXCEPT ![t] = Release(call[t].msg)]
  /\ Return(t)
  /\ UNCHANGED <<used, hdr, free, subs, queue, disp, hist>>

-----------------------------------------------------------------------------
(* hsys_msg_subscribe / hsys_msg_unsubscribe, under s_sub_mutex.           *)

Subscribe(t, id, m) ==
  /\ CanCall(t)
  /\ m \in Resubscribing \ subs[id]
  /\ Cardinality(subs[id]) < MaxSubscribers
  /\ subs' = [subs EXCEPT ![id] = @ \cup {m}]
  /\ UNCHANGED <<used, hdr, free, queue, disp, call, rel, hist>>

\* Whoever leaves the list is no longer owed the messages in flight.
Unsubscribe(t, id, m) ==
  /\ CanCall(t)
  /\ m \in Resubscribing \cap subs[id]
  /\ subs' = [subs EXCEPT ![id] = @ \ {m}]
  /\ hist' = [h \in Headers |->
                IF hdr[h].id = id THEN [hist[h] EXCEPT !.owed = @ \ {m}] ELSE hist[h]]
  /\ UNCHANGED <<used, hdr, free, queue, disp, call, rel>>

-----------------------------------------------------------------------------
(* hsys_msg_release: the decrement, then, for whoever reaches zero, the    *)
(* payload and the header.                                                 *)

LessUntruncated(h) == hdr[h].ref + 255   \* variant of Less, not cut to 8 bits

\* --ref_count, a uint8_t.
Less(h) == (hdr[h].ref + 255) % 256

ReleaseDecrement(t) ==
  /\ rel[t].pc = "decrement"
  /\ LET h == rel[t].msg
     IN /\ hdr' = [hdr EXCEPT ![h].ref = Less(h)]
        /\ rel' = [rel EXCEPT ![t] =
             IF Less(h) # 0 THEN NoRel
             ELSE [@ EXCEPT !.pc = IF hdr[h].payload # None THEN "payload" ELSE "header"]]
  /\ UNCHANGED <<used, free, subs, queue, disp, call, hist>>

\* The cleanup hook and hsys_pool_free.
ReleasePayload(t) ==
  /\ rel[t].pc = "payload"
  /\ free' = free \cup {hdr[rel[t].msg].payload}
  /\ hdr' = [hdr EXCEPT ![rel[t].msg].payload = None]
  /\ rel' = [rel EXCEPT ![t].pc = "header"]
  /\ UNCHANGED <<used, subs, queue, disp, call, hist>>

\* header_free.  A free slot's stale fields are wiped here instead of by the
\* memset of the next header_alloc: nobody reads them in between.
ReleaseHeader(t) ==
  /\ rel[t].pc = "header"
  /\ used' = used \ {rel[t].msg}
  /\ hdr' = [hdr EXCEPT ![rel[t].msg] = BlankHeader]
  /\ hist' = [hist EXCEPT ![rel[t].msg] = NoHist]
  /\ rel' = [rel EXCEPT ![t] = NoRel]
  /\ UNCHANGED <<free, subs, queue, disp, call>>

-----------------------------------------------------------------------------
(* dispatch_loop and hsys_module_dispatch_for_task                         *)

Receive(t) ==
  /\ disp[t].pc = "receive"
  /\ rel[t] = NoRel
  /\ queue[t] # <<>>
  /\ queue' = [queue EXCEPT ![t] = Tail(@)]
  /\ disp' = [disp EXCEPT ![t] = [pc |-> IF hdr[Head(queue[t])].id = Wake
                                         THEN "on_wake" ELSE "dispatch",
                                  msg |-> Head(queue[t]), idx |-> 1]]
  /\ UNCHANGED <<used, hdr, free, subs, call, rel, hist>>

Candidate(t) == BoundModules[t][disp[t].idx]

\* Variant of Accepts: every message is taken for a direct one.
AcceptsReceiver(t) == Candidate(t) = hdr[disp[t].msg].receiver

\* Is the bound module at the loop index to be given the message?
Accepts(t) ==
  LET h == disp[t].msg
  IN /\ Candidate(t) \in subs[hdr[h].id]
     /\ hdr[h].id \in DirectIds => Candidate(t) = hdr[h].receiver

DispatchMore(t) == disp[t].pc = "dispatch" /\ disp[t].idx \in DOMAIN BoundModules[t]

\* m->dispatch(*msg): the handler starts.
Deliver(t) ==
  /\ DispatchMore(t)
  /\ Accepts(t)
  /\ disp' = [disp EXCEPT ![t].pc = "handler"]
  /\ hist' = [hist EXCEPT ![disp[t].msg].owed = @ \ {Candidate(t)},
                          ![disp[t].msg].got = @ \cup {Candidate(t)}]
  /\ UNCHANGED <<used, hdr, free, subs, queue, call, rel>>

Skip(t) ==
  /\ DispatchMore(t)
  /\ ~Accepts(t)
  /\ disp' = [disp EXCEPT ![t].idx = @ + 1]
  /\ UNCHANGED <<used, hdr, free, subs, queue, call, rel, hist>>

\* on_msg_received returns to the loop over the bound modules.
HandlerReturns(t) ==
  /\ disp[t].pc = "handler"
  /\ call[t] = NoCall
  /\ rel[t] = NoRel
  /\ disp' = [disp EXCEPT ![t].pc = "dispatch", ![t].idx = @ + 1]
  /\ UNCHANGED <<used, hdr, free, subs, queue, call, rel, hist>>

\* The loop is over, or on_wake returned: hsys_msg_release(msg_ptr).
DispatchDone(t) ==
  /\ \/ disp[t].pc = "dispatch" /\ ~DispatchMore(t)
     \/ disp[t].pc = "on_wake" /\ call[t] = NoCall /\ rel[t] = NoRel
  /\ rel' = [rel EXCEPT ![t] = Release(disp[t].msg)]
  /\ disp' = [disp EXCEPT ![t] = Waiting]
  /\ UNCHANGED <<used, hdr, free, subs, queue, call, hist>>

-----------------------------------------------------------------------------
Create(t)  == \/ \E id \in MsgIds : CreateHeader(t, id)
              \/ CreatePayload(t) \/ CreateFails(t) \/ Abandon(t)
Publish(t) == \/ PublishSnapshot(t) \/ PublishStamp(t) \/ PublishTarget(t)
              \/ PublishEnqueue(t) \/ PublishDrop(t)
Send(t)    == \/ \E m \in Modules : SendTo(t, m)
              \/ SendEnqueue(t) \/ SendFails(t)
WakeUp(t)  == \/ \E m \in Modules : WakeCreate(t, m)
              \/ WakeEnqueue(t) \/ WakeDrop(t)
Resub(t)   == \E id \in MsgIds, m \in Modules : Subscribe(t, id, m) \/ Unsubscribe(t, id, m)
Drop(t)    == ReleaseDecrement(t) \/ ReleasePayload(t) \/ ReleaseHeader(t)
Loop(t)    == Receive(t) \/ Deliver(t) \/ Skip(t) \/ HandlerReturns(t) \/ DispatchDone(t)

Next ==
  \/ \E t \in Threads : Create(t) \/ Publish(t) \/ Send(t) \/ WakeUp(t) \/ Resub(t) \/ Drop(t)
  \/ \E t \in Tasks : Loop(t)

Spec == Init /\ [][Next]_vars

(***************************************************************************)
(* What the code lets a run assume.  A thread inside a bus call goes on,   *)
(* no call waits without a bound, and a caller disposes of what it created.*)
(* A dispatch loop is never starved.  A handler returns: however often it  *)
(* calls the bus, it does not call it for ever ("Must be non-blocking").   *)
(***************************************************************************)
Dispose(t) == PublishSnapshot(t) \/ (\E m \in Modules : SendTo(t, m)) \/ Abandon(t)

Proceed(t) ==
  \/ CreatePayload(t) \/ CreateFails(t) \/ Dispose(t)
  \/ PublishStamp(t) \/ PublishTarget(t) \/ PublishEnqueue(t) \/ PublishDrop(t)
  \/ SendEnqueue(t) \/ SendFails(t) \/ WakeEnqueue(t) \/ WakeDrop(t)
  \/ Drop(t)

Advance(t) == Receive(t) \/ Deliver(t) \/ Skip(t)

FairSpec ==
  /\ Spec
  /\ \A t \in Threads : WF_vars(Proceed(t))
  /\ \A t \in Tasks : /\ WF_vars(Advance(t))
                      /\ SF_vars(HandlerReturns(t) \/ DispatchDone(t))

-----------------------------------------------------------------------------
(* Properties                                                              *)

HeaderType ==
  [id : MsgIds \cup {Wake, None}, receiver : Modules \cup {None},
   ref : 0..255, payload : Blocks \cup {None}]

CallType ==
  [pc : {"idle", "payload", "created", "stamp", "target", "enqueue", "send", "wake"},
   msg : Headers \cup {None}, pending : SUBSET Modules]

DispType ==
  [pc : {"receive", "dispatch", "handler", "on_wake"},
   msg : Headers \cup {None}, idx : Nat \ {0}]

RelType == [pc : {"none", "decrement", "payload", "header"}, msg : Headers \cup {None}]

HistRecord == [owed : SUBSET Modules, got : SUBSET Modules, lost : BOOLEAN]

\* The types of the bus state.
TypeOK ==
  /\ used \subseteq Headers
  /\ hdr \in [Headers -> HeaderType]
  /\ free \subseteq Blocks
  /\ subs \in [MsgIds -> SUBSET Modules]
  /\ queue \in [Tasks -> Seq(Headers)]
  /\ disp \in [Tasks -> DispType]
  /\ call \in [Threads -> CallType]
  /\ rel \in [Threads -> RelType]
  /\ hist \in [Headers -> HistRecord]

(***************************************************************************)
(* The references to a header: the call that created it and has not handed *)
(* it over, the subscribers counted but not yet enqueued, the inboxes, the *)
(* dispatch loops, and a release about to decrement.                       *)
(***************************************************************************)
Owning == {"payload", "created", "stamp", "send", "wake"}
FanOut == {"target", "enqueue"}

Calls(h)       == {t \in Threads : call[t].msg = h /\ call[t].pc \in Owning}
Pending(h)     == {m \in Modules : \E t \in Threads : /\ call[t].msg = h
                                                      /\ call[t].pc \in FanOut
                                                      /\ m \in call[t].pending}
Inboxes(h)     == {t \in Tasks : \E i \in DOMAIN queue[t] : queue[t][i] = h}
Dispatching(h) == {t \in Tasks : disp[t].msg = h}
Releasing(h)   == {t \in Threads : rel[t] = Release(h)}
Freeing(h)     == {t \in Threads : rel[t].msg = h /\ rel[t].pc \in {"payload", "header"}}

RefCount(h) == Cardinality(Calls(h)) + Cardinality(Pending(h)) + Cardinality(Inboxes(h))
               + Cardinality(Dispatching(h)) + Cardinality(Releasing(h))

\* ref_count counts the references: no interleaving of publishers, inboxes
\* and dispatch loops makes it drift from the number of holders.
RefCountExact == \A h \in used : RefCount(h) > 0 => hdr[h].ref = RefCount(h)

\* A slot that somebody still refers to, or is about to free, is never handed
\* out again by header_alloc, and only one thread frees it, after the last reference.
NoUseAfterFree ==
  \A h \in Headers :
    /\ RefCount(h) > 0 => h \in used /\ Freeing(h) = {}
    /\ Freeing(h) # {} => h \in used /\ Cardinality(Freeing(h)) = 1

\* Whoever can still read a message finds the payload it was created with:
\* hsys_pool_free comes after the last handler, and no two messages share a block.
PayloadAlive ==
  /\ \A t \in Tasks : disp[t].msg # None =>
       LET h == disp[t].msg
       IN hdr[h].id \in PayloadIds <=> hdr[h].payload # None
  /\ \A g, h \in Headers : hdr[g].payload # None =>
       /\ hdr[g].payload \notin free
       /\ hdr[g].payload = hdr[h].payload => g = h

\* By the time a header is freed, every module subscribed when it was published
\* (the only one, when the message is a direct one), or the subscribed module it
\* was sent to, has been given it, unless an inbox refused it or the module
\* unsubscribed meanwhile.
DeliveredToAll ==
  \A t \in Threads :
    LET h == rel[t].msg
    IN rel[t].pc \in {"payload", "header"} => hist[h].owed = {}

\* One publish reaches a module at most once, however many subscribers share its
\* task (the "N^2 deliveries" hsys_msg_publish de-duplicates against).
AtMostOnce ==
  [][\A t \in Tasks :
       disp[t].pc = "dispatch" /\ disp'[t].pc = "handler"
         => Candidate(t) \notin hist[disp[t].msg].got]_vars

\* No header outlives its references: one is lost to the slab only by a send
\* to one module whose inbox had no room (hsys_msg_send releases nothing).
NothingLeaks == \A h \in used : RefCount(h) > 0 \/ Freeing(h) # {} \/ hist[h].lost

\* Every header in use is eventually back in the slab.
HeadersComeBack == \A h \in Headers : h \in used ~> h \notin used
=============================================================================
