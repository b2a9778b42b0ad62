---------------------------- MODULE TimerModule ----------------------------
(***************************************************************************)
(* The timer service (module_timer.cpp): modules ask for a timer by        *)
(* messages that its task handles; every 100 ms the callback of a soft     *)
(* timer, in the thread of the system's timers, walks the slots and sends  *)
(* the alarms.  A mutex guards the slots, but not while an alarm is sent.  *)
(*                                                                         *)
(* Abstracted: durations (a running timer may become due at any moment),   *)
(* the tags and elapsed times that alarms carry, the answers to the        *)
(* requests, which no module here waits for, and requests that are         *)
(* invalid.                                                                *)
(***************************************************************************)
EXTENDS Naturals, Sequences, FiniteSets

CONSTANTS
  Requesters,   \* the modules that ask for timers
  SlotCount,    \* MODULE_TIMER_MAX_SLOTS
  RequestDepth, \* the length of the queue of the task
  AlarmDepth,   \* the room for alarms in the queue of a requester
  None

ASSUME TimerAssumption ==
  /\ SlotCount \in Nat \ {0} /\ RequestDepth \in Nat \ {0} /\ AlarmDepth \in Nat \ {0}
  /\ None \notin [source : Requesters, repeats : BOOLEAN, due : BOOLEAN]

VARIABLES
  slots,     \* m_slots: the requester, whether it repeats, whether its time has come
  requests,  \* the messages queued for the task of the timer service
  tick,      \* the callback: the alarms it has still to send, and whether the first is sent
  alarms,    \* the alarms each requester has not handled yet
  missed     \* history: the requesters whose last request for a timer came to nothing

timerVars == <<slots, requests, tick, alarms, missed>>

TimerInit ==
  /\ slots = [i \in 1..SlotCount |-> None]
  /\ requests = <<>>
  /\ tick = [pending |-> <<>>, sent |-> FALSE]
  /\ alarms = [r \in Requesters |-> 0]
  /\ missed = {}

TimerStart(r, forced, repeats) ==
  [id |-> "Start", from |-> r, forced |-> forced, repeats |-> repeats]
TimerStop(r) == [id |-> "Stop", from |-> r]

Active(i)    == slots[i] # None
SlotsOf(r)   == {i \in 1..SlotCount : Active(i) /\ slots[i].source = r}
First(S)     == CHOOSE i \in S : \A j \in S : i <= j

-----------------------------------------------------------------------------
(* The task.                                                               *)

\* Requests are sent without looking at the result: there may be no message for one, or
\* no room in the queue within the time it waits.
Ask(m) ==
  \/ /\ Len(requests) < RequestDepth /\ requests' = Append(requests, m)
     /\ missed' = IF m.id = "Start" THEN missed \ {m.from} ELSE missed
  \/ /\ UNCHANGED requests
     /\ missed' = IF m.id = "Start" THEN missed \cup {m.from} ELSE missed

Requested == requests # <<>>
Request   == Head(requests)
Alarm     == Head(tick.pending)

\* The callback, which has sent an alarm, will release this slot: it is still that
\* requester's, and its timer does not repeat.
Clears(slot) == slot # None /\ slot.source = Alarm.dest /\ ~slot.repeats

\* _stop_timer
Released(r) == [i \in 1..SlotCount |-> IF i \in SlotsOf(r) THEN None ELSE slots[i]]

\* What a forced start leaves of the slots.
Restarted == Released(Request.from)

\* _start_timer
StartHandled ==
  /\ Requested /\ Request.id = "Start"
  /\ requests' = Tail(requests)
  /\ LET free == {i \in 1..SlotCount : Restarted[i] = None}
     IN IF (SlotsOf(Request.from) # {} /\ ~Request.forced) \/ free = {}
        THEN UNCHANGED slots
        ELSE slots' = [Restarted EXCEPT ![First(free)] =
                         [source |-> Request.from, repeats |-> Request.repeats, due |-> FALSE]]
  /\ missed' = IF tick.sent /\ Request.from = Alarm.dest /\ Clears(slots'[Alarm.slot])
               THEN missed \cup {Request.from} ELSE missed
  /\ UNCHANGED <<tick, alarms>>

StopHandled ==
  /\ Requested /\ Request.id = "Stop"
  /\ requests' = Tail(requests)
  /\ slots' = Released(Request.from)
  /\ UNCHANGED <<tick, alarms, missed>>

-----------------------------------------------------------------------------
(* Time, and the callback _on_tick.                                        *)

Expires(i) ==
  /\ Active(i) /\ ~slots[i].due
  /\ slots' = [slots EXCEPT ![i].due = TRUE]
  /\ UNCHANGED <<requests, tick, alarms, missed>>

DueSlots == {i \in 1..SlotCount : Active(i) /\ slots[i].due}

\* The alarms that are due, in the order of the slots; a timer that repeats goes on.
TickSnapshot ==
  /\ tick.pending = <<>> /\ DueSlots # {}
  /\ tick' = [pending |-> [k \in 1..Cardinality(DueSlots) |->
                LET i == CHOOSE j \in DueSlots : Cardinality({m \in DueSlots : m < j}) = k - 1
                IN [dest |-> slots[i].source, slot |-> i]],
              sent |-> FALSE]
  /\ slots' = [i \in 1..SlotCount |->
                 IF i \in DueSlots /\ slots[i].repeats THEN [slots[i] EXCEPT !.due = FALSE]
                 ELSE slots[i]]
  /\ UNCHANGED <<requests, alarms, missed>>

Sending == tick.pending # <<>> /\ ~tick.sent

TickSends ==
  /\ Sending /\ alarms[Alarm.dest] < AlarmDepth
  /\ alarms' = [alarms EXCEPT ![Alarm.dest] = @ + 1]
  /\ tick' = [tick EXCEPT !.sent = TRUE]
  /\ UNCHANGED <<slots, requests, missed>>

\* Variant of Unsent: the slot is released all the same.
UnsentReleased == [slots EXCEPT ![Alarm.slot] = None]

\* The slot stays due, for the next tick.
Unsent == slots

\* No message, or no room in the requester's queue within 50 ms.
TickCannotSend ==
  /\ Sending
  /\ tick' = [tick EXCEPT !.pending = Tail(@)]
  /\ slots' = Unsent
  /\ UNCHANGED <<requests, alarms, missed>>

\* The lock is taken again, for what may be another timer by now.
TickClears ==
  /\ tick.sent
  /\ slots' = IF Clears(slots[Alarm.slot]) THEN [slots EXCEPT ![Alarm.slot] = None] ELSE slots
  /\ tick' = [pending |-> Tail(tick.pending), sent |-> FALSE]
  /\ UNCHANGED <<requests, alarms, missed>>

TimerTicks == TickSnapshot \/ TickSends \/ TickClears \/ \E i \in 1..SlotCount : Expires(i)
TimerTask  == StartHandled \/ StopHandled
=============================================================================
