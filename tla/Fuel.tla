-------------------------------- MODULE Fuel --------------------------------
(***************************************************************************)
(* The fuel module (module_fuel.cpp) and the state machine of its pump     *)
(* drivers (pumps/), which recognises a transaction from the frames of the *)
(* dispenser's display and the debounced switch of the nozzle.  Frames     *)
(* arrive in a queue per nozzle from another thread, the switch changes a  *)
(* flag from a third; both wake the module, which drains the queues in its *)
(* own task and asks TimerModule to be woken a second later.               *)
(*                                                                         *)
(* A frame shows the volume and the price of what has been delivered, zero *)
(* between the lift and the first drop; the sale it belongs to is only for *)
(* the properties.  Abstracted: the clock, which is counted in units of    *)
(* the four delays of the drivers; the fuel type and unit price, which do  *)
(* not change; MsgNozzleState, which follows the state of the machine.     *)
(***************************************************************************)
EXTENDS TimerModule, PumpDisplay

CONSTANTS
  Nozzles,      \* 0..FUEL_MAX_NOZZLES-1
  FrameDepth,   \* FUEL_FRAME_QUEUE_DEPTH
  Settle, Quiet, Late, Short,   \* 100, 500, 700 and 4000 ms
  MinCount,     \* 10: fewer increments in a short time are no transaction
  UnitPrice     \* hundredths of a rupee for a litre

ASSUME FuelAssumption ==
  /\ Nozzles \subseteq Nat /\ Nozzles # {} /\ IsFiniteSet(Nozzles)
  /\ FrameDepth \in Nat \ {0} /\ MinCount \in Nat /\ UnitPrice \in Nat
  /\ Settle \in Nat /\ Quiet \in Nat /\ Late \in Nat /\ Short \in Nat
  /\ Settle <= Quiet /\ Quiet <= Late /\ Late < Short
  /\ None \notin [sale : Nat, unit : Nat, volume : Nat, total : Nat]

VARIABLES
  frames,    \* _frame_queue
  switch,    \* _nozzle_state: whether the nozzle is up
  shown,     \* display_data: the last frame taken from the queue, as the driver left it
  pump,      \* the driver's statics: see NoPump
  pass,      \* _process_queues: whether it runs, and the nozzles it has still to drain
  woken,     \* a wake token is queued
  pumped     \* the MsgFuelPumped published of each nozzle

fuelVars == <<frames, switch, shown, pump, pass, woken, pumped>>

Frame(sale, volume, total) ==
  [sale |-> sale, unit |-> UnitPrice, volume |-> volume, total |-> total]

Blank      == Frame(0, 0, 0)
FirstOf(S) == CHOOSE n \in S : \A m \in S : n <= m

\* validated, the one before it, and what will be published; the increments counted;
\* the two machines; and how long ago their time stamps were set, up to the age from
\* which the delay they are compared with is over.
NoPump == [validated |-> Blank, prev |-> Blank, committed |-> Blank, count |-> 0,
           value |-> "unknown", nozzle |-> "unknown",
           valueAge |-> Settle + 1, pumpingAge |-> Quiet + 1, nozzleAge |-> Short]

FuelInit ==
  /\ frames = [n \in Nozzles |-> <<>>]
  /\ switch = [n \in Nozzles |-> FALSE]
  /\ shown = [n \in Nozzles |-> None]
  /\ pump = [n \in Nozzles |-> NoPump]
  /\ pass = [runs |-> FALSE, left |-> {}]
  /\ woken = FALSE
  /\ pumped = [n \in Nozzles |-> <<>>]

-----------------------------------------------------------------------------
(* The pump driver.  p is the pump's record, up the switch.                *)

\* _data_validate: a frame that shows something replaces the last one.
Validated(p, f) == IF f.volume = 0 \/ f.total = 0 THEN p
                   ELSE [p EXCEPT !.prev = p.validated, !.validated = f]

Rises(p) == p.validated.total > p.prev.total
Rests(p) == p.validated.total = p.prev.total

Counted(p, up) == IF p.validated = Blank \/ ~up THEN 0
                  ELSE IF Rises(p) /\ p.count < MinCount THEN p.count + 1 ELSE p.count

\* The count the machine of the nozzle compares: sanki's has it from before the reset.
Compared(p, up) == IF Driver = "sanki" /\ ~up /\ p.validated # Blank THEN p.count
                   ELSE Counted(p, up)

\* The machine of the displayed value.
ValueStep(p) ==
  CASE p.value = "pumping" /\ Rises(p) -> [p EXCEPT !.pumpingAge = 0]
    [] p.value = "pumping" /\ Rests(p) /\ p.pumpingAge > Quiet ->
         [p EXCEPT !.value = "waiting", !.valueAge = 0]
    [] p.value = "waiting" /\ Rises(p) ->
         [p EXCEPT !.value = "pumping", !.valueAge = 0, !.pumpingAge = 0]
    [] p.value = "unknown" /\ Rises(p) -> [p EXCEPT !.value = "pumping", !.valueAge = 0]
    [] OTHER -> p

\* _update_data
Updated(p) == IF \/ p.validated.volume > p.committed.volume
                 \/ p.validated.total > p.committed.total
              THEN [p EXCEPT !.committed = p.validated] ELSE p

\* Variant of Committed: what is committed never gets less.
CommittedMore(p) == Updated(p)

\* _commit_data
Committed(p) == [p EXCEPT !.committed = p.validated]

\* Variant of TooShort: few increments are no transaction however long they took.
TooShortEither(p, count) == p.nozzleAge < Short \/ count < MinCount

TooShort(p, count) == p.nozzleAge < Short /\ count < MinCount

StopIsOver(p) == \/ p.value = "waiting" /\ p.valueAge > Settle
                 \/ p.nozzleAge > Late

\* The machine of the nozzle.
NozzleStep(p, up, count) ==
  CASE p.nozzle = "pumping" /\ ~up /\ TooShort(p, count) ->
         [p EXCEPT !.nozzle = "unknown", !.nozzleAge = 0]
    [] p.nozzle = "pumping" /\ ~up /\ ~TooShort(p, count) ->
         [Committed(p) EXCEPT !.nozzle = "stopping", !.nozzleAge = 0]
    [] p.nozzle = "stopping" /\ StopIsOver(p) ->
         [p EXCEPT !.nozzle = "stopped", !.nozzleAge = 0]
    [] p.nozzle = "stopping" /\ ~StopIsOver(p) -> Updated(p)
    [] p.nozzle = "stopped" -> [p EXCEPT !.nozzle = "unknown", !.nozzleAge = 0]
    [] p.nozzle = "unknown" /\ up -> [p EXCEPT !.nozzle = "pumping", !.nozzleAge = 0]
    [] OTHER -> p

\* _process_state_machine
Machine(p, up) == NozzleStep(ValueStep([p EXCEPT !.count = Counted(p, up)]), up, Compared(p, up))

-----------------------------------------------------------------------------
(* The module.                                                             *)

\* _on_distap_frame, in the thread of the display tap.
FrameArrives(n, f) ==
  /\ frames' = IF Len(frames[n]) < FrameDepth THEN [frames EXCEPT ![n] = Append(@, f)] ELSE frames
  /\ woken' = TRUE
  /\ UNCHANGED <<timerVars, switch, shown, pump, pass, pumped>>

\* _on_nozzle_up and _on_nozzle_down, in the thread of the debounce timer.
SwitchTurns(n, up) ==
  /\ switch' = [switch EXCEPT ![n] = up]
  /\ woken' = TRUE
  /\ UNCHANGED <<timerVars, frames, shown, pump, pass, pumped>>

AlarmHandled ==
  /\ ~pass.runs /\ alarms["fuel"] > 0
  /\ alarms' = [alarms EXCEPT !["fuel"] = @ - 1]
  /\ woken' = TRUE
  /\ UNCHANGED <<slots, requests, tick, missed, frames, switch, shown, pump, pass, pumped>>

\* on_wake: _stop_tick_timer
PassBegins ==
  /\ ~pass.runs /\ woken
  /\ woken' = FALSE
  /\ Ask(TimerStop("fuel"))
  /\ pass' = [runs |-> TRUE, left |-> Nozzles]
  /\ UNCHANGED <<slots, tick, alarms, frames, switch, shown, pump, pumped>>

Processed(f) == [f EXCEPT !.total = Total(f)]

\* What the driver leaves of a frame.  A rejected total above the expected one would only
\* grow, and be rejected again.
Kept(f) == IF ~Accepted(f) /\ Total(f) > Expected(f) THEN f ELSE Processed(f)

\* One turn of the loop: also without a frame, the machine runs on the last one.
Turn(n) ==
  /\ pass.left # {} /\ n = FirstOf(pass.left)
  /\ LET received == frames[n] # <<>>
         f == IF received THEN Head(frames[n]) ELSE shown[n]
     IN /\ frames' = IF received THEN [frames EXCEPT ![n] = Tail(@)] ELSE frames
        /\ shown' = IF f = None THEN shown ELSE [shown EXCEPT ![n] = Kept(f)]
        /\ IF f = None \/ ~Accepted(f) THEN UNCHANGED <<pump, pumped>>
           ELSE LET p == Machine(Validated(pump[n], Processed(f)), switch[n])
                IN /\ pump' = [pump EXCEPT ![n] = p]
                   /\ pumped' = IF pump[n].nozzle = "stopped"
                                THEN [pumped EXCEPT ![n] = Append(@, p.committed)] ELSE pumped
        /\ pass' = IF received THEN pass ELSE [pass EXCEPT !.left = @ \ {n}]
  /\ UNCHANGED <<timerVars, switch, woken>>

\* _start_tick_timer
PassEnds ==
  /\ pass.runs /\ pass.left = {}
  /\ Ask(TimerStart("fuel", FALSE, FALSE))
  /\ pass' = [pass EXCEPT !.runs = FALSE]
  /\ UNCHANGED <<slots, tick, alarms, frames, switch, shown, pump, woken, pumped>>

FuelTask == AlarmHandled \/ PassBegins \/ PassEnds \/ \E n \in Nozzles : Turn(n)
=============================================================================
