---------------------------- MODULE FuelStation ----------------------------
(***************************************************************************)
(* The fuel module and TimerModule at a dispenser: customers lift a        *)
(* nozzle, fuel flows and the display shows it, the nozzle goes back to    *)
(* its hook.  Five threads interleave: the display tap, the debounce       *)
(* timer, the task of the fuel module, the task of the timer service and   *)
(* the callback of the system's timers.                                    *)
(***************************************************************************)
EXTENDS Fuel

CONSTANTS
  LastSale,    \* bound: lifts of each nozzle
  LastAmount,  \* bound: the amount a customer takes, in portions
  Portion,     \* of so many thousandths of a litre
  Faults
  \* "noise" a frame with a wrong digit
  \* "full"  an alarm finds no message or no room
  \* "idle"  a nozzle is lifted and put back without a drop
  \* "slow"  the task of the fuel module falls behind, and frames are lost
  \* "quick" a nozzle is lifted before its last sale is over

ASSUME StationAssumption ==
  /\ Requesters = {"fuel"}
  /\ LastSale \in Nat /\ LastAmount \in Nat /\ Portion \in Nat
  /\ Faults \subseteq {"noise", "full", "idle", "slow", "quick"}

VARIABLES
  station,  \* of each nozzle: up, the sale and its amount, and how long the switch was up
  sold      \* history: the amounts of the sales that are over

stationVars == <<station, sold>>
vars == <<timerVars, fuelVars, stationVars>>

Init ==
  /\ TimerInit /\ FuelInit
  /\ station = [n \in Nozzles |-> [up |-> FALSE, sale |-> 0, amount |-> 0, age |-> 0]]
  /\ sold = [n \in Nozzles |-> <<>>]

-----------------------------------------------------------------------------
(* The nozzles.                                                            *)

Debounced(n) == switch[n] = station[n].up

Price(amount) == (UnitPrice * amount * Portion) \div 1000

Display(sale, amount) == Frame(sale, amount * Portion, Price(amount) % Rollover)

\* The module has seen what the display shows.
Seen(n) == frames[n] = <<>> /\ (station[n].sale > 0 =>
             shown[n] = Frame(station[n].sale, station[n].amount * Portion, Price(station[n].amount)))

\* What half a second is enough for.
Rested(n) == ~woken /\ ~pass.runs /\ Seen(n)

Lift(n) ==
  /\ ~station[n].up /\ station[n].sale < LastSale
  /\ "quick" \in Faults \/ (Debounced(n) /\ Rested(n) /\ pump[n].nozzle = "unknown")
  /\ station' = [station EXCEPT ![n] = [up |-> TRUE, sale |-> @.sale + 1, amount |-> 0, age |-> 0]]
  /\ UNCHANGED <<timerVars, fuelVars, sold>>

Shows(n, amount) ==
  /\ "slow" \in Faults \/ Len(frames[n]) < FrameDepth
  /\ FrameArrives(n, Display(station[n].sale, amount))

Deliver(n) ==
  /\ station[n].up /\ station[n].amount < LastAmount
  /\ station' = [station EXCEPT ![n].amount = @ + 1]
  /\ Shows(n, station[n].amount + 1)
  /\ UNCHANGED sold

\* The display goes on showing what it shows.
Refresh(n) ==
  /\ station[n].sale > 0
  /\ Shows(n, station[n].amount)
  /\ UNCHANGED stationVars

Noise(n) ==
  /\ "noise" \in Faults
  /\ Len(frames[n]) < FrameDepth
  /\ LET f == Display(station[n].sale, station[n].amount)
     IN FrameArrives(n, [f EXCEPT !.total = @ + 7])
  /\ UNCHANGED stationVars

Hang(n) ==
  /\ station[n].up
  /\ "idle" \in Faults \/ station[n].amount > 0
  /\ "quick" \in Faults \/ Debounced(n)
  /\ station' = [station EXCEPT ![n].up = FALSE]
  /\ sold' = [sold EXCEPT ![n] = Append(@, station[n].amount)]
  /\ UNCHANGED <<timerVars, fuelVars>>

\* The switch has to keep still for 500 ms.
Debounce(n) ==
  /\ ~Debounced(n)
  /\ "slow" \in Faults \/ Rested(n)
  /\ SwitchTurns(n, station[n].up)
  /\ UNCHANGED stationVars

-----------------------------------------------------------------------------
(* Time.                                                                   *)

Older(age, oldest) == IF age < oldest THEN age + 1 ELSE age

Clock ==
  /\ "slow" \in Faults \/ \A n \in Nozzles : Rested(n)
  /\ pump' = [n \in Nozzles |->
       [pump[n] EXCEPT !.valueAge = Older(@, Settle + 1), !.pumpingAge = Older(@, Quiet + 1),
                       !.nozzleAge = Older(@, Short)]]
  /\ station' = [n \in Nozzles |->
       [station[n] EXCEPT !.age = IF switch[n] THEN Older(@, Short) ELSE @]]
  /\ UNCHANGED <<timerVars, frames, switch, shown, pass, woken, pumped, sold>>

-----------------------------------------------------------------------------
Customer == \E n \in Nozzles : Lift(n) \/ Deliver(n) \/ Hang(n)

DisplayTap == \E n \in Nozzles : Refresh(n) \/ Noise(n) \/ Debounce(n)

Module == FuelTask /\ UNCHANGED stationVars

Service == TimerTask /\ UNCHANGED <<fuelVars, stationVars>>

SystemTimer == TimerTicks /\ UNCHANGED <<fuelVars, stationVars>>

AlarmFails == "full" \in Faults /\ TickCannotSend /\ UNCHANGED <<fuelVars, stationVars>>

Next == Customer \/ DisplayTap \/ Clock \/ Module \/ Service \/ SystemTimer \/ AlarmFails

Spec == Init /\ [][Next]_vars

-----------------------------------------------------------------------------
(* Properties                                                              *)

\* "START is required for the watchdog path": as long as a transaction is not over,
\* the module will be woken: a token or an alarm is queued, or its timer runs or has
\* been asked for; unless its last request for one was dropped, or its timer was released
\* by a callback that took it for the one whose alarm it had just sent.
WatchdogRuns ==
  (\E n \in Nozzles : pump[n].nozzle # "unknown") =>
    \/ woken \/ pass.runs \/ alarms["fuel"] > 0 \/ SlotsOf("fuel") # {}
    \/ \E i \in DOMAIN requests : requests[i] = TimerStart("fuel", FALSE, FALSE)
    \/ "fuel" \in missed

\* "On confirmed complete transaction": what is published is a sale that is over, with the
\* volume and the price of all that was delivered, each sale at most once and in the order
\* of sales.
PumpedIsSold ==
  \A n \in Nozzles : \A i \in DOMAIN pumped[n] :
    /\ pumped[n][i].sale \in DOMAIN sold[n]
    /\ LET amount == sold[n][pumped[n][i].sale]
       IN pumped[n][i].volume = amount * Portion /\ pumped[n][i].total = Price(amount)
    /\ i > 1 => pumped[n][i - 1].sale < pumped[n][i].sale

\* The module has come to rest at a nozzle that is on its hook.
AtRest(n) == /\ ~station[n].up /\ ~switch[n] /\ frames[n] = <<>> /\ ~woken /\ ~pass.runs
             /\ pump[n].nozzle = "unknown"

\* No sale is forgotten, but those too short to be one.
SoldIsPumped ==
  \A n \in Nozzles :
    AtRest(n) /\ station[n].sale > 0 /\ station[n].age >= Short =>
      \E i \in DOMAIN pumped[n] : pumped[n][i].sale = station[n].sale
=============================================================================
