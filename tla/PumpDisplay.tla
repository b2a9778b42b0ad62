---------------------------- MODULE PumpDisplay ----------------------------
(***************************************************************************)
(* What the pump drivers make of a frame of the dispenser's display        *)
(* (_process_data in pumps/): the display has room for six digits of the   *)
(* price, so that the driver has to find out from the volume and the unit  *)
(* price how often it has rolled over; and the identifier that a           *)
(* transaction gets (module_fuel.cpp).                                     *)
(*                                                                         *)
(* Differences are unsigned in the code: one that is negative here is      *)
(* there larger than any tolerance.  Prices stay below 2^32.               *)
(***************************************************************************)
EXTENDS Integers

CONSTANT Driver  \* "sanki", "censtar6", or "other": the remaining four

ASSUME DriverAssumption == Driver \in {"sanki", "censtar6", "other"}

Rollover  == 1000000
LeastUnit == 20000

Tolerance == IF Driver = "censtar6" THEN 9 ELSE 1

Expected(d) == (d.unit * d.volume) \div 1000

\* The shown total is below the expected one, by no more than that.
Within(d, total, most) == Expected(d) - total \in 0..most

\* corrected_total_price
CorrectedTotal(total) ==
  LET cents == total % 100
  IN CASE (total - cents) % 1000 = 0 -> (total - cents) \div 100
       [] (total - cents) % 1000 # 0 /\ (total - cents + 100) % 1000 = 0 ->
            (total - cents + 100) \div 100
       [] OTHER -> total

\* How often the display has rolled over.
Wraps(expected) == IF Driver # "sanki" /\ expected >= 10 * Rollover
                   THEN expected \div (10 * Rollover) ELSE expected \div Rollover

\* The total that _process_data leaves, also when it rejects the frame.
Total(d) ==
  CASE d.unit < LeastUnit \/ Within(d, d.total, Tolerance) -> d.total
    [] d.unit >= LeastUnit /\ ~Within(d, d.total, Tolerance)
       /\ d.total = 0 /\ d.volume > 0 -> CorrectedTotal(Expected(d))
    [] d.unit >= LeastUnit /\ ~Within(d, d.total, Tolerance)
       /\ ~(d.total = 0 /\ d.volume > 0) /\ Expected(d) >= Rollover ->
         d.total + Wraps(Expected(d)) * Rollover
    [] OTHER -> d.total

Accepted(d) ==
  /\ d.unit >= LeastUnit
  /\ \/ Within(d, d.total, Tolerance)
     \/ d.total = 0 /\ d.volume > 0
     \/ Expected(d) >= Rollover /\ Within(d, Total(d), 100)
  /\ d.volume = 0 <=> Total(d) = 0

-----------------------------------------------------------------------------
\* _compute_ne_id: from the seconds since the epoch of the identifiers, and the code
\* of the nozzle.
NeId(seconds, code) == (seconds \div 100) * 10000 + (seconds % 100) + code * 100
=============================================================================
