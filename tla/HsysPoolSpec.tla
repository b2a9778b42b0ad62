----------------------------- MODULE HsysPoolSpec -----------------------------
(***************************************************************************)
(* What hsys_pool.h promises of the buffer pool, with no word about free   *)
(* lists and addresses: a block is lent to one owner at a time, an         *)
(* allocation gets the smallest available block that fits, and it is       *)
(* refused only when no block would do.                                    *)
(***************************************************************************)
EXTENDS Naturals

CONSTANTS Blocks,    \* the buffers
          Capacity,  \* [Blocks -> Nat]: their sizes in bytes
          Requests,  \* payload sizes asked for
          Null       \* nullptr

VARIABLES lent,      \* bytes asked for, for each block; 0 when it is in the pool
          ret        \* what the last allocation returned

Free(b) == lent[b] = 0
Fits(n) == {b \in Blocks : Free(b) /\ Capacity[b] >= n}

Init == lent = [b \in Blocks |-> 0] /\ ret = Null

Take(n) ==
  \E b \in Fits(n) :
    /\ \A x \in Fits(n) : Capacity[b] <= Capacity[x]
    /\ lent' = [lent EXCEPT ![b] = n]
    /\ ret' = b

Refuse(n) == Fits(n) = {} /\ ret' = Null /\ UNCHANGED lent

Give(b) == ~Free(b) /\ lent' = [lent EXCEPT ![b] = 0] /\ UNCHANGED ret

Next == \/ \E n \in Requests : Take(n) \/ Refuse(n)
        \/ \E b \in Blocks : Give(b)

Spec == Init /\ [][Next]_<<lent, ret>>
=============================================================================
