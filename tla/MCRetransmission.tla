-------------------------- MODULE MCRetransmission --------------------------
(* Retransmission on a small instance.  Dates are compared for equality only, so *)
(* one of them is as good as another.                                            *)
EXTENDS Retransmission

Symmetry == Permutations(Dates)
=============================================================================
