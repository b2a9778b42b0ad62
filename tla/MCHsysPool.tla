------------------------------ MODULE MCHsysPool ------------------------------
(* Three classes, the middle one of two blocks; and the table of app.cpp,   *)
(* whose carving is checked against the limits of user_config.h.            *)
EXTENDS HsysPool, Functions

MCSize  == <<2, 3, 6>>
MCCount == <<2, 2, 1>>

ProductSize  == <<4, 32, 64, 256, 512, 2048>>
ProductCount == <<8, 32, 32, 24, 8, 2>>

ASSUME ProductTableFits ==
  /\ FoldFunction(+, 0, [c \in 1..6 |-> ProductSize[c] * ProductCount[c]]) <= 20480
  /\ FoldFunction(+, 0, ProductCount) <= 128
=============================================================================
