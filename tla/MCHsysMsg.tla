------------------------------ MODULE MCHsysMsg ------------------------------
(* A small instance of the bus: two tasks, T1 with two modules.            *)
EXTENDS HsysMsg, TLC

CONSTANTS T1, T2, F1, a, b, c, lost, note, cmd

MCTasks    == {T1, T2}
MCForeign  == {F1}
MCModules  == {a, b, c, lost}      \* lost is bound to no task
MCBound    == T1 :> <<a, b>> @@ T2 :> <<c>>
MCDepth1   == [t \in MCTasks |-> 1]
MCIds      == {note, cmd}
MCSubs     == note :> {a, b, c, lost} @@ cmd :> {b, c}

Slots == Permutations(Headers) \cup Permutations(Blocks)
=============================================================================
