------------------------------ MODULE MCOutput ------------------------------
(***************************************************************************)
(* OutputLog on a small instance, for behaviours of up to MaxOps           *)
(* operations.                                                             *)
(***************************************************************************)
EXTENDS OutputLog

CONSTANT MaxOps     \* operations in a behaviour

VARIABLE ops        \* the number of operations so far

(* A path deeper than the prefix limit, its parent, and an unrelated one.   *)
MCNode == {"f", "g", "*"}
MCPaths == {<<"f">>, <<"f", "*">>, <<"f", "*", "g">>, <<"g">>}

(* Addresses and sizes on both sides of an atom's boundary, a size of zero, *)
(* and an address whose area reaches the end of the address space.          *)
MCAddrs == {3, 4, 27}
MCSizes == {0, 3}
MCTypes == {"A"}

MCInit == LogInit /\ ops = 0
MCNext == ops < MaxOps /\ ops' = ops + 1 /\ LogNext
MCSpec == MCInit /\ [][MCNext]_<<logvars, ops>>
=============================================================================
