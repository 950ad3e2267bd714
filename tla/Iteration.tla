------------------------------ MODULE Iteration ------------------------------
(***************************************************************************)
(* What a container handler of visit_type promises: in a dump taken        *)
(* between any two operations of the program, each element that is stored  *)
(* is visited once, at its address, and nothing else; only a part of the   *)
(* container that is not in the dump may cut it short.                     *)
(***************************************************************************)
EXTENDS Naturals, Sequences, Functions

CONSTANT Places     \* addresses an element may be at

VARIABLES
    items,      \* the addresses of the elements
    whole,      \* all of the container is in the dump
    given,      \* the addresses visited, in order
    phase       \* "running", "dumped" or "over"

vars == <<items, whole, given, phase>>

\* The program changes the container, and then the dump is taken.
Change == phase = "running" /\ items' \subseteq Places /\ whole' \in BOOLEAN /\ UNCHANGED <<given, phase>>
Dump == phase = "running" /\ phase' = "dumped" /\ whole' \in BOOLEAN /\ UNCHANGED <<items, given>>

Give ==
    /\ phase = "dumped"
    /\ \E a \in items \ Range(given) : given' = Append(given, a)
    /\ UNCHANGED <<items, whole, phase>>
Finish ==
    /\ phase = "dumped" /\ (Range(given) = items \/ ~whole)
    /\ phase' = "over"
    /\ UNCHANGED <<items, whole, given>>

Init == items \subseteq Places /\ whole \in BOOLEAN /\ given = <<>> /\ phase \in {"running", "dumped"}
Next == Change \/ Dump \/ Give \/ Finish
Spec == Init /\ [][Next]_vars
=============================================================================
