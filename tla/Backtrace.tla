------------------------------ MODULE Backtrace ------------------------------
(***************************************************************************)
(* What the loop of `main` over the call frames is for (src/src/main.rs,   *)
(* 110-146): from the innermost activation outwards, each requested        *)
(* variable of the function of each is found where that activation has it, *)
(* until there is nothing more to look for.                                *)
(***************************************************************************)
EXTENDS Naturals, Sequences

CONSTANTS
    Processes,  \* what each process holds: its activations, innermost first,
                \* and the command line
    None        \* no symbol

VARIABLES
    process,    \* the process of the dump
    frame,      \* the activation reached
    located,    \* <<activation, argument, address>> of what was visited
    over        \* the loop has ended

vars == <<process, frame, located, over>>

Chain == Processes[process].chain
Args == Processes[process].args
Asked == {i \in DOMAIN Args : Args[i].fcn = Chain[frame].symbol}
LocatedHere == {i \in DOMAIN Args : \E a \in located : a[1] = frame /\ a[2] = i}
AllLocated == \A i \in DOMAIN Args : \E a \in located : a[2] = i
HasPlace(i) == Args[i].var \in DOMAIN Chain[frame].locals

Locate ==
    /\ ~over
    /\ \E i \in Asked \ LocatedHere :
          HasPlace(i) /\ located' = located \cup {<<frame, i, Chain[frame].locals[Args[i].var]>>}
    /\ UNCHANGED <<process, frame, over>>

ToCaller ==
    /\ ~over /\ LocatedHere = Asked /\ frame < Len(Chain)
    /\ ~AllLocated \/ Chain[frame].symbol = None
    /\ frame' = frame + 1
    /\ UNCHANGED <<process, located, over>>

Stop ==
    /\ ~over /\ LocatedHere = Asked
    /\ AllLocated \/ frame = Len(Chain)
    /\ over' = TRUE
    /\ UNCHANGED <<process, frame, located>>

\* A variable that is nowhere in memory, and a stack that is not in the dump.
GiveUp ==
    /\ ~over
    /\ (\E i \in Asked : ~HasPlace(i)) \/ ~Processes[process].complete
    /\ over' = TRUE
    /\ UNCHANGED <<process, frame, located>>

Init == process \in DOMAIN Processes /\ frame = 1 /\ located = {} /\ over = FALSE
Next == Locate \/ ToCaller \/ Stop \/ GiveUp
Spec == Init /\ [][Next]_vars
=============================================================================
