----------------------------- MODULE UnorderedMap -----------------------------
(***************************************************************************)
(* A std::unordered_map in memory, and the handler that visits its items   *)
(* (src/src/type_handlers/gnu_std_cxx.rs, 247-316; src/src/main.rs,        *)
(* 565-578).  All its nodes are in one list, behind _M_before_begin; the   *)
(* count is a word apart, which the program updates in a second step, and  *)
(* the dump may be taken between the two.                                  *)
(***************************************************************************)
EXTENDS Integers, Sequences, Functions

CONSTANTS
    ListNodes,  \* addresses of nodes
    DataOfs     \* data_ofs: where the item of a node is

VARIABLES
    before_begin, next, element_count,      \* memory: the words of the map, of the nodes
    counted,        \* the program is between its two steps, and what is left to add
    lost,           \* the nodes that are not in the dump
    node, i, max,   \* the handler: n, its index, and the count of its ProgressTracker
    given, phase    \* as in Iteration, and "failed" or "panicked"

vars == <<before_begin, next, element_count, counted, lost, node, i, max, given, phase>>
program == <<before_begin, next, element_count, counted>>

Null == 0

UnorderedAssumption == ListNodes \subseteq Nat \ {Null} /\ DataOfs \in Nat \ {0}

-----------------------------------------------------------------------------
(* The program (external): a node goes in behind any node or at the front.  *)
Linked == DOMAIN next

Insert ==
    /\ counted = 0
    /\ \E n \in ListNodes \ Linked :
          \/ /\ next' = [m \in Linked \cup {n} |-> IF m = n THEN before_begin ELSE next[m]]
             /\ before_begin' = n
          \/ \E p \in Linked :
                /\ next' = [m \in Linked \cup {n} |-> IF m = p THEN n ELSE IF m = n THEN next[p] ELSE next[m]]
                /\ UNCHANGED before_begin
    /\ counted' = 1
    /\ UNCHANGED element_count

Erase ==
    /\ counted = 0
    /\ \E n \in Linked :
          /\ next' = [m \in Linked \ {n} |-> IF next[m] = n THEN next[n] ELSE next[m]]
          /\ before_begin' = IF before_begin = n THEN next[n] ELSE before_begin
    /\ counted' = -1
    /\ UNCHANGED element_count

Count ==
    /\ counted # 0
    /\ element_count' = element_count + counted /\ counted' = 0
    /\ UNCHANGED <<before_begin, next>>

Program ==
    /\ phase = "running"
    /\ Insert \/ Erase \/ Count
    /\ UNCHANGED <<lost, node, i, max, given, phase>>

-----------------------------------------------------------------------------
(* The handler.                                                             *)
opt_read ==
    /\ phase = "running"
    /\ \E l \in {{}} \cup {{n} : n \in Linked} : lost' = l
    /\ node' = before_begin /\ max' = element_count
    /\ phase' = "dumped"
    /\ UNCHANGED <<program, i, given>>

Allowed(k) == k <= max     \* the assertion of ProgressTracker::update

data_addr(n) == n + DataOfs

Visit ==
    /\ phase = "dumped" /\ node # Null /\ Len(given) = i
    /\ IF Allowed(i) THEN given' = Append(given, data_addr(node)) /\ UNCHANGED phase
       ELSE phase' = "panicked" /\ UNCHANGED given
    /\ UNCHANGED <<program, lost, node, i, max>>

Advance ==
    /\ phase = "dumped" /\ Len(given) = i + 1
    /\ IF node \in lost THEN phase' = "failed" /\ UNCHANGED <<node, i>>
       ELSE node' = next[node] /\ i' = i + 1 /\ UNCHANGED phase
    /\ UNCHANGED <<program, lost, max, given>>

Finish ==
    /\ phase = "dumped" /\ node = Null /\ Len(given) = i
    /\ phase' = "over"
    /\ UNCHANGED <<program, lost, node, i, max, given>>

Init ==
    /\ before_begin = Null /\ next = <<>> /\ element_count = 0 /\ counted = 0 /\ lost = {}
    /\ node = Null /\ i = 0 /\ max = 0 /\ given = <<>> /\ phase = "running"
Handler == Visit \/ Advance \/ Finish

-----------------------------------------------------------------------------
TypeOK ==
    /\ Linked \subseteq ListNodes /\ Range(next) \cup {before_begin, node} \subseteq ListNodes \cup {Null}
    /\ element_count \in Nat /\ counted \in -1..1 /\ max \in Nat /\ Len(given) \in i..i + 1
    /\ lost \subseteq ListNodes /\ given \in Seq({n + DataOfs : n \in ListNodes})
    /\ phase \in {"running", "dumped", "over", "failed", "panicked"}

(* The assertion of the progress tracker holds although the count may be    *)
(* one short of the list when the dump is taken (main.rs:571, 908).         *)
NeverPanics == phase # "panicked"

(* What Iteration says of it.                                               *)
Places == {n + DataOfs : n \in ListNodes}
Elements == {n + DataOfs : n \in Linked}
Whole == lost = {}
Stage == IF phase \in {"failed", "panicked"} THEN "over" ELSE phase
=============================================================================
