------------------------------ MODULE Containers ------------------------------
(***************************************************************************)
(* A container in memory and its handler: visit_type asks one opt_read     *)
(* after the other whether the type of a variable is the handler's         *)
(* (src/src/main.rs, 499-640), and the one that says so takes the visit.   *)
(* `which` says which; the parts of the others do not move.  What all that *)
(* have elements promise is Iteration.                                     *)
(***************************************************************************)
EXTENDS RbTree

CONSTANTS
    Keys, Buckets, ItemSize, Ctrl, EmptyGroup, EmptyGroupDumped,    \* HashbrownMap
    ListNodes, DataOfs,                                             \* UnorderedMap
    ItemSizes, Blocks, Capacities, TornKinds, Texts, Inline, Limit, OverflowChecks,   \* Vectors
    B, Enums                                                        \* Variants

VARIABLES
    which,
    map, tags, entries, ctrl, bucket_mask, n_buckets, ctrl_start, data_end,
    before_begin, next, element_count, counted, node, i, max,
    kind, size, block, len, cap, words, todo, begin, end, alloc_end, cursor, claims,
    enm, stored, bytes, pos, variant,
    known, lost, given, phase       \* of the one that is visited

HashMap         == INSTANCE HashbrownMap
CppUnorderedMap == INSTANCE UnorderedMap
Vector          == INSTANCE Vectors
Enum            == INSTANCE Variants

ASSUME ContainersAssumption ==
    /\ HashMap!HashbrownAssumption /\ CppUnorderedMap!UnorderedAssumption
    /\ Vector!VectorsAssumption /\ Enum!VariantsAssumption

hash_vars    == <<map, tags, entries, ctrl, bucket_mask, n_buckets, ctrl_start, data_end>>
list_vars    == <<before_begin, next, element_count, counted, node, i, max>>
vector_vars  == <<kind, size, block, len, cap, words, todo, begin, end, alloc_end, cursor, claims>>
variant_vars == <<enm, stored, bytes, pos, variant>>
all_vars     == <<which, vars, hash_vars, list_vars, vector_vars, variant_vars, known, lost, given, phase>>

-----------------------------------------------------------------------------
(* Those that are not visited.                                              *)
One(S) == CHOOSE e \in S : TRUE
NoTree    == tree = One(Trees) /\ mapped = {} /\ count = 0 /\ cur_n = Nil /\ p = Nil /\ status = "done" /\ visited = <<>>
NoVector  == Vector!Init /\ kind = One(DOMAIN ItemSizes) /\ size = One(ItemSizes[kind])
NoVariant == /\ enm = One(Enums) /\ stored = Enum!None /\ bytes = [b \in 0..enm.width |-> 0]
             /\ pos = 0 /\ variant = Enum!None

\* The handlers that ask the debug information for more of the items than their type.
LookedUp == {"std::vector", "Vec", "ThinVector"}

\* The tree is one that RbTree starts with: no operation is half done but for the count.
Start ==
    /\ which \in {"CppMap", "HashMap", "CppUnorderedMap", "Vector", "Enum"}
    /\ IF which = "CppMap" THEN Init ELSE NoTree
    /\ HashMap!Init /\ CppUnorderedMap!Init
    /\ IF which = "Vector" THEN Vector!Init ELSE NoVector
    /\ IF which = "Enum" THEN Enum!Init ELSE NoVariant
    /\ which = "HashMap" \/ (which = "Vector" /\ kind \in LookedUp) \/ known

no_map    == <<which, hash_vars, list_vars, vector_vars, variant_vars, known, lost, given, phase>>
no_hash   == <<which, vars, list_vars, vector_vars, variant_vars, lost>>
no_list   == <<which, vars, hash_vars, vector_vars, variant_vars, known>>
no_vector == <<which, vars, hash_vars, list_vars, variant_vars>>
no_enum   == <<which, vars, hash_vars, list_vars, vector_vars, known, lost, given>>

\* The program goes on with its container, until the dump is taken.
Program ==
    \/ which = "HashMap" /\ (HashMap!Program \/ HashMap!opt_read) /\ UNCHANGED no_hash
    \/ which = "CppUnorderedMap" /\ (CppUnorderedMap!Program \/ CppUnorderedMap!opt_read) /\ UNCHANGED no_list
    \/ which = "Vector" /\ (Vector!Program \/ Vector!opt_read) /\ UNCHANGED no_vector
    \/ which = "Enum" /\ (Enum!Program \/ Enum!Dump) /\ UNCHANGED no_enum

\* The steps of the analyser, which is one thread and runs whenever it can.
Analyse ==
    \/ which = "CppMap" /\ Next /\ UNCHANGED no_map
    \/ which = "HashMap" /\ HashMap!Handler /\ UNCHANGED no_hash
    \/ which = "CppUnorderedMap" /\ CppUnorderedMap!Handler /\ UNCHANGED no_list
    \/ which = "Vector" /\ Vector!Handler /\ UNCHANGED no_vector
    \/ which = "Enum" /\ Enum!Handler /\ UNCHANGED no_enum

Move == Program \/ Analyse
ContainersSpec == Start /\ [][Move]_all_vars /\ WF_all_vars(Analyse)

-----------------------------------------------------------------------------
(* Types of the one that is visited.                                        *)
ContainerTypeOK ==
    CASE which = "CppMap" -> TypeOK
      [] which = "HashMap" -> HashMap!TypeOK
      [] which = "CppUnorderedMap" -> CppUnorderedMap!TypeOK
      [] which = "Vector" -> Vector!TypeOK
      [] which = "Enum" -> Enum!TypeOK

(* What Iteration says of the one that is visited.                          *)
Elements ==
    CASE which = "CppMap" -> Nodes(tree)
      [] which = "HashMap" -> HashMap!Elements
      [] which = "CppUnorderedMap" -> CppUnorderedMap!Elements
      [] which = "Vector" -> Vector!Elements
      [] which = "Enum" -> {}
Whole ==
    CASE which = "CppMap" -> count = tree.n /\ mapped = Nodes(tree) \cup {Header(tree)}
      [] which = "HashMap" -> HashMap!Whole
      [] which = "CppUnorderedMap" -> CppUnorderedMap!Whole
      [] which = "Vector" -> Vector!Whole
      [] which = "Enum" -> TRUE
Given ==
    CASE which = "CppMap" -> (IF count > tree.n THEN <<>> ELSE visited)     \* an item was being erased
      [] which = "Vector" -> Vector!Given
      [] OTHER -> given
Stage ==
    CASE which = "CppMap" -> (IF status \in {"done", "err"} THEN "over" ELSE "dumped")
      [] which = "HashMap" -> HashMap!Stage
      [] which = "CppUnorderedMap" -> CppUnorderedMap!Stage
      [] which = "Vector" -> Vector!Stage
      [] which = "Enum" -> phase
Contents == INSTANCE Iteration WITH Places <- Nat, items <- Elements, whole <- Whole, given <- Given, phase <- Stage

(* Each element that is stored is visited once, at its address, and nothing *)
(* else (main.rs:534-611): the trees, the tables, the lists and the vectors *)
(* all implement Iteration.                                                 *)
ImplementsIteration == Contents!Spec

(* Every visit comes to an end: the loops run out of nodes, of buckets, of  *)
(* bytes and of variants, also past the last node of a tree, where the code *)
(* passes through the header (gnu_std_cxx.rs:233, rust.rs:148, main.rs:571, *)
(* 545, 766).  Only of a map whose last item was being erased the code      *)
(* looks for the item after the header, and finds the header, for ever.     *)
Endless == which = "CppMap" /\ tree.n = 0 /\ count = 1 /\ Header(tree) \in mapped
Visiting ==
    IF which = "CppMap" THEN status \notin {"done", "err", "panicked"} ELSE phase \in {"read", "dumped", "failing"}
VisitEnds == Visiting /\ ~Endless ~> ~Visiting

(* What is claimed of a container that is whole in the dump, taken between  *)
(* two of the program's operations, or inside one of a Vec or a String, is  *)
(* what it owns at that time: its entries but not those removed or left     *)
(* behind, its bytes but not those of its owner (rust.rs:162,               *)
(* main.rs:504-548, 646).                                                   *)
ClaimsAreExact ==
    /\ which = "HashMap" => HashMap!EveryEntryOnce
    /\ which = "Vector" => Vector!EveryByteOnce

(* A visit fails or panics only for one of the causes listed with the       *)
(* modules: the assertions of the loops hold in any dump they are not about *)
(* (main.rs:499, 540, 558, 571, 585, 595, 908), and the items' type must be *)
(* one that is found and has a size where the code looks it up or divides   *)
(* by it (rust.rs:91, 135, main.rs:544, 596, mrustc.rs:108).                *)
StopsOnlyWithCause ==
    /\ which = "CppMap" => NeverNil
    /\ which = "HashMap" => HashMap!StopsOnlyWithCause
    /\ which = "CppUnorderedMap" => CppUnorderedMap!NeverPanics
    /\ which = "Vector" => Vector!FailsOnlyWithCause /\ Vector!PanicsOnlyWithCause

(* The variant found is the one stored (main.rs:766-795, mrustc.rs:6-51).   *)
VariantFound == which = "Enum" => Enum!VariantFound
=============================================================================
