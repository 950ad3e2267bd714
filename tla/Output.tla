------------------------------- MODULE Output -------------------------------
(***************************************************************************)
(* The `Output` value that every visit writes to (src/src/main.rs): the    *)
(* usage totals of the paths through memory, the bitmap of the memory that *)
(* was visited, the set of shared pointers already followed, the counts of *)
(* top-level types and of enum variants, and the counter of visited bytes  *)
(* kept by the progress display.                                           *)
(*                                                                         *)
(* The operations are action operators, so that the walk of the dump       *)
(* (module Walk) can use them as parts of its own steps.                   *)
(***************************************************************************)
EXTENDS Naturals, Sequences, FiniteSets, Functions

CONSTANTS
    Node,              \* the nodes of a path: a field, a parent, an index, a deref
    Paths,             \* the paths a claim may carry
    Addrs,             \* addresses
    Sizes,             \* sizes in bytes
    Types,             \* formatted type names
    COVERAGE_PER_BIT,  \* bytes per bit of the coverage bitmap (16)
    PREFIX_LEVELS,     \* "Maximum of 4 levels"
    U64                \* 2^64: the arithmetic on addresses wraps here

(* Path::root() with no node is never claimed: the walk starts below it.    *)
ASSUME OutputAssumption ==
    /\ Paths \subseteq Seq(Node) \ {<<>>}
    /\ Addrs \subseteq Nat
    /\ Sizes \subseteq Nat
    /\ COVERAGE_PER_BIT \in Nat \ {0}
    /\ PREFIX_LEVELS \in Nat \ {0}
    /\ U64 \in Nat \ {0}

VARIABLES
    usage,                \* path prefix -> bytes associated with it
    used_memory,          \* the bits set in the SparseBitmap
    shared_pointers,      \* addresses of shared pointers already followed
    root_type_counts,     \* <<type, size>> -> claims of that type
    enum_variant_counts,  \* <<enum, variant>> -> instances seen
    visited_bytes         \* progress::VISITED_BYTES

vars == <<usage, used_memory, shared_pointers, root_type_counts,
          enum_variant_counts, visited_bytes>>

-----------------------------------------------------------------------------
(* `*map.entry(k).or_default() += n` on a partial function.                 *)
Entry(f, k) == IF k \in DOMAIN f THEN f[k] ELSE 0
AddTo(f, K, n) == [k \in DOMAIN f \cup K |-> Entry(f, k) + (IF k \in K THEN n ELSE 0)]

(* The atoms SparseBitmap::mark_area sets: from the one that holds `base`   *)
(* up to the one before the end rounded up.                                 *)
Mutant_RoundDown(base, len) ==
    (base \div COVERAGE_PER_BIT) .. (((base + len) % U64) \div COVERAGE_PER_BIT) - 1
Atoms(base, len) ==
    (base \div COVERAGE_PER_BIT)
      .. (((base + len + (COVERAGE_PER_BIT - 1)) % U64) \div COVERAGE_PER_BIT) - 1

(* The bytes mark_area reports as newly marked, and calculate_usage.        *)
Mutant_AllMarked(base, len) == COVERAGE_PER_BIT * Cardinality(Atoms(base, len))
NewlyMarked(base, len) ==
    COVERAGE_PER_BIT * Cardinality(Atoms(base, len) \ used_memory)
calculate_usage == COVERAGE_PER_BIT * Cardinality(used_memory)

(* Path::get_prefix, and the prefixes the popping loop of claim_raw visits. *)
get_prefix(path, len) == SubSeq(path, 1, IF Len(path) < len THEN Len(path) ELSE len)
Mutant_StopBeforeEmpty(path) == {SubSeq(path, 1, n) : n \in 1 .. Len(path)}
Prefixes(path) == {SubSeq(path, 1, n) : n \in 0 .. Len(path)}

-----------------------------------------------------------------------------
(* claim_raw: mark the memory, then associate it with the path and with     *)
(* every shorter prefix unless the caller says it is not associated.        *)
Mutant_LeafOnly(path, size, assoc) ==
    IF assoc THEN usage' = AddTo(usage, {get_prefix(path, PREFIX_LEVELS)}, size)
             ELSE usage' = usage
Associate(path, size, assoc) ==
    IF assoc THEN usage' = AddTo(usage, Prefixes(get_prefix(path, PREFIX_LEVELS)), size)
             ELSE usage' = usage

MarkAndAssociate(path, addr, size, assoc) ==
    /\ used_memory' = used_memory \cup Atoms(addr, size)
    /\ visited_bytes' = visited_bytes + NewlyMarked(addr, size)
    /\ Associate(path, size, assoc)

ClaimRaw(path, addr, size, assoc) ==
    /\ MarkAndAssociate(path, addr, size, assoc)
    /\ UNCHANGED <<shared_pointers, root_type_counts, enum_variant_counts>>

(* claim: claim_raw of the whole value, and one more of its type.           *)
Claim(path, addr, ty, size) ==
    /\ MarkAndAssociate(path, addr, size, TRUE)
    /\ root_type_counts' = AddTo(root_type_counts, {<<ty, size>>}, 1)
    /\ UNCHANGED <<shared_pointers, enum_variant_counts>>

(* shared_pointers.insert(a), true when `a` was not there.                  *)
InsertShared(a) ==
    /\ a \notin shared_pointers
    /\ shared_pointers' = shared_pointers \cup {a}
    /\ UNCHANGED <<usage, used_memory, root_type_counts, enum_variant_counts, visited_bytes>>

(* An RcString is inserted and claimed (unassociated) in one go.            *)
InsertAndClaimRaw(path, a, size) ==
    /\ a \notin shared_pointers
    /\ shared_pointers' = shared_pointers \cup {a}
    /\ MarkAndAssociate(path, a, size, FALSE)
    /\ UNCHANGED <<root_type_counts, enum_variant_counts>>

(* A shared pointer whose target is claimed as soon as it is entered.       *)
InsertAndClaim(path, a, ty, size) ==
    /\ a \notin shared_pointers
    /\ shared_pointers' = shared_pointers \cup {a}
    /\ MarkAndAssociate(path, a, size, TRUE)
    /\ root_type_counts' = AddTo(root_type_counts, {<<ty, size>>}, 1)
    /\ UNCHANGED enum_variant_counts

(* enum_variant_counts.entry(enum).variants.entry(variant).count += 1       *)
CountVariant(enm, variant) ==
    /\ enum_variant_counts' = AddTo(enum_variant_counts, {<<enm, variant>>}, 1)
    /\ UNCHANGED <<usage, used_memory, shared_pointers, root_type_counts, visited_bytes>>

-----------------------------------------------------------------------------
EmptyMap == [k \in {} |-> 0]

Init ==
    /\ usage = EmptyMap
    /\ used_memory = {}
    /\ shared_pointers = {}
    /\ root_type_counts = EmptyMap
    /\ enum_variant_counts = EmptyMap
    /\ visited_bytes = 0

Next ==
    \/ \E path \in Paths, addr \in Addrs, size \in Sizes, assoc \in BOOLEAN :
          ClaimRaw(path, addr, size, assoc)
    \/ \E path \in Paths, addr \in Addrs, size \in Sizes, ty \in Types :
          Claim(path, addr, ty, size)
    \/ \E addr \in Addrs : InsertShared(addr)
    \/ \E path \in Paths, addr \in Addrs, size \in Sizes :
          InsertAndClaimRaw(path, addr, size)
    \/ \E path \in Paths, addr \in Addrs, size \in Sizes, ty \in Types :
          InsertAndClaim(path, addr, ty, size)
    \/ \E enm \in Types, variant \in Node : CountVariant(enm, variant)

Spec == Init /\ [][Next]_vars

-----------------------------------------------------------------------------
(* The tables hold what their types say.                                    *)
TypeOK ==
    /\ \A p \in DOMAIN usage : p \in Seq(Node) /\ usage[p] \in Nat
    /\ used_memory \subseteq Nat
    /\ shared_pointers \subseteq Addrs
    /\ \A k \in DOMAIN root_type_counts : root_type_counts[k] \in Nat
    /\ \A k \in DOMAIN enum_variant_counts : enum_variant_counts[k] \in Nat
    /\ visited_bytes \in Nat

(* The counter the progress line prints (main.rs:945) and the coverage the  *)
(* report computes from the bitmap (main.rs:337-345) agree, though one sums *)
(* the return values of mark_area and the other counts bits.                *)
ProgressAgreesWithReport == visited_bytes = calculate_usage

(* The report unwraps the parent of every path it prints (main.rs:207-215): *)
(* the table is closed under removing the last node, and a path never has   *)
(* less than one of its children.                                           *)
ReportIsATree ==
    \A p \in DOMAIN usage : p # <<>> =>
        LET parent == SubSeq(p, 1, Len(p) - 1)
        IN parent \in DOMAIN usage /\ usage[parent] >= usage[p]
=============================================================================
