----------------------------- MODULE HashbrownMap -----------------------------
(***************************************************************************)
(* A HashMap of Rust in memory, and the handler that visits its entries    *)
(* (src/src/type_handlers/rust.rs, 107-171; src/src/main.rs, 602-611).     *)
(* The program inserts, removes and resizes; the dump is taken at any      *)
(* time.  A table is a row of control bytes from `ctrl` upwards, one for   *)
(* each bucket and the first one again, and the buckets from `ctrl`        *)
(* downwards.                                                              *)
(***************************************************************************)
EXTENDS Naturals, Sequences, FiniteSets, Functions

CONSTANTS
    Keys,           \* the entries of the program's maps
    Buckets,        \* the sizes a table may have
    ItemSize,       \* size_of(item_ty)
    Ctrl,           \* where the control bytes of a table of each size are
    EmptyGroup,     \* the control byte of every map that was never filled
    EmptyGroupDumped    \* is it, a static of the program, in the dump?

VARIABLES
    map,            \* the entries the program has in the map
    tags, entries,  \* memory: the control bytes, and the buckets in use
    ctrl, bucket_mask,      \* words of the map itself
    known,                  \* find_type_by_name finds the type the marker names
    n_buckets, ctrl_start, data_end,    \* HashbrownMap
    given, phase    \* as in Iteration, "failed" and "panicked"

vars == <<map, tags, entries, ctrl, bucket_mask, known, n_buckets, ctrl_start, data_end, given, phase>>
program == <<map, tags, entries, ctrl, bucket_mask, known>>
handler == <<n_buckets, ctrl_start, data_end, given>>

EMPTY == 255
DELETED == 128
Full == 0..127

HashbrownAssumption ==
    /\ Buckets \subseteq Nat \ {0} /\ ItemSize \in Nat \ {0} /\ EmptyGroupDumped \in BOOLEAN
    /\ Ctrl \in [Buckets -> Nat] /\ EmptyGroup \in Nat /\ EmptyGroup >= ItemSize
    /\ \A n \in Buckets : Ctrl[n] >= n * ItemSize /\ EmptyGroup \notin Ctrl[n] - n * ItemSize..Ctrl[n] + n

-----------------------------------------------------------------------------
(* The program (external).                                                  *)
Places == UNION {{Ctrl[n] - (i + 1) * ItemSize : i \in 0..n - 1} : n \in Buckets}
Bucket(i) == ctrl - (i + 1) * ItemSize
Tag(i) == tags[ctrl + i]
Table == IF ctrl = EmptyGroup THEN {} ELSE 0..bucket_mask
Occupied == {i \in Table : Tag(i) \in Full}
Written(i, tag) ==
    [a \in DOMAIN tags |-> IF a = ctrl + i \/ (i = 0 /\ a = ctrl + bucket_mask + 1) THEN tag ELSE tags[a]]

Insert ==
    \E k \in Keys \ map, i \in Table :
        /\ Tag(i) = DELETED \/ (Tag(i) = EMPTY /\ \E j \in Table \ {i} : Tag(j) = EMPTY)
        /\ map' = map \cup {k}
        /\ tags' = Written(i, 1)
        /\ entries' = [a \in DOMAIN entries \cup {Bucket(i)} |-> IF a = Bucket(i) THEN k ELSE entries[a]]

\* The bucket keeps its bytes.
Remove ==
    \E i \in Occupied, tag \in {EMPTY, DELETED} :
        /\ map' = map \ {entries[Bucket(i)]}
        /\ tags' = Written(i, tag)
        /\ UNCHANGED entries

\* The entries move to a new table, in any of its buckets.
Resize ==
    \E n \in Buckets : \E at \in Injection(map, 0..n - 1) :
        /\ Cardinality(map) < n /\ n # bucket_mask + 1
        /\ ctrl' = Ctrl[n] /\ bucket_mask' = n - 1
        /\ tags' = [a \in Ctrl[n]..Ctrl[n] + n |-> IF (a - Ctrl[n]) % n \in Range(at) THEN 1 ELSE EMPTY]
        /\ entries' = [a \in {Ctrl[n] - (i + 1) * ItemSize : i \in Range(at)} |->
                          CHOOSE k \in map : a = Ctrl[n] - (at[k] + 1) * ItemSize]
        /\ UNCHANGED map

Program ==
    /\ phase = "running"
    /\ \/ (Insert \/ Remove) /\ UNCHANGED <<ctrl, bucket_mask>>
       \/ Resize
    /\ UNCHANGED <<known, handler, phase>>

-----------------------------------------------------------------------------
(* The handler.                                                             *)
Readable(a) == a # EmptyGroup \/ EmptyGroupDumped

Mutant_WithMirror ==
    /\ phase = "running"
    /\ n_buckets' = bucket_mask + 2
    /\ ctrl_start' = ctrl /\ data_end' = ctrl
    /\ phase' = "dumped"
    /\ UNCHANGED <<program, given>>
opt_read ==
    /\ phase = "running"
    /\ IF known
         THEN /\ n_buckets' = bucket_mask + 1
              /\ ctrl_start' = ctrl /\ data_end' = ctrl
              /\ phase' = "dumped"
         ELSE phase' = "panicked" /\ UNCHANGED <<n_buckets, ctrl_start, data_end>>
    /\ UNCHANGED <<program, given>>
is_populated(tag) == tag < 128

\* One turn of the loop of next, and the visit if it ends the call.
next ==
    /\ phase = "dumped" /\ n_buckets > 0 /\ Readable(ctrl_start)
    /\ n_buckets' = n_buckets - 1
    /\ ctrl_start' = ctrl_start + 1
    /\ data_end' = data_end - ItemSize
    /\ given' = IF is_populated(tags[ctrl_start]) THEN Append(given, data_end') ELSE given
    /\ UNCHANGED <<program, phase>>

ReadError ==
    /\ phase = "dumped" /\ n_buckets > 0 /\ ~Readable(ctrl_start)
    /\ phase' = "failed"
    /\ UNCHANGED <<program, handler>>

Finish ==
    /\ phase = "dumped" /\ n_buckets = 0
    /\ phase' = "over"
    /\ UNCHANGED <<program, handler>>

Init ==
    /\ map = {} /\ tags = [a \in EmptyGroup..EmptyGroup + 1 |-> EMPTY] /\ entries = <<>>
    /\ ctrl = EmptyGroup /\ bucket_mask = 0 /\ known \in BOOLEAN
    /\ n_buckets = 0 /\ ctrl_start = 0 /\ data_end = 0 /\ given = <<>> /\ phase = "running"
Handler == next \/ ReadError \/ Finish

-----------------------------------------------------------------------------
TypeOK ==
    /\ map \subseteq Keys /\ DOMAIN tags \subseteq Nat /\ Range(tags) \subseteq Full \cup {DELETED, EMPTY}
    /\ DOMAIN entries \subseteq Places /\ Range(entries) \subseteq Keys /\ known \in BOOLEAN
    /\ n_buckets \in 0..bucket_mask + 1 /\ ctrl_start \in Nat /\ data_end \in Nat
    /\ given \in Seq(Places) /\ phase \in {"running", "dumped", "over", "failed", "panicked"}

(* The entries visited are those of the map, each once: not those removed,  *)
(* whose bytes stay, and not those of a table it has outgrown.              *)
EveryEntryOnce ==
    phase = "over" =>
        /\ \A k \in DOMAIN given : given[k] \in DOMAIN entries
        /\ {entries[given[k]] : k \in DOMAIN given} = map
        /\ Len(given) = Cardinality(map)

(* What Iteration says of it.                                               *)
Elements == {Bucket(i) : i \in Occupied}
Whole == ctrl # EmptyGroup \/ EmptyGroupDumped
Stage == CASE phase = "failed" -> "over" [] phase = "panicked" -> "dumped" [] OTHER -> phase

(* The handler fails only for a map that has never held anything, and then  *)
(* only because the group all such maps share is not in the dump; it panics *)
(* when the type of the entries is not found by its name (rust.rs:135).     *)
StopsOnlyWithCause ==
    /\ phase = "failed" => map = {} /\ ~Whole
    /\ phase = "panicked" => ~known
=============================================================================
