----------------------------- MODULE ChunkCache -----------------------------
(***************************************************************************)
(* The cache of decompressed chunks of an mrustc dump (ChunkCache in       *)
(* src/src/core_dump/mrustc.rs): a fixed number of entries, searched by    *)
(* the offset of the chunk in the file, the least recently used one        *)
(* overwritten on a miss.                                                  *)
(***************************************************************************)
EXTENDS Naturals, FiniteSets

CONSTANTS
    Offsets,      \* where chunks start in the file
    Chunks,       \* decompressed chunks
    Zeroes,       \* a chunk of zeroes: what a fresh entry holds
    chunk_size,
    CACHE_BYTES,  \* memory the cache may take (128 MiB)
    MIN_ENTS      \* entries it has in any case (8)

ASSUME CacheAssumption ==
    /\ Offsets \subseteq Nat \ {0}    \* the header comes first
    /\ Zeroes \in Chunks
    /\ chunk_size \in Nat \ {0}
    /\ CACHE_BYTES \in Nat
    /\ MIN_ENTS \in Nat \ {0}

VARIABLES
    file,   \* offset -> what read_chunk decompresses there
    uses,   \* calls so far
    ents,   \* the entries
    chunk,  \* the bytes the callback was last given, and the offset asked for
    stamp   \* history: the call that last asked for each offset

vars == <<file, uses, ents, chunk, stamp>>

n_ents == IF CACHE_BYTES \div chunk_size > MIN_ENTS THEN CACHE_BYTES \div chunk_size
                                                    ELSE MIN_ENTS
Slots == 1 .. n_ents
Entry == [ofs : {0} \cup Offsets, last_use : Nat, data : Chunks]
Fresh == [ofs |-> 0, last_use |-> 0, data |-> Zeroes]

-----------------------------------------------------------------------------
First(I) == CHOOSE i \in I : \A j \in I : i <= j
Mutant_SkipsFirstEntry(ofs) == {i \in Slots \ {1} : ents[i].ofs = ofs}
Matching(ofs) == {i \in Slots : ents[i].ofs = ofs}

(* min_by_key(last_use), which returns the first of several minima.         *)
Mutant_NewestUsed == First({i \in Slots : \A j \in Slots : ents[i].last_use >= ents[j].last_use})
oldest == First({i \in Slots : \A j \in Slots : ents[i].last_use <= ents[j].last_use})

(* The entry after a miss: evicted, refilled and renamed.                   *)
Mutant_NotRefilled(ofs) == [ofs |-> ofs, last_use |-> uses + 1, data |-> ents[oldest].data]
Mutant_FieldsSwapped(ofs) == [ofs |-> uses + 1, last_use |-> ofs, data |-> file[ofs]]
Refilled(ofs) == [ofs |-> ofs, last_use |-> uses + 1, data |-> file[ofs]]

with_chunk(ofs) ==
    /\ uses' = uses + 1
    /\ stamp' = [stamp EXCEPT ![ofs] = uses + 1]
    /\ LET hit == Matching(ofs) # {}
           i == IF hit THEN First(Matching(ofs)) ELSE oldest
       IN /\ ents' = [ents EXCEPT ![i] = IF hit THEN [@ EXCEPT !.last_use = uses + 1]
                                               ELSE Refilled(ofs)]
          /\ chunk' = [ofs |-> ofs, data |-> ents'[i].data]
    /\ UNCHANGED file

Start ==
    /\ uses = 0
    /\ ents = [i \in Slots |-> Fresh]
    /\ chunk = [ofs |-> 0, data |-> Zeroes]
    /\ stamp = [o \in Offsets |-> 0]
Init == file \in [Offsets -> Chunks] /\ Start

Next == \E ofs \in Offsets : with_chunk(ofs)

Spec == Init /\ [][Next]_vars

-----------------------------------------------------------------------------
Cached == {ents[i].ofs : i \in Slots} \ {0}

TypeOK ==
    /\ file \in [Offsets -> Chunks]
    /\ uses \in Nat
    /\ ents \in [Slots -> Entry]
    /\ chunk \in [ofs : {0} \cup Offsets, data : Chunks]
    /\ stamp \in [Offsets -> Nat]

(* The caller gets the chunk it asked for, hit or miss, whatever was        *)
(* evicted in between, and never what an entry held before (mrustc.rs:258). *)
DeliversTheFile == chunk.ofs # 0 => chunk.data = file[chunk.ofs]

(* No chunk is decompressed while it is in the cache, so that no two        *)
(* entries hold the same one (mrustc.rs:238-243).                           *)
NoChunkTwice ==
    \A i, j \in Slots : ents[i].ofs = ents[j].ofs /\ ents[i].ofs # 0 => i = j

(* What is not cached was last asked for before anything that is: the cache *)
(* holds the most recently used chunks, and drops none while an entry is    *)
(* free (mrustc.rs:244).                                                    *)
KeepsMostRecent ==
    \A o \in Offsets \ Cached : \A i \in Slots : stamp[o] <= ents[i].last_use
=============================================================================
