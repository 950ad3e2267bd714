-------------------------- MODULE ChunkCacheProofs --------------------------
(***************************************************************************)
(* The chunk cache delivers what is in the file and keeps the most         *)
(* recently used chunks, for every number of entries and every sequence    *)
(* of calls.                                                               *)
(***************************************************************************)
EXTENDS ChunkCache, WellFoundedInduction, TLAPS

(* The entries hold what their offset says and were last used when the      *)
(* history says; a fresh one was never used.                                *)
EntriesTrue ==
    \A i \in Slots : IF ents[i].ofs = 0
                       THEN ents[i].last_use = 0
                       ELSE /\ ents[i].data = file[ents[i].ofs]
                            /\ ents[i].last_use = stamp[ents[i].ofs]
StampsInThePast == \A o \in Offsets : stamp[o] <= uses

Inv == TypeOK /\ EntriesTrue /\ StampsInThePast /\ DeliversTheFile /\ NoChunkTwice
         /\ KeepsMostRecent

-----------------------------------------------------------------------------
LEMMA Smallest ==
    ASSUME NEW I, I \subseteq Nat, I # {}
    PROVE  \E i \in I : \A j \in I : i <= j
<1>1. PICK i \in I : \A j \in I : ~ (<<j, i>> \in OpToRel(<, Nat))
  BY NatLessThanWellFounded, WFMin
<1>2. \A j \in I : ~ (j < i)
  BY <1>1 DEF OpToRel
<1>3. QED
  BY <1>2

LEMMA FirstIsLeast ==
    ASSUME NEW I, I \subseteq Nat, I # {}
    PROVE  First(I) \in I
BY Smallest DEF First

LEMMA SlotsExist == n_ents \in Nat \ {0} /\ Slots # {} /\ Slots \subseteq Nat
<1>1. CACHE_BYTES \div chunk_size \in Nat /\ MIN_ENTS \in Nat \ {0}
  BY CacheAssumption
<1>2. n_ents \in Nat \ {0}
  BY <1>1 DEF n_ents
<1>3. 1 \in Slots
  BY <1>2 DEF Slots
<1>4. QED
  BY <1>2, <1>3 DEF Slots

(* The entry to evict exists, and none was used before it.                  *)
LEMMA OldestIsOldest ==
    ASSUME TypeOK
    PROVE  oldest \in Slots /\ \A j \in Slots : ents[oldest].last_use <= ents[j].last_use
<1> DEFINE Times == {ents[i].last_use : i \in Slots}
           Oldest == {i \in Slots : \A j \in Slots : ents[i].last_use <= ents[j].last_use}
<1>1. \A i \in Slots : ents[i].last_use \in Nat
  BY DEF TypeOK, Entry
<1>2. Times \subseteq Nat /\ Times # {}
  BY <1>1, SlotsExist
<1>3. PICK t \in Times : \A u \in Times : t <= u
  BY <1>2, Smallest
<1>4. Oldest # {} /\ Oldest \subseteq Nat
  <2>1. PICK i \in Slots : ents[i].last_use = t
    BY <1>3
  <2>2. \A j \in Slots : ents[i].last_use <= ents[j].last_use
    BY <1>3, <2>1
  <2>3. i \in Oldest
    BY <2>2
  <2>4. QED
    BY <2>3, SlotsExist
<1>5. First(Oldest) \in Oldest
  BY <1>4, FirstIsLeast
<1>6. QED
  BY <1>5 DEF oldest

LEMMA FoundIsFound ==
    ASSUME NEW ofs \in Offsets, Matching(ofs) # {}
    PROVE  First(Matching(ofs)) \in Slots /\ ents[First(Matching(ofs))].ofs = ofs
<1>1. Matching(ofs) \subseteq Nat
  BY SlotsExist DEF Matching
<1>2. First(Matching(ofs)) \in Matching(ofs)
  BY <1>1, FirstIsLeast
<1>3. QED
  BY <1>2 DEF Matching

-----------------------------------------------------------------------------
LEMMA HitKeeps ==
    ASSUME Inv, NEW ofs \in Offsets, with_chunk(ofs), Matching(ofs) # {}
    PROVE  Inv'
<1> DEFINE i == First(Matching(ofs))
<1>1. i \in Slots /\ ents[i].ofs = ofs
  BY FoundIsFound
<1>2. ofs \in Nat \ {0}
  BY CacheAssumption
<1>3. /\ uses' = uses + 1 /\ file' = file
      /\ stamp' = [stamp EXCEPT ![ofs] = uses + 1]
      /\ ents' = [ents EXCEPT ![i] = [ents[i] EXCEPT !.last_use = uses + 1]]
      /\ chunk' = [ofs |-> ofs, data |-> ents'[i].data]
  BY DEF with_chunk
<1> HIDE DEF i
<1>4. /\ \A j \in Slots : ents'[j].ofs = ents[j].ofs /\ ents'[j].data = ents[j].data
      /\ \A j \in Slots : ents'[j].last_use = IF j = i THEN uses + 1 ELSE ents[j].last_use
      /\ ents' \in [Slots -> Entry]
  BY <1>1, <1>3 DEF Inv, TypeOK, Entry
<1>5. \A o \in Offsets : stamp'[o] = IF o = ofs THEN uses + 1 ELSE stamp[o]
  BY <1>3 DEF Inv, TypeOK
<1>6. TypeOK'
  BY <1>1, <1>3, <1>4 DEF Inv, TypeOK, Entry
<1>7. EntriesTrue'
  <2>1. \A j \in Slots : ents[j].ofs = ofs => j = i
    BY <1>1, <1>2 DEF Inv, NoChunkTwice
  <2>2. \A j \in Slots : ents[j].ofs \in {0} \cup Offsets
    BY DEF Inv, TypeOK, Entry
  <2>3. QED
    BY <1>1, <1>2, <1>3, <1>4, <1>5, <2>1, <2>2 DEF Inv, EntriesTrue
<1>8. StampsInThePast'
  BY <1>3, <1>5 DEF Inv, StampsInThePast, TypeOK
<1>9. DeliversTheFile'
  BY <1>1, <1>2, <1>3, <1>4 DEF Inv, EntriesTrue, DeliversTheFile
<1>10. NoChunkTwice'
  BY <1>4 DEF Inv, NoChunkTwice
<1>11. KeepsMostRecent'
  <2>1. Cached' = Cached /\ ofs \in Cached
    BY <1>1, <1>2, <1>4 DEF Cached
  <2>2. \A j \in Slots : ents[j].last_use \in Nat
    BY DEF Inv, TypeOK, Entry
  <2>3. \A o \in Offsets : stamp[o] \in Nat /\ stamp[o] <= uses /\ uses \in Nat
    BY DEF Inv, TypeOK, StampsInThePast
  <2>4. QED
    BY <1>4, <1>5, <2>1, <2>2, <2>3 DEF Inv, KeepsMostRecent
<1>12. QED
  BY <1>6, <1>7, <1>8, <1>9, <1>10, <1>11 DEF Inv

LEMMA MissKeeps ==
    ASSUME Inv, NEW ofs \in Offsets, with_chunk(ofs), Matching(ofs) = {}
    PROVE  Inv'
<1> DEFINE i == oldest
<1>1. i \in Slots /\ \A j \in Slots : ents[i].last_use <= ents[j].last_use
  BY OldestIsOldest DEF Inv
<1>2. ofs \in Nat \ {0}
  BY CacheAssumption
<1>3. /\ uses' = uses + 1 /\ file' = file
      /\ stamp' = [stamp EXCEPT ![ofs] = uses + 1]
      /\ ents' = [ents EXCEPT ![i] = Refilled(ofs)]
      /\ chunk' = [ofs |-> ofs, data |-> ents'[i].data]
  BY DEF with_chunk
<1>4. \A j \in Slots : ents[j].ofs # ofs
  BY DEF Matching
<1> HIDE DEF i
<1>5. /\ ents'[i] = [ofs |-> ofs, last_use |-> uses + 1, data |-> file[ofs]]
      /\ \A j \in Slots \ {i} : ents'[j] = ents[j]
      /\ ents' \in [Slots -> Entry]
  BY <1>1, <1>3 DEF Inv, TypeOK, Entry, Refilled
<1>6. \A o \in Offsets : stamp'[o] = IF o = ofs THEN uses + 1 ELSE stamp[o]
  BY <1>3 DEF Inv, TypeOK
<1>7. TypeOK'
  BY <1>1, <1>3, <1>5 DEF Inv, TypeOK
<1>8. EntriesTrue'
  <2>1. \A j \in Slots : ents[j].ofs \in {0} \cup Offsets
    BY DEF Inv, TypeOK, Entry
  <2>2. QED
    BY <1>1, <1>2, <1>3, <1>4, <1>5, <1>6, <2>1 DEF Inv, EntriesTrue
<1>9. StampsInThePast'
  BY <1>3, <1>6 DEF Inv, StampsInThePast, TypeOK
<1>10. DeliversTheFile'
  BY <1>1, <1>2, <1>3, <1>5 DEF DeliversTheFile
<1>11. NoChunkTwice'
  BY <1>4, <1>5 DEF Inv, NoChunkTwice
<1>12. KeepsMostRecent'
  <2>1. ASSUME NEW o \in Offsets \ Cached', NEW j \in Slots
        PROVE  stamp'[o] <= ents'[j].last_use
    <3>1. o # ofs /\ o # 0
      BY <1>1, <1>2, <1>5, CacheAssumption DEF Cached
    <3>2. stamp'[o] = stamp[o] /\ stamp[o] \in Nat /\ stamp[o] <= uses /\ uses \in Nat
      BY <1>6, <3>1 DEF Inv, TypeOK, StampsInThePast
    <3>3. stamp[o] <= ents[j].last_use
      <4>1. CASE o \in Cached
        <5>1. PICK k \in Slots : ents[k].ofs = o
          BY <4>1 DEF Cached
        <5>2. k = i
          BY <1>5, <3>1, <5>1 DEF Cached
        <5>3. ents[i].last_use = stamp[o]
          BY <3>1, <5>1, <5>2 DEF Inv, EntriesTrue
        <5>4. QED
          BY <1>1, <5>3
      <4>2. CASE o \notin Cached
        BY <4>2 DEF Inv, KeepsMostRecent
      <4>3. QED
        BY <4>1, <4>2
    <3>4. QED
      BY <1>5, <3>2, <3>3
  <2>2. QED
    BY <2>1 DEF KeepsMostRecent
<1>13. QED
  BY <1>7, <1>8, <1>9, <1>10, <1>11, <1>12 DEF Inv

LEMMA InitInv == Init => Inv
<1> SUFFICES ASSUME Init PROVE Inv
  OBVIOUS
<1>1. /\ Fresh \in Entry /\ Fresh.ofs = 0 /\ Fresh.last_use = 0
  BY CacheAssumption DEF Fresh, Entry
<1>2. QED
  BY <1>1, CacheAssumption
     DEF Init, Start, Inv, TypeOK, EntriesTrue, StampsInThePast, DeliversTheFile, NoChunkTwice,
         KeepsMostRecent

LEMMA NextInv == Inv /\ [Next]_vars => Inv'
<1> SUFFICES ASSUME Inv, [Next]_vars PROVE Inv'
  OBVIOUS
<1>1. ASSUME NEW ofs \in Offsets, with_chunk(ofs) PROVE Inv'
  BY <1>1, HitKeeps, MissKeeps
<1>2. CASE UNCHANGED vars
  BY <1>2 DEF vars, Inv, TypeOK, EntriesTrue, StampsInThePast, DeliversTheFile, NoChunkTwice,
              KeepsMostRecent, Cached
<1>3. QED
  BY <1>1, <1>2 DEF Next

LEMMA InvHolds == Spec => []Inv
<1>1. QED
  BY InitInv, NextInv, PTL DEF Spec

(* The entries and the stamps keep their types, however the fields of an    *)
(* entry are refilled (mrustc.rs:244-256).                                  *)
THEOREM CacheTypeOK == Spec => []TypeOK
<1>1. Inv => TypeOK
  BY DEF Inv
<1>2. QED
  BY <1>1, InvHolds, PTL

(* Whatever was cached and evicted before, a caller is given the chunk it   *)
(* asked for (mrustc.rs:258).                                               *)
THEOREM CacheDelivers == Spec => []DeliversTheFile
<1>1. Inv => DeliversTheFile
  BY DEF Inv
<1>2. QED
  BY <1>1, InvHolds, PTL

(* No chunk is decompressed while it is cached, so none has two entries     *)
(* (mrustc.rs:238-243).                                                     *)
THEOREM CacheNoChunkTwice == Spec => []NoChunkTwice
<1>1. Inv => NoChunkTwice
  BY DEF Inv
<1>2. QED
  BY <1>1, InvHolds, PTL

(* The cache holds the most recently used chunks, for any number of entries *)
(* (mrustc.rs:244).                                                         *)
THEOREM CacheKeepsMostRecent == Spec => []KeepsMostRecent
<1>1. Inv => KeepsMostRecent
  BY DEF Inv
<1>2. QED
  BY <1>1, InvHolds, PTL
=============================================================================
