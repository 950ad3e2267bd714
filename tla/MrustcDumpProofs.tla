-------------------------- MODULE MrustcDumpProofs --------------------------
(***************************************************************************)
(* The loader finds every chunk of every dump mrustc can write, and a read *)
(* of mapped memory gives what was there, for every chunk size, every list *)
(* of ranges and every size of cache.                                      *)
(***************************************************************************)
EXTENDS MrustcDump, FiniteSetTheorems, SequenceTheorems, TLAPS

-----------------------------------------------------------------------------
(* Chunk numbers.                                                           *)

LEMMA DivMod ==
    ASSUME NEW a \in Nat, NEW c \in Nat \ {0}
    PROVE  a \div c \in Nat /\ a % c \in 0 .. c - 1 /\ a = (c * (a \div c)) + (a % c)
OBVIOUS

LEMMA DivUnique ==
    ASSUME NEW a \in Nat, NEW c \in Nat \ {0}, NEW q \in Nat, NEW r \in 0 .. c - 1, a = (c * q) + r
    PROVE  a \div c = q /\ a % c = r
<1>1. a = (c * (a \div c)) + (a % c) /\ a \div c \in Nat /\ a % c \in 0 .. c - 1
  BY DivMod
<1>2. c * (q - (a \div c)) = (a % c) - r
  BY <1>1
<1>3. q = a \div c
  <2>1. CASE q > a \div c
    <3>1. c * (q - (a \div c)) >= c
      BY <2>1, <1>1
    <3>2. QED
      BY <1>1, <1>2, <3>1
  <2>2. CASE q < a \div c
    <3>1. c * ((a \div c) - q) >= c
      BY <2>2, <1>1
    <3>2. QED
      BY <1>1, <1>2, <3>1
  <2>3. QED
    BY <1>1, <2>1, <2>2
<1>4. QED
  BY <1>1, <1>3

LEMMA Distribute ==
    ASSUME NEW a \in Nat, NEW b \in Nat, NEW c \in Nat
    PROVE  c * (a - b) = (c * a) - (c * b) /\ c * a \in Nat /\ c * b \in Nat
OBVIOUS

LEMMA DivMono ==
    ASSUME NEW a \in Nat, NEW b \in Nat, a <= b, NEW c \in Nat \ {0}
    PROVE  a \div c <= b \div c
<1>1. /\ a = (c * (a \div c)) + (a % c) /\ a \div c \in Nat /\ a % c \in 0 .. c - 1
      /\ b = (c * (b \div c)) + (b % c) /\ b \div c \in Nat /\ b % c \in 0 .. c - 1
  BY DivMod
<1>2. CASE a \div c > b \div c
  <2>1. c * (a \div c) >= (c * (b \div c)) + c
    BY <1>1, <1>2
  <2>2. QED
    BY <1>1, <2>1
<1>3. QED
  BY <1>1, <1>2

(* The chunks between an address and the start of an earlier one's chunk.   *)
LEMMA ChunksApart ==
    ASSUME NEW a \in Nat, NEW b \in Nat, b <= a, NEW c \in Nat \ {0}
    PROVE  (a - (b - (b % c))) \div c = (a \div c) - (b \div c)
<1> DEFINE p == a \div c
           q == b \div c
           s == a % c
           t == b % c
           x == a - (b - t)
<1>1. /\ a = (c * p) + s /\ p \in Nat /\ s \in 0 .. c - 1
      /\ b = (c * q) + t /\ q \in Nat /\ t \in 0 .. c - 1
      /\ q <= p
  BY DivMod, DivMono
<1> HIDE DEF p, q, s, t
<1>2. c * (p - q) = (c * p) - (c * q) /\ c * p \in Nat /\ c * q \in Nat
  BY <1>1, Distribute
<1>3. x = (c * (p - q)) + s
  BY <1>1, <1>2
<1>4. p - q \in Nat /\ x \in Nat
  BY <1>1
<1> HIDE DEF x
<1>5. x \div c = p - q
  BY <1>1, <1>3, <1>4, DivUnique
<1>6. QED
  BY <1>5 DEF x, p, q, t

(* The chunk of the last byte before an address.                            *)
LEMMA LastByte ==
    ASSUME NEW e \in Nat \ {0}, NEW c \in Nat \ {0}
    PROVE  /\ e % c = 0 => e \div c >= 1 /\ (e - 1) \div c = (e \div c) - 1
           /\ e % c # 0 => (e - 1) \div c = e \div c
<1> DEFINE q == e \div c
           r == e % c
<1>1. e = (c * q) + r /\ q \in Nat /\ r \in 0 .. c - 1
  BY DivMod
<1> HIDE DEF q, r
<1>2. CASE r = 0
  <2>1. q >= 1
    BY <1>1, <1>2
  <2>2. e - 1 = (c * (q - 1)) + (c - 1)
    BY <1>1, <1>2
  <2>3. (e - 1) \div c = q - 1
    BY <2>1, <2>2, <1>1, DivUnique
  <2>4. QED
    BY <2>1, <2>3, <1>2 DEF q, r
<1>3. CASE r # 0
  <2>1. e - 1 = (c * q) + (r - 1) /\ r - 1 \in 0 .. c - 1
    BY <1>1, <1>3
  <2>2. (e - 1) \div c = q
    BY <2>1, <1>1, DivUnique
  <2>3. QED
    BY <2>2, <1>3 DEF q, r
<1>4. QED
  BY <1>2, <1>3

-----------------------------------------------------------------------------
(* The ranges of a dump and the chunks they touch.                          *)

CS == chunk_size
From(m, i) == m[i].v_start
To(m, i) == m[i].v_start + m[i].size
ChunksOf(m, i) == Touched(m[i])

LEMMA RangeFacts ==
    ASSUME NEW m \in Maps, NEW i \in DOMAIN m
    PROVE  /\ From(m, i) \in Nat /\ To(m, i) \in Nat \ {0} /\ From(m, i) < To(m, i)
           /\ m[i].size \in Nat \ {0} /\ m[i].name \in Names /\ m[i].file_ofs \in Nat
           /\ \A j \in DOMAIN m : i < j => To(m, i) <= From(m, j)
<1>1. m \in Seq(MemoryRangeHeader)
  BY DumpAssumption
<1>2. m[i] \in MemoryRangeHeader
  BY <1>1
<1>3. QED
  BY <1>2, DumpAssumption DEF From, To, MemoryRangeHeader

LEMMA ChunkFacts ==
    ASSUME NEW m \in Maps, NEW i \in DOMAIN m
    PROVE  /\ From(m, i) \div CS \in Nat /\ To(m, i) \div CS \in Nat
           /\ (To(m, i) - 1) \div CS \in Nat
           /\ From(m, i) \div CS <= (To(m, i) - 1) \div CS
           /\ From(m, i) \div CS <= To(m, i) \div CS
           /\ To(m, i) % CS = 0 => /\ To(m, i) \div CS >= 1
                                   /\ (To(m, i) - 1) \div CS = (To(m, i) \div CS) - 1
           /\ To(m, i) % CS # 0 => (To(m, i) - 1) \div CS = To(m, i) \div CS
<1>1. /\ From(m, i) \in Nat /\ To(m, i) \in Nat \ {0} /\ From(m, i) <= To(m, i) - 1
      /\ To(m, i) - 1 \in Nat /\ From(m, i) <= To(m, i) /\ CS \in Nat \ {0}
  BY RangeFacts, DumpAssumption DEF CS
<1> HIDE DEF CS
<1>2. /\ From(m, i) \div CS \in Nat /\ To(m, i) \div CS \in Nat
      /\ (To(m, i) - 1) \div CS \in Nat
  BY <1>1, DivMod
<1>3. /\ From(m, i) \div CS <= (To(m, i) - 1) \div CS
      /\ From(m, i) \div CS <= To(m, i) \div CS
  BY <1>1, DivMono
<1>4. QED
  BY <1>1, <1>2, <1>3, LastByte

LEMMA LaterChunks ==
    ASSUME NEW m \in Maps, NEW i \in DOMAIN m, NEW j \in DOMAIN m, i < j
    PROVE  /\ To(m, i) \div CS <= From(m, j) \div CS
           /\ (To(m, i) - 1) \div CS <= From(m, j) \div CS
           /\ (To(m, i) - 1) \div CS <= (To(m, j) - 1) \div CS
<1>1. /\ To(m, i) \in Nat /\ To(m, i) - 1 \in Nat /\ From(m, j) \in Nat /\ CS \in Nat \ {0}
      /\ To(m, i) <= From(m, j) /\ To(m, i) - 1 <= From(m, j)
  BY RangeFacts, DumpAssumption DEF CS
<1>2. /\ To(m, i) \div CS <= From(m, j) \div CS
      /\ (To(m, i) - 1) \div CS <= From(m, j) \div CS
  BY <1>1, DivMono
<1>3. QED
  BY <1>2, ChunkFacts

LEMMA ChunksOfIs ==
    ASSUME NEW m, NEW i
    PROVE  ChunksOf(m, i) = (From(m, i) \div CS) .. ((To(m, i) - 1) \div CS)
BY DEF ChunksOf, Touched, From, To, CS

LEMMA InWritten ==
    ASSUME NEW m \in Maps, NEW d
    PROVE  d \in WrittenChunks(m) <=> \E i \in DOMAIN m : d \in ChunksOf(m, i)
<1>1. WrittenChunks(m) = UNION {ChunksOf(m, i) : i \in DOMAIN m}
  BY DEF WrittenChunks, ChunksOf
<1>2. QED
  BY <1>1

LEMMA WrittenNat == ASSUME NEW m \in Maps PROVE WrittenChunks(m) \subseteq Nat
<1> SUFFICES ASSUME NEW d \in WrittenChunks(m) PROVE d \in Nat
  OBVIOUS
<1>1. PICK i \in DOMAIN m : d \in ChunksOf(m, i)
  BY InWritten
<1>2. QED
  BY <1>1, ChunkFacts, ChunksOfIs

(* Ranks count what lies below, and n more stored chunks in a row are n more. *)
LEMMA RankFacts ==
    ASSUME NEW m \in Maps, NEW c \in Nat
    PROVE  IsFiniteSet(Before(m, c)) /\ Rank(m, c) \in Nat
<1>1. Before(m, c) \subseteq 0 .. c
  BY WrittenNat DEF Before
<1>2. IsFiniteSet(0 .. c)
  BY FS_Interval
<1>3. IsFiniteSet(Before(m, c))
  BY <1>1, <1>2, FS_Subset
<1>4. QED
  BY <1>3, FS_CardinalityType DEF Rank

LEMMA RankOfRun ==
    ASSUME NEW m \in Maps, NEW a \in Nat, NEW b \in Nat, a <= b, a .. b - 1 \subseteq WrittenChunks(m)
    PROVE  Rank(m, b) = Rank(m, a) + (b - a)
<1>1. Before(m, b) = Before(m, a) \cup (a .. b - 1)
  BY WrittenNat DEF Before
<1>2. Before(m, a) \cap (a .. b - 1) = {}
  BY WrittenNat DEF Before
<1>3. IsFiniteSet(a .. b - 1) /\ Cardinality(a .. b - 1) = b - a
  <2>1. CASE a = b
    <3>1. a .. b - 1 = {}
      BY <2>1
    <3>2. QED
      BY <2>1, <3>1, FS_EmptySet
  <2>2. CASE a < b
    BY <2>2, FS_Interval
  <2>3. QED
    BY <2>1, <2>2
<1>4. IsFiniteSet(Before(m, a)) /\ Cardinality(Before(m, a)) \in Nat
  BY RankFacts DEF Rank
<1>5. Cardinality(Before(m, a) \cup (a .. b - 1))
        = Cardinality(Before(m, a)) + Cardinality(a .. b - 1) - Cardinality(Before(m, a) \cap (a .. b - 1))
  BY <1>3, <1>4, FS_Union
<1>6. Cardinality(Before(m, a) \cap (a .. b - 1)) = 0
  BY <1>2, FS_EmptySet
<1>7. QED
  BY <1>1, <1>3, <1>4, <1>5, <1>6 DEF Rank

(* Nothing is stored between the chunk where range k ends and the start of  *)
(* the next, except the former when the range enters it.                    *)
LEMMA BeforeNext ==
    ASSUME NEW m \in Maps, NEW k \in DOMAIN m, NEW t \in Nat, To(m, k) \div CS <= t,
           \A i \in DOMAIN m : i > k => From(m, i) \div CS >= t
    PROVE  Rank(m, t) = Rank(m, To(m, k) \div CS)
                          + (IF To(m, k) \div CS # t /\ To(m, k) % CS # 0 THEN 1 ELSE 0)
<1> DEFINE v == To(m, k) \div CS
<1>1. v \in Nat
  BY ChunkFacts
<1>2. \A i \in DOMAIN m : i \in Nat
  BY DumpAssumption
<1>3. ASSUME NEW d \in WrittenChunks(m), d < t, ~ (d < v)
      PROVE  d = v /\ To(m, k) % CS # 0
  <2>1. PICK i \in DOMAIN m : d \in ChunksOf(m, i)
    BY InWritten
  <2>2. d >= From(m, i) \div CS /\ d <= (To(m, i) - 1) \div CS /\ d \in Nat
    BY <2>1, ChunkFacts, ChunksOfIs
  <2>3. ~ (i > k)
    BY <1>3, <2>2, ChunkFacts
  <2>4. d <= (To(m, k) - 1) \div CS
    <3>1. CASE i = k
      BY <3>1, <2>2
    <3>2. CASE i < k
      BY <3>2, <2>2, LaterChunks, ChunkFacts
    <3>3. QED
      BY <1>2, <2>3, <3>1, <3>2
  <2>5. QED
    BY <1>1, <1>3, <2>2, <2>4, ChunkFacts
<1> HIDE DEF v
<1>4. CASE v # t /\ To(m, k) % CS # 0
  <2>1. v \in WrittenChunks(m)
    <3>1. v \in ChunksOf(m, k)
      BY <1>1, <1>4, ChunkFacts, ChunksOfIs DEF v
    <3>2. QED
      BY <3>1, InWritten
  <2>2. Before(m, t) = Before(m, v) \cup {v} /\ v \notin Before(m, v)
    BY <1>1, <1>3, <1>4, <2>1, WrittenNat DEF Before, v
  <2>3. Rank(m, t) = Rank(m, v) + 1
    BY <1>1, <2>2, RankFacts, FS_AddElement DEF Rank
  <2>4. QED
    BY <1>4, <2>3 DEF v
<1>5. CASE ~ (v # t /\ To(m, k) % CS # 0)
  <2>1. Before(m, t) = Before(m, v)
    BY <1>1, <1>3, <1>5, WrittenNat DEF Before, v
  <2>2. Rank(m, t) = Rank(m, v) /\ Rank(m, v) \in Nat
    BY <1>1, <2>1, RankFacts DEF Rank
  <2>3. QED
    BY <1>5, <2>2 DEF v
<1>6. QED
  BY <1>4, <1>5

(* Nothing is stored above the chunk the last range ends in.                *)
LEMMA AllBelow ==
    ASSUME NEW m \in Maps, NEW k \in DOMAIN m, \A i \in DOMAIN m : i \in Nat /\ ~ (i > k)
    PROVE  WrittenChunks(m) = Before(m, (To(m, k) \div CS) + 1)
<1> DEFINE t == (To(m, k) \div CS) + 1
<1>1. ASSUME NEW d \in WrittenChunks(m) PROVE d < t
  <2>1. PICK i \in DOMAIN m : d \in ChunksOf(m, i)
    BY InWritten
  <2>2. d <= (To(m, i) - 1) \div CS /\ d \in Nat
    BY <2>1, ChunkFacts, ChunksOfIs
  <2>3. (To(m, i) - 1) \div CS <= (To(m, k) - 1) \div CS
    <3>1. CASE i = k
      BY <3>1, ChunkFacts
    <3>2. CASE i < k
      BY <3>2, LaterChunks
    <3>3. QED
      BY <3>1, <3>2
  <2>4. (To(m, k) - 1) \div CS < t
    BY ChunkFacts
  <2>5. QED
    BY <2>2, <2>3, <2>4, ChunkFacts
<1>2. QED
  BY <1>1 DEF Before

LEMMA WrittenFinite ==
    ASSUME NEW m \in Maps
    PROVE  /\ IsFiniteSet(WrittenChunks(m))
           /\ Cardinality(WrittenChunks(m)) \in Nat
           /\ Cardinality(WrittenChunks(m)) <= MaxChunks
<1>1. m \in Seq(MemoryRangeHeader)
  BY DumpAssumption
<1>2. Len(m) \in Nat /\ DOMAIN m = 1 .. Len(m)
  BY <1>1
<1>3. CASE Len(m) = 0
  <2>1. DOMAIN m = {}
    BY <1>2, <1>3
  <2>2. WrittenChunks(m) = {}
    BY <2>1, InWritten
  <2>3. QED
    BY <2>2, FS_EmptySet, DumpAssumption
<1>4. CASE Len(m) # 0
  <2>1. Len(m) \in DOMAIN m /\ \A i \in DOMAIN m : i \in Nat /\ ~ (i > Len(m))
    BY <1>2, <1>4
  <2>2. (To(m, Len(m)) \div CS) + 1 \in Nat
    BY <2>1, ChunkFacts
  <2>3. IsFiniteSet(WrittenChunks(m))
    BY <2>1, <2>2, AllBelow, RankFacts
  <2>4. QED
    BY <2>3, FS_CardinalityType, DumpAssumption
<1>5. QED
  BY <1>3, <1>4

(* A stored chunk has a place in the file, and no other chunk has the same. *)
LEMMA PlacesDiffer ==
    ASSUME NEW m \in Maps, NEW c \in WrittenChunks(m), NEW d \in WrittenChunks(m), c < d
    PROVE  Rank(m, c) < Rank(m, d)
<1>1. c \in Nat /\ d \in Nat
  BY WrittenNat
<1>2. /\ IsFiniteSet(Before(m, c)) /\ IsFiniteSet(Before(m, d))
      /\ Rank(m, c) \in Nat /\ Rank(m, d) \in Nat
  BY <1>1, RankFacts
<1>3. Before(m, c) \subseteq Before(m, d) /\ c \in Before(m, d) \ Before(m, c)
  BY <1>1, WrittenNat DEF Before
<1>4. Rank(m, c) <= Rank(m, d) /\ Rank(m, c) # Rank(m, d)
  BY <1>2, <1>3, FS_Subset DEF Rank
<1>5. QED
  BY <1>2, <1>4

LEMMA PlaceInFile ==
    ASSUME NEW m \in Maps, NEW c \in WrittenChunks(m)
    PROVE  Rank(m, c) \in Nat /\ Rank(m, c) < Cardinality(WrittenChunks(m))
<1>1. c \in Nat
  BY WrittenNat
<1>2. Rank(m, c) \in Nat /\ IsFiniteSet(Before(m, c))
  BY <1>1, RankFacts
<1>3. Before(m, c) \subseteq WrittenChunks(m) /\ c \in WrittenChunks(m) \ Before(m, c)
  BY <1>1 DEF Before
<1>4. Rank(m, c) <= Cardinality(WrittenChunks(m)) /\ Rank(m, c) # Cardinality(WrittenChunks(m))
  BY <1>3, WrittenFinite, FS_Subset DEF Rank
<1>5. QED
  BY <1>2, <1>4, WrittenFinite

-----------------------------------------------------------------------------
(* The loader: n_chunks counts the stored chunks below the one the last     *)
(* range ended in.                                                          *)

Loaded == Len(memory_ranges)
LoaderCounts ==
    IF Loaded = 0 THEN n_chunks = 0 /\ last_v_chunk = 0 /\ last_end = 0
    ELSE /\ last_end = To(maps, Loaded)
         /\ last_v_chunk = last_end \div CS
         /\ n_chunks = Rank(maps, last_v_chunk)
LoaderInv ==
    /\ maps \in Maps
    /\ memory_ranges \in Seq(MemoryRange) /\ Loaded <= Len(maps)
    /\ \A i \in DOMAIN memory_ranges : /\ memory_ranges[i].v_start = maps[i].v_start
                                       /\ memory_ranges[i].size = maps[i].size
    /\ FirstChunksRight
    /\ \A n \in DOMAIN modules : n \in FileNames /\ modules[n] \in Module
    /\ n_chunks \in Nat /\ last_v_chunk \in Nat /\ last_end \in Nat
    /\ status \in {"loading", "ready", "panicked"}
    /\ status = "loading" => LoaderCounts /\ file_chunks = <<>>
    /\ status # "loading" => /\ Loaded = Len(maps)
                             /\ file_chunks = [k \in 1 .. header_n_chunks |-> ChunkOffset(k - 1)]

LEMMA InitLoader == Init => LoaderInv
<1> SUFFICES ASSUME Init PROVE LoaderInv
  OBVIOUS
<1>1. maps \in Seq(MemoryRangeHeader)
  BY DumpAssumption DEF Init
<1>2. Len(memory_ranges) = 0 /\ DOMAIN memory_ranges = {} /\ memory_ranges \in Seq(MemoryRange)
  BY DEF Init
<1>3. Len(maps) \in Nat
  BY <1>1
<1>4. QED
  BY <1>2, <1>3 DEF Init, LoaderInv, Loaded, LoaderCounts, FirstChunksRight

(* What is below the chunk the next range starts in.                        *)
LEMMA CountBeforeNext ==
    ASSUME LoaderInv, status = "loading", Loaded < Len(maps)
    PROVE  LET t == From(maps, Loaded + 1) \div CS IN
           Rank(maps, t) = IF Gap(t) THEN n_chunks + 1 ELSE n_chunks
<1> DEFINE t == From(maps, Loaded + 1) \div CS
<1>1. maps \in Maps /\ maps \in Seq(MemoryRangeHeader) /\ memory_ranges \in Seq(MemoryRange)
  BY DumpAssumption DEF LoaderInv
<1>2. Loaded \in Nat /\ DOMAIN maps = 1 .. Len(maps) /\ Len(maps) \in Nat
      /\ Loaded + 1 \in DOMAIN maps
  BY <1>1 DEF Loaded
<1>3. t \in Nat
  BY <1>1, <1>2, ChunkFacts
<1>4. \A i \in DOMAIN maps : i > Loaded => From(maps, i) \div CS >= t
  <2>1. SUFFICES ASSUME NEW i \in DOMAIN maps, i > Loaded PROVE From(maps, i) \div CS >= t
    OBVIOUS
  <2>2. CASE i = Loaded + 1
    BY <1>3, <2>2
  <2>3. CASE i # Loaded + 1
    <3>1. Loaded + 1 < i
      BY <1>2, <2>1, <2>3
    <3>2. From(maps, Loaded + 1) \div CS <= To(maps, Loaded + 1) \div CS
          /\ To(maps, Loaded + 1) \div CS <= From(maps, i) \div CS
      BY <1>1, <1>2, <2>1, <3>1, LaterChunks, ChunkFacts
    <3>3. QED
      BY <1>1, <1>2, <2>1, <3>2, ChunkFacts
  <2>4. QED
    BY <2>2, <2>3
<1> HIDE DEF t
<1>5. CASE Loaded = 0
  <2>1. ASSUME NEW d \in WrittenChunks(maps), d < t PROVE FALSE
    <3>1. PICK i \in DOMAIN maps : d \in ChunksOf(maps, i)
      BY <1>1, InWritten
    <3>2. d >= From(maps, i) \div CS /\ d \in Nat /\ From(maps, i) \div CS \in Nat
      BY <1>1, <3>1, ChunkFacts, ChunksOfIs
    <3>3. i > Loaded
      BY <1>2, <1>5, <3>1
    <3>4. QED
      BY <1>3, <1>4, <2>1, <3>2, <3>3
  <2>2. Before(maps, t) = {}
    BY <2>1 DEF Before
  <2>3. Rank(maps, t) = 0
    BY <2>2, FS_EmptySet DEF Rank
  <2>4. n_chunks = 0 /\ last_end = 0
    BY <1>5 DEF LoaderInv, LoaderCounts
  <2>5. last_end % CS = 0
    BY <2>4, DumpAssumption DEF CS
  <2>6. ~ Gap(t)
    BY <2>5 DEF Gap, CS
  <2>7. QED
    BY <2>3, <2>4, <2>6 DEF t
<1>6. CASE Loaded # 0
  <2>1. Loaded \in DOMAIN maps /\ Loaded < Loaded + 1
    BY <1>2, <1>6
  <2>2. To(maps, Loaded) \div CS <= t
    BY <1>1, <1>2, <2>1, LaterChunks DEF t
  <2>3. /\ last_end = To(maps, Loaded)
        /\ last_v_chunk = last_end \div CS
        /\ n_chunks = Rank(maps, last_v_chunk)
    BY <1>6 DEF LoaderInv, LoaderCounts
  <2>4. Rank(maps, t) = n_chunks + (IF last_v_chunk # t /\ last_end % CS # 0 THEN 1 ELSE 0)
    BY <1>1, <1>3, <1>4, <2>1, <2>2, <2>3, BeforeNext
  <2>5. Gap(t) <=> last_v_chunk # t /\ last_end % CS # 0
    BY DEF Gap, CS
  <2>6. n_chunks \in Nat
    BY DEF LoaderInv
  <2>7. QED
    BY <2>4, <2>5, <2>6 DEF t
<1>7. QED
  BY <1>5, <1>6

LEMMA LoadRangeKeeps == ASSUME LoaderInv, LoadRange PROVE LoaderInv'
<1> DEFINE i == Loaded + 1
           hdr == maps[i]
           t == From(maps, i) \div CS
           nx == To(maps, i) \div CS
           new == [first_chunk |-> Rank(maps, t), v_start |-> hdr.v_start, size |-> hdr.size,
                   is_anon |-> hdr.name \in AnonNames]
<1>1. maps \in Maps /\ maps \in Seq(MemoryRangeHeader) /\ memory_ranges \in Seq(MemoryRange)
      /\ status = "loading" /\ Loaded < Len(maps)
  BY DumpAssumption DEF LoaderInv, LoadRange, Loaded
<1>2. Loaded \in Nat /\ i \in DOMAIN maps /\ Len(maps) \in Nat /\ DOMAIN maps = 1 .. Len(maps)
  BY <1>1 DEF Loaded
<1>3. Rank(maps, t) = IF Gap(t) THEN n_chunks + 1 ELSE n_chunks
  BY <1>1, CountBeforeNext
<1>4. /\ memory_ranges' = Append(memory_ranges, new)
      /\ n_chunks' = Rank(maps, t) + (nx - t)
      /\ last_end' = To(maps, i) /\ last_v_chunk' = nx
      /\ modules' = WithModule(hdr)
      /\ maps' = maps /\ file_chunks' = file_chunks /\ status' = status
  BY <1>3 DEF LoadRange, Loaded, From, To, CS
<1>5. t \in Nat /\ nx \in Nat /\ t <= nx /\ Rank(maps, t) \in Nat
  BY <1>1, <1>2, ChunkFacts, RankFacts
<1>6. new \in MemoryRange
  BY <1>1, <1>2, <1>5, RangeFacts DEF MemoryRange, From
<1>7. /\ memory_ranges' \in Seq(MemoryRange) /\ Loaded' = i
      /\ memory_ranges'[i] = new
      /\ \A j \in DOMAIN memory_ranges : memory_ranges'[j] = memory_ranges[j]
      /\ DOMAIN memory_ranges' = DOMAIN memory_ranges \cup {i}
  BY <1>1, <1>4, <1>6 DEF Loaded
<1>8. Rank(maps, nx) = Rank(maps, t) + (nx - t)
  <2>1. t .. nx - 1 \subseteq ChunksOf(maps, i)
    BY <1>1, <1>2, <1>5, ChunkFacts, ChunksOfIs
  <2>2. t .. nx - 1 \subseteq WrittenChunks(maps)
    BY <1>1, <1>2, <2>1, InWritten
  <2>3. QED
    BY <1>1, <1>5, <2>2, RankOfRun
<1>9. FirstChunksRight'
  <2>1. \A j \in DOMAIN memory_ranges' :
          memory_ranges'[j].first_chunk = Rank(maps, maps[j].v_start \div chunk_size)
    <3>1. new.first_chunk = Rank(maps, maps[i].v_start \div chunk_size)
      BY DEF From, CS
    <3>2. QED
      BY <1>7, <3>1 DEF LoaderInv, FirstChunksRight
  <2>2. QED
    BY <1>4, <2>1 DEF FirstChunksRight, Rank, Before
<1>10. \A n \in DOMAIN modules' : n \in FileNames /\ modules'[n] \in Module
  <2>1. hdr.v_start \in Nat /\ hdr.file_ofs \in Nat
    BY <1>1, <1>2, RangeFacts DEF From
  <2>2. \A n \in DOMAIN modules : n \in FileNames /\ modules[n] \in Module
    BY DEF LoaderInv
  <2>3. QED
    BY <1>4, <2>1, <2>2 DEF WithModule, Module
<1>11. LoaderCounts'
  <2>1. Loaded' # 0
    BY <1>2, <1>7
  <2>2. QED
    BY <1>4, <1>7, <1>8, <2>1 DEF LoaderCounts, To, CS
<1>12. To(maps, i) \in Nat
  BY <1>1, <1>2, RangeFacts
<1>13. QED
  <2>1. new.v_start = maps[i].v_start /\ new.size = maps[i].size
    OBVIOUS
  <2>2. \A j \in DOMAIN memory_ranges' : /\ memory_ranges'[j].v_start = maps[j].v_start
                                         /\ memory_ranges'[j].size = maps[j].size
    BY <1>7, <2>1 DEF LoaderInv
  <2>3. n_chunks' \in Nat /\ last_v_chunk' \in Nat /\ last_end' \in Nat
    BY <1>4, <1>5, <1>12
  <2>4. maps' = maps /\ maps' \in Maps /\ Loaded' <= Len(maps')
    BY <1>1, <1>2, <1>4, <1>7
  <2>5. status' = "loading" /\ file_chunks' = <<>>
    BY <1>1, <1>4 DEF LoaderInv
  <2>6. memory_ranges' \in Seq(MemoryRange)
    BY <1>7
  <2> HIDE DEF i, hdr, t, nx, new
  <2>7. QED
    BY <1>9, <1>10, <1>11, <2>2, <2>3, <2>4, <2>5, <2>6 DEF LoaderInv

(* After the last range nothing is left to count but the chunk it entered.  *)
LEMMA CountAll ==
    ASSUME LoaderInv, status = "loading", Loaded = Len(maps)
    PROVE  header_n_chunks = IF last_end % CS # 0 THEN n_chunks + 1 ELSE n_chunks
<1>1. maps \in Maps /\ maps \in Seq(MemoryRangeHeader) /\ n_chunks \in Nat
  BY DumpAssumption DEF LoaderInv
<1>2. CASE Loaded = 0
  <2>1. DOMAIN maps = {}
    <3>1. Len(maps) = 0
      BY <1>2
    <3>2. DOMAIN maps = 1 .. Len(maps)
      BY <1>1
    <3>3. QED
      BY <3>1, <3>2
  <2>2. WrittenChunks(maps) = {}
    BY <1>1, <2>1, InWritten
  <2>3. header_n_chunks = 0
    BY <2>2, FS_EmptySet DEF header_n_chunks
  <2>4. n_chunks = 0 /\ last_end = 0
    BY <1>2 DEF LoaderInv, LoaderCounts
  <2>5. last_end % CS = 0
    BY <2>4, DumpAssumption DEF CS
  <2>6. QED
    BY <2>3, <2>4, <2>5
<1>3. CASE Loaded # 0
  <2> DEFINE v == To(maps, Loaded) \div CS
             t == v + 1
  <2>1. Loaded \in DOMAIN maps /\ \A i \in DOMAIN maps : i \in Nat /\ ~ (i > Loaded)
    BY <1>1, <1>3
  <2>2. v \in Nat /\ t \in Nat /\ v <= t /\ v # t
    BY <1>1, <2>1, ChunkFacts
  <2>3. /\ last_end = To(maps, Loaded)
        /\ last_v_chunk = v
        /\ n_chunks = Rank(maps, v)
    BY <1>3 DEF LoaderInv, LoaderCounts
  <2>4. Rank(maps, t) = n_chunks + (IF last_end % CS # 0 THEN 1 ELSE 0)
    BY <1>1, <2>1, <2>2, <2>3, BeforeNext
  <2>5. WrittenChunks(maps) = Before(maps, t)
    BY <1>1, <2>1, AllBelow
  <2>6. header_n_chunks = Rank(maps, t)
    BY <2>5 DEF header_n_chunks, Rank
  <2>7. QED
    BY <1>1, <2>4, <2>6
<1>4. QED
  BY <1>2, <1>3

LEMMA FinishKeeps == ASSUME LoaderInv, FinishLoading PROVE LoaderInv'
<1>1. status = "loading" /\ Loaded = Len(maps)
  BY DEF FinishLoading, Loaded
<1>2. n_chunks' = header_n_chunks /\ n_chunks' \in Nat
  BY <1>1, CountAll DEF FinishLoading, CS, LoaderInv
<1>3. /\ status' = "ready" /\ file_chunks' = [k \in 1 .. header_n_chunks |-> ChunkOffset(k - 1)]
      /\ UNCHANGED <<maps, memory_ranges, modules, last_v_chunk, last_end>>
  BY <1>2 DEF FinishLoading
<1>4. header_n_chunks' = header_n_chunks /\ Loaded' = Loaded /\ FirstChunksRight'
  BY <1>3 DEF header_n_chunks, Loaded, LoaderInv, FirstChunksRight, Rank, Before
<1>5. file_chunks' = [k \in 1 .. header_n_chunks' |-> ChunkOffset(k - 1)']
  BY <1>3, <1>4 DEF ChunkOffset
<1>6. QED
  BY <1>1, <1>2, <1>3, <1>4, <1>5 DEF LoaderInv

(* Reads leave the loader's results alone.                                  *)
ReadStep ==
    /\ UNCHANGED <<maps, loadvars>>
    /\ status' = status \/ (status = "ready" /\ status' = "panicked")
LEMMA ReadsKeepLoader == ASSUME LoaderInv, ReadStep PROVE LoaderInv'
<1>1. UNCHANGED <<maps, memory_ranges, modules, n_chunks, last_v_chunk, last_end, file_chunks>>
  BY DEF ReadStep, loadvars
<1>2. /\ header_n_chunks' = header_n_chunks /\ Loaded' = Loaded /\ FirstChunksRight'
      /\ LoaderCounts' <=> LoaderCounts
  BY <1>1 DEF header_n_chunks, Loaded, LoaderInv, FirstChunksRight, Rank, Before, LoaderCounts,
              To, CS
<1>3. QED
  BY <1>1, <1>2 DEF LoaderInv, ReadStep, ChunkOffset

LEMMA ReadsAreReadSteps ==
    /\ \A addr, len : ReadBytes(addr, len) => ReadStep
    /\ \A addr, len : CheckValid(addr, len) => ReadStep
    /\ ReadRest => ReadStep
    /\ UNCHANGED vars => ReadStep
<1>1. ASSUME NEW addr, NEW len, ReadBytes(addr, len) PROVE ReadStep
  BY <1>1 DEF ReadBytes, Idle, ReadStep, loadvars
<1>2. ASSUME NEW addr, NEW len, CheckValid(addr, len) PROVE ReadStep
  BY <1>2 DEF CheckValid, Idle, ReadStep, loadvars
<1>3. ASSUME ReadRest PROVE ReadStep
  BY <1>3 DEF ReadRest, ReadStep, loadvars
<1>4. ASSUME UNCHANGED vars PROVE ReadStep
  BY <1>4 DEF vars, ReadStep, loadvars
<1>5. QED
  BY <1>1, <1>2, <1>3, <1>4

LEMMA NextLoader == LoaderInv /\ [Next]_vars => LoaderInv'
<1> SUFFICES ASSUME LoaderInv, [Next]_vars PROVE LoaderInv'
  OBVIOUS
<1>1. CASE LoadRange
  BY <1>1, LoadRangeKeeps
<1>2. CASE FinishLoading
  BY <1>2, FinishKeeps
<1>3. CASE ReadStep
  BY <1>3, ReadsKeepLoader
<1>4. QED
  BY <1>1, <1>2, <1>3, ReadsAreReadSteps DEF Next

(* No dump mrustc wrote is rejected: the chunks counted from the ranges are *)
(* the chunks stored, for every chunk size and every list of ranges         *)
(* (mrustc.rs:62-101).                                                      *)
THEOREM DumpNeverRejected == Spec => []NeverRejected
<1>1. LoaderInv => NeverRejected
  BY DEF LoaderInv, NeverRejected
<1>2. QED
  BY <1>1, InitLoader, NextLoader, PTL DEF Spec

(* Every range knows its first stored chunk (mrustc.rs:62-101).             *)
THEOREM DumpFirstChunks == Spec => []FirstChunksRight
<1>1. LoaderInv => FirstChunksRight
  BY DEF LoaderInv
<1>2. QED
  BY <1>1, InitLoader, NextLoader, PTL DEF Spec

-----------------------------------------------------------------------------
(* Where a mapped byte is stored.                                           *)

LEMMA FileHolds ==
    ASSUME maps \in Maps, NEW c \in WrittenChunks(maps)
    PROVE  /\ HeaderSize + Rank(maps, c) \in ChunkOffsets
           /\ DumpFile[HeaderSize + Rank(maps, c)] = Content(c)
<1> DEFINE ofs == HeaderSize + Rank(maps, c)
<1>1. Rank(maps, c) \in 0 .. MaxChunks
  BY PlaceInFile, WrittenFinite, DumpAssumption
<1>2. ofs \in ChunkOffsets
  BY <1>1 DEF ChunkOffsets
<1>3. ASSUME NEW d \in WrittenChunks(maps), HeaderSize + Rank(maps, d) = ofs PROVE d = c
  <2>1. Rank(maps, d) = Rank(maps, c)
    BY <1>3, PlaceInFile, DumpAssumption
  <2>2. ~ (c < d) /\ ~ (d < c) /\ c \in Nat /\ d \in Nat
    BY <2>1, PlacesDiffer, PlaceInFile, WrittenNat
  <2>3. QED
    BY <2>2
<1>4. StoredAt(ofs) = Content(c)
  <2>1. (CHOOSE d \in WrittenChunks(maps) : HeaderSize + Rank(maps, d) = ofs) = c
    BY <1>3
  <2>2. QED
    BY <2>1 DEF StoredAt
<1>5. QED
  BY <1>2, <1>4 DEF DumpFile

LEMMA FileType ==
    ASSUME maps \in Maps
    PROVE  DumpFile \in [ChunkOffsets -> [0 .. chunk_size - 1 -> Nat]]
<1>1. \A c \in Nat : Content(c) \in [0 .. chunk_size - 1 -> Nat]
  BY DumpAssumption DEF Content
<1>2. Zeroes \in [0 .. chunk_size - 1 -> Nat]
  BY DEF Zeroes
<1>3. ASSUME NEW ofs \in ChunkOffsets PROVE StoredAt(ofs) \in [0 .. chunk_size - 1 -> Nat]
  <2>1. CASE \E c \in WrittenChunks(maps) : HeaderSize + Rank(maps, c) = ofs
    BY <1>1, <2>1, WrittenNat DEF StoredAt
  <2>2. CASE ~ \E c \in WrittenChunks(maps) : HeaderSize + Rank(maps, c) = ofs
    BY <1>2, <2>2 DEF StoredAt
  <2>3. QED
    BY <2>1, <2>2
<1>4. QED
  BY <1>3 DEF DumpFile

(* The chunk a read of the byte at addr goes to.                            *)
LEMMA RangeFound ==
    ASSUME LoaderInv, NEW addr \in Nat, NEW i \in Containing(addr)
    PROVE  /\ RangeOf(addr) = memory_ranges[i]
           /\ i \in DOMAIN maps /\ i \in DOMAIN memory_ranges
           /\ From(maps, i) <= addr /\ addr < To(maps, i)
<1>1. maps \in Maps /\ maps \in Seq(MemoryRangeHeader) /\ memory_ranges \in Seq(MemoryRange)
      /\ Loaded <= Len(maps)
  BY DumpAssumption DEF LoaderInv
<1>2. DOMAIN memory_ranges \subseteq DOMAIN maps /\ \A j \in DOMAIN maps : j \in Nat
  BY <1>1 DEF Loaded
<1>3. \A j \in Containing(addr) : /\ j \in DOMAIN maps /\ j \in DOMAIN memory_ranges
                                  /\ From(maps, j) <= addr /\ addr < To(maps, j)
  BY <1>2 DEF Containing, LoaderInv, From, To
<1>4. ASSUME NEW j \in Containing(addr) PROVE j = i
  <2>1. ~ (i < j)
    BY <1>1, <1>3, RangeFacts
  <2>2. ~ (j < i)
    BY <1>1, <1>3, RangeFacts
  <2>3. QED
    BY <1>2, <1>3, <2>1, <2>2
<1>5. (CHOOSE k \in Containing(addr) : \A j \in Containing(addr) : k <= j) = i
  <2>1. \A j \in Containing(addr) : i <= j
    BY <1>2, <1>3, <1>4
  <2>2. QED
    BY <1>4, <2>1
<1>6. QED
  BY <1>3, <1>5 DEF RangeOf

LEMMA IndexIsPlace ==
    ASSUME LoaderInv, NEW addr \in Nat, Containing(addr) # {}
    PROVE  /\ addr \div CS \in WrittenChunks(maps)
           /\ ChunkIndex(addr) = Rank(maps, addr \div CS)
<1>1. PICK i \in Containing(addr) : TRUE
  OBVIOUS
<1> DEFINE q == From(maps, i) \div CS
           c == addr \div CS
           r == memory_ranges[i]
<1>2. maps \in Maps /\ CS \in Nat \ {0}
  BY DumpAssumption DEF LoaderInv, CS
<1>3. /\ RangeOf(addr) = r /\ i \in DOMAIN maps /\ i \in DOMAIN memory_ranges
      /\ From(maps, i) \in Nat /\ To(maps, i) \in Nat /\ To(maps, i) - 1 \in Nat
      /\ From(maps, i) <= addr /\ addr <= To(maps, i) - 1
  BY <1>1, <1>2, RangeFound, RangeFacts
<1>4. r.v_start = From(maps, i) /\ r.first_chunk = Rank(maps, q)
  BY <1>3 DEF LoaderInv, FirstChunksRight, From, CS
<1>5. q \in Nat /\ c \in Nat /\ q <= c /\ c <= (To(maps, i) - 1) \div CS
  BY <1>2, <1>3, DivMod, DivMono
<1>6. q .. c \subseteq WrittenChunks(maps)
  <2>1. q .. c \subseteq ChunksOf(maps, i)
    BY <1>2, <1>3, <1>5, ChunksOfIs, ChunkFacts
  <2>2. QED
    BY <1>2, <1>3, <2>1, InWritten
<1>7. Rank(maps, c) = Rank(maps, q) + (c - q)
  <2>1. q .. c - 1 \subseteq WrittenChunks(maps)
    BY <1>5, <1>6
  <2>2. QED
    BY <1>2, <1>5, <2>1, RankOfRun
<1>8. (addr - (From(maps, i) - (From(maps, i) % CS))) \div CS = c - q
  BY <1>2, <1>3, ChunksApart
<1>9. ChunkIndex(addr) = Rank(maps, q) + (c - q)
  BY <1>3, <1>4, <1>8 DEF ChunkIndex, CS
<1>10. c \in WrittenChunks(maps)
  BY <1>5, <1>6
<1>11. QED
  BY <1>7, <1>9, <1>10

(* What is copied out of the right chunk is what was in memory.             *)
LEMMA CopyIsMemory ==
    ASSUME NEW addr \in Nat, NEW l \in 1 .. CS, (addr % CS) + l <= CS
    PROVE  Copy(Content(addr \div CS), addr % CS, l) = [k \in 1 .. l |-> addr + k - 1]
<1> DEFINE c == addr \div CS
           o == addr % CS
<1>1. CS \in Nat \ {0}
  BY DumpAssumption DEF CS
<1>2. addr = (CS * c) + o /\ c \in Nat /\ o \in 0 .. CS - 1
  BY <1>1, DivMod
<1> HIDE DEF c, o
<1>3. ASSUME NEW k \in 1 .. l PROVE Content(c)[o + k - 1] = addr + k - 1
  <2>1. o + k - 1 \in 0 .. CS - 1
    BY <1>1, <1>2 DEF o
  <2>2. Content(c)[o + k - 1] = (c * CS) + (o + k - 1)
    BY <2>1 DEF Content, CS
  <2>3. QED
    BY <1>1, <1>2, <2>2
<1>4. QED
  BY <1>3 DEF Copy, c, o

-----------------------------------------------------------------------------
(* The cache a dump is read through delivers what is in its file.           *)

CacheProofs == INSTANCE ChunkCacheProofs
                 WITH Offsets <- ChunkOffsets, Chunks <- [0 .. chunk_size - 1 -> Nat],
                      file <- DumpFile

LEMMA CacheConstants == CacheProofs!CacheAssumption
<1>1. ChunkOffsets \subseteq Nat \ {0}
  BY DumpAssumption DEF ChunkOffsets
<1>2. Zeroes \in [0 .. chunk_size - 1 -> Nat]
  BY DEF Zeroes
<1>3. QED
  BY <1>1, <1>2, DumpAssumption DEF CacheProofs!CacheAssumption

LEMMA SameStep ==
    ASSUME NEW ofs, Cache!with_chunk(ofs)
    PROVE  CacheProofs!with_chunk(ofs)
<1>1. \A I : Cache!First(I) = CacheProofs!First(I)
  BY DEF Cache!First, CacheProofs!First
<1>2. Cache!Slots = CacheProofs!Slots
  BY DEF Cache!Slots, CacheProofs!Slots, Cache!n_ents, CacheProofs!n_ents
<1>3. Cache!Matching(ofs) = CacheProofs!Matching(ofs)
  BY <1>2 DEF Cache!Matching, CacheProofs!Matching
<1>4. Cache!oldest = CacheProofs!oldest
  BY <1>1, <1>2 DEF Cache!oldest, CacheProofs!oldest
<1>5. Cache!Refilled(ofs) = CacheProofs!Refilled(ofs)
  BY DEF Cache!Refilled, CacheProofs!Refilled
<1>6. QED
  BY <1>1, <1>3, <1>4, <1>5 DEF Cache!with_chunk, CacheProofs!with_chunk

LEMMA SameStart == Cache!Start => CacheProofs!Start
BY DEF Cache!Start, CacheProofs!Start, Cache!Slots, CacheProofs!Slots, Cache!n_ents,
       CacheProofs!n_ents, Cache!Fresh, CacheProofs!Fresh

LEMMA CacheStart == Init => CacheProofs!Inv
<1> SUFFICES ASSUME Init PROVE CacheProofs!Inv
  OBVIOUS
<1>1. DumpFile \in [ChunkOffsets -> [0 .. chunk_size - 1 -> Nat]]
  BY FileType DEF Init
<1>2. CacheProofs!Init
  BY <1>1, SameStart DEF Init, CacheProofs!Init
<1>3. QED
  BY <1>2, CacheConstants, CacheProofs!InitInv

LEMMA CacheStep ==
    ASSUME CacheProofs!Inv, NEW ofs \in ChunkOffsets, Cache!with_chunk(ofs)
    PROVE  CacheProofs!Inv' /\ chunk'.data = DumpFile[ofs]
<1>1. CacheProofs!with_chunk(ofs)
  BY SameStep
<1>2. CacheProofs!Inv'
  BY <1>1, CacheConstants, CacheProofs!HitKeeps, CacheProofs!MissKeeps
<1>3. chunk'.ofs = ofs /\ ofs # 0 /\ DumpFile' = DumpFile
  BY <1>1, CacheConstants DEF CacheProofs!with_chunk, CacheProofs!CacheAssumption
<1>4. chunk'.data = DumpFile'[chunk'.ofs]
  BY <1>2, <1>3 DEF CacheProofs!Inv, CacheProofs!DeliversTheFile
<1>5. QED
  BY <1>2, <1>3, <1>4

LEMMA CacheRests ==
    ASSUME CacheProofs!Inv, UNCHANGED <<maps, cachevars>>
    PROVE  CacheProofs!Inv'
<1>1. UNCHANGED <<DumpFile, uses, ents, chunk, stamp>>
  BY DEF cachevars, DumpFile, StoredAt, WrittenChunks, Rank, Before
<1>2. [CacheProofs!Next]_(CacheProofs!vars)
  BY <1>1 DEF CacheProofs!vars
<1>3. QED
  BY <1>2, CacheConstants, CacheProofs!NextInv

-----------------------------------------------------------------------------
(* The reads.                                                               *)

ReqType == req \in [state : States, addr : Nat, len : 0 .. chunk_size, dst : Seq(Nat)]
Run(a, n) == [k \in 1 .. n |-> a + k - 1]
Split ==
    req.state = "split" =>
        /\ status # "loading"
        /\ Containing(req.addr) # {} /\ req.len \in 1 .. CS
        /\ (req.addr % CS) + req.len > CS
        /\ req.dst = Run(req.addr, CS - (req.addr % CS))
ReqInv == ReqType /\ Split /\ ReadsMemory

LEMMA RunType ==
    ASSUME NEW a \in Nat, NEW n \in Nat
    PROVE  /\ Run(a, n) \in Seq(Nat) /\ Len(Run(a, n)) = n
           /\ \A k \in 1 .. n : Run(a, n)[k] = a + k - 1
BY DEF Run

LEMMA RunsJoin ==
    ASSUME NEW a \in Nat, NEW n \in Nat, NEW l \in Nat
    PROVE  Run(a, n) \o Run(a + n, l) = Run(a, n + l)
<1> DEFINE s == Run(a, n)
           t == Run(a + n, l)
           u == Run(a, n + l)
<1>1. /\ s \in Seq(Nat) /\ Len(s) = n /\ \A k \in 1 .. n : s[k] = a + k - 1
      /\ t \in Seq(Nat) /\ Len(t) = l /\ \A k \in 1 .. l : t[k] = (a + n) + k - 1
      /\ u \in Seq(Nat) /\ Len(u) = n + l /\ \A k \in 1 .. n + l : u[k] = a + k - 1
  <2>1. a + n \in Nat /\ n + l \in Nat
    OBVIOUS
  <2>2. s \in Seq(Nat) /\ Len(s) = n /\ \A k \in 1 .. n : s[k] = a + k - 1
    BY RunType
  <2>3. t \in Seq(Nat) /\ Len(t) = l /\ \A k \in 1 .. l : t[k] = (a + n) + k - 1
    BY <2>1, RunType
  <2>4. u \in Seq(Nat) /\ Len(u) = n + l /\ \A k \in 1 .. n + l : u[k] = a + k - 1
    BY <2>1, RunType
  <2>5. QED
    BY <2>2, <2>3, <2>4
<1> HIDE DEF s, t, u
<1>2. /\ s \o t \in Seq(Nat) /\ Len(s \o t) = n + l
      /\ \A k \in 1 .. n + l : (s \o t)[k] = IF k <= n THEN s[k] ELSE t[k - n]
  BY <1>1, ConcatProperties
<1>3. ASSUME NEW k \in 1 .. n + l PROVE (s \o t)[k] = u[k]
  <2>1. CASE k <= n
    BY <1>1, <1>2, <2>1
  <2>2. CASE ~ (k <= n)
    <3>1. k - n \in 1 .. l
      BY <2>2
    <3>2. (s \o t)[k] = t[k - n]
      BY <1>2, <2>2
    <3>3. t[k - n] = (a + n) + (k - n) - 1 /\ u[k] = a + k - 1
      BY <1>1, <3>1
    <3>4. QED
      BY <3>2, <3>3
  <2>3. QED
    BY <2>1, <2>2
<1>4. s \o t = u
  BY <1>1, <1>2, <1>3, SeqEqual
<1>5. QED
  BY <1>4 DEF s, t, u

LEMMA CopyType ==
    ASSUME NEW data \in [0 .. chunk_size - 1 -> Nat], NEW o \in Nat, NEW l \in Nat, o + l <= CS
    PROVE  Copy(data, o, l) \in Seq(Nat) /\ Len(Copy(data, o, l)) = l
<1>1. CS \in Nat \ {0} /\ CS = chunk_size
  BY DumpAssumption DEF CS
<1>2. \A k \in 1 .. l : data[o + k - 1] \in Nat
  BY <1>1
<1>3. QED
  BY <1>2 DEF Copy

(* What every read starts from.                                             *)
LEMMA ReadyFacts ==
    ASSUME LoaderInv, status = "ready"
    PROVE  /\ maps \in Maps /\ header_n_chunks \in Nat
           /\ Len(file_chunks) = header_n_chunks
           /\ \A i \in 0 .. header_n_chunks - 1 :
                /\ file_chunks[i + 1] = HeaderSize + i
                /\ HeaderSize + i \in ChunkOffsets
<1>1. maps \in Maps /\ file_chunks = [k \in 1 .. header_n_chunks |-> ChunkOffset(k - 1)]
  BY DEF LoaderInv
<1>2. header_n_chunks \in Nat /\ header_n_chunks <= MaxChunks
  BY <1>1, WrittenFinite DEF header_n_chunks
<1>3. ASSUME NEW i \in 0 .. header_n_chunks - 1
      PROVE  file_chunks[i + 1] = HeaderSize + i /\ HeaderSize + i \in ChunkOffsets
  <2>1. i \in 0 .. MaxChunks /\ i + 1 \in 1 .. header_n_chunks /\ (i + 1) - 1 = i
    BY <1>2, DumpAssumption
  <2>2. QED
    BY <1>1, <2>1 DEF ChunkOffset, ChunkOffsets
<1>4. Len(file_chunks) = header_n_chunks
  BY <1>1, <1>2
<1>5. QED
  BY <1>1, <1>2, <1>3, <1>4

LEMMA MappedIsFound ==
    ASSUME LoaderInv, status = "ready", NEW a \in Nat, Mapped(maps, a)
    PROVE  Containing(a) # {}
<1>1. PICK i \in DOMAIN maps : maps[i].v_start <= a /\ a < maps[i].v_start + maps[i].size
  BY DEF Mapped
<1>2. maps \in Seq(MemoryRangeHeader) /\ memory_ranges \in Seq(MemoryRange) /\ Loaded = Len(maps)
  BY DumpAssumption DEF LoaderInv
<1>3. DOMAIN maps = DOMAIN memory_ranges
  BY <1>2 DEF Loaded
<1>4. i \in Containing(a)
  BY <1>1, <1>3 DEF Containing, LoaderInv
<1>5. QED
  BY <1>4

LEMMA ReadBytesKeeps ==
    ASSUME LoaderInv, CacheProofs!Inv, NEW addr \in Addrs, NEW len \in Lens, ReadBytes(addr, len)
    PROVE  ReqInv' /\ CacheProofs!Inv'
<1> DEFINE o == addr % CS
           c == addr \div CS
<1>1. /\ addr \in Nat /\ CS \in Nat \ {0} /\ len \in 1 .. CS /\ status = "ready"
      /\ maps' = maps /\ memory_ranges' = memory_ranges
  BY DumpAssumption DEF ReadBytes, Idle, loadvars, CS
<1>2. o \in 0 .. CS - 1 /\ c \in Nat
  BY <1>1, DivMod
<1>3. /\ \A a, l : AllMapped(a, l)' <=> AllMapped(a, l)
      /\ \A a : Containing(a)' = Containing(a)
  BY <1>1 DEF AllMapped, Mapped, Containing
<1>4. CASE Containing(addr) = {}
  <2>1. req' = [state |-> "err", addr |-> addr, len |-> len, dst |-> <<>>] /\ UNCHANGED cachevars
    BY <1>4 DEF ReadBytes, Answer
  <2>2. ~ AllMapped(addr, len)
    <3>1. 0 \in 0 .. len - 1 /\ addr + 0 = addr
      BY <1>1
    <3>2. ~ Mapped(maps, addr)
      BY <1>1, <1>4, MappedIsFound
    <3>3. QED
      BY <3>1, <3>2 DEF AllMapped
  <2>3. ReqType' /\ Split' /\ ReadsMemory'
    <3>1. ReqType'
      BY <1>1, <2>1 DEF ReqType, States, CS
    <3>2. Split'
      BY <2>1 DEF Split
    <3>3. ReadsMemory'
      BY <1>3, <2>1, <2>2 DEF ReadsMemory
    <3>4. QED
      BY <3>1, <3>2, <3>3
  <2>4. CacheProofs!Inv'
    BY <1>1, <2>1, CacheRests
  <2>5. QED
    BY <2>3, <2>4 DEF ReqInv
<1>5. CASE Containing(addr) # {}
  <2>1. c \in WrittenChunks(maps) /\ ChunkIndex(addr) = Rank(maps, c)
    BY <1>1, <1>5, IndexIsPlace
  <2>2. Rank(maps, c) \in 0 .. header_n_chunks - 1 /\ Len(file_chunks) = header_n_chunks
        /\ header_n_chunks \in Nat
    BY <1>1, <2>1, ReadyFacts, PlaceInFile DEF header_n_chunks
  <2>3. ~ (ChunkIndex(addr) >= Len(file_chunks))
        /\ file_chunks[ChunkIndex(addr) + 1] = HeaderSize + Rank(maps, c)
    BY <1>1, <2>1, <2>2, ReadyFacts
  <2>4. /\ Cache!with_chunk(HeaderSize + Rank(maps, c))
        /\ IF o + len > CS
             THEN req' = [state |-> "split", addr |-> addr, len |-> len,
                          dst |-> Copy(chunk'.data, o, CS - o)]
             ELSE req' = [state |-> "ok", addr |-> addr, len |-> len,
                          dst |-> Copy(chunk'.data, o, len)]
    BY <1>5, <2>3 DEF ReadBytes, Answer, CS
  <2>5. CacheProofs!Inv' /\ chunk'.data = Content(c)
    BY <1>1, <2>1, <2>4, CacheStep, FileHolds, ReadyFacts
  <2>6. CASE o + len > CS
    <3>1. CS - o \in 1 .. CS /\ CS - o \in Nat /\ o + (CS - o) <= CS
      BY <1>1, <1>2
    <3>2. Copy(chunk'.data, o, CS - o) = Run(addr, CS - o)
      BY <1>1, <2>5, <3>1, CopyIsMemory DEF Run
    <3>3. req' = [state |-> "split", addr |-> addr, len |-> len, dst |-> Run(addr, CS - o)]
      BY <2>4, <2>6, <3>2
    <3>4. ReqType'
      <4>1. Run(addr, CS - o) \in Seq(Nat)
        BY <1>1, <3>1, RunType
      <4>2. QED
        BY <1>1, <3>3, <4>1 DEF ReqType, States, CS
    <3>5. Split'
      BY <1>1, <1>3, <1>5, <2>6, <3>3 DEF Split, CS, Run, ReadBytes
    <3>6. ReadsMemory'
      BY <3>3 DEF ReadsMemory
    <3>7. QED
      BY <2>5, <3>4, <3>5, <3>6 DEF ReqInv
  <2>7. CASE ~ (o + len > CS)
    <3>1. o + len <= CS
      BY <1>1, <1>2, <2>7
    <3>2. Copy(chunk'.data, o, len) = Run(addr, len)
      BY <1>1, <2>5, <3>1, CopyIsMemory DEF Run
    <3>3. req' = [state |-> "ok", addr |-> addr, len |-> len, dst |-> Run(addr, len)]
      BY <2>4, <2>7, <3>2
    <3>4. ReqType'
      BY <1>1, <3>3, RunType DEF ReqType, States, CS
    <3>5. Split'
      BY <3>3 DEF Split
    <3>6. ReadsMemory'
      BY <3>3 DEF ReadsMemory, Run
    <3>7. QED
      BY <2>5, <3>4, <3>5, <3>6 DEF ReqInv
  <2>8. QED
    BY <2>6, <2>7
<1>6. QED
  BY <1>4, <1>5

(* When all of a split read is mapped, its rest is in the next stored chunk. *)
LEMMA RestIsStored ==
    ASSUME LoaderInv, status = "ready", NEW addr \in Nat, NEW len \in 1 .. CS,
           (addr % CS) + len > CS, AllMapped(addr, len)
    PROVE  LET c == addr \div CS
           IN  /\ c + 1 \in WrittenChunks(maps)
               /\ Rank(maps, c + 1) = Rank(maps, c) + 1
<1> DEFINE o == addr % CS
           c == addr \div CS
           last == addr + (len - 1)
<1>1. CS \in Nat \ {0} /\ maps \in Maps
  BY DumpAssumption DEF CS, LoaderInv
<1>2. addr = (CS * c) + o /\ c \in Nat /\ o \in 0 .. CS - 1
  BY <1>1, DivMod
<1>3. len - 1 \in 0 .. len - 1 /\ 0 \in 0 .. len - 1 /\ addr + 0 = addr /\ last \in Nat
  BY <1>1
<1>4. Mapped(maps, last) /\ Mapped(maps, addr)
  BY <1>3 DEF AllMapped
<1>5. Containing(last) # {} /\ Containing(addr) # {}
  BY <1>3, <1>4, MappedIsFound
<1>6. last \div CS \in WrittenChunks(maps) /\ c \in WrittenChunks(maps)
  BY <1>3, <1>5, IndexIsPlace
<1>7. o + len > CS
  OBVIOUS
<1> HIDE DEF o, c, last
<1>8. last \div CS = c + 1
  <2>1. last = (CS * (c + 1)) + ((o + len) - (CS + 1))
    BY <1>1, <1>2 DEF last
  <2>2. (o + len) - (CS + 1) \in 0 .. CS - 1 /\ c + 1 \in Nat
    BY <1>1, <1>2, <1>7
  <2>3. QED
    BY <1>1, <1>3, <2>1, <2>2, DivUnique
<1>9. Rank(maps, c + 1) = Rank(maps, c) + 1
  <2>1. c .. (c + 1) - 1 \subseteq WrittenChunks(maps)
    BY <1>2, <1>6
  <2>2. c + 1 \in Nat /\ c <= c + 1 /\ (c + 1) - c = 1
    BY <1>2
  <2>3. Rank(maps, c + 1) = Rank(maps, c) + ((c + 1) - c)
    BY <1>1, <1>2, <2>1, <2>2, RankOfRun
  <2>4. QED
    BY <2>2, <2>3
<1>10. QED
  BY <1>6, <1>8, <1>9 DEF c

LEMMA ReadRestKeeps ==
    ASSUME LoaderInv, CacheProofs!Inv, ReqInv, ReadRest
    PROVE  ReqInv' /\ CacheProofs!Inv'
<1> DEFINE addr == req.addr
           len == req.len
           o == addr % CS
           c == addr \div CS
           l1 == CS - o
           l2 == len - l1
           idx == Rank(maps, c) + 1
<1>1. /\ CS \in Nat \ {0} /\ status = "ready" /\ maps \in Maps
      /\ maps' = maps /\ memory_ranges' = memory_ranges
      /\ addr \in Nat /\ len \in 1 .. CS /\ o + len > CS /\ Containing(addr) # {}
      /\ req.dst = Run(addr, l1)
  BY DumpAssumption DEF ReadRest, loadvars, ReqInv, ReqType, Split, LoaderInv, CS
<1>2. o \in 0 .. CS - 1 /\ c \in Nat /\ l1 \in 1 .. CS /\ l2 \in 1 .. CS /\ l1 + l2 = len
      /\ addr = (CS * c) + o
      /\ l1 \in Nat /\ l2 \in Nat /\ 0 + l2 <= CS
  <2>1. o \in 0 .. CS - 1 /\ c \in Nat /\ addr = (CS * c) + o
    BY <1>1, DivMod
  <2>2. CS \in Nat \ {0} /\ len \in 1 .. CS /\ o + len > CS
    BY <1>1
  <2> HIDE DEF o, c, len, addr
  <2>3. QED
    BY <2>1, <2>2
<1>3. \A a, l : AllMapped(a, l)' <=> AllMapped(a, l)
  BY <1>1 DEF AllMapped, Mapped
<1>4. ChunkIndex(addr) + 1 = idx /\ idx \in Nat /\ c \in WrittenChunks(maps)
  BY <1>1, IndexIsPlace, PlaceInFile
<1>5. Len(file_chunks) = header_n_chunks /\ header_n_chunks \in Nat
  BY <1>1, ReadyFacts
<1>6. AllMapped(addr, len) => /\ c + 1 \in WrittenChunks(maps) /\ Rank(maps, c + 1) = idx
                              /\ idx < header_n_chunks
  BY <1>1, RestIsStored, PlaceInFile DEF header_n_chunks
<1>7. CASE idx >= header_n_chunks
  <2>1. req' = [state |-> "panicked", addr |-> addr, len |-> len, dst |-> <<>>] /\ UNCHANGED cachevars
    BY <1>4, <1>5, <1>7 DEF ReadRest, Answer
  <2>2. ~ AllMapped(addr, len)
    BY <1>4, <1>5, <1>6, <1>7
  <2>3. ReqType'
    BY <1>1, <2>1 DEF ReqType, States, CS
  <2>4. Split' /\ ReadsMemory'
    BY <1>3, <2>1, <2>2 DEF Split, ReadsMemory
  <2>5. CacheProofs!Inv'
    BY <1>1, <2>1, CacheRests
  <2>6. QED
    BY <2>3, <2>4, <2>5 DEF ReqInv
<1>8. CASE ~ (idx >= header_n_chunks)
  <2>1. idx \in 0 .. header_n_chunks - 1
    BY <1>4, <1>5, <1>8
  <2>2. file_chunks[idx + 1] = HeaderSize + idx /\ HeaderSize + idx \in ChunkOffsets
    BY <1>1, <2>1, ReadyFacts
  <2>3. Len(req.dst) = l1
    <3>1. l1 \in Nat
      BY <1>1, <1>2
    <3>2. Len(Run(addr, l1)) = l1
      BY <1>1, <3>1, RunType
    <3>3. QED
      BY <1>1, <3>2
  <2>4. /\ Cache!with_chunk(HeaderSize + idx)
        /\ req' = [state |-> "ok", addr |-> addr, len |-> len,
                   dst |-> Run(addr, l1) \o Copy(chunk'.data, 0, l2)]
    BY <1>1, <1>4, <1>5, <1>8, <2>2, <2>3 DEF ReadRest, Answer
  <2>5. CacheProofs!Inv' /\ chunk'.data = DumpFile[HeaderSize + idx]
    BY <2>2, <2>4, CacheStep
  <2>6. chunk'.data \in [0 .. chunk_size - 1 -> Nat]
    BY <1>1, <2>2, <2>5, FileType
  <2>7. Copy(chunk'.data, 0, l2) \in Seq(Nat)
    <3>1. 0 \in Nat /\ l2 \in Nat /\ 0 + l2 <= CS
      BY <1>2
    <3>2. QED
      BY <2>6, <3>1, CopyType
  <2>8. ReqType'
    <3>1. Run(addr, l1) \o Copy(chunk'.data, 0, l2) \in Seq(Nat)
      <4>1. Run(addr, l1) \in Seq(Nat)
        BY <1>1, <1>2, RunType
      <4>2. QED
        BY <2>7, <4>1, ConcatProperties
    <3>2. QED
      BY <1>1, <2>4, <3>1 DEF ReqType, States, CS
  <2>9. Split'
    BY <2>4 DEF Split
  <2>10. ASSUME AllMapped(addr, len)
         PROVE  Run(addr, l1) \o Copy(chunk'.data, 0, l2) = Run(addr, len)
    <3> DEFINE next == addr + l1
    <3>1. chunk'.data = Content(c + 1)
      BY <1>1, <1>6, <2>5, <2>10, FileHolds
    <3>2. next \in Nat /\ next \div CS = c + 1 /\ next % CS = 0
      <4>1. next = (CS * (c + 1)) + 0 /\ 0 \in 0 .. CS - 1 /\ c + 1 \in Nat /\ next \in Nat
        <5>1. addr + (CS - o) = (CS * c) + CS
          <6> HIDE DEF c, o, addr
          <6>1. QED
            BY <1>1, <1>2
        <5>2. CS * (c + 1) = (CS * c) + CS
          <6> HIDE DEF c
          <6>1. QED
            BY <1>1, <1>2
        <5>3. QED
          BY <1>1, <1>2, <5>1, <5>2
      <4> HIDE DEF next
      <4>2. QED
        BY <1>1, <4>1, DivUnique
    <3>3. Copy(Content(next \div CS), next % CS, l2) = Run(next, l2)
      <4>1. (next % CS) + l2 <= CS
        BY <1>2, <3>2
      <4>2. QED
        BY <1>2, <3>2, <4>1, CopyIsMemory DEF Run
    <3>4. Copy(chunk'.data, 0, l2) = Run(addr + l1, l2)
      BY <3>1, <3>2, <3>3
    <3>5. QED
      <4>1. l1 \in Nat /\ l2 \in Nat /\ l1 + l2 = len
        BY <1>2
      <4>2. Run(addr, l1) \o Run(addr + l1, l2) = Run(addr, l1 + l2)
        BY <1>1, <4>1, RunsJoin
      <4>3. QED
        BY <3>4, <4>1, <4>2
  <2>11. ReadsMemory'
    BY <1>3, <2>4, <2>10 DEF ReadsMemory, Run
  <2>12. QED
    BY <2>5, <2>8, <2>9, <2>11 DEF ReqInv
<1>9. QED
  BY <1>7, <1>8

LEMMA CheckValidKeeps ==
    ASSUME LoaderInv, CacheProofs!Inv, NEW addr \in Addrs, NEW len \in Lens, CheckValid(addr, len)
    PROVE  ReqInv' /\ CacheProofs!Inv'
<1>1. /\ addr \in Nat /\ len \in 0 .. chunk_size /\ UNCHANGED <<maps, cachevars>>
      /\ \E s \in {"invalid", "valid", "asserted"} :
            req' = [state |-> s, addr |-> addr, len |-> len, dst |-> <<>>]
  <2>1. Answer("invalid", addr, len, <<>>) \/ Answer("valid", addr, len, <<>>)
        \/ Answer("asserted", addr, len, <<>>)
    BY DEF CheckValid
  <2>2. QED
    BY <2>1, DumpAssumption DEF CheckValid, Answer
<1>2. ReqType' /\ Split' /\ ReadsMemory'
  BY <1>1 DEF ReqType, States, Split, ReadsMemory
<1>3. QED
  BY <1>1, <1>2, CacheRests DEF ReqInv

-----------------------------------------------------------------------------
MemoryInv == LoaderInv /\ CacheProofs!Inv /\ ReqInv

LEMMA InitMemory == Init => MemoryInv
<1> SUFFICES ASSUME Init PROVE MemoryInv
  OBVIOUS
<1>1. req = [state |-> "none", addr |-> 0, len |-> 0, dst |-> <<>>]
  BY DEF Init
<1>2. ReqType /\ Split /\ ReadsMemory
  BY <1>1, DumpAssumption DEF ReqType, States, Split, ReadsMemory
<1>3. QED
  BY <1>2, InitLoader, CacheStart DEF MemoryInv, ReqInv

(* Loading leaves the cache and the last request alone.                     *)
LEMMA LoadingKeeps ==
    ASSUME MemoryInv, UNCHANGED <<maps, req, cachevars>>, status = "loading" \/ UNCHANGED <<loadvars, status>>
    PROVE  ReqInv' /\ CacheProofs!Inv'
<1>1. ReqType'
  BY DEF MemoryInv, ReqInv, ReqType
<1>2. ReadsMemory'
  BY DEF MemoryInv, ReqInv, ReadsMemory, AllMapped, Mapped
<1>3. Split'
  <2>1. CASE status = "loading"
    BY <2>1 DEF MemoryInv, ReqInv, Split
  <2>2. CASE UNCHANGED <<loadvars, status>>
    BY <2>2 DEF MemoryInv, ReqInv, Split, Run, Containing, loadvars, CS
  <2>3. QED
    BY <2>1, <2>2
<1>4. QED
  BY <1>1, <1>2, <1>3, CacheRests DEF ReqInv, MemoryInv

LEMMA NextMemory == MemoryInv /\ [Next]_vars => MemoryInv'
<1> SUFFICES ASSUME MemoryInv, [Next]_vars PROVE MemoryInv'
  OBVIOUS
<1>1. LoaderInv'
  BY NextLoader DEF MemoryInv
<1>2. CASE LoadRange \/ FinishLoading
  BY <1>1, <1>2, LoadingKeeps DEF LoadRange, FinishLoading, MemoryInv
<1>3. CASE ReadRest
  BY <1>1, <1>3, ReadRestKeeps DEF MemoryInv
<1>4. ASSUME NEW addr \in Addrs, NEW len \in Lens, ReadBytes(addr, len) PROVE MemoryInv'
  BY <1>1, <1>4, ReadBytesKeeps DEF MemoryInv
<1>5. ASSUME NEW addr \in Addrs, NEW len \in Lens, CheckValid(addr, len) PROVE MemoryInv'
  BY <1>1, <1>5, CheckValidKeeps DEF MemoryInv
<1>6. CASE UNCHANGED vars
  BY <1>1, <1>6, LoadingKeeps DEF vars, MemoryInv
<1>7. QED
  BY <1>2, <1>3, <1>4, <1>5, <1>6 DEF Next

(* A read of mapped memory gives what was there, from the right stored      *)
(* chunk and on both sides of a chunk's end, whatever the cache holds, for  *)
(* every dump, chunk size and cache size (mrustc.rs:173-203).               *)
THEOREM DumpReadsMemory == Spec => []ReadsMemory
<1>1. MemoryInv => ReadsMemory
  BY DEF MemoryInv, ReqInv
<1>2. QED
  BY <1>1, InitMemory, NextMemory, PTL DEF Spec

(* Everything the loader and the reads keep has its type.                   *)
THEOREM DumpTypeOK == Spec => []TypeOK
<1>1. MemoryInv => TypeOK
  <2> SUFFICES ASSUME MemoryInv PROVE TypeOK
    OBVIOUS
  <2>1. file_chunks \in Seq(ChunkOffsets)
    <3>1. CASE status = "loading"
      BY <3>1 DEF MemoryInv, LoaderInv
    <3>2. CASE status # "loading"
      <4>1. maps \in Maps /\ file_chunks = [k \in 1 .. header_n_chunks |-> ChunkOffset(k - 1)]
        BY <3>2 DEF MemoryInv, LoaderInv
      <4>2. header_n_chunks \in Nat /\ header_n_chunks <= MaxChunks
        BY <4>1, WrittenFinite DEF header_n_chunks
      <4>3. \A k \in 1 .. header_n_chunks : ChunkOffset(k - 1) \in ChunkOffsets
        BY <4>2, DumpAssumption DEF ChunkOffset, ChunkOffsets
      <4>4. QED
        BY <4>1, <4>2, <4>3
    <3>3. QED
      BY <3>1, <3>2
  <2>2. QED
    BY <2>1 DEF MemoryInv, LoaderInv, ReqInv, ReqType, TypeOK
<1>2. QED
  BY <1>1, InitMemory, NextMemory, PTL DEF Spec

-----------------------------------------------------------------------------
(* The promise of module Memory.                                            *)

LEMMA ReplyFields ==
    ASSUME NEW r \in [state : States, addr : Nat, len : 0 .. chunk_size, dst : Seq(Nat)]
    PROVE  /\ Reply(r).addr = r.addr /\ Reply(r).len = r.len /\ Reply(r).dst = r.dst
           /\ r.state = "split" <=> Reply(r).state = "pending"
           /\ r.state \in {"panicked", "asserted"} <=> Reply(r).state = "panicked"
           /\ \A s \in {"ok", "err", "valid", "invalid", "none"} : r.state = s <=> Reply(r).state = s
<1>1. /\ Reply(r).addr = r.addr /\ Reply(r).len = r.len /\ Reply(r).dst = r.dst
      /\ Reply(r).state = ReplyState(r.state) /\ r.state \in States
  BY DEF Reply
<1>2. QED
  BY <1>1 DEF ReplyState, States

(* A panic is the last answer.                                              *)
PanicEnds == req.state \in {"panicked", "asserted"} => status = "panicked"

LEMMA RestAnswer ==
    ASSUME ReadRest
    PROVE  /\ status = "ready" /\ req.state = "split" /\ maps' = maps
           /\ req'.addr = req.addr /\ req'.len = req.len
           /\ \/ req'.state = "ok" /\ status' = status
              \/ req'.state = "panicked" /\ status' = "panicked"
<1> DEFINE idx == ChunkIndex(req.addr) + 1
<1>1. CASE idx >= Len(file_chunks)
  <2>1. Answer("panicked", req.addr, req.len, <<>>) /\ status' = "panicked"
    BY <1>1 DEF ReadRest
  <2>2. QED
    BY <2>1 DEF ReadRest, Answer
<1>2. CASE ~ (idx >= Len(file_chunks))
  <2>1. /\ Answer("ok", req.addr, req.len, req.dst \o Copy(chunk'.data, 0, req.len - Len(req.dst)))
        /\ status' = status
    BY <1>2 DEF ReadRest
  <2>2. QED
    BY <2>1 DEF ReadRest, Answer
<1>3. QED
  BY <1>1, <1>2

LEMMA PanicStep ==
    ASSUME MemoryInv, PanicEnds, [Next]_vars
    PROVE  PanicEnds'
<1>1. CASE LoadRange \/ FinishLoading
  BY <1>1 DEF PanicEnds, LoadRange, FinishLoading
<1>2. CASE ReadRest
  BY <1>2, RestAnswer DEF PanicEnds
<1>3. ASSUME NEW addr \in Addrs, NEW len \in Lens, ReadBytes(addr, len) PROVE PanicEnds'
  BY <1>3 DEF PanicEnds, ReadBytes, Answer
<1>4. ASSUME NEW addr \in Addrs, NEW len \in Lens, CheckValid(addr, len) PROVE PanicEnds'
  BY <1>4 DEF PanicEnds, CheckValid, Answer
<1>5. CASE UNCHANGED vars
  BY <1>5 DEF vars, PanicEnds
<1>6. QED
  BY <1>1, <1>2, <1>3, <1>4, <1>5 DEF Next

LEMMA AreaFacts ==
    ASSUME LoaderInv, status = "ready", NEW a \in Nat
    PROVE  /\ Mem!Covers(a) <=> Containing(a) # {}
           /\ \A n \in Nat : Mem!Whole(a, n) =>
                  /\ AllMapped(a, n)
                  /\ n > 0 /\ Containing(a) # {} =>
                       (a - RangeOf(a).v_start) + n <= RangeOf(a).size
<1> DEFINE Area(i) == [start |-> maps[i].v_start, size |-> maps[i].size, stored |-> maps[i].size]
<1>1. MemoryAreas = {Area(i) : i \in DOMAIN maps}
  BY DEF MemoryAreas
<1>2. \A i : /\ Area(i).start = maps[i].v_start /\ Area(i).size = maps[i].size
             /\ Area(i).stored = maps[i].size
  OBVIOUS
<1> HIDE DEF Area
<1>3. /\ DOMAIN memory_ranges = DOMAIN maps /\ maps \in Maps
      /\ \A i \in DOMAIN maps : /\ memory_ranges[i].v_start = maps[i].v_start
                                /\ memory_ranges[i].size = maps[i].size
  <2>1. maps \in Seq(MemoryRangeHeader) /\ memory_ranges \in Seq(MemoryRange)
        /\ Len(memory_ranges) = Len(maps) /\ maps \in Maps
    BY DumpAssumption DEF LoaderInv, Loaded
  <2>2. QED
    BY <2>1 DEF LoaderInv
<1>4. Mem!Covers(a) <=> Containing(a) # {}
  BY <1>1, <1>2, <1>3 DEF Mem!Covers, Containing
<1>5. ASSUME NEW n \in Nat, Mem!Whole(a, n)
      PROVE  /\ AllMapped(a, n)
             /\ n > 0 /\ Containing(a) # {} => (a - RangeOf(a).v_start) + n <= RangeOf(a).size
  <2>1. PICK i \in DOMAIN maps : maps[i].v_start <= a /\ a + n <= maps[i].v_start + maps[i].size
    BY <1>1, <1>2, <1>5 DEF Mem!Whole
  <2>2. /\ maps[i].v_start \in Nat /\ maps[i].size \in Nat
        /\ \A j \in DOMAIN maps : i < j => maps[i].v_start + maps[i].size <= maps[j].v_start
    BY <1>3, RangeFacts DEF From, To
  <2>3. AllMapped(a, n)
    BY <2>1, <2>2 DEF AllMapped, Mapped
  <2>4. ASSUME n > 0, Containing(a) # {}
        PROVE  (a - RangeOf(a).v_start) + n <= RangeOf(a).size
    <3>1. i \in Containing(a)
      BY <1>3, <2>1, <2>2, <2>4 DEF Containing
    <3>2. ASSUME NEW j \in Containing(a) PROVE j = i
      <4>1. /\ j \in DOMAIN maps /\ maps[j].v_start \in Nat /\ maps[j].size \in Nat
            /\ maps[j].v_start <= a /\ a < maps[j].v_start + maps[j].size
            /\ j < i => maps[j].v_start + maps[j].size <= maps[i].v_start
        BY <1>3, RangeFacts DEF Containing, From, To
      <4>2. j \in Nat /\ i \in Nat
        BY <1>3, <4>1, DumpAssumption
      <4>3. QED
        BY <2>1, <2>2, <2>4, <4>1, <4>2
    <3>3. Containing(a) = {i} /\ i \in Nat
      BY <1>3, <3>1, <3>2, DumpAssumption
    <3>4. RangeOf(a) = memory_ranges[i]
      BY <3>3 DEF RangeOf
    <3>5. QED
      BY <1>3, <2>1, <2>2, <3>4
  <2>5. QED
    BY <2>3, <2>4
<1>6. QED
  BY <1>4, <1>5

LEMMA ReadsKeepPromise ==
    ASSUME MemoryInv, MemoryInv', PanicEnds, NEW addr \in Addrs, NEW len \in Lens,
           ReadBytes(addr, len)
    PROVE  Mem!Next
<1>1. /\ addr \in Nat /\ len \in Nat /\ len > 0 /\ status = "ready" /\ req.state # "split"
      /\ maps' = maps /\ LoaderInv
  BY DumpAssumption DEF ReadBytes, Idle, MemoryInv
<1>2. /\ req'.addr = addr /\ req'.len = len
      /\ IF Containing(addr) = {} THEN req'.state = "err"
                                  ELSE req'.state \in {"ok", "split", "panicked"}
  BY DEF ReadBytes, Answer
<1>3. ReqType /\ ReqType' /\ ReadsMemory'
  BY DEF MemoryInv, ReqInv
<1>4. Mem!Free
  BY <1>1, <1>3, ReplyFields DEF ReqType, PanicEnds, Mem!Free
<1>5. /\ Reply(req').addr = addr /\ Reply(req').len = len /\ Reply(req').dst = req'.dst
      /\ req'.state = "split" <=> Reply(req').state = "pending"
      /\ req'.state \in {"panicked", "asserted"} <=> Reply(req').state = "panicked"
      /\ \A s \in {"ok", "err"} : req'.state = s <=> Reply(req').state = s
  BY <1>2, <1>3, ReplyFields DEF ReqType
<1>6. MemoryAreas' = MemoryAreas
  BY <1>1 DEF MemoryAreas
<1>7. Mem!Covers(addr) <=> Containing(addr) # {}
  BY <1>1, AreaFacts
<1>8. ASSUME Mem!Whole(addr, len)
      PROVE  /\ req'.state \notin {"err", "panicked"}
             /\ req'.state = "ok" => req'.dst = Mem!Bytes(addr, len)
  <2>1. AllMapped(addr, len)
    BY <1>1, <1>8, AreaFacts
  <2>2. AllMapped(req.addr, req.len)'
    BY <1>1, <1>2, <2>1 DEF AllMapped, Mapped
  <2>3. QED
    BY <1>1, <1>2, <1>3, <2>2 DEF ReadsMemory, Mem!Bytes
<1>9. Mem!read_bytes(addr, len)
  <2>1. CASE Containing(addr) = {}
    BY <1>2, <1>4, <1>5, <1>7, <2>1 DEF Mem!read_bytes
  <2>2. CASE Containing(addr) # {}
    <3>1. Mem!AnswersRead({"ok", "pending", "panicked"})
      BY <1>2, <1>5, <1>8, <2>2 DEF Mem!AnswersRead
    <3>2. QED
      BY <1>4, <1>5, <1>7, <2>2, <3>1 DEF Mem!read_bytes
  <2>3. QED
    BY <2>1, <2>2
<1>10. QED
  BY <1>6, <1>9 DEF Mem!Next

LEMMA RestKeepsPromise ==
    ASSUME MemoryInv, MemoryInv', ReadRest
    PROVE  Mem!Next
<1>1. /\ status = "ready" /\ req.state = "split" /\ maps' = maps /\ LoaderInv
      /\ req'.addr = req.addr /\ req'.len = req.len /\ req'.state \in {"ok", "panicked"}
  BY RestAnswer DEF MemoryInv
<1>2. ReqType /\ ReqType' /\ ReadsMemory' /\ req.addr \in Nat /\ req.len \in Nat /\ req.len > 0
  BY <1>1, DumpAssumption DEF MemoryInv, ReqInv, ReqType, Split, CS
<1>3. Reply(req).state = "pending" /\ Reply(req).addr = req.addr /\ Reply(req).len = req.len
  BY <1>1, <1>2, ReplyFields DEF ReqType
<1>4. /\ Reply(req').addr = req.addr /\ Reply(req').len = req.len /\ Reply(req').dst = req'.dst
      /\ req'.state = "panicked" => Reply(req').state = "panicked"
      /\ req'.state = "ok" <=> Reply(req').state = "ok"
  BY <1>1, <1>2, ReplyFields DEF ReqType
<1>5. MemoryAreas' = MemoryAreas
  BY <1>1 DEF MemoryAreas
<1>6. ASSUME Mem!Whole(req.addr, req.len)
      PROVE  req'.state = "ok" /\ req'.dst = Mem!Bytes(req.addr, req.len)
  <2>1. AllMapped(req.addr, req.len)
    BY <1>1, <1>2, <1>6, AreaFacts
  <2>2. AllMapped(req.addr, req.len)'
    BY <1>1, <2>1 DEF AllMapped, Mapped
  <2>3. QED
    BY <1>1, <1>2, <2>2 DEF ReadsMemory, Mem!Bytes
<1>7. Mem!Fulfil
  BY <1>1, <1>3, <1>4, <1>6 DEF Mem!Fulfil, Mem!AnswersRead
<1>8. QED
  BY <1>5, <1>7 DEF Mem!Next

LEMMA ValidKeepsPromise ==
    ASSUME MemoryInv, MemoryInv', PanicEnds, NEW addr \in Addrs, NEW len \in Lens,
           CheckValid(addr, len)
    PROVE  Mem!Next
<1>1. /\ addr \in Nat /\ len \in Nat /\ len > 0 /\ status = "ready" /\ req.state # "split"
      /\ maps' = maps /\ LoaderInv
  BY DumpAssumption DEF CheckValid, Idle, MemoryInv
<1>2. /\ req'.addr = addr /\ req'.len = len
      /\ IF Containing(addr) = {} THEN req'.state = "invalid"
         ELSE /\ req'.state \in {"valid", "asserted"}
              /\ (addr - RangeOf(addr).v_start) + len <= RangeOf(addr).size => req'.state = "valid"
  BY DEF CheckValid, Answer
<1>3. ReqType /\ ReqType'
  BY DEF MemoryInv, ReqInv
<1>4. Mem!Free
  BY <1>1, <1>3, ReplyFields DEF ReqType, PanicEnds, Mem!Free
<1>5. /\ Reply(req').addr = addr /\ Reply(req').len = len
      /\ req'.state = "asserted" => Reply(req').state = "panicked"
      /\ \A s \in {"valid", "invalid"} : req'.state = s <=> Reply(req').state = s
  BY <1>2, <1>3, ReplyFields DEF ReqType
<1>6. MemoryAreas' = MemoryAreas
  BY <1>1 DEF MemoryAreas
<1>7. /\ Mem!Covers(addr) <=> Containing(addr) # {}
      /\ Containing(addr) # {} /\ Mem!Whole(addr, len) => req'.state = "valid"
  BY <1>1, <1>2, AreaFacts
<1>8. Mem!is_valid(addr, len)
  BY <1>2, <1>4, <1>5, <1>7 DEF Mem!is_valid
<1>9. QED
  BY <1>6, <1>8 DEF Mem!Next

(* The reads of every mrustc dump keep the promise of module Memory         *)
(* (mrustc.rs:164-203), for every chunk size and every size of cache.       *)
THEOREM DumpImplementsMemory == Spec => ImplementsMemory
<1>1. Init => Mem!Init /\ PanicEnds
  <2> SUFFICES ASSUME Init PROVE Mem!Init /\ PanicEnds
    OBVIOUS
  <2>1. ReqType /\ req.state = "none"
    BY InitMemory DEF Init, MemoryInv, ReqInv
  <2>2. QED
    BY <2>1, ReplyFields DEF ReqType, Mem!Init, PanicEnds
<1>2. MemoryInv /\ MemoryInv' /\ PanicEnds /\ [Next]_vars => [Mem!Next]_<<MemoryAreas, Reply(req)>>
  <2> SUFFICES ASSUME MemoryInv, MemoryInv', PanicEnds, [Next]_vars
               PROVE  [Mem!Next]_<<MemoryAreas, Reply(req)>>
    OBVIOUS
  <2>1. CASE LoadRange \/ FinishLoading \/ UNCHANGED vars
    <3>1. maps' = maps /\ req' = req
      BY <2>1 DEF LoadRange, FinishLoading, vars
    <3>2. QED
      BY <3>1 DEF MemoryAreas
  <2>2. CASE ReadRest
    BY <2>2, RestKeepsPromise
  <2>3. ASSUME NEW addr \in Addrs, NEW len \in Lens, ReadBytes(addr, len) \/ CheckValid(addr, len)
        PROVE  Mem!Next
    BY <2>3, ReadsKeepPromise, ValidKeepsPromise
  <2>4. QED
    BY <2>1, <2>2, <2>3 DEF Next
<1>3. MemoryInv /\ PanicEnds /\ [Next]_vars => PanicEnds'
  BY PanicStep
<1>4. QED
  BY <1>1, <1>2, <1>3, InitMemory, NextMemory, PTL DEF Spec, ImplementsMemory, Mem!Spec, Mem!memvars
=============================================================================
