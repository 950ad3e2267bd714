---------------------------- MODULE OutputProofs ----------------------------
(***************************************************************************)
(* What holds of the Output tables for every prefix limit, every atom size *)
(* and every sequence of claims: the usage table is a tree in which no     *)
(* path has less than a child of it, and the progress counter is the       *)
(* coverage of the bitmap.                                                 *)
(***************************************************************************)
EXTENDS OutputLog, FiniteSetTheorems, SequenceTheorems, WellFoundedInduction, TLAPS

(* The bitmap only ever holds finitely many bits; the other conjuncts are   *)
(* the properties themselves, which are inductive together.                 *)
Inv ==
    /\ TypeOK
    /\ IsFiniteSet(used_memory)
    /\ ReportIsATree
    /\ ProgressAgreesWithReport

-----------------------------------------------------------------------------
(* The prefixes of a path are paths, and closed under removing the last     *)
(* node: what the popping loop of claim_raw visits.                         *)
LEMMA PrefixesClosed ==
    ASSUME NEW path \in Seq(Node)
    PROVE  /\ Prefixes(path) \subseteq Seq(Node)
           /\ \A q \in Prefixes(path) :
                q # <<>> => SubSeq(q, 1, Len(q) - 1) \in Prefixes(path)
<1>1. ASSUME NEW n \in 0 .. Len(path)
      PROVE  /\ SubSeq(path, 1, n) \in Seq(Node)
             /\ Len(SubSeq(path, 1, n)) = n
  <2>1. \A i \in 1 .. n : path[i] \in Node
    BY ElementOfSeq
  <2>2. QED
    BY <2>1, SubSeqProperties, LenProperties
<1>2. ASSUME NEW n \in 0 .. Len(path), SubSeq(path, 1, n) # <<>>
      PROVE  SubSeq(SubSeq(path, 1, n), 1, Len(SubSeq(path, 1, n)) - 1) = SubSeq(path, 1, n - 1)
  <2>1. n \in 1 .. Len(path)
    BY <1>1, <1>2, EmptySeq, LenProperties
  <2>2. CASE n = 1
    <3>1. SubSeq(SubSeq(path, 1, n), 1, Len(SubSeq(path, 1, n)) - 1) = <<>>
      BY <1>1, <2>2, SubSeqEmpty
    <3>2. SubSeq(path, 1, n - 1) = <<>>
      BY <2>2, SubSeqEmpty
    <3>3. QED
      BY <3>1, <3>2
  <2>3. CASE n > 1
    <3>1. Len(path) \in Nat
      BY LenProperties
    <3>2. SubSeq(SubSeq(path, 1, n), 1, n - 1) = SubSeq(path, 1, n - 1)
      BY <2>1, <2>3, <3>1, SubSeqOfSubSeq, 1 \in 1 .. Len(path),
         1 \in 1 .. n - 1 + 1, n - 1 \in 1 .. n - 1 + 1
    <3>3. QED
      BY <1>1, <3>2
  <2>4. QED
    BY <2>1, <2>2, <2>3
<1>3. Prefixes(path) \subseteq Seq(Node)
  BY <1>1 DEF Prefixes
<1>4. ASSUME NEW q \in Prefixes(path), q # <<>>
      PROVE  SubSeq(q, 1, Len(q) - 1) \in Prefixes(path)
  <2>1. PICK n \in 0 .. Len(path) : q = SubSeq(path, 1, n)
    BY <1>4 DEF Prefixes
  <2>2. n # 0
    BY <2>1, <1>4, SubSeqEmpty
  <2>3. n - 1 \in 0 .. Len(path)
    BY <2>2, LenProperties
  <2>4. QED
    BY <1>2, <1>4, <2>1, <2>3 DEF Prefixes
<1>5. QED
  BY <1>3, <1>4

LEMMA PrefixOfPath ==
    ASSUME NEW path \in Seq(Node), NEW len \in Nat
    PROVE  get_prefix(path, len) \in Seq(Node)
<1>1. \A n \in 0 .. Len(path) : SubSeq(path, 1, n) \in Seq(Node)
  BY PrefixesClosed DEF Prefixes
<1>2. Len(path) \in Nat
  BY LenProperties
<1>3. QED
  BY <1>1, <1>2 DEF get_prefix

(* Adding to every prefix of a path keeps the table a tree: a path that     *)
(* grows has a parent that grows by as much.                                *)
LEMMA AddToPrefixes ==
    ASSUME TypeOK, ReportIsATree, NEW path \in Seq(Node), NEW size \in Nat,
           usage' = AddTo(usage, Prefixes(path), size)
    PROVE  /\ \A p \in DOMAIN usage' : p \in Seq(Node) /\ usage'[p] \in Nat
           /\ ReportIsATree'
<1> DEFINE K == Prefixes(path)
           parent(p) == SubSeq(p, 1, Len(p) - 1)
<1>1. K \subseteq Seq(Node) /\ \A q \in K : q # <<>> => parent(q) \in K
  BY PrefixesClosed
<1>2. DOMAIN usage' = DOMAIN usage \cup K
  BY DEF AddTo
<1>3. \A p \in DOMAIN usage' : usage'[p] = Entry(usage, p) + (IF p \in K THEN size ELSE 0)
  BY DEF AddTo
<1>4. \A p \in DOMAIN usage' : Entry(usage, p) \in Nat
  BY DEF TypeOK, Entry
<1>5. ASSUME NEW p \in DOMAIN usage', p # <<>>
      PROVE  parent(p) \in DOMAIN usage' /\ usage'[parent(p)] >= usage'[p]
  <2>1. parent(p) \in DOMAIN usage'
    BY <1>1, <1>2, <1>5 DEF ReportIsATree
  <2>2. Entry(usage, parent(p)) >= Entry(usage, p)
    <3>1. CASE p \in DOMAIN usage
      BY <3>1, <1>5 DEF ReportIsATree, Entry
    <3>2. CASE p \notin DOMAIN usage
      BY <3>2, <1>4, <2>1 DEF Entry
    <3>3. QED
      BY <3>1, <3>2
  <2>3. p \in K => parent(p) \in K
    BY <1>1, <1>5
  <2> HIDE DEF K, parent
  <2>4. QED
    BY <1>3, <1>4, <2>1, <2>2, <2>3
<1>6. \A p \in DOMAIN usage' : p \in Seq(Node) /\ usage'[p] \in Nat
  BY <1>1, <1>2, <1>3, <1>4 DEF TypeOK
<1>7. QED
  BY <1>5, <1>6 DEF ReportIsATree

(* An area covers finitely many atoms, all of them numbered from zero.      *)
LEMMA AtomsFinite ==
    ASSUME NEW base \in Nat, NEW len \in Nat
    PROVE  IsFiniteSet(Atoms(base, len)) /\ Atoms(base, len) \subseteq Nat
<1>1. COVERAGE_PER_BIT \in Nat \ {0} /\ U64 \in Nat \ {0}
  BY OutputAssumption
<1>2. base \div COVERAGE_PER_BIT \in Nat
  BY <1>1
<1>3. base + len + (COVERAGE_PER_BIT - 1) \in Nat
  BY <1>1
<1>4. (base + len + (COVERAGE_PER_BIT - 1)) % U64 \in Nat
  BY <1>1, <1>3
<1>5. ((base + len + (COVERAGE_PER_BIT - 1)) % U64) \div COVERAGE_PER_BIT \in Nat
  BY <1>1, <1>4
<1> DEFINE first == base \div COVERAGE_PER_BIT
           last == ((base + len + (COVERAGE_PER_BIT - 1)) % U64) \div COVERAGE_PER_BIT - 1
<1>6. Atoms(base, len) = first .. last
  BY DEF Atoms
<1>7. first \in Nat /\ last \in Int
  BY <1>2, <1>5
<1> HIDE DEF first, last
<1>8. IsFiniteSet(first .. last)
  BY <1>7, FS_Interval
<1>9. first .. last \subseteq Nat
  BY <1>7
<1>10. QED
  BY <1>6, <1>8, <1>9

(* Marking an area adds to the counter what it adds to the coverage.        *)
LEMMA MarkedIsCounted ==
    ASSUME IsFiniteSet(used_memory), ProgressAgreesWithReport,
           NEW base \in Nat, NEW len \in Nat,
           used_memory' = used_memory \cup Atoms(base, len),
           visited_bytes' = visited_bytes + NewlyMarked(base, len)
    PROVE  /\ IsFiniteSet(used_memory')
           /\ ProgressAgreesWithReport'
           /\ visited_bytes' \in Nat
<1> DEFINE A == Atoms(base, len)
           New == A \ used_memory
<1>1. IsFiniteSet(A) /\ IsFiniteSet(New)
  BY AtomsFinite, FS_Difference
<1>2. used_memory' = used_memory \cup New /\ used_memory \cap New = {}
  OBVIOUS
<1>3. /\ IsFiniteSet(used_memory')
      /\ Cardinality(used_memory') = Cardinality(used_memory) + Cardinality(New)
  <2>1. IsFiniteSet(used_memory \cup New)
        /\ Cardinality(used_memory \cup New)
             = Cardinality(used_memory) + Cardinality(New) - Cardinality(used_memory \cap New)
    BY <1>1, FS_Union
  <2>2. Cardinality(used_memory \cap New) = 0
    BY <1>2, FS_EmptySet
  <2>3. Cardinality(used_memory) \in Nat /\ Cardinality(New) \in Nat
    BY <1>1, FS_CardinalityType
  <2>4. Cardinality(used_memory \cup New) = Cardinality(used_memory) + Cardinality(New)
    BY <2>1, <2>2, <2>3
  <2>5. QED
    BY <1>2, <2>1, <2>4, Zenon
<1>4. Cardinality(used_memory) \in Nat /\ Cardinality(New) \in Nat
  BY <1>1, FS_CardinalityType
<1>5. COVERAGE_PER_BIT \in Nat
  BY OutputAssumption
<1>6. COVERAGE_PER_BIT * (Cardinality(used_memory) + Cardinality(New))
        = COVERAGE_PER_BIT * Cardinality(used_memory) + COVERAGE_PER_BIT * Cardinality(New)
  BY <1>4, <1>5
<1>7. visited_bytes' = COVERAGE_PER_BIT * Cardinality(used_memory)
                         + COVERAGE_PER_BIT * Cardinality(New)
  BY DEF ProgressAgreesWithReport, calculate_usage, NewlyMarked
<1>8. QED
  BY <1>3, <1>4, <1>5, <1>6, <1>7 DEF ProgressAgreesWithReport, calculate_usage

(* The part common to every operation that claims memory.                   *)
LEMMA MarkAndAssociateStep ==
    ASSUME Inv, NEW path \in Paths, NEW addr \in Addrs, NEW size \in Sizes,
           NEW assoc \in BOOLEAN, MarkAndAssociate(path, addr, size, assoc)
    PROVE  /\ \A p \in DOMAIN usage' : p \in Seq(Node) /\ usage'[p] \in Nat
           /\ used_memory' \subseteq Nat
           /\ IsFiniteSet(used_memory')
           /\ visited_bytes' \in Nat
           /\ ReportIsATree'
           /\ ProgressAgreesWithReport'
<1>1. path \in Seq(Node) /\ addr \in Nat /\ size \in Nat /\ PREFIX_LEVELS \in Nat
  BY OutputAssumption
<1>2. get_prefix(path, PREFIX_LEVELS) \in Seq(Node)
  BY <1>1, PrefixOfPath
<1>3. /\ \A p \in DOMAIN usage' : p \in Seq(Node) /\ usage'[p] \in Nat
      /\ ReportIsATree'
  <2>1. CASE assoc
    BY <1>1, <1>2, <2>1, AddToPrefixes DEF Inv, MarkAndAssociate, Associate
  <2>2. CASE ~assoc
    BY <2>2 DEF Inv, TypeOK, ReportIsATree, MarkAndAssociate, Associate
  <2>3. QED
    BY <2>1, <2>2
<1>4. /\ IsFiniteSet(used_memory')
      /\ ProgressAgreesWithReport'
      /\ visited_bytes' \in Nat
  BY <1>1, MarkedIsCounted DEF Inv, MarkAndAssociate
<1>5. used_memory' \subseteq Nat
  BY <1>1, AtomsFinite DEF Inv, TypeOK, MarkAndAssociate
<1>6. QED
  BY <1>3, <1>4, <1>5

LEMMA AddToTyped ==
    ASSUME NEW f, NEW K, \A k \in DOMAIN f : f[k] \in Nat
    PROVE  \A k \in DOMAIN AddTo(f, K, 1) : AddTo(f, K, 1)[k] \in Nat
BY DEF AddTo, Entry

LEMMA InitInv == Init => Inv
<1> SUFFICES ASSUME Init PROVE Inv
  OBVIOUS
<1>1. DOMAIN EmptyMap = {}
  BY DEF EmptyMap
<1>2. IsFiniteSet({}) /\ Cardinality({}) = 0
  BY FS_EmptySet
<1>3. COVERAGE_PER_BIT * 0 = 0
  BY OutputAssumption
<1>4. QED
  BY <1>1, <1>2, <1>3
     DEF Init, Inv, TypeOK, ReportIsATree, ProgressAgreesWithReport, calculate_usage

LEMMA NextInv == Inv /\ [Next]_vars => Inv'
<1> SUFFICES ASSUME Inv, [Next]_vars PROVE Inv'
  OBVIOUS
<1>1. ASSUME NEW path \in Paths, NEW addr \in Addrs, NEW size \in Sizes,
             NEW assoc \in BOOLEAN, ClaimRaw(path, addr, size, assoc)
      PROVE  Inv'
  BY <1>1, MarkAndAssociateStep DEF ClaimRaw, Inv, TypeOK
<1>2. ASSUME NEW path \in Paths, NEW addr \in Addrs, NEW size \in Sizes,
             NEW ty \in Types, Claim(path, addr, ty, size)
      PROVE  Inv'
  <2>1. MarkAndAssociate(path, addr, size, TRUE)
    BY <1>2 DEF Claim
  <2>2. \A k \in DOMAIN root_type_counts' : root_type_counts'[k] \in Nat
    BY <1>2, AddToTyped DEF Claim, Inv, TypeOK
  <2>3. QED
    BY <1>2, <2>1, <2>2, MarkAndAssociateStep DEF Claim, Inv, TypeOK
<1>3. ASSUME NEW addr \in Addrs, InsertShared(addr)
      PROVE  Inv'
  BY <1>3 DEF InsertShared, Inv, TypeOK, ReportIsATree, ProgressAgreesWithReport, calculate_usage
<1>4. ASSUME NEW path \in Paths, NEW addr \in Addrs, NEW size \in Sizes,
             InsertAndClaimRaw(path, addr, size)
      PROVE  Inv'
  BY <1>4, MarkAndAssociateStep DEF InsertAndClaimRaw, Inv, TypeOK
<1>5. ASSUME NEW path \in Paths, NEW addr \in Addrs, NEW size \in Sizes,
             NEW ty \in Types, InsertAndClaim(path, addr, ty, size)
      PROVE  Inv'
  <2>1. MarkAndAssociate(path, addr, size, TRUE)
    BY <1>5 DEF InsertAndClaim
  <2>2. \A k \in DOMAIN root_type_counts' : root_type_counts'[k] \in Nat
    BY <1>5, AddToTyped DEF InsertAndClaim, Inv, TypeOK
  <2>3. QED
    BY <1>5, <2>1, <2>2, MarkAndAssociateStep DEF InsertAndClaim, Inv, TypeOK
<1>6. ASSUME NEW enm \in Types, NEW variant \in Node, CountVariant(enm, variant)
      PROVE  Inv'
  <2>1. \A k \in DOMAIN enum_variant_counts' : enum_variant_counts'[k] \in Nat
    BY <1>6, AddToTyped DEF CountVariant, Inv, TypeOK
  <2>2. QED
    BY <1>6, <2>1 DEF CountVariant, Inv, TypeOK, ReportIsATree,
       ProgressAgreesWithReport, calculate_usage
<1>7. CASE UNCHANGED vars
  BY <1>7 DEF vars, Inv, TypeOK, ReportIsATree, ProgressAgreesWithReport, calculate_usage
<1>8. QED
  BY <1>1, <1>2, <1>3, <1>4, <1>5, <1>6, <1>7 DEF Next

LEMMA InvHolds == Spec => []Inv
<1>1. QED
  BY InitInv, NextInv, PTL DEF Spec

(* The tables are well typed whatever is claimed (main.rs:364-447).         *)
THEOREM OutputTypeOK == Spec => []TypeOK
<1>1. Inv => TypeOK
  BY DEF Inv
<1>2. QED
  BY <1>1, InvHolds, PTL

(* The usage table can be printed layer by layer: every path has its        *)
(* parent, which has at least as much (main.rs:207-215, 418-446).           *)
THEOREM UsageTableIsATree == Spec => []ReportIsATree
<1>1. Inv => ReportIsATree
  BY DEF Inv
<1>2. QED
  BY <1>1, InvHolds, PTL

(* The progress counter is the coverage of the report (main.rs:334, 945).   *)
THEOREM ProgressIsCoverage == Spec => []ProgressAgreesWithReport
<1>1. Inv => ProgressAgreesWithReport
  BY DEF Inv
<1>2. QED
  BY <1>1, InvHolds, PTL

-----------------------------------------------------------------------------
(* Sums.  There is one way to add up a sequence, and one more term adds     *)
(* itself to the sum.                                                       *)
LEMMA Smallest ==
    ASSUME NEW I, I \subseteq Nat, I # {}
    PROVE  \E i \in I : \A j \in I : i <= j
<1>1. PICK i \in I : \A j \in I : ~ (<<j, i>> \in OpToRel(<, Nat))
  BY NatLessThanWellFounded, WFMin
<1>2. \A j \in I : ~ (j < i)
  BY <1>1 DEF OpToRel
<1> QED
  BY <1>2

Adds(v, f, N) == \A n \in 0 .. N : f[n] = IF n = 0 THEN 0 ELSE f[n - 1] + v[n]

LEMMA OneSum ==
    ASSUME NEW v, NEW f, NEW g, NEW N \in Nat, Adds(v, f, N), Adds(v, g, N)
    PROVE  f[N] = g[N]
<1> DEFINE S == {n \in 0 .. N : f[n] # g[n]}
<1> SUFFICES ASSUME S # {} PROVE FALSE
  OBVIOUS
<1>1. PICK n \in S : \A m \in S : n <= m
  <2>1. S \subseteq Nat
    OBVIOUS
  <2>2. QED
    BY <2>1, Smallest
<1>2. n # 0
  BY <1>1 DEF Adds
<1>3. n - 1 \in 0 .. N /\ n - 1 \notin S
  BY <1>1, <1>2
<1>4. QED
  BY <1>1, <1>2, <1>3 DEF Adds

LEMMA SomeSum ==
    ASSUME NEW v \in Seq(Nat)
    PROVE  \E f : f = [n \in 0 .. Len(v) |-> IF n = 0 THEN 0 ELSE f[n - 1] + v[n]]
<1> DEFINE S == {n \in 0 .. Len(v) : ~ \E f : Adds(v, f, n)}
<1>1. Len(v) \in Nat
  BY LenProperties
<1>2. S = {}
  <2> SUFFICES ASSUME S # {} PROVE FALSE
    OBVIOUS
  <2>1. PICK n \in S : \A m \in S : n <= m
    <3>1. S \subseteq Nat
      OBVIOUS
    <3>2. QED
      BY <3>1, Smallest
  <2>2. n # 0
    <3>1. Adds(v, [m \in {0} |-> 0], 0)
      BY DEF Adds
    <3>2. QED
      BY <2>1, <3>1
  <2>3. PICK f : Adds(v, f, n - 1)
    <3>1. n - 1 \in 0 .. Len(v) /\ n - 1 \notin S
      <4>1. n \in 0 .. Len(v)
        BY <2>1
      <4>2. n - 1 \in 0 .. Len(v) /\ n - 1 < n
        BY <4>1, <1>1, <2>2
      <4> HIDE DEF S
      <4>3. n - 1 \notin S
        BY <2>1, <4>1, <4>2
      <4>4. QED
        BY <4>2, <4>3
    <3> DEFINE k == n - 1
    <3> HIDE DEF k
    <3>2. k \in 0 .. Len(v) /\ k \notin S
      BY <3>1 DEF k
    <3>3. \E f : Adds(v, f, k)
      BY <3>2, Zenon
    <3>4. QED
      BY <3>3 DEF k
  <2> DEFINE g == [m \in 0 .. n |-> IF m = n THEN f[n - 1] + v[n] ELSE f[m]]
  <2>4. Adds(v, g, n)
    <3>1. n \in Nat \ {0}
      BY <1>1, <2>1, <2>2
    <3>2. \A m \in 0 .. n : g[m] = IF m = n THEN f[n - 1] + v[n] ELSE f[m]
      OBVIOUS
    <3>3. \A m \in 0 .. n - 1 : f[m] = IF m = 0 THEN 0 ELSE f[m - 1] + v[m]
      BY <2>3 DEF Adds
    <3> HIDE DEF g, S
    <3>4. ASSUME NEW m \in 0 .. n
          PROVE  g[m] = IF m = 0 THEN 0 ELSE g[m - 1] + v[m]
      <4>1. CASE m = n
        BY <3>1, <3>2, <4>1
      <4>2. CASE m # n
        <5>1. m \in 0 .. n - 1 /\ g[m] = f[m]
          BY <3>1, <3>2, <4>2
        <5>2. m # 0 => g[m - 1] = f[m - 1]
          BY <3>1, <3>2, <5>1
        <5>3. QED
          BY <3>3, <5>1, <5>2
      <4>3. QED
        BY <4>1, <4>2
    <3>5. QED
      BY <3>4 DEF Adds
  <2> HIDE DEF g
  <2>5. QED
    BY <2>1, <2>4, Zenon
<1>3. PICK f : Adds(v, f, Len(v))
  BY <1>1, <1>2
<1> DEFINE g == [n \in 0 .. Len(v) |-> f[n]]
<1>4. g = [n \in 0 .. Len(v) |-> IF n = 0 THEN 0 ELSE g[n - 1] + v[n]]
  BY <1>1, <1>3 DEF Adds
<1>5. QED
  BY <1>4

LEMMA SumAdds ==
    ASSUME NEW v \in Seq(Nat)
    PROVE  \E f : Adds(v, f, Len(v)) /\ SumOf(v) = f[Len(v)]
<1> DEFINE F == CHOOSE f : f = [n \in 0 .. Len(v) |-> IF n = 0 THEN 0 ELSE f[n - 1] + v[n]]
<1>1. SumOf(v) = F[Len(v)]
  BY DEF SumOf
<1>2. F = [n \in 0 .. Len(v) |-> IF n = 0 THEN 0 ELSE F[n - 1] + v[n]]
  BY SomeSum
<1> HIDE DEF F
<1>3. Adds(v, F, Len(v))
  BY <1>2 DEF Adds
<1>4. QED
  BY <1>1, <1>3

LEMMA EmptySum == SumOf(<<>>) = 0
<1>1. <<>> \in Seq(Nat) /\ Len(<<>>) = 0
  BY EmptySeq, LenProperties
<1>2. PICK f : Adds(<<>>, f, 0) /\ SumOf(<<>>) = f[0]
  BY <1>1, SumAdds
<1>3. QED
  BY <1>2 DEF Adds

LEMMA SumNat ==
    ASSUME NEW v \in Seq(Nat)
    PROVE  SumOf(v) \in Nat
<1>1. Len(v) \in Nat /\ \A i \in 1 .. Len(v) : v[i] \in Nat
  BY ElementOfSeq, LenProperties
<1>2. PICK f : Adds(v, f, Len(v)) /\ SumOf(v) = f[Len(v)]
  BY SumAdds
<1> DEFINE S == {n \in 0 .. Len(v) : f[n] \notin Nat}
<1> SUFFICES ASSUME S # {} PROVE FALSE
  BY <1>1, <1>2
<1>3. PICK n \in S : \A m \in S : n <= m
  <2>1. S \subseteq Nat
    OBVIOUS
  <2>2. QED
    BY <2>1, Smallest
<1>4. n # 0
  BY <1>2, <1>3 DEF Adds
<1>5. n - 1 \in 0 .. Len(v) /\ n - 1 \notin S /\ n \in 1 .. Len(v)
  BY <1>1, <1>3, <1>4
<1>6. f[n] = f[n - 1] + v[n]
  BY <1>2, <1>4, <1>5 DEF Adds
<1>7. QED
  BY <1>1, <1>3, <1>5, <1>6

LEMMA AppendSum ==
    ASSUME NEW v \in Seq(Nat), NEW x \in Nat
    PROVE  SumOf(Append(v, x)) = SumOf(v) + x
<1> DEFINE w == Append(v, x)
           N == Len(v)
<1>1. /\ N \in Nat /\ w \in Seq(Nat) /\ Len(w) = N + 1 /\ w[N + 1] = x
      /\ \A i \in 1 .. N : w[i] = v[i]
  BY AppendProperties, LenProperties
<1>2. PICK f : Adds(v, f, N) /\ SumOf(v) = f[N]
  BY SumAdds
<1>3. PICK g : Adds(w, g, N + 1) /\ SumOf(w) = g[N + 1]
  BY <1>1, SumAdds
<1> HIDE DEF w, N
<1>4. Adds(v, g, N)
  BY <1>1, <1>3 DEF Adds
<1>5. g[N] = f[N]
  BY <1>1, <1>2, <1>4, OneSum
<1>6. g[N + 1] = g[N] + x
  BY <1>1, <1>3 DEF Adds
<1>7. QED
  BY <1>2, <1>3, <1>5, <1>6 DEF w

-----------------------------------------------------------------------------
(* Atoms.  An area is covered by its atoms, and each of them touches it.    *)
LEMMA DivMod ==
    ASSUME NEW a \in Nat, NEW c \in Nat \ {0}
    PROVE  a \div c \in Nat /\ a % c \in 0 .. c - 1 /\ a = (c * (a \div c)) + (a % c)
OBVIOUS

LEMMA DivUnique ==
    ASSUME NEW a \in Nat, NEW c \in Nat \ {0}, NEW q \in Nat, NEW r \in 0 .. c - 1, a = (c * q) + r
    PROVE  a \div c = q /\ a % c = r
<1>1. a = (c * (a \div c)) + (a % c) /\ a \div c \in Nat /\ a % c \in 0 .. c - 1
  BY DivMod
<1>2. c * (q - (a \div c)) = (a % c) - r
  BY <1>1
<1>3. q = a \div c
  <2>1. CASE q > a \div c
    <3>1. c * (q - (a \div c)) >= c
      BY <2>1, <1>1
    <3>2. QED
      BY <1>1, <1>2, <3>1
  <2>2. CASE q < a \div c
    <3>1. c * ((a \div c) - q) >= c
      BY <2>2, <1>1
    <3>2. QED
      BY <1>1, <1>2, <3>1
  <2>3. QED
    BY <1>1, <2>1, <2>2
<1>4. QED
  BY <1>1, <1>3

LEMMA DivMono ==
    ASSUME NEW a \in Nat, NEW b \in Nat, a <= b, NEW c \in Nat \ {0}
    PROVE  a \div c <= b \div c
<1>1. /\ a = (c * (a \div c)) + (a % c) /\ a \div c \in Nat /\ a % c \in 0 .. c - 1
      /\ b = (c * (b \div c)) + (b % c) /\ b \div c \in Nat /\ b % c \in 0 .. c - 1
  BY DivMod
<1>2. CASE a \div c > b \div c
  <2>1. c * (a \div c) >= (c * (b \div c)) + c
    BY <1>1, <1>2
  <2>2. QED
    BY <1>1, <2>1
<1>3. QED
  BY <1>1, <1>2

LEMMA AtomsTouch ==
    ASSUME NEW base \in Nat, NEW len \in Nat, NEW a \in Atoms(base, len)
    PROVE  /\ a * COVERAGE_PER_BIT < base + len + COVERAGE_PER_BIT
           /\ (a + 1) * COVERAGE_PER_BIT > base
<1> DEFINE C == COVERAGE_PER_BIT
           x == base + len + (C - 1)
           y == x % U64
           first == base \div C
           end == y \div C
<1>1. C \in Nat \ {0} /\ U64 \in Nat \ {0} /\ x \in Nat
  BY OutputAssumption
<1>2. y \in Nat /\ y <= x
  <2>1. x \div U64 \in Nat /\ y \in 0 .. U64 - 1 /\ x = (U64 * (x \div U64)) + y
    BY <1>1, DivMod
  <2>2. U64 * (x \div U64) \in Nat
    BY <1>1, <2>1
  <2> HIDE DEF x, y
  <2>3. QED
    BY <1>1, <2>1, <2>2
<1>3. first \in Nat /\ base < (C * first) + C
  <2>1. base % C \in 0 .. C - 1 /\ first \in Nat /\ base = (C * first) + (base % C)
    BY <1>1, DivMod
  <2> HIDE DEF C, first
  <2>2. C * first \in Nat
    BY <1>1, <2>1
  <2>3. QED
    BY <1>1, <2>1, <2>2
<1>4. end \in Nat /\ C * end <= y
  <2> HIDE DEF y
  <2>1. y % C \in 0 .. C - 1 /\ end \in Nat /\ y = (C * end) + (y % C)
    BY <1>1, <1>2, DivMod
  <2>2. C * end \in Nat
    BY <1>1, <2>1
  <2>3. QED
    BY <1>1, <2>1, <2>2
<1>5. a \in Int /\ first <= a /\ a <= end - 1
  BY <1>3, <1>4 DEF Atoms
<1>6. x = base + len + C - 1
  BY <1>1
<1> HIDE DEF C, x, y, first, end
<1>7. C * first <= C * a /\ C * a <= (C * end) - C
  <2>1. a \in Nat /\ C * (a - first) >= 0 /\ C * (end - 1 - a) >= 0
    BY <1>1, <1>3, <1>4, <1>5
  <2>2. C * (a - first) = (C * a) - (C * first) /\ C * (end - 1 - a) = (C * end) - C - (C * a)
    BY <1>1, <1>3, <1>4, <1>5
  <2>3. QED
    BY <1>1, <1>3, <1>4, <2>1, <2>2
<1>8. a * C = C * a /\ (a + 1) * C = (C * a) + C
  BY <1>1, <1>5
<1>9. C * a \in Int /\ C * end \in Int /\ C * first \in Int
  BY <1>1, <1>3, <1>4, <1>5
<1>10. C * a < base + len + C /\ (C * a) + C > base
  BY <1>1, <1>2, <1>3, <1>4, <1>6, <1>7, <1>9
<1>11. QED
  BY <1>8, <1>10 DEF C

LEMMA AtomsCover ==
    ASSUME NEW base \in Nat, NEW len \in Nat, base + len + COVERAGE_PER_BIT <= U64,
           NEW b \in base .. base + len - 1
    PROVE  b \div COVERAGE_PER_BIT \in Atoms(base, len)
<1> DEFINE C == COVERAGE_PER_BIT
           x == base + len + (C - 1)
<1>1. C \in Nat \ {0} /\ U64 \in Nat \ {0} /\ x \in Nat /\ b \in Nat /\ x < U64 /\ b + C <= x
  BY OutputAssumption
<1>2. x % U64 = x
  BY <1>1
<1>3. base \div C <= b \div C
  BY <1>1, DivMono
<1>4. (b + C) \div C = (b \div C) + 1
  <2>1. b \div C \in Nat /\ b % C \in 0 .. C - 1 /\ b = (C * (b \div C)) + (b % C)
    BY <1>1, DivMod
  <2>2. C * ((b \div C) + 1) = (C * (b \div C)) + C
    BY <1>1, <2>1
  <2>3. b + C \in Nat /\ (b \div C) + 1 \in Nat /\ b + C = (C * ((b \div C) + 1)) + (b % C)
    BY <1>1, <2>1, <2>2
  <2>4. QED
    <3> DEFINE a == b + C  q == (b \div C) + 1  r == b % C
    <3>1. a \in Nat /\ C \in Nat \ {0} /\ q \in Nat /\ r \in 0 .. C - 1 /\ a = (C * q) + r
      BY <1>1, <2>1, <2>3
    <3> HIDE DEF a, q, r
    <3>2. a \div C = q
      BY <3>1, DivUnique
    <3>3. QED
      BY <3>2 DEF a, q
<1>5. (b + C) \div C <= x \div C
  BY <1>1, DivMono
<1>6. base \div C \in Nat /\ b \div C \in Nat /\ x \div C \in Nat
  BY <1>1, DivMod
<1>7. Atoms(base, len) = (base \div C) .. ((x \div C) - 1)
  BY <1>2 DEF Atoms
<1> HIDE DEF x
<1>8. QED
  BY <1>3, <1>4, <1>5, <1>6, <1>7

-----------------------------------------------------------------------------
(* Prefixes.  The paths that grow with a claim are those it counts at.      *)
LEMMA PrefixIsAbove ==
    ASSUME NEW path \in Seq(Node), NEW p \in Seq(Node)
    PROVE  p \in Prefixes(get_prefix(path, PREFIX_LEVELS))
             <=> Len(p) <= PREFIX_LEVELS /\ Below(path, p)
<1> DEFINE m == IF Len(path) < PREFIX_LEVELS THEN Len(path) ELSE PREFIX_LEVELS
           q == SubSeq(path, 1, m)
<1>1. Len(path) \in Nat /\ Len(p) \in Nat /\ PREFIX_LEVELS \in Nat
  BY OutputAssumption, LenProperties
<1>2. m \in 0 .. Len(path) /\ m <= PREFIX_LEVELS
  BY <1>1
<1>3. ASSUME NEW s \in Seq(Node), NEW n \in 0 .. Len(s)
      PROVE  /\ Len(SubSeq(s, 1, n)) = n /\ SubSeq(s, 1, n) \in Seq(Node)
             /\ \A i \in 1 .. n : SubSeq(s, 1, n)[i] = s[i]
  <2>1. \A i \in 1 .. n : s[i] \in Node
    BY ElementOfSeq, LenProperties
  <2>2. QED
    BY <2>1, SubSeqProperties, LenProperties
<1>4. q \in Seq(Node) /\ Len(q) = m /\ \A i \in 1 .. m : q[i] = path[i]
  BY <1>2, <1>3
<1>5. get_prefix(path, PREFIX_LEVELS) = q
  BY DEF get_prefix
<1> HIDE DEF m, q
<1>6. ASSUME p \in Prefixes(q)
      PROVE  Len(p) <= PREFIX_LEVELS /\ Below(path, p)
  <2>1. PICK n \in 0 .. Len(q) : p = SubSeq(q, 1, n)
    BY <1>6 DEF Prefixes
  <2>2. Len(p) = n /\ \A i \in 1 .. n : p[i] = q[i]
    BY <1>3, <1>4, <2>1
  <2>3. \A i \in 1 .. n : i \in 1 .. m
    BY <1>2, <1>4
  <2>4. DOMAIN p = 1 .. n
    BY <2>2, LenProperties
  <2>5. QED
    BY <1>1, <1>2, <1>4, <2>2, <2>3, <2>4 DEF Below
<1>7. ASSUME Len(p) <= PREFIX_LEVELS, Below(path, p)
      PROVE  p \in Prefixes(q)
  <2>1. Len(p) \in 0 .. m
    BY <1>1, <1>7 DEF Below, m
  <2>2. DOMAIN p = 1 .. Len(p)
    BY LenProperties
  <2> DEFINE t == SubSeq(q, 1, Len(p))
  <2>3. t \in Seq(Node) /\ Len(t) = Len(p) /\ \A i \in 1 .. Len(p) : t[i] = q[i]
    BY <1>3, <1>4, <2>1
  <2>4. \A i \in 1 .. Len(p) : i \in 1 .. m /\ p[i] = path[i]
    BY <1>1, <1>2, <1>7, <2>1, <2>2 DEF Below
  <2> HIDE DEF t
  <2>5. t = p
    BY <1>4, <2>3, <2>4, SeqEqual
  <2>6. QED
    BY <1>4, <2>1, <2>5 DEF Prefixes, t
<1>8. QED
  BY <1>5, <1>6, <1>7

-----------------------------------------------------------------------------
(* The history.  The bitmap is the union of the atoms of all claims, and    *)
(* every path has the sum of what counts at it, or no line.                 *)
Claims == [path : Paths, addr : Addrs, ty : Types \cup {"raw"}, size : Sizes, assoc : BOOLEAN]
BitmapIs(claims, bits) ==
    bits = UNION {Atoms(claims[i].addr, claims[i].size) : i \in DOMAIN claims}
Counted(claims, p) == \E i \in DOMAIN claims : CountsAt(p, claims[i])
TableIs(claims, table) ==
    \A p \in Seq(Node) :
        /\ Entry(table, p) = SumOf(Parts(claims, p))
        /\ p \in DOMAIN table <=> Counted(claims, p)
LogInv == log \in Seq(Claims) /\ BitmapIs(log, used_memory) /\ TableIs(log, usage)

LEMMA PartsTyped ==
    ASSUME NEW claims \in Seq(Claims), NEW p
    PROVE  Parts(claims, p) \in Seq(Nat)
<1>1. \A i \in 1 .. Len(claims) : claims[i].size \in Nat
  <2>1. \A i \in 1 .. Len(claims) : claims[i] \in Claims
    BY ElementOfSeq
  <2>2. QED
    BY <2>1, OutputAssumption DEF Claims
<1>2. DOMAIN claims = 1 .. Len(claims) /\ Len(claims) \in Nat
  BY LenProperties
<1>3. QED
  BY <1>1, <1>2 DEF Parts

LEMMA PartsAppend ==
    ASSUME NEW claims \in Seq(Claims), NEW c \in Claims, NEW p
    PROVE  Parts(Append(claims, c), p)
             = Append(Parts(claims, p), IF CountsAt(p, c) THEN c.size ELSE 0)
<1> DEFINE x == IF CountsAt(p, c) THEN c.size ELSE 0
           v == Parts(Append(claims, c), p)
           w == Append(Parts(claims, p), x)
           N == Len(claims)
<1>1. /\ Append(claims, c) \in Seq(Claims) /\ Len(Append(claims, c)) = N + 1 /\ N \in Nat
      /\ Append(claims, c)[N + 1] = c /\ \A i \in 1 .. N : Append(claims, c)[i] = claims[i]
  BY AppendProperties, LenProperties
<1>2. x \in Nat
  BY OutputAssumption DEF Claims
<1>3. Parts(claims, p) \in Seq(Nat) /\ v \in Seq(Nat)
  BY <1>1, PartsTyped
<1>4. DOMAIN claims = 1 .. N /\ DOMAIN Append(claims, c) = 1 .. N + 1
  BY <1>1, LenProperties
<1>5. Len(Parts(claims, p)) = N
  BY <1>1, <1>3, <1>4, LenProperties DEF Parts
<1>6. Len(v) = N + 1
  BY <1>1, <1>3, <1>4, LenProperties DEF Parts
<1>7. /\ w \in Seq(Nat) /\ Len(w) = N + 1 /\ w[N + 1] = x
      /\ \A i \in 1 .. N : w[i] = Parts(claims, p)[i]
  BY <1>2, <1>3, <1>5, AppendProperties
<1>8. ASSUME NEW i \in 1 .. N + 1 PROVE v[i] = w[i]
  <2>1. v[i] = IF CountsAt(p, Append(claims, c)[i]) THEN Append(claims, c)[i].size ELSE 0
    BY <1>4 DEF Parts
  <2>2. CASE i = N + 1
    BY <1>1, <1>7, <2>1, <2>2
  <2>3. CASE i # N + 1
    <3>1. i \in 1 .. N
      BY <1>1, <2>3
    <3>2. w[i] = IF CountsAt(p, claims[i]) THEN claims[i].size ELSE 0
      BY <1>4, <1>7, <3>1 DEF Parts
    <3>3. QED
      BY <1>1, <2>1, <3>1, <3>2
  <2>4. QED
    BY <2>2, <2>3
<1> HIDE DEF v, w, x
<1>9. v = w
  BY <1>3, <1>6, <1>7, <1>8, SeqEqual
<1>10. QED
  BY <1>9 DEF v, w, x

LEMMA TableGrows ==
    ASSUME NEW claims \in Seq(Claims), NEW c \in Claims, NEW table, NEW table2, TableIs(claims, table),
           table2 = IF c.assoc THEN AddTo(table, Prefixes(get_prefix(c.path, PREFIX_LEVELS)), c.size)
                               ELSE table
    PROVE  TableIs(Append(claims, c), table2)
<1> SUFFICES ASSUME NEW p \in Seq(Node)
             PROVE  /\ Entry(table2, p) = SumOf(Parts(Append(claims, c), p))
                    /\ p \in DOMAIN table2 <=> Counted(Append(claims, c), p)
  BY DEF TableIs
<1> DEFINE x == IF CountsAt(p, c) THEN c.size ELSE 0
           K == Prefixes(get_prefix(c.path, PREFIX_LEVELS))
<1>1. c.path \in Seq(Node) /\ c.size \in Nat /\ x \in Nat
  BY OutputAssumption DEF Claims
<1>2. CountsAt(p, c) <=> c.assoc /\ p \in K
  BY <1>1, PrefixIsAbove DEF CountsAt
<1>3. SumOf(Parts(Append(claims, c), p)) = SumOf(Parts(claims, p)) + x
  BY <1>1, PartsTyped, PartsAppend, AppendSum
<1>4. Entry(table, p) = SumOf(Parts(claims, p)) /\ (p \in DOMAIN table <=> Counted(claims, p))
  BY DEF TableIs
<1>5. Counted(Append(claims, c), p) <=> Counted(claims, p) \/ CountsAt(p, c)
  <2>1. /\ Append(claims, c) \in Seq(Claims) /\ Len(Append(claims, c)) = Len(claims) + 1
        /\ Append(claims, c)[Len(claims) + 1] = c /\ Len(claims) \in Nat
        /\ \A i \in 1 .. Len(claims) : Append(claims, c)[i] = claims[i]
    BY AppendProperties, LenProperties
  <2>2. DOMAIN claims = 1 .. Len(claims) /\ DOMAIN Append(claims, c) = 1 .. Len(claims) + 1
    BY <2>1, LenProperties
  <2>3. \A i : i \in 1 .. Len(claims) + 1 <=> i \in 1 .. Len(claims) \/ i = Len(claims) + 1
    BY <2>1
  <2>4. QED
    BY <2>1, <2>2, <2>3 DEF Counted
<1>6. SumOf(Parts(claims, p)) \in Nat
  <2>1. Parts(claims, p) \in Seq(Nat)
    BY PartsTyped
  <2>2. QED
    BY <2>1, SumNat
<1>7. Entry(table2, p) = Entry(table, p) + x /\ (p \in DOMAIN table2 <=> p \in DOMAIN table \/ CountsAt(p, c))
  <2>1. CASE c.assoc
    <3>1. table2 = [k \in DOMAIN table \cup K |-> Entry(table, k) + (IF k \in K THEN c.size ELSE 0)]
      BY <2>1 DEF AddTo
    <3> HIDE DEF K
    <3>2. CASE p \in DOMAIN table \cup K
      <4>1. Entry(table2, p) = Entry(table, p) + (IF p \in K THEN c.size ELSE 0)
        BY <3>1, <3>2 DEF Entry
      <4>2. QED
        BY <1>2, <2>1, <3>1, <4>1
    <3>3. CASE p \notin DOMAIN table \cup K
      <4>1. Entry(table2, p) = 0 /\ Entry(table, p) = 0
        BY <3>1, <3>3 DEF Entry
      <4>2. QED
        BY <1>2, <3>1, <3>3, <4>1
    <3>4. QED
      BY <3>2, <3>3
  <2>2. CASE ~c.assoc
    <3>1. table2 = table /\ x = 0 /\ Entry(table, p) \in Nat
      BY <1>2, <1>4, <1>6, <2>2
    <3>2. QED
      BY <1>2, <2>2, <3>1
  <2>3. QED
    BY <2>1, <2>2
<1> HIDE DEF x
<1>8. QED
  BY <1>3, <1>4, <1>5, <1>7

LEMMA ClaimLogged ==
    ASSUME LogInv, NEW c \in Claims, log' = Append(log, c),
           MarkAndAssociate(c.path, c.addr, c.size, c.assoc)
    PROVE  LogInv'
<1>1. log \in Seq(Claims) /\ log' \in Seq(Claims)
  BY AppendProperties DEF LogInv
<1>2. BitmapIs(log', used_memory')
  <2>1. /\ Len(log') = Len(log) + 1 /\ log'[Len(log) + 1] = c /\ Len(log) \in Nat
        /\ \A i \in 1 .. Len(log) : log'[i] = log[i]
        /\ DOMAIN log = 1 .. Len(log) /\ DOMAIN log' = 1 .. Len(log')
    BY <1>1, AppendProperties, LenProperties
  <2>2. \A i : i \in 1 .. Len(log) + 1 <=> i \in 1 .. Len(log) \/ i = Len(log) + 1
    BY <2>1
  <2>3. used_memory' = used_memory \cup Atoms(c.addr, c.size)
    BY DEF MarkAndAssociate
  <2> DEFINE Of(cs) == {Atoms(cs[i].addr, cs[i].size) : i \in DOMAIN cs}
  <2>4. Of(log') = Of(log) \cup {Atoms(c.addr, c.size)}
    BY <2>1, <2>2
  <2>5. used_memory = UNION Of(log)
    BY DEF LogInv, BitmapIs
  <2> HIDE DEF Of
  <2>6. used_memory' = UNION Of(log')
    BY <2>3, <2>4, <2>5
  <2>7. QED
    BY <2>6 DEF BitmapIs, Of
<1>3. usage' = IF c.assoc THEN AddTo(usage, Prefixes(get_prefix(c.path, PREFIX_LEVELS)), c.size) ELSE usage
  BY DEF MarkAndAssociate, Associate
<1>4. TableIs(log', usage')
  BY <1>1, <1>3, TableGrows DEF LogInv
<1>5. LogInv' <=> log' \in Seq(Claims) /\ BitmapIs(log', used_memory') /\ TableIs(log', usage')
  BY DEF LogInv
<1>6. QED
  BY <1>1, <1>2, <1>4, <1>5

LEMMA LogStart == LogInit => LogInv
<1> SUFFICES ASSUME LogInit PROVE LogInv
  OBVIOUS
<1>1. log = <<>> /\ DOMAIN log = {} /\ log \in Seq(Claims)
  BY EmptySeq DEF LogInit
<1>2. \A p : Parts(log, p) = <<>>
  BY <1>1 DEF Parts
<1>3. used_memory = {} /\ DOMAIN usage = {}
  BY DEF LogInit, Init, EmptyMap
<1>4. TableIs(log, usage)
  BY <1>1, <1>2, <1>3, EmptySum DEF TableIs, Entry, Counted
<1>5. QED
  BY <1>1, <1>3, <1>4 DEF LogInv, BitmapIs

LEMMA LogStep == LogInv /\ [LogNext]_logvars => LogInv'
<1> SUFFICES ASSUME LogInv, [LogNext]_logvars PROVE LogInv'
  OBVIOUS
<1>1. CASE LogRaw
  <2>1. PICK path \in Paths, addr \in Addrs, size \in Sizes, assoc \in BOOLEAN :
          /\ ClaimRaw(path, addr, size, assoc) \/ (~assoc /\ InsertAndClaimRaw(path, addr, size))
          /\ log' = Append(log, Raw(path, addr, size, assoc))
    BY <1>1 DEF LogRaw
  <2> DEFINE c == Raw(path, addr, size, assoc)
  <2>2. c \in Claims /\ c.path = path /\ c.addr = addr /\ c.size = size /\ c.assoc = assoc
    BY DEF Raw, Claims
  <2>3. MarkAndAssociate(path, addr, size, assoc)
    <3>1. CASE ClaimRaw(path, addr, size, assoc)
      BY <3>1 DEF ClaimRaw
    <3>2. CASE ~assoc /\ InsertAndClaimRaw(path, addr, size)
      <4>1. assoc = FALSE
        BY <3>2
      <4>2. QED
        BY <3>2, <4>1 DEF InsertAndClaimRaw
    <3>3. QED
      BY <2>1, <3>1, <3>2
  <2> HIDE DEF c
  <2>4. QED
    BY <2>1, <2>2, <2>3, ClaimLogged DEF c
<1>2. CASE LogTyped
  <2>1. PICK path \in Paths, addr \in Addrs, size \in Sizes, ty \in Types :
          /\ Claim(path, addr, ty, size) \/ InsertAndClaim(path, addr, ty, size)
          /\ log' = Append(log, Typed(path, addr, ty, size))
    BY <1>2 DEF LogTyped
  <2> DEFINE c == Typed(path, addr, ty, size)
  <2>2. c \in Claims /\ c.path = path /\ c.addr = addr /\ c.size = size /\ c.assoc = TRUE
    BY DEF Typed, Claims
  <2>3. MarkAndAssociate(path, addr, size, TRUE)
    BY <2>1 DEF Claim, InsertAndClaim
  <2> HIDE DEF c
  <2>4. QED
    BY <2>1, <2>2, <2>3, ClaimLogged DEF c
<1>3. CASE LogNothing \/ UNCHANGED logvars
  <2>1. log' = log /\ used_memory' = used_memory /\ usage' = usage
    BY <1>3 DEF LogNothing, InsertShared, CountVariant, logvars, vars
  <2>2. QED
    BY <2>1 DEF LogInv
<1>4. QED
  BY <1>1, <1>2, <1>3 DEF LogNext

LEMMA LogTypeOK == LogSpec => []TypeOK
<1>1. LogInit => Inv
  BY InitInv DEF LogInit
<1>2. [LogNext]_logvars => [Next]_vars
  BY DEF LogNext, LogRaw, LogTyped, LogNothing, Next, logvars
<1>3. Inv /\ [LogNext]_logvars => Inv'
  BY <1>2, NextInv
<1>4. Inv => TypeOK
  BY DEF Inv
<1>5. QED
  BY <1>1, <1>3, <1>4, PTL DEF LogSpec

LEMMA LogHolds == LogSpec => []LogInv
<1>1. QED
  BY LogStart, LogStep, PTL DEF LogSpec

(* The usage of a path is the sum of all that was claimed at or below it    *)
(* (main.rs:418-446), after any claims in any order.                        *)
THEOREM OutputUsageIsDu == LogSpec => []UsageIsDu
<1>1. TypeOK /\ LogInv => UsageIsDu
  <2> SUFFICES ASSUME TypeOK, LogInv, NEW p \in Paths \cup {<<>>} \cup DOMAIN usage
               PROVE  IF \E i \in DOMAIN log : CountsAt(p, log[i])
                        THEN p \in DOMAIN usage /\ usage[p] = SumOf(Parts(log, p))
                        ELSE p \notin DOMAIN usage
    BY DEF UsageIsDu
  <2>1. p \in Seq(Node)
    BY OutputAssumption, EmptySeq DEF TypeOK
  <2>2. QED
    BY <2>1 DEF LogInv, TableIs, Counted, Entry
<1>2. QED
  BY <1>1, LogTypeOK, LogHolds, PTL

(* The bitmap covers every byte of every claim and little else              *)
(* (main.rs:315-335), whatever the size of its atoms.                       *)
THEOREM OutputCoverage == LogSpec => []CoverageIsUnionOfClaims
<1>1. LogInv => CoverageIsUnionOfClaims
  <2> SUFFICES ASSUME LogInv PROVE CoverageIsUnionOfClaims
    OBVIOUS
  <2>1. ASSUME NEW i \in DOMAIN log
        PROVE  log[i].addr \in Nat /\ log[i].size \in Nat
    <3>1. log[i] \in Claims
      BY ElementOfSeq, LenProperties DEF LogInv
    <3>2. QED
      BY <3>1, OutputAssumption DEF Claims
  <2>2. ASSUME NEW i \in DOMAIN log, Inside(log[i]),
               NEW b \in log[i].addr .. log[i].addr + log[i].size - 1
        PROVE  b \div COVERAGE_PER_BIT \in used_memory
    <3>1. b \div COVERAGE_PER_BIT \in Atoms(log[i].addr, log[i].size)
      BY <2>1, <2>2, AtomsCover DEF Inside
    <3>2. QED
      BY <3>1 DEF LogInv, BitmapIs
  <2>3. ASSUME NEW a \in used_memory
        PROVE  \E i \in DOMAIN log : Touches(a, log[i])
    <3>1. PICK i \in DOMAIN log : a \in Atoms(log[i].addr, log[i].size)
      BY DEF LogInv, BitmapIs
    <3>2. QED
      BY <2>1, <3>1, AtomsTouch DEF Touches
  <2>4. QED
    BY <2>2, <2>3 DEF CoverageIsUnionOfClaims
<1>2. QED
  BY <1>1, LogHolds, PTL

=============================================================================
