----------------------------- MODULE WalkProofs -----------------------------
(***************************************************************************)
(* What holds of every walk of every dump: its types, that an object only  *)
(* shared pointers lead to is claimed at most once, that the walk uses the *)
(* Output value only through its operations, so that what is proved of the *)
(* Output tables holds during the walk, that it panics only for a cause in *)
(* a cell that can be reached, and that it never enters a cell it is in.   *)
(*                                                                         *)
(* Then, of tidy dumps, what the report says.  The handler of each kind is *)
(* a sequence of steps that does a given set of events, each once (Does).  *)
(* An event is pending while a frame on the stack has it left, and done    *)
(* afterwards, so that every step of the program does one event of one     *)
(* cell (Did), and what is entered, shared and claimed follows from the    *)
(* events done (Progress).  When the report is written they all are.       *)
(***************************************************************************)
EXTENDS WalkRequirements, SequenceTheorems, FiniteSetTheorems, WellFoundedInduction, TLAPS

(* The cells a visit of the view `c` enters whatever happened before, and    *)
(* those it enters only behind `shared_pointers.insert`.                    *)
Owned(c) == {p.cell : p \in InRange(PartsOf(c))}
              \cup (IF Info(c).kind \in Owners THEN {Info(c).target} \ {Null} ELSE {})
Shared(c) == IF Info(c).kind \in SharedKinds THEN {Info(c).target, Info(c).count} \ {Null} ELSE {}
Malformed(c) ==
    \/ Info(c).kind = "array" \/ ~Info(c).sound
    \/ Info(c).kind \in ByName /\ ~Info(c).named
    \/ Info(c).kind \in BySize /\ ~Info(c).sized
    \/ ~Info(c).sane \/ Info(c).overflows
    \/ Info(c).kind \in {"CppMap", "CppUnorderedMap"} /\ Info(c).len # Len(PartsOf(c))
    \/ Info(c).kind \notin {"prim", "struct"} /\ Info(c).readable = "panic"
    \/ Info(c).buf.readable = "panic"
    \/ \E p \in InRange(PartsOf(c)) : p.link = "panic"

(* What a handler of `c` may have left to do.                               *)
Safe(c) == {s \in StepType : /\ s.op \in {"visit", "claim"} => s.cell \in Owned(c)
                             /\ s.op = "once" => s.cell \in Shared(c)
                             /\ s.op = "panic" => Malformed(c)
                             /\ s.op = "read" => (s.ok = "panic" => Malformed(c))}
Frames == {f \in [cell : Reached, todo : Seq(StepType)] : f.todo \in Seq(Safe(Seen(f.cell)))}

Inv ==
    /\ dump \in Dumps
    /\ stack \in Seq(Frames)
    /\ unwinding \in BOOLEAN
    /\ fr \in DOMAIN dump.frames
    /\ arg \in 1 .. Len(dump.args) + 1
    /\ visited \subseteq DOMAIN dump.args
    /\ status \in {"walking", "done", "reported", "panicked"}
    /\ claims \in [Cells -> Nat]
    /\ entered \subseteq Cells
    /\ shared_pointers \subseteq Nat
    /\ SharedClaimedOnce

-----------------------------------------------------------------------------
(* Sequences of steps.                                                      *)

LEMMA OneStep == ASSUME NEW S, NEW e \in S PROVE <<e>> \in Seq(S)
  OBVIOUS

LEMMA TwoSteps == ASSUME NEW S, NEW e \in S, NEW f \in S PROVE <<e, f>> \in Seq(S)
  OBVIOUS

LEMMA TwoOfSeqs == ASSUME NEW S, NEW e, <<e>> \in Seq(S), NEW f \in S PROVE <<e, f>> \in Seq(S)
<1>1. e \in S
  <2>1. <<e>>[1] \in S
    BY ElementOfSeq
  <2>2. QED
    BY <2>1
<1>2. QED
  BY <1>1, TwoSteps

LEMMA SeqOfMore == ASSUME NEW S, NEW T, S \subseteq T PROVE Seq(S) \subseteq Seq(T)
  OBVIOUS

LEMMA Optional ==
    ASSUME NEW S, NEW cond, NEW steps \in Seq(S) PROVE When(cond, steps) \in Seq(S)
<1>1. <<>> \in Seq(S)
  OBVIOUS
<1>2. QED
  BY <1>1 DEF When

(* A conditional sequence is only needed where its condition holds.         *)
LEMMA OptionalIf ==
    ASSUME NEW S, NEW cond, NEW steps, cond => steps \in Seq(S)
    PROVE  When(cond, steps) \in Seq(S)
<1>1. <<>> \in Seq(S)
  OBVIOUS
<1>2. QED
  BY <1>1 DEF When

LEMMA Concat ==
    ASSUME NEW S, NEW s \in Seq(S), NEW t \in Seq(S) PROVE s \o t \in Seq(S)
  BY ConcatProperties

-----------------------------------------------------------------------------
(* What can be reached.                                                     *)

LEMMA Least == ASSUME NEW T \in SUBSET Nat, T # {} PROVE \E x \in T : \A y \in T : x <= y
<1>1. PICK x \in T : \A y \in T : <<y, x>> \notin OpToRel(<, Nat)
  BY WFMin, NatLessThanWellFounded, Zenon
<1>2. ASSUME NEW y \in T PROVE ~ (y < x)
  <2>1. x \in Nat /\ y \in Nat
    OBVIOUS
  <2>2. <<y, x>> \notin OpToRel(<, Nat)
    BY <1>1
  <2>3. QED
    BY <2>1, <2>2, Zenon DEF OpToRel
<1>3. \A y \in T : ~ (y < x)
  BY <1>2, Zenon
<1>4. QED
  BY <1>3

(* Induction, for a set. *)
LEMMA Induction ==
    ASSUME NEW S, 0 \in S, \A n \in Nat : n \in S => n + 1 \in S PROVE Nat \subseteq S
<1> SUFFICES ASSUME Nat \ S # {} PROVE FALSE
  OBVIOUS
<1>1. PICK x \in Nat \ S : \A y \in Nat \ S : x <= y
  BY Least
<1>2. x # 0 /\ x - 1 \in Nat /\ x - 1 \notin Nat \ S
  BY <1>1
<1>3. (x - 1) + 1 \in S
  BY <1>2
<1>4. QED
  BY <1>3

Rounds(f, S, next) ==
    f = [n \in Nat |-> IF n = 0 THEN S
                       ELSE LET before == f[n - 1]
                            IN before \cup UNION {next[c] : c \in before}]

(* n rounds reach what a chain of n links or fewer leads to.                *)
Chains(n, S, next) ==
    {p \in [0 .. n -> Cells] :
       p[0] \in S /\ \A i \in 0 .. n - 1 : p[i + 1] = p[i] \/ p[i + 1] \in next[p[i]]}
Ends(n, S, next) == {p[n] : p \in Chains(n, S, next)}

LEMMA RoundsExist ==
    ASSUME NEW S \in SUBSET Cells, NEW next \in [Cells -> SUBSET Cells]
    PROVE  Rounds([n \in Nat |-> Ends(n, S, next)], S, next)
<1> DEFINE f == [n \in Nat |-> Ends(n, S, next)]
<1>1. Ends(0, S, next) = S
  <2>1. ASSUME NEW c \in S PROVE c \in Ends(0, S, next)
    <3>1. [i \in 0 .. 0 |-> c] \in Chains(0, S, next) /\ [i \in 0 .. 0 |-> c][0] = c
      BY DEF Chains
    <3>2. QED
      BY <3>1 DEF Ends
  <2>2. Ends(0, S, next) \subseteq S
    BY DEF Ends, Chains
  <2>3. QED
    BY <2>1, <2>2
<1>2. ASSUME NEW n \in Nat \ {0}
      PROVE  Ends(n, S, next) = Ends(n - 1, S, next)
                                  \cup UNION {next[c] : c \in Ends(n - 1, S, next)}
  <2>1. ASSUME NEW p \in Chains(n, S, next)
        PROVE  p[n] \in Ends(n - 1, S, next) \cup UNION {next[c] : c \in Ends(n - 1, S, next)}
    <3> DEFINE q == [i \in 0 .. n - 1 |-> p[i]]
    <3>1. q \in Chains(n - 1, S, next)
      <4>1. \A i \in 0 .. n - 1 : i \in 0 .. n
        OBVIOUS
      <4>2. p \in [0 .. n -> Cells] /\ p[0] \in S /\ 0 \in 0 .. n - 1
        BY DEF Chains
      <4>3. q \in [0 .. n - 1 -> Cells] /\ q[0] \in S
        BY <4>1, <4>2
      <4>4. ASSUME NEW i \in 0 .. (n - 1) - 1 PROVE q[i + 1] = q[i] \/ q[i + 1] \in next[q[i]]
        <5>1. i \in 0 .. n - 1 /\ i + 1 \in 0 .. n - 1
          OBVIOUS
        <5>2. p[i + 1] = p[i] \/ p[i + 1] \in next[p[i]]
          BY <5>1 DEF Chains
        <5>3. QED
          BY <5>1, <5>2
      <4>5. QED
        BY <4>3, <4>4 DEF Chains
    <3>2. q[n - 1] \in Ends(n - 1, S, next) /\ q[n - 1] = p[n - 1]
      BY <3>1 DEF Ends
    <3>3. p[n] = p[n - 1] \/ p[n] \in next[p[n - 1]]
      <4>1. n - 1 \in 0 .. n - 1 /\ (n - 1) + 1 = n
        OBVIOUS
      <4>2. QED
        BY <4>1 DEF Chains
    <3>4. QED
      BY <3>2, <3>3
  <2>2. ASSUME NEW p \in Chains(n - 1, S, next), NEW c \in Cells,
               c = p[n - 1] \/ c \in next[p[n - 1]]
        PROVE  c \in Ends(n, S, next)
    <3> DEFINE q == [i \in 0 .. n |-> IF i = n THEN c ELSE p[i]]
    <3>1. q \in [0 .. n -> Cells] /\ q[0] \in S /\ q[n] = c
      BY DEF Chains
    <3>2. ASSUME NEW i \in 0 .. n - 1 PROVE q[i + 1] = q[i] \/ q[i + 1] \in next[q[i]]
      <4>1. CASE i = n - 1
        BY <2>2, <4>1
      <4>2. CASE i # n - 1
        <5>1. i \in 0 .. (n - 1) - 1 /\ i # n /\ i + 1 # n /\ i + 1 \in 0 .. n /\ i \in 0 .. n
          BY <4>2
        <5>2. QED
          BY <5>1 DEF Chains
      <4>3. QED
        BY <4>1, <4>2
    <3>3. q \in Chains(n, S, next)
      BY <3>1, <3>2 DEF Chains
    <3>4. QED
      BY <3>1, <3>3 DEF Ends
  <2>3. \A p \in Chains(n - 1, S, next) : p[n - 1] \in Cells /\ next[p[n - 1]] \subseteq Cells
    BY DEF Chains
  <2>4. QED
    BY <2>1, <2>2, <2>3 DEF Ends
<1>3. QED
  BY <1>1, <1>2 DEF Rounds

LEMMA RoundsFacts ==
    ASSUME NEW S \in SUBSET Cells, NEW next \in [Cells -> SUBSET Cells], NEW f, Rounds(f, S, next)
    PROVE  /\ f[0] = S
           /\ \A n \in Nat : f[n + 1] = f[n] \cup UNION {next[c] : c \in f[n]}
           /\ \A n \in Nat : f[n] \in SUBSET Cells
           /\ \A n \in Nat : S \subseteq f[n]
<1>1. f[0] = S
  BY DEF Rounds
<1>2. ASSUME NEW n \in Nat PROVE f[n + 1] = f[n] \cup UNION {next[c] : c \in f[n]}
  BY DEF Rounds
<1>3. Nat \subseteq {n \in Nat : f[n] \in SUBSET Cells /\ S \subseteq f[n]}
  <2> DEFINE T == {n \in Nat : f[n] \in SUBSET Cells /\ S \subseteq f[n]}
  <2>1. 0 \in T
    BY <1>1
  <2>2. ASSUME NEW n \in Nat, n \in T PROVE n + 1 \in T
    BY <1>2, <2>2
  <2> HIDE DEF T
  <2>3. \A n \in Nat : n \in T => n + 1 \in T
    BY <2>2
  <2>4. QED
    BY <2>1, <2>3, Induction DEF T
<1>4. QED
  BY <1>1, <1>2, <1>3

(* The least set of cells with S that `next` does not lead out of.          *)
IsLeastClosed(R, S, next) ==
    /\ S \subseteq R /\ R \subseteq Cells
    /\ \A c \in R : next[c] \subseteq R
    /\ \A T \in SUBSET Cells : S \subseteq T /\ (\A c \in T : next[c] \subseteq T) => R \subseteq T

LEMMA ReachedFromIsLeast ==
    ASSUME NEW S \in SUBSET Cells, NEW next \in [Cells -> SUBSET Cells]
    PROVE  IsLeastClosed(ReachedFrom(S, next), S, next)
<1> DEFINE f == CHOOSE g : Rounds(g, S, next)
           N == Cardinality(Cells)
           Stable(n) == f[n + 1] = f[n]
<1>1. ReachedFrom(S, next) = f[N]
  BY DEF ReachedFrom, Rounds
<1>2. Rounds(f, S, next)
  <2>1. \E g : Rounds(g, S, next)
    BY RoundsExist
  <2>2. QED
    BY <2>1, Zenon
<1> HIDE DEF f
<1>3. /\ f[0] = S
      /\ \A n \in Nat : f[n + 1] = f[n] \cup UNION {next[c] : c \in f[n]}
      /\ \A n \in Nat : f[n] \in SUBSET Cells
      /\ \A n \in Nat : S \subseteq f[n]
  BY <1>2, RoundsFacts
<1>4. N \in Nat
  BY CellsAssumption, FS_CardinalityType
<1>5. \A n \in Nat : IsFiniteSet(f[n]) /\ Cardinality(f[n]) \in Nat /\ Cardinality(f[n]) <= N
  BY <1>3, CellsAssumption, FS_Subset, FS_CardinalityType
<1>6. Nat \subseteq {n \in Nat : Stable(n) \/ n <= Cardinality(f[n])}
  <2> DEFINE T == {n \in Nat : Stable(n) \/ n <= Cardinality(f[n])}
  <2>1. 0 \in T
    BY <1>5
  <2>2. ASSUME NEW n \in Nat, Stable(n) \/ n <= Cardinality(f[n])
        PROVE  Stable(n + 1) \/ n + 1 <= Cardinality(f[n + 1])
    <3>1. CASE Stable(n)
      <4>1. f[(n + 1) + 1] = f[n + 1] \cup UNION {next[c] : c \in f[n + 1]}
            /\ f[n + 1] = f[n] \cup UNION {next[c] : c \in f[n]}
        BY <1>3
      <4>2. QED
        BY <3>1, <4>1
    <3>2. CASE ~ Stable(n)
      <4>1. n <= Cardinality(f[n])
        BY <2>2, <3>2
      <4>2. f[n] \subseteq f[n + 1] /\ f[n] # f[n + 1] /\ n + 1 \in Nat
        BY <1>3, <3>2
      <4>3. Cardinality(f[n]) < Cardinality(f[n + 1])
        <5>1. IsFiniteSet(f[n + 1]) /\ IsFiniteSet(f[n])
          BY <1>5, <4>2
        <5>2. QED
          BY <4>2, <5>1, FS_Subset, FS_CardinalityType
      <4>4. n + 1 <= Cardinality(f[n + 1])
        BY <1>5, <4>1, <4>2, <4>3
      <4>5. QED
        BY <4>4
    <3>3. QED
      BY <3>1, <3>2
  <2>3. \A n \in Nat : n \in T => n + 1 \in T
    BY <2>2
  <2> HIDE DEF T
  <2>4. Nat \subseteq T
    BY <2>1, <2>3, Induction
  <2>5. QED
    BY <2>4 DEF T
<1>7. Stable(N)
  <2>1. CASE N <= Cardinality(f[N])
    <3>1. Cardinality(f[N]) = N /\ f[N] \in SUBSET Cells
      BY <1>3, <1>4, <1>5, <2>1
    <3>2. f[N] = Cells
      BY <3>1, CellsAssumption, FS_Subset
    <3>3. f[N + 1] \in SUBSET Cells /\ f[N] \subseteq f[N + 1]
      BY <1>3, <1>4
    <3>4. QED
      BY <3>2, <3>3
  <2>2. QED
    BY <1>4, <1>6, <2>1
<1>8. \A c \in f[N] : next[c] \subseteq f[N]
  BY <1>3, <1>4, <1>7
<1>9. ASSUME NEW T \in SUBSET Cells, S \subseteq T, \A c \in T : next[c] \subseteq T
      PROVE  f[N] \subseteq T
  <2> DEFINE U == {n \in Nat : f[n] \subseteq T}
  <2>1. 0 \in U
    BY <1>3, <1>9
  <2>2. ASSUME NEW n \in Nat, n \in U PROVE n + 1 \in U
    BY <1>3, <1>9, <2>2
  <2> HIDE DEF U
  <2>3. \A n \in Nat : n \in U => n + 1 \in U
    BY <2>2
  <2>4. N \in U
    BY <1>4, <2>1, <2>3, Induction
  <2>5. QED
    BY <2>4 DEF U
<1>10. QED
  BY <1>1, <1>3, <1>4, <1>8, <1>9 DEF IsLeastClosed

LEMMA OneLeastClosed ==
    ASSUME NEW Q, NEW R, NEW S, NEW next, IsLeastClosed(Q, S, next), IsLeastClosed(R, S, next)
    PROVE  Q = R
  BY DEF IsLeastClosed

-----------------------------------------------------------------------------
(* What the debug information of a dump provides.                           *)

LEMMA DumpTypes ==
    ASSUME dump \in Dumps, NEW c \in Cells
    PROVE  /\ Info(c) \in CellInfo
           /\ PartsOf(c) \in Seq(Part)
           /\ Len(PartsOf(c)) \in Nat
           /\ Info(c).outer \in 0 .. Len(PartsOf(c))
           /\ AddrOf(c) \in Nat
           /\ Info(c).kind = "AllocRc" => Info(c).target # Null
           /\ dump.frames \in Seq(Call) /\ dump.args \in Seq(Arg) /\ dump.frames # <<>>
<1>1. dump \in Dump /\ dump.frames # <<>> /\ dump.cells[c].outer <= Len(dump.cells[c].parts)
      /\ (dump.cells[c].kind = "AllocRc" => dump.cells[c].target # Null)
  BY WalkAssumption DEF Encoded
<1>2. dump.cells \in [Cells -> CellInfo] /\ dump.frames \in Seq(Call) /\ dump.args \in Seq(Arg)
  BY <1>1 DEF Dump
<1>3. dump.cells[c] \in CellInfo
  BY <1>2
<1>4. dump.cells[c].parts \in Seq(Part) /\ dump.cells[c].outer \in Nat
      /\ dump.cells[c].addr \in Nat
  BY <1>3 DEF CellInfo
<1>5. Len(dump.cells[c].parts) \in Nat
  BY <1>4, LenProperties
<1>6. QED
  BY <1>1, <1>2, <1>3, <1>4, <1>5 DEF Info, PartsOf, AddrOf

LEMMA PartTypes ==
    ASSUME dump \in Dumps, NEW c \in Cells, NEW i \in 1 .. Len(PartsOf(c))
    PROVE  /\ PartsOf(c)[i].path \in Seq(Node)
           /\ PartsOf(c)[i].link \in Outcomes
           /\ PartsOf(c)[i].link = "panic" => Malformed(c)
           /\ PartsOf(c)[i].cell \in Cells
           /\ PartsOf(c)[i].cell \in Owned(c)
<1>1. PartsOf(c) \in Seq(Part) /\ i \in DOMAIN PartsOf(c)
  BY DumpTypes, LenProperties
<1>2. PartsOf(c)[i] \in Part
  BY <1>1, ElementOfSeq, LenProperties
<1>3. PartsOf(c)[i].cell \in Owned(c)
  BY <1>1 DEF Owned, InRange
<1>4. PartsOf(c)[i].link = "panic" => Malformed(c)
  BY <1>1 DEF Malformed, InRange
<1>5. QED
  BY <1>2, <1>3, <1>4 DEF Part

(* What a visit owns is left to no shared pointer, and all of it is         *)
(* followed.                                                                *)
LEMMA OwnedFacts ==
    ASSUME dump \in Dumps, NEW c \in Cells
    PROVE  /\ Owned(c) \subseteq Cells \ SharedOnly
           /\ Shared(c) \subseteq Cells
           /\ \A d \in Cells : c = Seen(d) => Owned(c) \cup Shared(c) \subseteq Follows(d)
<1>1. ASSUME NEW i \in DOMAIN PartsOf(c) PROVE PartsOf(c)[i].cell \in Cells \ SharedOnly
  <2>1. i \in 1 .. Len(PartsOf(c))
    BY DumpTypes, LenProperties
  <2>2. PartsOf(c)[i].cell \notin SharedOnly
    BY DEF SharedOnly, OnlyShared
  <2>3. QED
    BY <2>1, <2>2, PartTypes
<1>2. Info(c).target \in Cells \cup {Null} /\ Info(c).count \in Cells \cup {Null}
  BY DumpTypes DEF CellInfo
<1>3. Info(c).kind \in Owners => Info(c).target \notin SharedOnly
  BY DEF SharedOnly, OnlyShared
<1>4. Owned(c) \subseteq Cells \ SharedOnly
  BY <1>1, <1>2, <1>3 DEF Owned, InRange
<1>5. Shared(c) \subseteq Cells
  BY <1>2 DEF Shared
<1>6. ASSUME NEW d \in Cells, c = Seen(d) PROVE Owned(c) \cup Shared(c) \subseteq Follows(d)
  BY <1>6 DEF Owned, Shared, SharedKinds, Follows, PartCells, Targets
<1>7. QED
  BY <1>4, <1>5, <1>6

(* What the requested variables keep alive, and that no step changes it.    *)
LEMMA RootsAreCells == ASSUME dump \in Dumps PROVE Roots \subseteq Cells
<1>1. dump.frames \in Seq(Call) /\ dump.args \in Seq(Arg)
  BY WalkAssumption DEF Dump
<1>2. ASSUME NEW f \in DOMAIN dump.frames, NEW i \in DOMAIN dump.args
      PROVE  dump.frames[f].local[dump.args[i].var_name] \in Cells \cup {Null}
  <2>1. dump.frames[f] \in Call /\ dump.args[i] \in Arg
    BY <1>1, ElementOfSeq, LenProperties
  <2>2. QED
    BY <2>1 DEF Call, Arg
<1>3. QED
  BY <1>2 DEF Roots, Requested, Local

FollowsFcn == [c \in Cells |-> Follows(c)]
ReachedOK == IsLeastClosed(Reached, Roots, FollowsFcn) /\ FollowsFcn \in [Cells -> SUBSET Cells]

DumpOK == dump \in Dumps
LEMMA ReachedIsLeast == DumpOK => ReachedOK
<1> SUFFICES ASSUME dump \in Dumps PROVE ReachedOK
  BY DEF DumpOK
<1>1. ASSUME NEW c \in Cells PROVE Follows(c) \subseteq Cells
  <2>1. Seen(c) \in Cells
    BY DumpTypes DEF CellInfo, Seen
  <2>2. Info(Seen(c)).target \in Cells \cup {Null} /\ Info(Seen(c)).count \in Cells \cup {Null}
    BY <2>1, DumpTypes DEF CellInfo
  <2>3. ASSUME NEW i \in DOMAIN PartsOf(Seen(c)) PROVE PartsOf(Seen(c))[i].cell \in Cells
    <3>1. i \in 1 .. Len(PartsOf(Seen(c)))
      BY <2>1, DumpTypes, LenProperties
    <3>2. QED
      BY <2>1, <3>1, PartTypes
  <2>4. QED
    BY <2>2, <2>3 DEF Follows, PartCells, InRange, Targets
<1>2. FollowsFcn \in [Cells -> SUBSET Cells]
  BY <1>1 DEF FollowsFcn
<1>3. QED
  BY <1>2, RootsAreCells, ReachedFromIsLeast DEF ReachedOK, Reached, FollowsFcn

LEMMA ReachedFacts ==
    ASSUME dump \in Dumps
    PROVE  /\ Roots \subseteq Reached /\ Reached \subseteq Cells
           /\ \A c \in Reached : Follows(c) \subseteq Reached
           /\ \A c \in Reached : Owned(Seen(c)) \cup Shared(Seen(c)) \subseteq Follows(c)
           /\ \A c \in Reached : Seen(c) \in Cells
<1>1. ReachedOK
  BY ReachedIsLeast DEF DumpOK
<1>2. Roots \subseteq Reached /\ Reached \subseteq Cells
  BY <1>1 DEF ReachedOK, IsLeastClosed
<1>3. \A c \in Reached : Follows(c) \subseteq Reached
  BY <1>1, <1>2 DEF ReachedOK, IsLeastClosed, FollowsFcn
<1>4. \A c \in Reached : Seen(c) \in Cells
  BY <1>2, DumpTypes DEF CellInfo, Seen
<1>5. QED
  BY <1>2, <1>3, <1>4, OwnedFacts

LEMMA DumpSame ==
    ASSUME dump \in Dumps, dump' = dump
    PROVE  /\ Reached' = Reached /\ Roots' = Roots
           /\ \A c : /\ Follows(c)' = Follows(c) /\ Seen(c)' = Seen(c)
                     /\ Owned(c)' = Owned(c) /\ Shared(c)' = Shared(c)
                     /\ Malformed(c)' = Malformed(c) /\ AddrOf(c)' = AddrOf(c)
                     /\ Safe(c)' = Safe(c)
           /\ Frames' = Frames
<1>1. \A c : Info(c)' = Info(c) /\ PartsOf(c)' = PartsOf(c) /\ Seen(c)' = Seen(c)
  BY DEF Info, PartsOf, Seen
<1>2. \A c : /\ Owned(c)' = Owned(c) /\ Shared(c)' = Shared(c)
             /\ Malformed(c)' = Malformed(c) /\ AddrOf(c)' = AddrOf(c)
  BY <1>1 DEF Owned, Shared, Malformed, AddrOf
<1>3. \A c : Follows(c)' = Follows(c)
  BY <1>1 DEF Follows, PartCells, Targets
<1>4. Roots' = Roots
  BY DEF Roots, Requested, Local
<1>5. \A c : Safe(c)' = Safe(c)
  BY <1>2 DEF Safe
<1>6. ReachedOK /\ ReachedOK'
  <2>1. DumpOK /\ DumpOK'
    BY DEF DumpOK
  <2>2. QED
    BY <2>1, ReachedIsLeast, PTL
<1>7. FollowsFcn' = FollowsFcn
  BY <1>3 DEF FollowsFcn
<1>8. Reached' = Reached
  <2>1. /\ IsLeastClosed(Reached, Roots, FollowsFcn) /\ IsLeastClosed(Reached', Roots, FollowsFcn)
    BY <1>4, <1>6, <1>7 DEF ReachedOK, IsLeastClosed
  <2>2. QED
    BY <2>1, OneLeastClosed
<1>9. Frames' = Frames
  BY <1>1, <1>5, <1>8 DEF Frames
<1>10. QED
  BY <1>1, <1>2, <1>3, <1>4, <1>5, <1>8, <1>9

-----------------------------------------------------------------------------
(* Each kind of step is safe where the handlers use it.                     *)

LEMMA Deeper ==
    ASSUME NEW path \in Path
    PROVE  /\ path \in Seq(Node)
           /\ \A s \in Seq(Node) : path \o s \in Path
           /\ Append(path, Deref) \in Path
           /\ path \o <<Field("data"), Deref>> \in Path
           /\ path \o <<Field("refcount"), Deref>> \in Path
           /\ \A i \in Nat \ {0} : ItemPath(path, i) \in Path
<1>1. path \in Seq(Node) /\ path # <<>> /\ Len(path) \in Nat /\ Len(path) > 0
  BY EmptySeq, LenProperties DEF Path
<1>2. ASSUME NEW n \in Node PROVE Append(path, n) \in Path
  BY <1>1, AppendProperties DEF Path
<1>3. ASSUME NEW s \in Seq(Node) PROVE path \o s \in Path
  <2>1. path \o s \in Seq(Node) /\ Len(path \o s) = Len(path) + Len(s) /\ Len(s) \in Nat
    BY <1>1, ConcatProperties, LenProperties
  <2>2. QED
    BY <1>1, <2>1, EmptySeq DEF Path
<1>4. Deref \in Node
  BY DEF Node
<1>5. ASSUME NEW i \in Nat \ {0} PROVE Index(i - 1) \in Node
  BY DEF Node, Index
<1>6. /\ <<Field("data"), Deref>> \in Seq(Node)
      /\ <<Field("refcount"), Deref>> \in Seq(Node)
  BY <1>4, WalkAssumption DEF Node, Field
<1>7. QED
  BY <1>1, <1>2, <1>3, <1>4, <1>5, <1>6 DEF ItemPath

LEMMA SafeSteps ==
    ASSUME dump \in Dumps, NEW c \in Cells
    PROVE
    /\ \A ok \in Outcomes : (ok = "panic" => Malformed(c)) => Read(ok) \in Safe(c)
    /\ \A path \in Path, d \in Owned(c) :
          ClaimItem(path, d) \in Safe(c) /\ Visit(path, d) \in Safe(c)
    /\ \A path \in Path, d \in Shared(c) : VisitOnce(path, d) \in Safe(c)
    /\ \A path \in Path, addr, size \in Nat, assoc \in BOOLEAN :
          Raw(path, addr, size, assoc) \in Safe(c)
    /\ \A path \in Path, addr, size \in Nat : RawOnce(path, addr, size) \in Safe(c)
    /\ \A enm \in Types, variant \in FieldNames : Count(enm, Field(variant)) \in Safe(c)
    /\ Malformed(c) => Panic \in Safe(c)
<1>1. \A ok \in Outcomes : (ok = "panic" => Malformed(c)) => Read(ok) \in Safe(c)
  BY DEF Safe, StepType, Read
<1>2. \A path \in Path, d \in Owned(c) :
         ClaimItem(path, d) \in Safe(c) /\ Visit(path, d) \in Safe(c)
  BY OwnedFacts DEF Safe, StepType, ClaimItem, Visit
<1>3. \A path \in Path, d \in Shared(c) : VisitOnce(path, d) \in Safe(c)
  BY OwnedFacts DEF Safe, StepType, VisitOnce
<1>4. \A path \in Path, addr, size \in Nat, assoc \in BOOLEAN :
         Raw(path, addr, size, assoc) \in Safe(c)
  BY DEF Safe, StepType, Raw
<1>5. \A path \in Path, addr, size \in Nat : RawOnce(path, addr, size) \in Safe(c)
  BY DEF Safe, StepType, RawOnce
<1>6. \A variant \in FieldNames : Field(variant) \in Node
  BY DEF Field, Node
<1>7. \A enm \in Types, variant \in FieldNames : Count(enm, Field(variant)) \in Safe(c)
  BY <1>6 DEF Safe, StepType, Count
<1>8. Malformed(c) => Panic \in Safe(c)
  BY DEF Safe, StepType, Panic
<1>9. QED
  BY <1>1, <1>2, <1>3, <1>4, <1>5, <1>7, <1>8, Zenon

(* Visiting a run of parts, and the items of a container.                   *)
LEMMA PartsSafe ==
    ASSUME dump \in Dumps, NEW c \in Cells, NEW path \in Path,
           NEW first \in Nat \ {0}, NEW last \in 0 .. Len(PartsOf(c))
    PROVE  VisitParts(c, path, first, last) \in Seq(Safe(c))
<1> DEFINE n == IF first <= last THEN last - first + 1 ELSE 0
           step(k) == VisitPart(PartsOf(c)[first + k - 1], path)
<1>1. n \in Nat /\ Len(PartsOf(c)) \in Nat
  BY DumpTypes
<1>2. ASSUME NEW i \in 1 .. Len(PartsOf(c)) PROVE VisitPart(PartsOf(c)[i], path) \in Safe(c)
  <2>1. CASE PartsOf(c)[i].link = "panic"
    BY <2>1, PartTypes, SafeSteps DEF VisitPart
  <2>2. CASE PartsOf(c)[i].link # "panic"
    BY <2>2, PartTypes, Deeper, SafeSteps DEF VisitPart
  <2>3. QED
    BY <2>1, <2>2
<1>3. ASSUME NEW k \in 1 .. n PROVE step(k) \in Safe(c)
  <2>1. first + k - 1 \in 1 .. Len(PartsOf(c))
    BY <1>1
  <2>2. QED
    BY <1>2, <2>1
<1>4. VisitParts(c, path, first, last) = [k \in 1 .. n |-> step(k)]
  BY DEF VisitParts
<1> HIDE DEF n, step
<1>5. QED
  BY <1>1, <1>3, <1>4, IsASeq

LEMMA ItemSafe ==
    ASSUME dump \in Dumps, NEW c \in Cells, NEW path \in Path, NEW i \in 1 .. Len(PartsOf(c))
    PROVE  /\ Visit(ItemPath(path, i), PartsOf(c)[i].cell) \in Safe(c)
           /\ ClaimItem(ItemPath(path, i), PartsOf(c)[i].cell) \in Safe(c)
           /\ Read(PartsOf(c)[i].link) \in Safe(c)
<1>1. i \in Nat \ {0}
  BY DumpTypes
<1>2. QED
  BY <1>1, PartTypes, Deeper, SafeSteps

LEMMA ItemsSafe ==
    ASSUME dump \in Dumps, NEW c \in Cells, NEW path \in Path
    PROVE  Items(c, path) \in Seq(Safe(c))
<1> DEFINE n == 2 * Len(PartsOf(c))
           step(k) == LET i == (k + 1) \div 2
                      IN IF k % 2 = 1 THEN ClaimItem(ItemPath(path, i), PartsOf(c)[i].cell)
                                      ELSE Visit(ItemPath(path, i), PartsOf(c)[i].cell)
<1>1. n \in Nat /\ Len(PartsOf(c)) \in Nat
  BY DumpTypes
<1>2. ASSUME NEW k \in 1 .. n PROVE step(k) \in Safe(c)
  <2>1. (k + 1) \div 2 \in 1 .. Len(PartsOf(c))
    BY <1>1
  <2>2. QED
    BY <2>1, ItemSafe
<1>3. Items(c, path) = [k \in 1 .. n |-> step(k)]
  BY DEF Items
<1> HIDE DEF n, step
<1>4. QED
  BY <1>1, <1>2, <1>3, IsASeq

LEMMA LinkedItemsSafe ==
    ASSUME dump \in Dumps, NEW c \in Cells, NEW path \in Path,
           NEW m \in 0 .. Len(PartsOf(c))
    PROVE  LinkedItems(c, path, m) \in Seq(Safe(c))
<1> DEFINE n == 3 * m
           step(k) == LET i == (k + 2) \div 3
                      IN IF k % 3 = 1 THEN ClaimItem(ItemPath(path, i), PartsOf(c)[i].cell)
                         ELSE IF k % 3 = 2 THEN Visit(ItemPath(path, i), PartsOf(c)[i].cell)
                         ELSE Read(PartsOf(c)[i].link)
<1>1. n \in Nat /\ Len(PartsOf(c)) \in Nat
  BY DumpTypes
<1>2. ASSUME NEW k \in 1 .. n PROVE step(k) \in Safe(c)
  <2>1. (k + 2) \div 3 \in 1 .. Len(PartsOf(c))
    BY <1>1
  <2>2. QED
    BY <2>1, ItemSafe
<1>3. LinkedItems(c, path, m) = [k \in 1 .. n |-> step(k)]
  BY DEF LinkedItems
<1> HIDE DEF n, step
<1>4. QED
  BY <1>1, <1>2, <1>3, IsASeq

-----------------------------------------------------------------------------
(* The handlers.                                                            *)

LEMMA ReadFirst ==
    ASSUME dump \in Dumps, NEW c \in Cells
    PROVE  /\ Info(c).kind \notin {"prim", "struct"} => <<Read(Opening(c))>> \in Seq(Safe(c))
           /\ <<Read(Info(c).buf.readable)>> \in Seq(Safe(c))
           /\ Info(c).buf \in Buffer
           /\ Info(c).size \in Nat
<1>1. /\ Info(c).readable \in Outcomes /\ Info(c).buf \in Buffer /\ Info(c).size \in Nat
      /\ Info(c).sane \in BOOLEAN /\ Info(c).named \in BOOLEAN /\ Info(c).sized \in BOOLEAN
  BY DumpTypes DEF CellInfo
<1>2. Info(c).buf.readable \in Outcomes
  BY <1>1 DEF Buffer
<1>3. Opening(c) \in Outcomes
  BY <1>1 DEF Opening, Outcomes
<1>4. ASSUME Info(c).kind \notin {"prim", "struct"}, Opening(c) = "panic" PROVE Malformed(c)
  BY <1>1, <1>4 DEF Opening, Panics, NoSuchItems, Malformed, ByName, BySize
<1>5. Read(Info(c).buf.readable) \in Safe(c)
  BY <1>2, SafeSteps DEF Malformed
<1>6. Info(c).kind \notin {"prim", "struct"} => Read(Opening(c)) \in Safe(c)
  BY <1>3, <1>4, SafeSteps
<1>7. QED
  BY <1>1, <1>5, <1>6, OneStep

(* An owner leads to a cell that is not left to shared pointers alone.      *)
LEMMA OwnerSafe ==
    ASSUME dump \in Dumps, NEW c \in Cells, NEW path \in Path, Info(c).kind \in Owners
    PROVE  OwnerSteps(c, path) \in Seq(Safe(c))
<1>1. Info(c).target \in Cells \cup {Null}
  BY DumpTypes DEF CellInfo
<1>2. Info(c).target # Null => Info(c).target \in Owned(c)
  BY DEF Owned
<1>3. Info(c).target # Null => <<Visit(Append(path, Deref), Info(c).target)>> \in Seq(Safe(c))
  BY <1>1, <1>2, Deeper, SafeSteps, OneStep
<1>4. QED
  BY <1>3, ReadFirst, OptionalIf, Concat DEF OwnerSteps, Owners

LEMMA OnceSafe ==
    ASSUME dump \in Dumps, NEW c \in Cells, NEW path \in Path, Info(c).kind \in SharedKinds
    PROVE  /\ rc_ptrSteps(c, path) \in Seq(Safe(c))
           /\ CppSharedPtrSteps(c, path) \in Seq(Safe(c))
<1>1. Info(c).target \in Shared(c) \cup {Null} /\ Info(c).count \in Shared(c) \cup {Null}
  BY DEF Shared
<1>2. ASSUME NEW t \in Shared(c) \cup {Null}, NEW p \in Path
      PROVE  When(t # Null, <<VisitOnce(p, t)>>) \in Seq(Safe(c))
  <2>1. t # Null => <<VisitOnce(p, t)>> \in Seq(Safe(c))
    BY SafeSteps, OneStep
  <2>2. QED
    BY <2>1, OptionalIf
<1>3. rc_ptrSteps(c, path) \in Seq(Safe(c))
  BY <1>1, <1>2, Deeper, ReadFirst, Concat DEF rc_ptrSteps, SharedKinds
<1>4. <<Read(Opening(c))>>
        \o When(Info(c).target # Null,
                <<VisitOnce(path \o <<Field("data"), Deref>>, Info(c).target)>>) \in Seq(Safe(c))
  BY <1>1, <1>2, Deeper, ReadFirst, Concat DEF SharedKinds
<1>5. When(Info(c).count # Null,
           <<VisitOnce(path \o <<Field("refcount"), Deref>>, Info(c).count)>>) \in Seq(Safe(c))
  BY <1>1, <1>2, Deeper
<1>6. CppSharedPtrSteps(c, path) \in Seq(Safe(c))
  BY <1>4, <1>5, Concat DEF CppSharedPtrSteps
<1>7. QED
  BY <1>3, <1>6

LEMMA ContainersSafe ==
    ASSUME dump \in Dumps, NEW c \in Cells, NEW path \in Path,
           Info(c).kind \notin {"prim", "struct"}
    PROVE  /\ CppVectorSteps(c, path) \in Seq(Safe(c))
           /\ AllocVecSteps(c, path) \in Seq(Safe(c))
           /\ Info(c).kind = "CppMap" => CppMapSteps(c, path) \in Seq(Safe(c))
           /\ Info(c).kind = "CppUnorderedMap" => CppUnorderedMapSteps(c, path) \in Seq(Safe(c))
           /\ HashbrownMapSteps(c, path) \in Seq(Safe(c))
<1>1. Malformed(c) => <<Panic>> \in Seq(Safe(c))
  BY SafeSteps, OneStep
<1>2. Info(c).len \in Nat /\ Len(PartsOf(c)) \in Nat
  BY DumpTypes DEF CellInfo
<1>3. CppVectorSteps(c, path) \in Seq(Safe(c))
  BY ReadFirst, ItemsSafe, Optional, Concat DEF CppVectorSteps
<1>4. AllocVecSteps(c, path) \in Seq(Safe(c))
  BY <1>1, ReadFirst, ItemsSafe, Concat DEF AllocVecSteps, Malformed
<1>5. ASSUME Info(c).kind = "CppMap" PROVE CppMapSteps(c, path) \in Seq(Safe(c))
  <2>1. CASE Info(c).len <= Len(PartsOf(c))
    <3>1. LinkedItems(c, path, Info(c).len) \in Seq(Safe(c))
      BY <1>2, <2>1, LinkedItemsSafe
    <3>2. QED
      BY <2>1, <3>1, ReadFirst, Concat DEF CppMapSteps
  <2>2. CASE ~(Info(c).len <= Len(PartsOf(c)))
    <3>1. LinkedItems(c, path, Len(PartsOf(c))) \o <<Panic>> \in Seq(Safe(c))
      <4>1. Malformed(c)
        BY <1>2, <1>5, <2>2 DEF Malformed
      <4>2. QED
        BY <1>1, <1>2, <4>1, LinkedItemsSafe, Concat
    <3>2. QED
      BY <2>2, <3>1, ReadFirst, Concat DEF CppMapSteps
  <2>3. QED
    BY <2>1, <2>2
<1>6. ASSUME Info(c).kind = "CppUnorderedMap" PROVE CppUnorderedMapSteps(c, path) \in Seq(Safe(c))
  <2>1. CASE Len(PartsOf(c)) <= Info(c).len + 1
    <3>1. LinkedItems(c, path, Len(PartsOf(c))) \in Seq(Safe(c))
      BY <1>2, LinkedItemsSafe
    <3>2. QED
      BY <2>1, <3>1, ReadFirst, Concat DEF CppUnorderedMapSteps
  <2>2. CASE ~(Len(PartsOf(c)) <= Info(c).len + 1)
    <3>1. LinkedItems(c, path, Info(c).len + 1) \in Seq(Safe(c))
      BY <1>2, <2>2, LinkedItemsSafe
    <3>2. LinkedItems(c, path, Info(c).len + 1) \o <<Panic>> \in Seq(Safe(c))
      <4>1. Malformed(c)
        BY <1>2, <1>6, <2>2 DEF Malformed
      <4>2. QED
        BY <1>1, <3>1, <4>1, Concat
    <3>3. QED
      BY <2>2, <3>2, ReadFirst, Concat DEF CppUnorderedMapSteps
  <2>3. QED
    BY <2>1, <2>2
<1>7. HashbrownMapSteps(c, path) \in Seq(Safe(c))
  <2> DEFINE n == 3 * Len(PartsOf(c))
             step(k) == LET i == (k + 2) \div 3
                        IN IF k % 3 = 1 THEN Read(PartsOf(c)[i].link)
                           ELSE IF k % 3 = 2 THEN ClaimItem(ItemPath(path, i), PartsOf(c)[i].cell)
                           ELSE Visit(ItemPath(path, i), PartsOf(c)[i].cell)
  <2>1. n \in Nat
    BY <1>2
  <2>2. ASSUME NEW k \in 1 .. n PROVE step(k) \in Safe(c)
    <3>1. (k + 2) \div 3 \in 1 .. Len(PartsOf(c))
      BY <1>2
    <3>2. QED
      BY <3>1, ItemSafe
  <2>3. HashbrownMapSteps(c, path) = <<Read(Opening(c))>> \o [k \in 1 .. n |-> step(k)]
                                     \o <<Read(Info(c).buf.readable)>>
    BY DEF HashbrownMapSteps
  <2> HIDE DEF n, step
  <2>4. [k \in 1 .. n |-> step(k)] \in Seq(Safe(c))
    BY <2>1, <2>2, IsASeq
  <2>5. QED
    BY <2>3, <2>4, ReadFirst, Concat
<1>8. QED
  BY <1>3, <1>4, <1>5, <1>6, <1>7

LEMMA BuffersSafe ==
    ASSUME dump \in Dumps, NEW c \in Cells, NEW path \in Path,
           Info(c).kind \notin {"prim", "struct"}
    PROVE  /\ CppStringSteps(c, path) \in Seq(Safe(c))
           /\ AllocStringSteps(c, path) \in Seq(Safe(c))
           /\ ThinVectorSteps(c, path) \in Seq(Safe(c))
           /\ RcStringSteps(c, path) \in Seq(Safe(c))
<1>1. When(~Info(c).sane, <<Panic>>) \in Seq(Safe(c))
  BY SafeSteps, OneStep, OptionalIf DEF Malformed
<1>2. /\ Info(c).buf.addr \in Nat /\ Info(c).buf.len \in Nat /\ Info(c).buf.cap \in Nat
      /\ Info(c).size + Info(c).buf.len \in Nat
  <2>1. Info(c).buf \in Buffer /\ Info(c).size \in Nat
    BY ReadFirst
  <2>2. QED
    BY <2>1 DEF Buffer
<1>3. /\ Raw(Append(path, Deref), Info(c).buf.addr, Info(c).buf.len, TRUE) \in Safe(c)
      /\ Raw(path, Info(c).buf.addr, Info(c).buf.cap, FALSE) \in Safe(c)
      /\ RawOnce(path, Info(c).buf.addr, Info(c).size + Info(c).buf.len) \in Safe(c)
  BY <1>2, Deeper, SafeSteps
<1>4. CppStringSteps(c, path) \in Seq(Safe(c))
  BY <1>1, <1>3, ReadFirst, OneStep, Optional, Concat DEF CppStringSteps
<1>5. AllocStringSteps(c, path) \in Seq(Safe(c))
  <2>1. <<Read(Info(c).buf.readable),
          Raw(Append(path, Deref), Info(c).buf.addr, Info(c).buf.len, TRUE)>> \in Seq(Safe(c))
    BY <1>3, ReadFirst, TwoOfSeqs
  <2>2. QED
    BY <2>1, ReadFirst, Optional, Concat DEF AllocStringSteps
<1>6. ThinVectorSteps(c, path) \in Seq(Safe(c))
  <2> DEFINE step(i) == Visit(ItemPath(path, i), PartsOf(c)[i].cell)
             rd == <<Read(Opening(c))>>
             meta == When(Info(c).buf.addr # 0, <<Read(Info(c).buf.readable)>>)
             raw == <<Raw(path, Info(c).buf.addr, Info(c).buf.cap, FALSE)>>
             items == [i \in 1 .. Len(PartsOf(c)) |-> step(i)]
  <2>1. \A i \in 1 .. Len(PartsOf(c)) : step(i) \in Safe(c)
    BY ItemSafe
  <2>2. rd \in Seq(Safe(c)) /\ meta \in Seq(Safe(c)) /\ raw \in Seq(Safe(c))
    BY <1>3, ReadFirst, OneStep, Optional
  <2>3. ThinVectorSteps(c, path) = rd \o meta \o raw \o items
    BY DEF ThinVectorSteps
  <2>4. items \in Seq(Safe(c))
    <3> HIDE DEF step
    <3>1. QED
      BY <2>1, DumpTypes, IsASeq
  <2> HIDE DEF rd, meta, raw, items
  <2>5. QED
    BY <2>2, <2>3, <2>4, Concat
<1>7. RcStringSteps(c, path) \in Seq(Safe(c))
  <2>1. <<Read(Info(c).buf.readable),
          RawOnce(path, Info(c).buf.addr, Info(c).size + Info(c).buf.len)>> \in Seq(Safe(c))
    BY <1>3, ReadFirst, TwoOfSeqs
  <2>2. QED
    BY <2>1, ReadFirst, Optional, Concat DEF RcStringSteps
<1>8. QED
  BY <1>4, <1>5, <1>6, <1>7

LEMMA VariantsSafe ==
    ASSUME dump \in Dumps, NEW c \in Cells, NEW path \in Path,
           Info(c).kind \notin {"prim", "struct"}
    PROVE  /\ MrTaggedUnionSteps(c, path) \in Seq(Safe(c))
           /\ TaggedUnionSteps(c, path) \in Seq(Safe(c))
<1>1. Info(c).ty \in Types /\ Info(c).variant \in FieldNames \cup {Null}
  BY DumpTypes DEF CellInfo
<1>2. Info(c).variant # Null => <<Count(Info(c).ty, Field(Info(c).variant))>> \in Seq(Safe(c))
  BY <1>1, SafeSteps, OneStep
<1>3. /\ VisitParts(c, path, 1, Len(PartsOf(c))) \in Seq(Safe(c))
      /\ VisitParts(c, path, 1, Info(c).outer) \in Seq(Safe(c))
      /\ VisitParts(c, path, Info(c).outer + 1, Len(PartsOf(c))) \in Seq(Safe(c))
  <2>1. Len(PartsOf(c)) \in Nat /\ Info(c).outer \in 0 .. Len(PartsOf(c))
    BY DumpTypes
  <2>2. /\ Info(c).outer + 1 \in Nat \ {0} /\ 1 \in Nat \ {0}
        /\ Len(PartsOf(c)) \in 0 .. Len(PartsOf(c))
    BY <2>1
  <2>3. QED
    BY <2>1, <2>2, PartsSafe
<1>4. When(Info(c).variant # Null, <<Count(Info(c).ty, Field(Info(c).variant))>>) \in Seq(Safe(c))
  BY <1>2, OptionalIf
<1>5. MrTaggedUnionSteps(c, path) \in Seq(Safe(c))
  BY <1>3, <1>4, ReadFirst, Concat DEF MrTaggedUnionSteps
<1>6. When(Info(c).variant # Null,
           <<Count(Info(c).ty, Field(Info(c).variant))>>
           \o VisitParts(c, path, Info(c).outer + 1, Len(PartsOf(c)))) \in Seq(Safe(c))
  BY <1>2, <1>3, Concat, OptionalIf
<1>7. TaggedUnionSteps(c, path) \in Seq(Safe(c))
  BY <1>3, <1>6, ReadFirst, Concat DEF TaggedUnionSteps
<1>8. QED
  BY <1>5, <1>7

LEMMA FieldsSafe ==
    ASSUME dump \in Dumps, NEW c \in Cells, NEW path \in Path
    PROVE  StructSteps(c, path) \in Seq(Safe(c))
<1>1. Len(PartsOf(c)) \in 0 .. Len(PartsOf(c)) /\ 1 \in Nat \ {0}
  BY DumpTypes
<1>2. QED
  BY <1>1, PartsSafe DEF StructSteps

LEMMA HandlersSafe ==
    ASSUME dump \in Dumps, NEW c \in Cells, NEW path \in Path
    PROVE  Steps(c, path) \in Seq(Safe(c))
<1>1. Info(c).kind \in Owners => OwnerSteps(c, path) \in Seq(Safe(c))
  BY OwnerSafe
<1>2. Info(c).kind \in {"pointer", "box"} => PointerSteps(c, path) \in Seq(Safe(c))
  BY <1>1, ReadFirst DEF PointerSteps, Owners
<1>3. Info(c).kind = "AllocRc" => AllocRcSteps(c, path) \in Seq(Safe(c))
  <2>1. SUFFICES ASSUME Info(c).kind = "AllocRc" PROVE AllocRcSteps(c, path) \in Seq(Safe(c))
    OBVIOUS
  <2>2. Info(c).target \in Cells
    BY <2>1, DumpTypes DEF CellInfo
  <2>3. Info(c).target \in Owned(c)
    BY <2>1, <2>2, WalkAssumption DEF Owned, Owners
  <2>4. QED
    BY <2>1, <2>2, <2>3, Deeper, SafeSteps, ReadFirst, TwoOfSeqs DEF AllocRcSteps
<1>4. /\ Info(c).kind = "CppUniquePtr" => CppUniquePtrSteps(c, path) \in Seq(Safe(c))
      /\ Info(c).kind = "unique_ptr" => unique_ptrSteps(c, path) \in Seq(Safe(c))
  BY <1>1 DEF CppUniquePtrSteps, unique_ptrSteps, Owners
<1>5. (Info(c).kind = "array" => <<Panic>> \in Seq(Safe(c))) /\ <<>> \in Seq(Safe(c))
  BY SafeSteps, OneStep DEF Malformed
<1>6. Info(c).kind \in SharedKinds =>
        rc_ptrSteps(c, path) \in Seq(Safe(c)) /\ CppSharedPtrSteps(c, path) \in Seq(Safe(c))
  BY OnceSafe
<1>7. CASE Info(c).kind \in {"prim", "struct"}
  BY <1>5, <1>7, FieldsSafe DEF Steps
<1>8. CASE Info(c).kind \notin {"prim", "struct"}
  BY <1>2, <1>3, <1>4, <1>5, <1>6, <1>8, ContainersSafe, BuffersSafe, VariantsSafe
     DEF Steps, SharedKinds
<1>9. QED
  BY <1>7, <1>8

-----------------------------------------------------------------------------
(* The stack.                                                               *)

LEMMA TopOfStack ==
    ASSUME stack \in Seq(Frames), stack # <<>>
    PROVE  /\ Len(stack) \in Nat \ {0}
           /\ Top \in Frames /\ Top.cell \in Reached /\ Top.todo \in Seq(Safe(Seen(Top.cell)))
           /\ Pop \in Seq(Frames)
<1>1. Len(stack) \in Nat \ {0}
  BY EmptySeq, LenProperties
<1>2. Top \in Frames
  BY <1>1, ElementOfSeq DEF Top
<1>3. Pop \in Seq(Frames)
  <2>1. 1 \in 1 .. Len(stack) + 1 /\ Len(stack) - 1 \in 0 .. Len(stack)
    BY <1>1
  <2>2. QED
    BY <2>1, SubSeqProperties DEF Pop
<1>4. QED
  BY <1>1, <1>2, <1>3 DEF Frames

LEMMA NextStep ==
    ASSUME dump \in Dumps, stack \in Seq(Frames), NEW op, At(op)
    PROVE  /\ Step \in Safe(Seen(Top.cell))
           /\ Step \in StepType
           /\ Step.op = op
           /\ Top.cell \in Reached
           /\ Rest \in Seq(Frames)
<1>1. stack # <<>> /\ Top.todo # <<>> /\ Step.op = op
  BY DEF At, Step
<1>2. /\ Len(stack) \in Nat \ {0} /\ Top \in Frames /\ Top.cell \in Reached
      /\ Top.todo \in Seq(Safe(Seen(Top.cell)))
  BY <1>1, TopOfStack
<1>3. Step \in Safe(Seen(Top.cell)) /\ Tail(Top.todo) \in Seq(Safe(Seen(Top.cell)))
  BY <1>1, <1>2, HeadTailProperties DEF Step
<1>4. Rest = [stack EXCEPT ![Len(stack)] = [Top EXCEPT !.todo = Tail(Top.todo)]]
  BY <1>2 DEF Rest, Top
<1>5. [Top EXCEPT !.todo = Tail(Top.todo)] \in Frames
  <2>1. Tail(Top.todo) \in Seq(StepType)
    BY <1>3, SeqOfMore DEF Safe
  <2>2. QED
    BY <1>2, <1>3, <2>1 DEF Frames
<1>6. QED
  BY <1>1, <1>2, <1>3, <1>4, <1>5, ExceptSeq DEF Safe

LEMMA PushSafe ==
    ASSUME dump \in Dumps, NEW calls \in Seq(Frames), NEW path \in Path, NEW c \in Reached
    PROVE  Push(calls, c, path) \in Seq(Frames)
<1>1. c \in Cells /\ Seen(c) \in Cells
  BY ReachedFacts
<1>2. Steps(Seen(c), path) \in Seq(Safe(Seen(c)))
  BY <1>1, HandlersSafe
<1>3. Steps(Seen(c), path) \in Seq(StepType)
  BY <1>2, SeqOfMore DEF Safe
<1>4. [cell |-> c, todo |-> Steps(Seen(c), path)] \in Frames
  BY <1>2, <1>3 DEF Frames
<1>5. QED
  BY <1>4, AppendProperties DEF Push, Seen

-----------------------------------------------------------------------------
(* What the walk does to the Output value is an operation of it, which only *)
(* ever adds to the shared pointers.                                        *)
OutStep ==
    /\ [Out!Next]_(Out!vars)
    /\ shared_pointers \subseteq Nat => shared_pointers' \subseteq Nat
    /\ shared_pointers \subseteq shared_pointers'

LEMMA OutSame == ASSUME UNCHANGED outvars PROVE OutStep
  BY DEF outvars, OutStep, Out!vars

LEMMA OutOperations ==
    ASSUME NEW path \in Path, NEW addr \in Nat, NEW size \in Nat
    PROVE  /\ \A ty \in Types : Out!Claim(path, addr, ty, size) => OutStep
           /\ \A assoc \in BOOLEAN : Out!ClaimRaw(path, addr, size, assoc) => OutStep
           /\ Out!InsertAndClaimRaw(path, addr, size) => OutStep
           /\ Out!InsertShared(addr) => OutStep /\ addr \in shared_pointers'
           /\ \A ty \in Types : Out!InsertAndClaim(path, addr, ty, size) =>
                                   OutStep /\ addr \in shared_pointers'
<1>1. ASSUME NEW ty \in Types, Out!Claim(path, addr, ty, size) PROVE OutStep
  <2>1. Out!Next
    BY <1>1 DEF Out!Next
  <2>2. QED
    BY <1>1, <2>1 DEF OutStep, Out!Claim
<1>2. ASSUME NEW assoc \in BOOLEAN, Out!ClaimRaw(path, addr, size, assoc) PROVE OutStep
  <2>1. Out!Next
    BY <1>2 DEF Out!Next
  <2>2. QED
    BY <1>2, <2>1 DEF OutStep, Out!ClaimRaw
<1>3. ASSUME Out!InsertAndClaimRaw(path, addr, size) PROVE OutStep
  <2>1. Out!Next
    BY <1>3 DEF Out!Next
  <2>2. QED
    BY <1>3, <2>1 DEF OutStep, Out!InsertAndClaimRaw
<1>4. ASSUME Out!InsertShared(addr) PROVE OutStep /\ addr \in shared_pointers'
  <2>1. Out!Next
    BY <1>4 DEF Out!Next
  <2>2. QED
    BY <1>4, <2>1 DEF OutStep, Out!InsertShared
<1>5. ASSUME NEW ty \in Types, Out!InsertAndClaim(path, addr, ty, size)
      PROVE  OutStep /\ addr \in shared_pointers'
  <2>1. Out!Next
    BY <1>5 DEF Out!Next
  <2>2. QED
    BY <1>5, <2>1 DEF OutStep, Out!InsertAndClaim
<1>6. QED
  BY <1>1, <1>2, <1>3, <1>4, <1>5

LEMMA OutCount ==
    ASSUME NEW enm \in Types, NEW variant \in Node, Out!CountVariant(enm, variant)
    PROVE  OutStep
<1>1. Out!Next
  BY DEF Out!Next
<1>2. QED
  BY <1>1 DEF OutStep, Out!CountVariant

-----------------------------------------------------------------------------
(* Claims.  A claim of a cell that others than shared pointers lead to does *)
(* not touch what SharedClaimedOnce says; neither does any step that claims *)
(* nothing and forgets no shared pointer.                                   *)

LEMMA OtherClaim ==
    ASSUME claims \in [Cells -> Nat], SharedClaimedOnce, dump' = dump,
           NEW c \in Cells \ SharedOnly, claims' = Claimed(c),
           shared_pointers \subseteq shared_pointers'
    PROVE  claims' \in [Cells -> Nat] /\ SharedClaimedOnce'
<1>1. SharedOnly' = SharedOnly
  BY DEF SharedOnly, OnlyShared, PartsOf, Info
<1>2. \A d \in SharedOnly : claims'[d] = claims[d] /\ AddrOf(d)' = AddrOf(d)
  BY DEF Claimed, SharedOnly, OnlyShared, AddrOf, Info
<1>3. QED
  BY <1>1, <1>2 DEF SharedClaimedOnce, SharedOnly, OnlyShared, Claimed

LEMMA SharedClaim ==
    ASSUME claims \in [Cells -> Nat], SharedClaimedOnce, dump' = dump,
           NEW c \in Cells, claims' = Claimed(c),
           AddrOf(c) \notin shared_pointers, AddrOf(c) \in shared_pointers',
           shared_pointers \subseteq shared_pointers'
    PROVE  claims' \in [Cells -> Nat] /\ SharedClaimedOnce'
<1>1. SharedOnly' = SharedOnly
  BY DEF SharedOnly, OnlyShared, PartsOf, Info
<1>2. \A d \in SharedOnly : AddrOf(d)' = AddrOf(d) /\ d \in Cells
  BY DEF SharedOnly, OnlyShared, AddrOf, Info
<1>3. \A d \in SharedOnly \ {c} : claims'[d] = claims[d]
  BY <1>2 DEF Claimed
<1>4. c \in SharedOnly => claims[c] = 0 /\ claims'[c] = 1
  BY DEF SharedClaimedOnce, SharedOnly, OnlyShared, Claimed
<1>5. QED
  BY <1>1, <1>2, <1>3, <1>4 DEF SharedClaimedOnce, SharedOnly, OnlyShared, Claimed

LEMMA NoClaim ==
    ASSUME SharedClaimedOnce, dump' = dump, claims' = claims,
           shared_pointers \subseteq shared_pointers'
    PROVE  SharedClaimedOnce'
<1>1. SharedOnly' = SharedOnly
  BY DEF SharedOnly, OnlyShared, PartsOf, Info
<1>2. \A d \in SharedOnly : AddrOf(d)' = AddrOf(d)
  BY DEF AddrOf, Info
<1>3. QED
  BY <1>1, <1>2 DEF SharedClaimedOnce, SharedOnly, OnlyShared

-----------------------------------------------------------------------------
(* What a step leaves of the invariant, the loops of main apart.            *)
Kept ==
    /\ stack' \in Seq(Frames)
    /\ unwinding' \in BOOLEAN
    /\ claims' \in [Cells -> Nat]
    /\ entered' \subseteq Cells
    /\ SharedClaimedOnce'
    /\ OutStep

LEMMA VisitType ==
    ASSUME Inv, dump' = dump, NEW calls \in Seq(Frames), NEW path \in Path,
           NEW c \in Reached \ SharedOnly, visit_type(calls, path, c)
    PROVE  Kept /\ status' \in {status, "panicked"}
<1> c \in Cells
  BY ReachedFacts DEF Inv
<1>1. CASE NoVtable(c)
  <2>1. stack' = calls /\ unwinding' \in BOOLEAN /\ claims' = claims /\ entered' = entered /\ UNCHANGED outvars
        /\ status' \in {status, "panicked"}
    BY <1>1 DEF visit_type, After
  <2>2. OutStep
    BY <2>1, OutSame
  <2>3. QED
    BY <2>1, <2>2, NoClaim DEF Inv, Kept, OutStep
<1>2. CASE ~NoVtable(c)
  <2>1. stack' \in Seq(Frames) /\ unwinding' \in BOOLEAN /\ entered' \subseteq Cells
        /\ status' \in {status, "panicked"}
    BY <1>2, PushSafe DEF visit_type, Inv, After
  <2>2. CASE is_root_or_deref(path)
    <3>1. /\ Out!Claim(path, AddrOf(c), Info(Info(c).view).ty, Info(Info(c).view).size)
          /\ claims' = Claimed(c)
      BY <1>2, <2>2 DEF visit_type
    <3>2. /\ Info(c).view \in Cells /\ AddrOf(c) \in Nat
      BY DumpTypes DEF Inv, CellInfo
    <3>3. /\ Info(Info(c).view).ty \in Types /\ Info(Info(c).view).size \in Nat
      BY <3>2, DumpTypes DEF Inv, CellInfo
    <3>4. OutStep
      BY <3>1, <3>2, <3>3, OutOperations
    <3>5. QED
      BY <2>1, <3>1, <3>4, OtherClaim DEF Inv, Kept, OutStep
  <2>3. CASE ~is_root_or_deref(path)
    <3>1. claims' = claims /\ UNCHANGED outvars
      BY <1>2, <2>3 DEF visit_type
    <3>2. OutStep
      BY <3>1, OutSame
    <3>3. QED
      BY <2>1, <3>1, <3>2, NoClaim DEF Inv, Kept, OutStep
  <2>4. QED
    BY <2>2, <2>3
<1>3. QED
  BY <1>1, <1>2

LEMMA VisitShared ==
    ASSUME Inv, dump' = dump, NEW calls \in Seq(Frames), NEW path \in Path, NEW c \in Reached,
           AddrOf(c) \notin shared_pointers, visit_shared(calls, path, c)
    PROVE  Kept /\ status' \in {status, "panicked"}
<1> c \in Cells
  BY ReachedFacts DEF Inv
<1>1. /\ Info(c).view \in Cells /\ AddrOf(c) \in Nat
  BY DumpTypes DEF Inv, CellInfo
<1>2. /\ Info(Info(c).view).ty \in Types /\ Info(Info(c).view).size \in Nat
  BY <1>1, DumpTypes DEF Inv, CellInfo
<1>3. CASE NoVtable(c)
  <2>1. stack' = calls /\ unwinding' \in BOOLEAN /\ claims' = claims /\ entered' = entered
        /\ Out!InsertShared(AddrOf(c)) /\ status' \in {status, "panicked"}
    BY <1>3 DEF visit_shared, After
  <2>2. OutStep
    BY <1>1, <1>2, <2>1, OutOperations
  <2>3. QED
    BY <2>1, <2>2, NoClaim DEF Inv, Kept, OutStep
<1>4. CASE ~NoVtable(c)
  <2>1. stack' \in Seq(Frames) /\ unwinding' \in BOOLEAN /\ entered' \subseteq Cells
        /\ status' \in {status, "panicked"}
    BY <1>4, PushSafe DEF visit_shared, Inv, After
  <2>2. /\ Out!InsertAndClaim(path, AddrOf(c), Info(Info(c).view).ty, Info(Info(c).view).size)
        /\ claims' = Claimed(c)
    BY <1>4 DEF visit_shared
  <2>3. OutStep /\ AddrOf(c) \in shared_pointers'
    BY <1>1, <1>2, <2>2, OutOperations
  <2>4. QED
    BY <2>1, <2>2, <2>3, SharedClaim DEF Inv, Kept, OutStep
<1>5. QED
  BY <1>3, <1>4

(* The arguments of the steps, from the type of the steps.                  *)
LEMMA StepArguments ==
    ASSUME dump \in Dumps, NEW c \in Reached, NEW s \in Safe(Seen(c))
    PROVE  /\ s.op = "read" => s.ok \in Outcomes /\ (s.ok = "panic" => Malformed(Seen(c)))
           /\ s.op \in {"claim", "visit"} =>
                 s.path \in Path /\ s.cell \in Reached \ SharedOnly /\ s.cell \in Owned(Seen(c))
           /\ s.op = "once" =>
                 s.path \in Path /\ s.cell \in Reached /\ s.cell \in Shared(Seen(c))
           /\ s.op \in {"raw", "rawonce"} => s.path \in Path /\ s.addr \in Nat /\ s.size \in Nat
           /\ s.op = "raw" => s.assoc \in BOOLEAN
           /\ s.op = "count" => s.enm \in Types /\ s.variant \in Node
<1>1. /\ Seen(c) \in Cells /\ Reached \subseteq Cells
      /\ Owned(Seen(c)) \cup Shared(Seen(c)) \subseteq Reached
  BY ReachedFacts
<1>2. Owned(Seen(c)) \subseteq Cells \ SharedOnly
  BY <1>1, OwnedFacts
<1>3. s \in StepType /\ (s.op \in {"visit", "claim"} => s.cell \in Owned(Seen(c)))
      /\ (s.op = "once" => s.cell \in Shared(Seen(c)))
      /\ (s.op = "read" => (s.ok = "panic" => Malformed(Seen(c))))
  BY DEF Safe
<1>4. QED
  BY <1>1, <1>2, <1>3 DEF StepType

LEMMA HandlerKept ==
    ASSUME Inv, Handler
    PROVE  /\ Kept
           /\ UNCHANGED mainvars
           /\ status' \in {"walking", "done", "reported", "panicked"}
<1>1. dump \in Dumps /\ stack \in Seq(Frames) /\ status \in {"walking", "done", "reported", "panicked"}
  BY DEF Inv
<1>2. CASE ReadStep
  <2>1. Step \in Safe(Seen(Top.cell)) /\ Top.cell \in Reached /\ Step.op = "read" /\ Rest \in Seq(Frames)
    BY <1>1, <1>2, NextStep DEF ReadStep
  <2>2. unwinding' \in BOOLEAN /\ status' \in {status, "panicked"}
    BY <1>2 DEF ReadStep, After
  <2>3. OutStep
    BY <1>2, OutSame DEF ReadStep
  <2>4. QED
    BY <1>1, <1>2, <2>1, <2>2, <2>3, NoClaim DEF ReadStep, Inv, Kept, OutStep, mainvars
<1>3. CASE ClaimStep
  <2>1. Step \in Safe(Seen(Top.cell)) /\ Top.cell \in Reached /\ Step.op = "claim" /\ Rest \in Seq(Frames)
    BY <1>1, <1>3, NextStep DEF ClaimStep
  <2>2. Step.path \in Path /\ Step.cell \in Reached \ SharedOnly
    BY <1>1, <2>1, StepArguments
  <2>3. /\ AddrOf(Step.cell) \in Nat /\ Info(Step.cell).ty \in Types /\ Info(Step.cell).size \in Nat
    BY <2>2, ReachedFacts, DumpTypes DEF Inv, CellInfo
  <2>4. OutStep
    BY <1>3, <2>2, <2>3, OutOperations DEF ClaimStep
  <2>5. QED
    BY <1>1, <1>3, <2>1, <2>2, <2>4, ReachedFacts, OtherClaim DEF ClaimStep, Inv, Kept, OutStep, mainvars
<1>4. CASE RawStep
  <2>1. Step \in Safe(Seen(Top.cell)) /\ Top.cell \in Reached /\ Step.op = "raw" /\ Rest \in Seq(Frames)
    BY <1>1, <1>4, NextStep DEF RawStep
  <2>2. Step.path \in Path /\ Step.addr \in Nat /\ Step.size \in Nat /\ Step.assoc \in BOOLEAN
    BY <1>1, <2>1, StepArguments
  <2>3. OutStep
    BY <1>4, <2>2, OutOperations DEF RawStep
  <2>4. QED
    BY <1>1, <1>4, <2>1, <2>3, NoClaim DEF RawStep, Inv, Kept, OutStep, mainvars
<1>5. CASE RawOnceStep
  <2>1. Step \in Safe(Seen(Top.cell)) /\ Top.cell \in Reached /\ Step.op = "rawonce" /\ Rest \in Seq(Frames)
    BY <1>1, <1>5, NextStep DEF RawOnceStep
  <2>2. Step.path \in Path /\ Step.addr \in Nat /\ Step.size \in Nat
    BY <1>1, <2>1, StepArguments
  <2>3. OutStep
    BY <1>5, <2>2, OutOperations, OutSame DEF RawOnceStep
  <2>4. QED
    BY <1>1, <1>5, <2>1, <2>3, NoClaim DEF RawOnceStep, Inv, Kept, OutStep, mainvars
<1>6. CASE CountStep
  <2>1. Step \in Safe(Seen(Top.cell)) /\ Top.cell \in Reached /\ Step.op = "count" /\ Rest \in Seq(Frames)
    BY <1>1, <1>6, NextStep DEF CountStep
  <2>2. Step.enm \in Types /\ Step.variant \in Node
    BY <1>1, <2>1, StepArguments
  <2>3. OutStep
    BY <1>6, <2>2, OutCount DEF CountStep
  <2>4. QED
    BY <1>1, <1>6, <2>1, <2>3, NoClaim DEF CountStep, Inv, Kept, OutStep, mainvars
<1>7. CASE VisitStep
  <2>1. Step \in Safe(Seen(Top.cell)) /\ Top.cell \in Reached /\ Step.op = "visit" /\ Rest \in Seq(Frames)
    BY <1>1, <1>7, NextStep DEF VisitStep
  <2>2. Step.path \in Path /\ Step.cell \in Reached \ SharedOnly
    BY <1>1, <2>1, StepArguments
  <2>3. Kept /\ status' \in {status, "panicked"}
    BY <1>7, <2>1, <2>2, VisitType DEF VisitStep, mainvars
  <2>4. QED
    BY <1>1, <1>7, <2>3 DEF VisitStep
<1>8. CASE VisitOnceStep
  <2>1. Step \in Safe(Seen(Top.cell)) /\ Top.cell \in Reached /\ Step.op = "once" /\ Rest \in Seq(Frames)
    BY <1>1, <1>8, NextStep DEF VisitOnceStep
  <2>2. Step.path \in Path /\ Step.cell \in Reached
    BY <1>1, <2>1, StepArguments
  <2>3. CASE AddrOf(Step.cell) \in shared_pointers
    <3>1. OutStep
      BY <1>8, <2>3, OutSame DEF VisitOnceStep
    <3>2. QED
      BY <1>1, <1>8, <2>1, <2>3, <3>1, NoClaim DEF VisitOnceStep, Inv, Kept, OutStep, mainvars
  <2>4. CASE AddrOf(Step.cell) \notin shared_pointers
    <3>1. Kept /\ status' \in {status, "panicked"}
      BY <1>8, <2>1, <2>2, <2>4, VisitShared DEF VisitOnceStep, mainvars
    <3>2. QED
      BY <1>1, <1>8, <3>1 DEF VisitOnceStep
  <2>5. QED
    BY <2>3, <2>4
<1>9. CASE PanicStep
  <2>1. OutStep
    BY <1>9, OutSame DEF PanicStep
  <2>2. QED
    BY <1>9, <2>1, NoClaim DEF PanicStep, Inv, Kept, OutStep, mainvars
<1>10. CASE Return
  <2>1. OutStep
    BY <1>10, OutSame DEF Return
  <2>2. Pop \in Seq(Frames)
    BY <1>1, <1>10, TopOfStack DEF Return
  <2>3. QED
    BY <1>1, <1>10, <2>1, <2>2, NoClaim DEF Return, Inv, Kept, OutStep, mainvars
<1>11. CASE Propagate
  <2>1. OutStep
    BY <1>11, OutSame DEF Propagate
  <2>2. Pop \in Seq(Frames)
    <3>1. CASE stack # <<>>
      BY <1>1, <3>1, TopOfStack
    <3>2. CASE stack = <<>>
      BY <3>2, SubSeqEmpty DEF Pop
    <3>3. QED
      BY <3>1, <3>2
  <2>3. QED
    BY <1>1, <1>11, <2>1, <2>2, NoClaim DEF Propagate, Inv, Kept, OutStep, mainvars
<1>12. QED
  BY <1>2, <1>3, <1>4, <1>5, <1>6, <1>7, <1>8, <1>9, <1>10, <1>11 DEF Handler

(* The local variables of a frame are not left to shared pointers alone.    *)
LEMMA LocalsSafe ==
    ASSUME Inv, ArgsLeft, Frame.local[Wanted.var_name] # Null
    PROVE  /\ Frame.local[Wanted.var_name] \in Cells \ SharedOnly
           /\ Wanted.fcn_name = Frame.sym => Frame.local[Wanted.var_name] \in Roots
           /\ <<Field(Wanted.var_name)>> \in Path
           /\ arg \in DOMAIN dump.args
<1>1. dump \in Dump
  BY WalkAssumption DEF Inv
<1>2. dump.frames \in Seq(Call) /\ dump.args \in Seq(Arg)
  BY <1>1 DEF Dump
<1>3. Len(dump.args) \in Nat /\ DOMAIN dump.args = 1 .. Len(dump.args)
  BY <1>2, LenProperties
<1>4. arg \in DOMAIN dump.args
  BY <1>3 DEF Inv, ArgsLeft
<1>5. Wanted \in Arg
  BY <1>2, <1>3, <1>4, ElementOfSeq DEF Wanted
<1>6. fr \in DOMAIN dump.frames /\ Frame \in Call
  BY <1>2, ElementOfSeq, LenProperties DEF Inv, Frame
<1>7. Wanted.var_name \in FieldNames
  BY <1>5 DEF Arg
<1>8. Frame.local[Wanted.var_name] \in Cells
  BY <1>6, <1>7 DEF Call
<1>9. Frame.local[Wanted.var_name] \notin SharedOnly
  BY <1>6, <1>7 DEF SharedOnly, OnlyShared, Frame
<1>10. <<Field(Wanted.var_name)>> \in Path
  BY <1>7 DEF Path, Node, Field
<1>11. ASSUME Wanted.fcn_name = Frame.sym PROVE Frame.local[Wanted.var_name] \in Roots
  <2>1. <<fr, arg>> \in Requested
    BY <1>4, <1>6, <1>11 DEF Requested, Wanted, Frame
  <2>2. \E fi \in Requested :
          Frame.local[Wanted.var_name] = dump.frames[fi[1]].local[dump.args[fi[2]].var_name]
    BY <2>1, Zenon DEF Wanted, Frame
  <2>3. QED
    BY <2>2, Zenon DEF Roots, Local
<1>12. QED
  BY <1>4, <1>8, <1>9, <1>10, <1>11

LEMMA InvFromKept ==
    ASSUME Inv, Kept, dump' = dump,
           fr' \in DOMAIN dump.frames, arg' \in 1 .. Len(dump.args) + 1,
           visited' \subseteq DOMAIN dump.args,
           status' \in {"walking", "done", "reported", "panicked"}
    PROVE  Inv' /\ OutStep
<1>1. Frames' = Frames
  BY DumpSame DEF Inv
<1>2. stack' \in Seq(Frames')
  BY <1>1 DEF Kept
<1>3. QED
  BY <1>2 DEF Kept, OutStep, Inv

(* A step that claims nothing and leaves Output and the stack alone.        *)
LEMMA QuietKept ==
    ASSUME Inv, UNCHANGED <<dump, stack, unwinding, claims, entered, outvars>>
    PROVE  Kept
<1>1. OutStep
  BY OutSame
<1>2. SharedClaimedOnce'
  BY <1>1, NoClaim DEF Inv, OutStep
<1>3. QED
  BY <1>1, <1>2 DEF Inv, Kept

LEMMA NextInv == Inv /\ [Next]_vars => Inv' /\ OutStep
<1> SUFFICES ASSUME Inv, [Next]_vars PROVE Inv' /\ OutStep
  OBVIOUS
<1>1. Len(dump.args) \in Nat /\ DOMAIN dump.args = 1 .. Len(dump.args)
      /\ Len(dump.frames) \in Nat /\ DOMAIN dump.frames = 1 .. Len(dump.frames)
  <2>1. dump \in Dump
    BY WalkAssumption DEF Inv
  <2>2. QED
    BY <2>1, LenProperties DEF Dump
<1>2. fr \in DOMAIN dump.frames /\ arg \in 1 .. Len(dump.args) + 1
      /\ visited \subseteq DOMAIN dump.args
      /\ status \in {"walking", "done", "reported", "panicked"}
  BY DEF Inv
<1>3. CASE Handler
  <2>1. Kept /\ UNCHANGED mainvars /\ status' \in {"walking", "done", "reported", "panicked"}
    BY <1>3, HandlerKept
  <2>2. dump' = dump /\ fr' = fr /\ arg' = arg /\ visited' = visited
    BY <2>1 DEF mainvars
  <2>3. QED
    BY <1>2, <2>1, <2>2, InvFromKept
<1>4. CASE VisitVariable
  <2>1. /\ Frame.local[Wanted.var_name] \in Reached \ SharedOnly
        /\ <<Field(Wanted.var_name)>> \in Path
        /\ arg \in DOMAIN dump.args
    BY <1>4, LocalsSafe, ReachedFacts DEF VisitVariable, Inv
  <2>2. <<>> \in Seq(Frames)
    OBVIOUS
  <2>3. Kept /\ status' \in {status, "panicked"}
    BY <1>4, <2>1, <2>2, VisitType DEF VisitVariable
  <2>4. dump' = dump /\ fr' = fr
        /\ arg' \in 1 .. Len(dump.args) + 1 /\ visited' \subseteq DOMAIN dump.args
    BY <1>1, <1>2, <1>4, <2>1 DEF VisitVariable
  <2>5. QED
    BY <1>2, <2>3, <2>4, InvFromKept
<1>5. CASE NoSuchVariable
  <2>1. Kept
    BY <1>5, QuietKept DEF NoSuchVariable, mainvars
  <2>2. QED
    BY <1>2, <1>5, <2>1, InvFromKept DEF NoSuchVariable, mainvars
<1>6. CASE SkipVariable
  <2>1. Kept
    BY <1>6, QuietKept DEF SkipVariable
  <2>2. arg' \in 1 .. Len(dump.args) + 1
    BY <1>1, <1>2, <1>6 DEF SkipVariable, ArgsLeft
  <2>3. QED
    BY <1>2, <1>6, <2>1, <2>2, InvFromKept DEF SkipVariable
<1>7. CASE NextFrame
  <2>1. Kept
    BY <1>7, QuietKept DEF NextFrame
  <2>2. fr' \in DOMAIN dump.frames /\ arg' \in 1 .. Len(dump.args) + 1
        /\ status' \in {"walking", "done", "reported", "panicked"}
    BY <1>1, <1>2, <1>7 DEF NextFrame
  <2>3. QED
    BY <1>2, <1>7, <2>1, <2>2, InvFromKept DEF NextFrame
<1>8. CASE Report
  <2>1. Kept
    BY <1>8, QuietKept DEF Report, mainvars
  <2>2. status' \in {"walking", "done", "reported", "panicked"}
    BY <1>8 DEF Report
  <2>3. QED
    BY <1>2, <1>8, <2>1, <2>2, InvFromKept DEF Report, mainvars
<1>9. CASE UNCHANGED vars
  <2>1. Kept
    BY <1>9, QuietKept DEF vars
  <2>2. QED
    BY <1>2, <1>9, <2>1, InvFromKept DEF vars
<1>10. QED
  BY <1>3, <1>4, <1>5, <1>6, <1>7, <1>8, <1>9 DEF Next, Main

LEMMA InitInv == Init => Inv
<1> SUFFICES ASSUME Init PROVE Inv
  OBVIOUS
<1>1. dump \in Dumps /\ dump \in Dump /\ dump.frames # <<>>
  BY WalkAssumption DEF Init
<1>2. /\ Len(dump.frames) \in Nat \ {0} /\ DOMAIN dump.frames = 1 .. Len(dump.frames)
      /\ Len(dump.args) \in Nat
  BY <1>1, LenProperties, EmptySeq DEF Dump
<1>3. fr \in DOMAIN dump.frames /\ arg \in 1 .. Len(dump.args) + 1
  BY <1>2 DEF Init
<1>4. SharedClaimedOnce
  BY DEF Init, SharedClaimedOnce, SharedOnly, OnlyShared
<1>5. shared_pointers = {}
  BY DEF Init, Out!Init
<1>6. stack \in Seq(Frames) /\ claims \in [Cells -> Nat]
  <2>1. <<>> \in Seq(Frames)
    OBVIOUS
  <2>2. QED
    BY <2>1 DEF Init
<1>7. QED
  BY <1>1, <1>3, <1>4, <1>5, <1>6 DEF Init, Inv

LEMMA InvHolds == Spec => []Inv
<1>1. QED
  BY InitInv, NextInv, PTL DEF Spec

(* The walk's own state is well typed in every walk of every dump.          *)
THEOREM WalkTypeOK == Spec => []TypeOK
<1>1. ASSUME Inv PROVE TypeOK
  <2>1. Reached \subseteq Cells
    BY <1>1, ReachedFacts DEF Inv
  <2>2. Frames \subseteq [cell : Cells, todo : Seq(StepType)]
    BY <2>1 DEF Frames
  <2>3. Seq(Frames) \subseteq Seq([cell : Cells, todo : Seq(StepType)])
    BY <2>2, SeqOfMore
  <2>4. QED
    BY <1>1, <2>3 DEF Inv, TypeOK
<1>2. QED
  BY <1>1, InvHolds, PTL

(* However the pointers of a dump run, whatever cannot be read, an object   *)
(* only shared pointers lead to is claimed at most once (main.rs:371, 523,  *)
(* 526, 677).                                                               *)
THEOREM SharedOnce == Spec => []SharedClaimedOnce
<1>1. Inv => SharedClaimedOnce
  BY DEF Inv
<1>2. QED
  BY <1>1, InvHolds, PTL

(* The walk implements Output: every step is one operation of it, with a    *)
(* path below the root and a type and variant of the debug information, or  *)
(* leaves it alone.                                                         *)
THEOREM WalkImplementsOutput == Spec => Out!Spec
<1>1. Init => Out!Init
  BY DEF Init
<1>2. Inv /\ [Next]_vars => [Out!Next]_(Out!vars)
  BY NextInv DEF OutStep
<1>3. QED
  BY <1>1, <1>2, InvHolds, PTL DEF Spec, Out!Spec

\* No theorem that is used here mentions the history.
OutProofs == INSTANCE OutputProofs WITH Paths <- Path, Addrs <- Nat, Sizes <- Nat, log <- <<>>

(* The two instances of Output are the same specification.                  *)
LEMMA SameOutput ==
    /\ Out!Init => OutProofs!Init
    /\ [Out!Next]_(Out!vars) => [OutProofs!Next]_(OutProofs!vars)
    /\ OutProofs!TypeOK => Out!TypeOK
    /\ OutProofs!ReportIsATree => Out!ReportIsATree
    /\ OutProofs!ProgressAgreesWithReport => Out!ProgressAgreesWithReport
<1>1. \A S : Out!Cardinality(S) = OutProofs!Cardinality(S)
  BY DEF Out!Cardinality, OutProofs!Cardinality
<1>2. /\ \A base, len : Out!Atoms(base, len) = OutProofs!Atoms(base, len)
      /\ \A f, K, n : Out!AddTo(f, K, n) = OutProofs!AddTo(f, K, n)
      /\ \A path, len : Out!get_prefix(path, len) = OutProofs!get_prefix(path, len)
      /\ \A path : Out!Prefixes(path) = OutProofs!Prefixes(path)
  BY DEF Out!Atoms, OutProofs!Atoms, Out!AddTo, OutProofs!AddTo, Out!Entry, OutProofs!Entry,
         Out!get_prefix, OutProofs!get_prefix, Out!Prefixes, OutProofs!Prefixes
<1>3. \A base, len : Out!NewlyMarked(base, len) = OutProofs!NewlyMarked(base, len)
  BY <1>1, <1>2 DEF Out!NewlyMarked, OutProofs!NewlyMarked
<1>4. \A path, size, assoc : Out!Associate(path, size, assoc) <=> OutProofs!Associate(path, size, assoc)
  BY <1>2 DEF Out!Associate, OutProofs!Associate
<1>5. \A path, addr, size, assoc :
         Out!MarkAndAssociate(path, addr, size, assoc)
           <=> OutProofs!MarkAndAssociate(path, addr, size, assoc)
  BY <1>2, <1>3, <1>4 DEF Out!MarkAndAssociate, OutProofs!MarkAndAssociate
<1>6. /\ \A path, addr, size, assoc :
           Out!ClaimRaw(path, addr, size, assoc) => OutProofs!ClaimRaw(path, addr, size, assoc)
      /\ \A path, addr, ty, size :
           Out!Claim(path, addr, ty, size) => OutProofs!Claim(path, addr, ty, size)
      /\ \A addr : Out!InsertShared(addr) => OutProofs!InsertShared(addr)
      /\ \A path, addr, size :
           Out!InsertAndClaimRaw(path, addr, size) => OutProofs!InsertAndClaimRaw(path, addr, size)
      /\ \A path, addr, ty, size :
           Out!InsertAndClaim(path, addr, ty, size) => OutProofs!InsertAndClaim(path, addr, ty, size)
      /\ \A enm, variant : Out!CountVariant(enm, variant) => OutProofs!CountVariant(enm, variant)
  BY <1>2, <1>5
     DEF Out!ClaimRaw, OutProofs!ClaimRaw, Out!Claim, OutProofs!Claim,
         Out!InsertShared, OutProofs!InsertShared,
         Out!InsertAndClaimRaw, OutProofs!InsertAndClaimRaw,
         Out!InsertAndClaim, OutProofs!InsertAndClaim, Out!CountVariant, OutProofs!CountVariant
<1>7. Out!Next => OutProofs!Next
  BY <1>6 DEF Out!Next, OutProofs!Next
<1>8. [Out!Next]_(Out!vars) => [OutProofs!Next]_(OutProofs!vars)
  BY <1>7 DEF Out!vars, OutProofs!vars
<1>9. Out!Init => OutProofs!Init
  BY DEF Out!Init, OutProofs!Init, Out!EmptyMap, OutProofs!EmptyMap
<1>10. OutProofs!ReportIsATree => Out!ReportIsATree
  BY DEF Out!ReportIsATree, OutProofs!ReportIsATree
<1>11. OutProofs!ProgressAgreesWithReport => Out!ProgressAgreesWithReport
  BY <1>1 DEF Out!ProgressAgreesWithReport, OutProofs!ProgressAgreesWithReport,
              Out!calculate_usage, OutProofs!calculate_usage
<1>12. OutProofs!TypeOK => Out!TypeOK
  BY DEF Out!TypeOK, OutProofs!TypeOK
<1>13. QED
  BY <1>8, <1>9, <1>10, <1>11, <1>12

LEMMA WalkOutputTyped == Spec => []Out!TypeOK
<1>1. OutProofs!OutputAssumption
  BY WalkAssumption DEF OutProofs!OutputAssumption, Path
<1>2. OutProofs!Spec => []OutProofs!TypeOK
  BY <1>1, OutProofs!OutputTypeOK
<1>3. QED
  BY <1>2, SameOutput, WalkImplementsOutput, PTL DEF Out!Spec, OutProofs!Spec

(* So throughout a walk the usage table can be printed layer by layer, and  *)
(* the progress line tells the coverage of the report (main.rs:207-215,     *)
(* 334, 945).                                                               *)
THEOREM WalkReportIsATree == Spec => [](Out!ReportIsATree /\ Out!ProgressAgreesWithReport)
<1>1. OutProofs!OutputAssumption
  BY WalkAssumption DEF OutProofs!OutputAssumption, Path
<1>2. OutProofs!Spec => []OutProofs!ReportIsATree
  BY <1>1, OutProofs!UsageTableIsATree
<1>3. OutProofs!Spec => []OutProofs!ProgressAgreesWithReport
  BY <1>1, OutProofs!ProgressIsCoverage
<1>4. QED
  BY <1>2, <1>3, SameOutput, WalkImplementsOutput, PTL DEF Out!Spec, OutProofs!Spec

-----------------------------------------------------------------------------
(* The recursion.  A step leaves the innermost calls or goes one call       *)
(* deeper: into a requested variable, into what the top of the stack owns,  *)
(* or, once, into what it shares.                                           *)
Leaves ==
    /\ Len(stack') <= Len(stack)
    /\ \A i \in 1 .. Len(stack') : stack'[i].cell = stack[i].cell
Enters(c) ==
    /\ Len(stack') = Len(stack) + 1
    /\ \A i \in 1 .. Len(stack) : stack'[i].cell = stack[i].cell
    /\ stack'[Len(stack) + 1].cell = c
EntersFrom(d, c) ==
    \/ c \in Owned(Seen(d))
    \/ c \in Shared(Seen(d)) /\ AddrOf(c) \notin shared_pointers /\ AddrOf(c) \in shared_pointers'
StackStep ==
    /\ dump' = dump /\ shared_pointers \subseteq shared_pointers'
    /\ \/ Leaves
       \/ stack = <<>> /\ \E c \in Roots : Enters(c)
       \/ stack # <<>> /\ \E c \in Reached : Enters(c) /\ EntersFrom(Top.cell, c)

LEMMA StackShapes ==
    ASSUME stack \in Seq(Frames)
    PROVE  /\ stack' = stack => Leaves
           /\ stack' = Pop => Leaves
           /\ stack # <<>> /\ stack' = Rest => Leaves
           /\ \A c, path : stack # <<>> /\ stack' = Push(Rest, c, path) => Enters(c)
           /\ \A c, path : stack = <<>> /\ stack' = Push(<<>>, c, path) => Enters(c)
<1>1. Len(stack) \in Nat /\ (stack # <<>> => Len(stack) \in Nat \ {0})
  BY LenProperties, EmptySeq
<1>2. stack' = stack => Leaves
  BY <1>1 DEF Leaves
<1>3. ASSUME stack' = Pop PROVE Leaves
  <2>1. CASE stack = <<>>
    BY <1>3, <2>1, SubSeqEmpty DEF Pop, Leaves
  <2>2. CASE stack # <<>>
    <3>1. 1 \in 1 .. Len(stack) + 1 /\ Len(stack) - 1 \in 0 .. Len(stack)
      BY <1>1, <2>2
    <3>2. Len(Pop) = Len(stack) - 1 /\ \A i \in 1 .. Len(stack) - 1 : Pop[i] = stack[i]
      <4> DEFINE k == Len(stack) - 1
      <4>1. k \in Nat /\ k \in Int /\ 1 \in Int
        BY <1>1, <2>2
      <4>2. \A i \in 1 .. k : stack[i] \in Frames
        BY <1>1, ElementOfSeq
      <4> HIDE DEF k
      <4>3. /\ Len(SubSeq(stack, 1, k)) = IF 1 <= k THEN k - 1 + 1 ELSE 0
            /\ \A i \in 1 .. k - 1 + 1 : SubSeq(stack, 1, k)[i] = stack[1 + i - 1]
        BY <4>1, <4>2, SubSeqProperties
      <4>4. Len(SubSeq(stack, 1, k)) = k /\ \A i \in 1 .. k : SubSeq(stack, 1, k)[i] = stack[i]
        BY <4>1, <4>3
      <4>5. QED
        BY <4>4 DEF Pop, k
    <3>3. QED
      BY <1>1, <1>3, <3>2 DEF Leaves
  <2>3. QED
    BY <2>1, <2>2
<1>4. ASSUME stack # <<>>
      PROVE  /\ Rest \in Seq([cell : Reached, todo : Seq(StepType)] \cup {Rest[Len(stack)]})
             /\ Len(Rest) = Len(stack)
             /\ \A i \in 1 .. Len(stack) : Rest[i].cell = stack[i].cell
  <2> DEFINE top == [stack[Len(stack)] EXCEPT !.todo = Tail(@)]
  <2>1. Rest = [stack EXCEPT ![Len(stack)] = top]
    BY DEF Rest
  <2>2. \A i \in 1 .. Len(stack) : stack[i] \in [cell : Reached, todo : Seq(StepType)]
    BY ElementOfSeq DEF Frames
  <2>3. top.cell = stack[Len(stack)].cell
    BY <1>1, <1>4, <2>2
  <2> HIDE DEF top
  <2>4. stack \in [1 .. Len(stack) -> [cell : Reached, todo : Seq(StepType)]]
    BY <2>2, LenProperties
  <2>5. Rest \in [1 .. Len(stack) -> [cell : Reached, todo : Seq(StepType)] \cup {top}]
        /\ Rest[Len(stack)] = top
    BY <1>1, <1>4, <2>1, <2>4
  <2>6. \A i \in 1 .. Len(stack) : i # Len(stack) => Rest[i] = stack[i]
    BY <1>1, <2>1, <2>4
  <2>7. \A i \in 1 .. Len(stack) : Rest[i].cell = stack[i].cell
    BY <2>3, <2>5, <2>6
  <2>8. Rest \in Seq([cell : Reached, todo : Seq(StepType)] \cup {top})
    BY <1>1, <2>5, SeqDef
  <2>9. Len(Rest) = Len(stack)
    BY <1>1, <2>5, <2>8, LenProperties
  <2>10. QED
    BY <2>5, <2>7, <2>8, <2>9
<1>5. stack # <<>> /\ stack' = Rest => Leaves
  BY <1>1, <1>4 DEF Leaves
<1>6. ASSUME NEW c, NEW path, stack # <<>>, stack' = Push(Rest, c, path) PROVE Enters(c)
  <2> DEFINE frame == [cell |-> c, todo |-> Steps(Info(c).view, path)]
  <2>1. stack' = Append(Rest, frame) /\ frame.cell = c
    BY <1>6 DEF Push
  <2> HIDE DEF frame
  <2>2. Len(stack') = Len(stack) + 1 /\ stack'[Len(stack) + 1] = frame
        /\ \A i \in 1 .. Len(stack) : stack'[i] = Rest[i]
    BY <1>1, <1>4, <1>6, <2>1, AppendProperties
  <2>3. QED
    BY <1>4, <1>6, <2>1, <2>2 DEF Enters
<1>7. ASSUME NEW c, NEW path, stack = <<>>, stack' = Push(<<>>, c, path) PROVE Enters(c)
  <2> DEFINE frame == [cell |-> c, todo |-> Steps(Info(c).view, path)]
  <2>1. stack' = Append(<<>>, frame) /\ frame.cell = c
    BY <1>7 DEF Push
  <2> HIDE DEF frame
  <2>2. stack' = <<frame>>
    BY <2>1
  <2>3. QED
    BY <1>7, <2>1, <2>2 DEF Enters
<1>8. QED
  BY <1>2, <1>3, <1>5, <1>6, <1>7

LEMMA NextStackStep == ASSUME Inv, [Next]_vars PROVE StackStep
<1>1. dump \in Dumps /\ stack \in Seq(Frames) /\ shared_pointers \subseteq shared_pointers'
  BY NextInv DEF Inv, OutStep
<1>2. dump' = dump
  BY DEF Next, Handler, Main, ReadStep, ClaimStep, RawStep, RawOnceStep, CountStep, VisitStep,
         VisitOnceStep, PanicStep, Return, Propagate, VisitVariable, NoSuchVariable,
         SkipVariable, NextFrame, Report, mainvars, vars
<1>3. ASSUME Leaves PROVE StackStep
  BY <1>1, <1>2, <1>3 DEF StackStep
<1>4. ASSUME ReadStep \/ ClaimStep \/ RawStep \/ RawOnceStep \/ CountStep PROVE Leaves
  <2>1. stack # <<>> /\ stack' = Rest
    BY <1>4 DEF ReadStep, ClaimStep, RawStep, RawOnceStep, CountStep, At
  <2>2. QED
    BY <1>1, <2>1, StackShapes
<1>5. ASSUME Return \/ Propagate PROVE Leaves
  <2>1. stack' = Pop
    BY <1>5 DEF Return, Propagate
  <2>2. QED
    BY <1>1, <2>1, StackShapes
<1>6. ASSUME PanicStep \/ NoSuchVariable \/ SkipVariable \/ NextFrame \/ Report \/ UNCHANGED vars
      PROVE  Leaves
  <2>1. stack' = stack
    BY <1>6 DEF PanicStep, NoSuchVariable, SkipVariable, NextFrame, Report, vars
  <2>2. QED
    BY <1>1, <2>1, StackShapes
<1>7. CASE VisitStep
  <2>1. At("visit") /\ visit_type(Rest, Step.path, Step.cell) /\ stack # <<>>
    BY <1>7 DEF VisitStep, At
  <2>2. Step \in Safe(Seen(Top.cell)) /\ Step.op = "visit" /\ Top.cell \in Reached
    BY <1>1, <2>1, NextStep
  <2>3. Step.cell \in Reached /\ Step.cell \in Owned(Seen(Top.cell))
    BY <1>1, <2>2, StepArguments
  <2>4. stack' = Rest \/ stack' = Push(Rest, Step.cell, Step.path)
    BY <2>1 DEF visit_type
  <2>5. Leaves \/ Enters(Step.cell)
    BY <1>1, <2>1, <2>4, StackShapes
  <2>6. QED
    BY <1>1, <1>2, <1>3, <2>1, <2>3, <2>5 DEF StackStep, EntersFrom
<1>8. CASE VisitOnceStep
  <2>1. At("once") /\ stack # <<>>
    BY <1>8 DEF VisitOnceStep, At
  <2>2. Step \in Safe(Seen(Top.cell)) /\ Step.op = "once" /\ Top.cell \in Reached
    BY <1>1, <2>1, NextStep
  <2>3. Step.path \in Path /\ Step.cell \in Reached /\ Step.cell \in Shared(Seen(Top.cell))
    BY <1>1, <2>2, StepArguments
  <2>4. CASE AddrOf(Step.cell) \in shared_pointers
    BY <1>1, <1>3, <1>8, <2>1, <2>4, StackShapes DEF VisitOnceStep
  <2>5. CASE AddrOf(Step.cell) \notin shared_pointers
    <3>1. visit_shared(Rest, Step.path, Step.cell)
      BY <1>8, <2>5 DEF VisitOnceStep
    <3>2. AddrOf(Step.cell) \in shared_pointers'
      BY <3>1 DEF visit_shared, Out!InsertShared, Out!InsertAndClaim
    <3>3. stack' = Rest \/ stack' = Push(Rest, Step.cell, Step.path)
      BY <3>1 DEF visit_shared
    <3>4. Leaves \/ Enters(Step.cell)
      BY <1>1, <2>1, <3>3, StackShapes
    <3>5. QED
      BY <1>1, <1>2, <1>3, <2>1, <2>3, <2>5, <3>2, <3>4 DEF StackStep, EntersFrom
  <2>6. QED
    BY <2>4, <2>5
<1>9. CASE VisitVariable
  <2> DEFINE c == Frame.local[Wanted.var_name]
             path == <<Field(Wanted.var_name)>>
  <2>1. stack = <<>> /\ visit_type(<<>>, path, c) /\ c \in Roots
    BY <1>9, LocalsSafe DEF VisitVariable, InMain
  <2> HIDE DEF c, path
  <2>2. stack' = stack \/ stack' = Push(<<>>, c, path)
    BY <2>1 DEF visit_type
  <2>3. Leaves \/ Enters(c)
    BY <1>1, <2>1, <2>2, StackShapes
  <2>4. QED
    BY <1>1, <1>2, <1>3, <2>1, <2>3 DEF StackStep
<1>10. QED
  BY <1>3, <1>4, <1>5, <1>6, <1>7, <1>8, <1>9 DEF Next, Handler, Main

-----------------------------------------------------------------------------
(* No cell is entered that has not been left.                               *)

(* How each call on the stack came about.                                   *)
Chain ==
    \A i \in 1 .. Len(stack) :
        IF i = 1 THEN stack[i].cell \in Roots
        ELSE \/ stack[i].cell \in Owned(Seen(stack[i - 1].cell))
             \/ stack[i].cell \in Shared(Seen(stack[i - 1].cell))
                  /\ AddrOf(stack[i].cell) \in shared_pointers
Distinct == \A i, j \in 1 .. Len(stack) : stack[i].cell = stack[j].cell => i = j
NoReentryInv == Chain /\ (Tidy => Distinct)

(* In a tidy dump one cell owns a cell, or others share it.                 *)
LEMMA OneWayIn ==
    ASSUME dump \in Dumps, Tidy, NEW c \in Reached, NEW d \in Reached, c \in Owned(Seen(d))
    PROVE  /\ c \notin Roots
           /\ \A e \in Reached : c \in Owned(Seen(e)) => e = d
           /\ \A e \in Reached : c \notin Shared(Seen(e))
<1>1. SingleOwner(c, Reached) /\ Roots \cap UNION {Follows(e) : e \in Reached} = {}
  BY DEF Tidy
<1>2. ASSUME NEW e \in Reached, c \in Owned(Seen(e))
      PROVE  \E i : <<e, i>> \in OwningPlaces(c, Reached)
  <2>1. CASE \E i \in DOMAIN PartsOf(Seen(e)) : PartsOf(Seen(e))[i].cell = c
    <3>1. PICK i \in DOMAIN PartsOf(Seen(e)) : PartsOf(Seen(e))[i].cell = c
      BY <2>1
    <3>2. <<e, i>> \in UNION {{a} \X DOMAIN PartsOf(Seen(a)) : a \in Reached}
      OBVIOUS
    <3>3. QED
      BY <3>1, <3>2 DEF OwningPlaces
  <2>2. CASE ~ \E i \in DOMAIN PartsOf(Seen(e)) : PartsOf(Seen(e))[i].cell = c
    <3>1. Info(Seen(e)).kind \in Owners /\ c \in {Info(Seen(e)).target} \ {Null}
      BY <1>2, <2>2 DEF Owned, InRange
    <3>2. c \in Targets(e)
      BY <3>1 DEF Targets
    <3>3. <<e, 0>> \in OwningPlaces(c, Reached)
      BY <3>1, <3>2 DEF OwningPlaces
    <3>4. QED
      BY <3>3
  <2>3. QED
    BY <2>1, <2>2
<1>3. PICK i : <<d, i>> \in OwningPlaces(c, Reached)
  BY <1>2
<1>4. ASSUME NEW e \in Reached, c \in Owned(Seen(e)) PROVE e = d
  <2>1. PICK j : <<e, j>> \in OwningPlaces(c, Reached)
    BY <1>2, <1>4
  <2>2. <<e, j>> = <<d, i>>
    BY <1>1, <1>3, <2>1 DEF SingleOwner
  <2>3. QED
    BY <2>2
<1>5. ASSUME NEW e \in Reached, c \in Shared(Seen(e)) PROVE FALSE
  <2>1. Info(Seen(e)).kind \in SharedKinds /\ c \in {Info(Seen(e)).target, Info(Seen(e)).count} \ {Null}
    BY <1>5 DEF Shared
  <2>2. e \in Sharers(c, Reached)
    BY <2>1 DEF Sharers, Targets, SharedKinds, Owners
  <2>3. QED
    BY <1>1, <1>3, <2>2 DEF SingleOwner
<1>6. c \notin Roots
  BY <1>1, ReachedFacts
<1>7. QED
  BY <1>4, <1>5, <1>6

LEMMA TidySame == ASSUME dump \in Dumps, dump' = dump PROVE Tidy' <=> Tidy
<1>1. \A c : Info(c)' = Info(c) /\ PartsOf(c)' = PartsOf(c) /\ Seen(c)' = Seen(c) /\ AddrOf(c)' = AddrOf(c)
  BY DEF Info, PartsOf, Seen, AddrOf
<1>2. Reached' = Reached /\ Roots' = Roots /\ \A c : Follows(c)' = Follows(c)
  BY DumpSame
<1>3. \A c : Readable(c)' = Readable(c) /\ WellFormed(c)' = WellFormed(c) /\ Targets(c)' = Targets(c)
             /\ PartCells(c)' = PartCells(c) /\ SizeOf(c)' = SizeOf(c) /\ BufOf(c)' = BufOf(c)
  <2>1. \A c : NeverEnds(c, "err")' = NeverEnds(c, "err") /\ NeverEnds(c, "panic")' = NeverEnds(c, "panic")
    BY <1>1 DEF NeverEnds
  <2>2. \A c : WellFormed(c)' = WellFormed(c)
    BY <1>1, <2>1 DEF WellFormed
  <2>3. \A c : Readable(c)' = Readable(c)
    BY <2>1 DEF Readable
  <2>4. QED
    BY <1>1, <2>2, <2>3 DEF Targets, PartCells, SizeOf, BufOf
<1>4. \A c, R : SingleOwner(c, R)' = SingleOwner(c, R)
  BY <1>1, <1>3 DEF SingleOwner, OwningPlaces, Sharers
<1>5. \A R : SeparateOnce(R)' = SeparateOnce(R)
  <2>1. \A R : SharedTargets(R)' = SharedTargets(R)
    BY <1>1, <1>3 DEF SharedTargets
  <2>2. QED
    BY <1>1, <1>3, <2>1 DEF SeparateOnce
<1>6. Requested' = Requested /\ \A p : Local(p)' = Local(p)
  BY DEF Requested, Local
<1>7. QED
  BY <1>1, <1>2, <1>3, <1>4, <1>5, <1>6 DEF Tidy

(* The cells on the stack are reached, and so are those a step puts there.  *)
LEMMA StackCells ==
    ASSUME Inv
    PROVE  /\ Len(stack) \in Nat
           /\ stack # <<>> => Len(stack) >= 1
           /\ \A i \in 1 .. Len(stack) : stack[i].cell \in Reached
<1>1. stack \in Seq(Frames)
  BY DEF Inv
<1>2. \A i \in 1 .. Len(stack) : stack[i] \in Frames
  BY <1>1, ElementOfSeq
<1>3. QED
  BY <1>1, <1>2, LenProperties, EmptySeq DEF Frames

LEMMA ChainStep == ASSUME Inv, Chain, StackStep PROVE Chain'
<1> SUFFICES ASSUME NEW i \in 1 .. Len(stack')
             PROVE  IF i = 1 THEN stack'[i].cell \in Roots
                    ELSE \/ stack'[i].cell \in Owned(Seen(stack'[i - 1].cell))
                         \/ stack'[i].cell \in Shared(Seen(stack'[i - 1].cell))
                              /\ AddrOf(stack'[i].cell) \in shared_pointers'
  <2>1. /\ Roots' = Roots
        /\ \A c : Owned(c)' = Owned(c) /\ Shared(c)' = Shared(c) /\ Seen(c)' = Seen(c)
                  /\ AddrOf(c)' = AddrOf(c)
    BY DumpSame DEF Inv, StackStep
  <2>2. QED
    BY <2>1 DEF Chain, Owned, Shared, Seen, AddrOf, Info, PartsOf, StackStep
<1>1. Len(stack) \in Nat /\ (stack # <<>> => Len(stack) >= 1)
  BY StackCells
<1>2. shared_pointers \subseteq shared_pointers'
  BY DEF StackStep
<1>3. ASSUME i <= Len(stack), \A j \in 1 .. i : stack'[j].cell = stack[j].cell
      PROVE  IF i = 1 THEN stack'[i].cell \in Roots
             ELSE \/ stack'[i].cell \in Owned(Seen(stack'[i - 1].cell))
                  \/ stack'[i].cell \in Shared(Seen(stack'[i - 1].cell))
                       /\ AddrOf(stack'[i].cell) \in shared_pointers'
  <2>1. i \in 1 .. Len(stack) /\ i \in 1 .. i /\ (i # 1 => i - 1 \in 1 .. i)
    BY <1>1, <1>3
  <2>2. stack'[i].cell = stack[i].cell /\ (i # 1 => stack'[i - 1].cell = stack[i - 1].cell)
    BY <1>3, <2>1
  <2>3. QED
    BY <1>2, <2>1, <2>2 DEF Chain
<1>4. CASE Leaves
  BY <1>1, <1>3, <1>4 DEF Leaves
<1>5. ASSUME NEW c, Enters(c), i # Len(stack) + 1
      PROVE  IF i = 1 THEN stack'[i].cell \in Roots
             ELSE \/ stack'[i].cell \in Owned(Seen(stack'[i - 1].cell))
                  \/ stack'[i].cell \in Shared(Seen(stack'[i - 1].cell))
                       /\ AddrOf(stack'[i].cell) \in shared_pointers'
  <2>1. i <= Len(stack)
    BY <1>1, <1>5 DEF Enters
  <2>2. \A j \in 1 .. i : stack'[j].cell = stack[j].cell
    BY <1>1, <1>5, <2>1 DEF Enters
  <2>3. QED
    BY <1>3, <2>1, <2>2
<1>6. CASE stack = <<>> /\ \E c \in Roots : Enters(c)
  <2>1. PICK c \in Roots : Enters(c)
    BY <1>6
  <2>2. i = 1 /\ stack'[1].cell = c
    BY <1>6, <2>1 DEF Enters
  <2>3. QED
    BY <2>1, <2>2
<1>7. CASE stack # <<>> /\ \E c \in Reached : Enters(c) /\ EntersFrom(Top.cell, c)
  <2>1. PICK c \in Reached : Enters(c) /\ EntersFrom(Top.cell, c)
    BY <1>7
  <2>2. CASE i = Len(stack) + 1
    <3>1. i # 1 /\ i - 1 = Len(stack) /\ Len(stack) \in 1 .. Len(stack)
      BY <1>1, <1>7, <2>2
    <3>2. stack'[i].cell = c /\ stack'[i - 1].cell = Top.cell
      BY <2>1, <2>2, <3>1 DEF Enters, Top
    <3>3. QED
      BY <2>1, <3>1, <3>2 DEF EntersFrom
  <2>3. QED
    BY <1>5, <2>1, <2>2
<1>8. QED
  BY <1>4, <1>6, <1>7 DEF StackStep

(* A cell on the stack is not entered again.                                *)
LEMMA EnteredIsNew ==
    ASSUME Inv, Chain, Tidy, Distinct, stack # <<>>, NEW c \in Reached, EntersFrom(Top.cell, c),
           NEW i \in 1 .. Len(stack)
    PROVE  stack[i].cell # c
<1> SUFFICES ASSUME stack[i].cell = c PROVE FALSE
  OBVIOUS
<1>1. /\ Len(stack) \in Nat /\ Len(stack) >= 1 /\ dump \in Dumps
      /\ \A j \in 1 .. Len(stack) : stack[j].cell \in Reached
  BY StackCells DEF Inv
<1>2. Top.cell \in Reached /\ Len(stack) \in 1 .. Len(stack)
  BY <1>1 DEF Top
<1> DEFINE e == stack[i - 1].cell
<1>3. CASE c \in Owned(Seen(Top.cell))
  <2>1. /\ c \notin Roots
        /\ \A d \in Reached : c \in Owned(Seen(d)) => d = Top.cell
        /\ \A d \in Reached : c \notin Shared(Seen(d))
    BY <1>1, <1>2, <1>3, OneWayIn
  <2>2. i # 1 /\ i - 1 \in 1 .. Len(stack)
    BY <1>1, <2>1 DEF Chain
  <2>3. e \in Reached
    BY <1>1, <2>2
  <2>4. c \in Owned(Seen(e))
    BY <2>1, <2>2, <2>3 DEF Chain
  <2>5. stack[i - 1].cell = stack[Len(stack)].cell
    BY <2>1, <2>3, <2>4 DEF Top
  <2>6. i - 1 = Len(stack)
    BY <1>2, <2>2, <2>5 DEF Distinct
  <2>7. QED
    BY <1>1, <2>6
<1>4. CASE c \in Shared(Seen(Top.cell)) /\ AddrOf(c) \notin shared_pointers
  <2>1. c \in Follows(Top.cell)
    BY <1>1, <1>2, <1>4, ReachedFacts
  <2>2. c \notin Roots
    BY <1>2, <2>1 DEF Tidy
  <2>3. i # 1 /\ i - 1 \in 1 .. Len(stack)
    BY <1>1, <2>2 DEF Chain
  <2>4. e \in Reached
    BY <1>1, <2>3
  <2>5. c \in Owned(Seen(e))
    BY <1>4, <2>3 DEF Chain
  <2>6. QED
    BY <1>1, <1>2, <1>4, <2>4, <2>5, OneWayIn
<1>5. QED
  BY <1>3, <1>4 DEF EntersFrom

LEMMA DistinctStep ==
    ASSUME Inv, Chain, Tidy, Distinct, StackStep PROVE Distinct'
<1> SUFFICES ASSUME NEW i \in 1 .. Len(stack'), NEW j \in 1 .. Len(stack'),
                    stack'[i].cell = stack'[j].cell
             PROVE  i = j
  BY DEF Distinct
<1>1. Len(stack) \in Nat
  BY StackCells
<1>2. CASE Leaves
  <2>1. i \in 1 .. Len(stack) /\ j \in 1 .. Len(stack)
    BY <1>1, <1>2 DEF Leaves
  <2>2. stack[i].cell = stack[j].cell
    BY <1>2 DEF Leaves
  <2>3. QED
    BY <2>1, <2>2 DEF Distinct
<1>3. CASE stack = <<>> /\ \E c \in Roots : Enters(c)
  BY <1>3 DEF Enters
<1>4. CASE stack # <<>> /\ \E c \in Reached : Enters(c) /\ EntersFrom(Top.cell, c)
  <2>1. PICK c \in Reached : Enters(c) /\ EntersFrom(Top.cell, c)
    BY <1>4
  <2>2. \A k \in 1 .. Len(stack) : stack[k].cell # c
    BY <1>4, <2>1, EnteredIsNew
  <2>3. /\ Len(stack') = Len(stack) + 1 /\ stack'[Len(stack) + 1].cell = c
        /\ \A k \in 1 .. Len(stack) : stack'[k].cell = stack[k].cell
    BY <2>1 DEF Enters
  <2>4. /\ i \in 1 .. Len(stack) \/ i = Len(stack) + 1
        /\ j \in 1 .. Len(stack) \/ j = Len(stack) + 1
    BY <1>1, <2>3
  <2>5. QED
    BY <2>2, <2>3, <2>4 DEF Distinct
<1>5. QED
  BY <1>2, <1>3, <1>4 DEF StackStep

(* In a tidy dump the recursion never enters a cell it has not left, so it  *)
(* is no deeper than the dump has cells, however shared pointers tie them   *)
(* together (main.rs:371, 515-526, 677).                                    *)
THEOREM WalkNoReentry == Spec => []NoReentry
<1>1. Init => NoReentryInv
  BY DEF Init, NoReentryInv, Chain, Distinct
<1>2. Inv /\ NoReentryInv /\ [Next]_vars => NoReentryInv'
  <2> SUFFICES ASSUME Inv, NoReentryInv, [Next]_vars PROVE NoReentryInv'
    OBVIOUS
  <2>1. StackStep
    BY NextStackStep
  <2>2. Chain'
    BY <2>1, ChainStep DEF NoReentryInv
  <2>3. Tidy' => Tidy
    BY <2>1, TidySame DEF Inv, StackStep
  <2>4. Tidy => Distinct'
    BY <2>1, DistinctStep DEF NoReentryInv
  <2>5. QED
    BY <2>2, <2>3, <2>4 DEF NoReentryInv
<1>3. Inv /\ NoReentryInv => NoReentry
  <2> SUFFICES ASSUME Inv, NoReentryInv, Tidy PROVE NoReentry
    BY DEF NoReentry
  <2>1. DOMAIN stack = 1 .. Len(stack)
    BY LenProperties DEF Inv
  <2>2. QED
    BY <2>1 DEF NoReentry, NoReentryInv, Distinct
<1>4. QED
  BY <1>1, <1>2, <1>3, InvHolds, PTL DEF Spec

-----------------------------------------------------------------------------
(* What the program gives up for.                                           *)

LEMMA MalformedCell ==
    ASSUME NEW c, Malformed(Seen(c)) PROVE ~WellFormed(c)
  BY DEF Malformed, WellFormed, NeverEnds

LEMMA NoVtableHasCause ==
    ASSUME NEW c, NoVtable(c), VtableOutcome(c) = "panic" PROVE ~WellFormed(c)
  BY DEF NoVtable, VtableOutcome, WellFormed, NeverEnds

(* A visit panics itself only where the class of its object is looked up.   *)
LEMMA VisitHasCause ==
    ASSUME NEW calls, NEW path, NEW c, status # "panicked", status' = "panicked",
           visit_type(calls, path, c) \/ visit_shared(calls, path, c)
    PROVE  ~WellFormed(c)
<1>1. CASE NoVtable(c)
  <2>1. VtableOutcome(c) = "panic"
    BY <1>1 DEF visit_type, visit_shared, After
  <2>2. QED
    BY <1>1, <2>1, NoVtableHasCause
<1>2. CASE ~NoVtable(c)
  BY <1>2 DEF visit_type, visit_shared, After
<1>3. QED
  BY <1>1, <1>2

LEMMA HandlerHasCause ==
    ASSUME Inv, Handler, status # "panicked", status' = "panicked"
    PROVE  \E c \in Reached : ~WellFormed(c)
<1>1. dump \in Dumps /\ stack \in Seq(Frames)
  BY DEF Inv
<1>2. CASE PanicStep
  <2>1. Step \in Safe(Seen(Top.cell)) /\ Step.op = "panic" /\ Top.cell \in Reached
    BY <1>1, <1>2, NextStep DEF PanicStep
  <2>2. Malformed(Seen(Top.cell))
    BY <2>1 DEF Safe
  <2>3. QED
    BY <2>1, <2>2, MalformedCell
<1>3. CASE ReadStep
  <2>1. Step \in Safe(Seen(Top.cell)) /\ Step.op = "read" /\ Top.cell \in Reached
    BY <1>1, <1>3, NextStep DEF ReadStep
  <2>2. Step.ok = "panic"
    BY <1>3 DEF ReadStep, After
  <2>3. Malformed(Seen(Top.cell))
    BY <1>1, <2>1, <2>2, StepArguments
  <2>4. QED
    BY <2>1, <2>3, MalformedCell
<1>4. CASE VisitStep
  <2>1. Step \in Safe(Seen(Top.cell)) /\ Step.op = "visit" /\ Top.cell \in Reached
    BY <1>1, <1>4, NextStep DEF VisitStep
  <2>2. Step.cell \in Reached
    BY <1>1, <2>1, StepArguments
  <2>3. QED
    BY <1>4, <2>2, VisitHasCause DEF VisitStep
<1>5. CASE VisitOnceStep
  <2>1. Step \in Safe(Seen(Top.cell)) /\ Step.op = "once" /\ Top.cell \in Reached
    BY <1>1, <1>5, NextStep DEF VisitOnceStep
  <2>2. Step.cell \in Reached
    BY <1>1, <2>1, StepArguments
  <2>3. visit_shared(Rest, Step.path, Step.cell)
    BY <1>5 DEF VisitOnceStep
  <2>4. QED
    BY <2>2, <2>3, VisitHasCause
<1>6. CASE ClaimStep \/ RawStep \/ RawOnceStep \/ CountStep \/ Return \/ Propagate
  BY <1>6 DEF ClaimStep, RawStep, RawOnceStep, CountStep, Return, Propagate
<1>7. QED
  BY <1>2, <1>3, <1>4, <1>5, <1>6 DEF Handler

(* A usage table without a root is empty.                                   *)
LEMMA RootOfUsage ==
    ASSUME Out!TypeOK, Out!ReportIsATree, <<>> \notin DOMAIN usage PROVE DOMAIN usage = {}
<1> DEFINE T == {n \in Nat : \A p \in DOMAIN usage : Len(p) # n}
<1>1. \A p \in DOMAIN usage : p \in Seq(Node)
  BY DEF Out!TypeOK
<1>2. 0 \in T
  BY <1>1, EmptySeq
<1>3. ASSUME NEW n \in Nat, n \in T PROVE n + 1 \in T
  <2> SUFFICES ASSUME NEW p \in DOMAIN usage, Len(p) = n + 1 PROVE FALSE
    OBVIOUS
  <2> DEFINE parent == SubSeq(p, 1, Len(p) - 1)
  <2>1. parent \in DOMAIN usage
    BY DEF Out!ReportIsATree
  <2>2. Len(parent) = n
    <3>1. p \in Seq(Node) /\ Len(p) - 1 = n /\ 1 \in Int /\ n \in Int
      BY <1>1
    <3>2. \A i \in 1 .. n : p[i] \in Node
      BY <3>1, ElementOfSeq
    <3>3. Len(SubSeq(p, 1, n)) = IF 1 <= n THEN n - 1 + 1 ELSE 0
      BY <3>1, <3>2, SubSeqProperties
    <3>4. QED
      BY <3>1, <3>3
  <2>3. QED
    BY <1>3, <2>1, <2>2
<1>4. Nat \subseteq T
  <2>1. \A n \in Nat : n \in T => n + 1 \in T
    BY <1>3
  <2> HIDE DEF T
  <2>2. QED
    BY <1>2, <2>1, Induction
<1>5. QED
  BY <1>1, <1>4, LenProperties

(* Whatever the dump, the walk gives up only for a cell that can be reached *)
(* and is not well formed - its type, its words or a read across the end of *)
(* an area, as WellFormed lists them - or a variable that cannot be found,  *)
(* and the report only because nothing at all was claimed.                  *)
CauseInv == PanicsOnlyWithCause /\ (status = "done" => stack = <<>>)

THEOREM WalkPanicsOnlyWithCause == Spec => []PanicsOnlyWithCause
<1>1. Init => CauseInv
  BY DEF Init, PanicsOnlyWithCause, CauseInv
<1>2. Inv /\ Out!TypeOK /\ Out!ReportIsATree /\ CauseInv /\ [Next]_vars => CauseInv'
  <2> SUFFICES ASSUME Inv, Out!TypeOK, Out!ReportIsATree, CauseInv, [Next]_vars
               PROVE  CauseInv'
    OBVIOUS
  <2>1. dump' = dump /\ dump \in Dumps
    BY NextStackStep DEF StackStep, Inv
  <2>2. Reached' = Reached
    BY <2>1, DumpSame
  <2>3. \A c : WellFormed(c)' = WellFormed(c)
    <3>1. \A c : Info(c)' = Info(c) /\ PartsOf(c)' = PartsOf(c) /\ Seen(c)' = Seen(c)
      BY <2>1 DEF Info, PartsOf, Seen
    <3>2. \A c : NeverEnds(c, "panic")' = NeverEnds(c, "panic")
      BY <3>1 DEF NeverEnds
    <3>3. QED
      BY <3>1, <3>2 DEF WellFormed
  <2>4. (\E c \in Reached : ~WellFormed(c)) => PanicsOnlyWithCause'
    BY <2>2, <2>3 DEF PanicsOnlyWithCause
  <2>5. CASE status = "panicked"
    <3>1. usage' = usage /\ stack' = stack /\ status' = status
      BY <2>5 DEF Next, Handler, Main, ReadStep, ClaimStep, RawStep, RawOnceStep, CountStep,
         VisitStep, VisitOnceStep, PanicStep, Return, Propagate, VisitVariable, NoSuchVariable,
         SkipVariable, NextFrame, Report, At, InMain, vars, outvars
    <3>2. PanicsOnlyWithCause'
      BY <2>1, <2>2, <2>3, <2>5, <3>1 DEF PanicsOnlyWithCause, CauseInv
    <3>3. QED
      BY <2>5, <3>1, <3>2 DEF CauseInv
  <2>6. CASE status # "panicked" /\ status' = "panicked"
    <3> SUFFICES PanicsOnlyWithCause'
      BY <2>6 DEF CauseInv
    <3>1. Handler \/ VisitVariable \/ NoSuchVariable \/ Report
      BY <2>6 DEF Next, Main, SkipVariable, NextFrame, InMain, vars
    <3>2. CASE Handler
      BY <2>4, <2>6, <3>2, HandlerHasCause
    <3>3. CASE NoSuchVariable
      <4>1. arg \in DOMAIN dump.args /\ fr \in DOMAIN dump.frames
        <5>1. dump.args \in Seq(Arg)
          BY <2>1, WalkAssumption DEF Dump
        <5>2. QED
          BY <3>3, <5>1, LenProperties DEF NoSuchVariable, ArgsLeft, Inv
      <4>2. /\ dump.frames[fr].sym = dump.args[arg].fcn_name
            /\ dump.frames[fr].local[dump.args[arg].var_name] = Null
        BY <3>3 DEF NoSuchVariable, Frame, Wanted
      <4>3. QED
        BY <2>1, <4>1, <4>2 DEF PanicsOnlyWithCause
    <3>4. CASE Report
      <4>1. <<>> \notin DOMAIN usage /\ usage' = usage /\ stack' = <<>>
        BY <2>6, <3>4 DEF Report, outvars, CauseInv
      <4>2. DOMAIN usage' = {}
        BY <4>1, RootOfUsage
      <4>3. QED
        BY <4>1, <4>2 DEF PanicsOnlyWithCause
    <3>5. CASE VisitVariable
      <4>1. Frame.local[Wanted.var_name] \in Reached
        BY <3>5, LocalsSafe, ReachedFacts DEF VisitVariable, Inv
      <4>2. QED
        BY <2>4, <2>6, <3>5, <4>1, VisitHasCause DEF VisitVariable
    <3>6. QED
      BY <3>1, <3>2, <3>3, <3>4, <3>5
  <2>7. CASE status' # "panicked"
    <3>1. status' = "done" => stack' = <<>>
      <4>1. CASE status = "done"
        BY <4>1 DEF CauseInv, Next, Handler, Main, ReadStep, ClaimStep, RawStep, RawOnceStep,
           CountStep, VisitStep, VisitOnceStep, PanicStep, Return, Propagate, VisitVariable,
           NoSuchVariable, SkipVariable, NextFrame, Report, At, InMain, vars
      <4>2. ASSUME status # "done", status' = "done" PROVE NextFrame
        BY <4>2 DEF Next, Handler, Main, ReadStep, ClaimStep, RawStep, RawOnceStep,
           CountStep, VisitStep, VisitOnceStep, PanicStep, Return, Propagate, VisitVariable,
           NoSuchVariable, SkipVariable, Report, At, InMain, vars, visit_type, visit_shared, After
      <4>3. NextFrame => stack' = <<>>
        BY DEF NextFrame, InMain
      <4>4. QED
        BY <4>1, <4>2, <4>3
    <3>2. QED
      BY <2>7, <3>1 DEF PanicsOnlyWithCause, CauseInv
  <2>8. QED
    BY <2>5, <2>6, <2>7
<1>3. Spec => []Out!ReportIsATree
  BY WalkReportIsATree, PTL
<1>4. CauseInv => PanicsOnlyWithCause
  BY DEF CauseInv
<1>5. QED
  BY <1>1, <1>2, <1>3, <1>4, InvHolds, WalkOutputTyped, PTL DEF Spec

-----------------------------------------------------------------------------
(* What a handler does, apart from the paths: a visit, a claim or a         *)
(* once-only visit of a cell, or (at most one each) a count and a claim of  *)
(* a buffer.                                                                *)
CellOps == {"visit", "claim", "once"}
EventOf(s) == <<s.op, IF s.op \in CellOps THEN s.cell ELSE Null>>
OwnOps(c) ==
    (IF Info(c).kind \in EnumKinds /\ Info(c).variant # Null THEN {"count"} ELSE {})
    \cup (IF \/ Info(c).kind = "CppString" /\ Info(c).buf.cap # 0
             \/ Info(c).kind = "AllocString" /\ Info(c).buf.addr # 0
             \/ Info(c).kind = "ThinVector" THEN {"raw"} ELSE {})
    \cup (IF Info(c).kind = "RcString" /\ Info(c).buf.addr # 0 THEN {"rawonce"} ELSE {})
ItemsOf(c) == IF Info(c).kind \in ItemKinds THEN {p.cell : p \in InRange(PartsOf(c))} ELSE {}
Events(c) == ({"visit"} \X Owned(c)) \cup ({"once"} \X Shared(c))
               \cup ({"claim"} \X ItemsOf(c)) \cup (OwnOps(c) \X {Null})

(* A step as the handler of `c` does it when everything is in order.        *)
Fine(c) ==
    {s \in StepType :
       /\ s.op # "panic"
       /\ s.op = "read" => s.ok = "ok"
       /\ s.op = "visit" => (is_root_or_deref(s.path) <=> Info(c).kind \in Owners)
       /\ s.op = "count" => s.enm = Info(c).ty /\ s.variant = Field(Info(c).variant)
       /\ s.op = "raw" => /\ s.addr = Info(c).buf.addr
                          /\ s.assoc = (Info(c).kind \in StringKinds)
                          /\ s.size = IF s.assoc THEN Info(c).buf.len ELSE Info(c).buf.cap
       /\ s.op = "rawonce" => s.addr = Info(c).buf.addr /\ s.size = Info(c).size + Info(c).buf.len}

Acts(s) == {k \in DOMAIN s : s[k].op # "read"}
Left(s) == {EventOf(s[k]) : k \in Acts(s)}
OnceEach(s) == \A j, k \in Acts(s) : EventOf(s[j]) = EventOf(s[k]) => j = k
Does(s, F, E) == s \in Seq(F) /\ Left(s) = E /\ OnceEach(s)

LEMMA DoesNothing == ASSUME NEW F PROVE Does(<<>>, F, {})
<1>1. <<>> \in Seq(F) /\ DOMAIN <<>> = {}
  OBVIOUS
<1>2. QED
  BY <1>1 DEF Does, Left, OnceEach, Acts

LEMMA DoesRead == ASSUME NEW F, NEW e \in F, e.op = "read" PROVE Does(<<e>>, F, {})
<1>1. <<e>> \in Seq(F) /\ DOMAIN <<e>> = {1} /\ <<e>>[1] = e
  OBVIOUS
<1>2. Acts(<<e>>) = {}
  BY <1>1 DEF Acts
<1>3. QED
  BY <1>1, <1>2 DEF Does, Left, OnceEach

LEMMA DoesOne ==
    ASSUME NEW F, NEW e \in F, e.op # "read" PROVE Does(<<e>>, F, {EventOf(e)})
<1>1. <<e>> \in Seq(F) /\ DOMAIN <<e>> = {1} /\ <<e>>[1] = e
  OBVIOUS
<1>2. Acts(<<e>>) = {1}
  BY <1>1 DEF Acts
<1>3. QED
  BY <1>1, <1>2 DEF Does, Left, OnceEach

LEMMA DoesBoth ==
    ASSUME NEW F, NEW s, NEW t, NEW D, NEW E, Does(s, F, D), Does(t, F, E), D \cap E = {}
    PROVE  Does(s \o t, F, D \cup E)
<1> DEFINE u == s \o t
<1>1. s \in Seq(F) /\ t \in Seq(F) /\ Left(s) = D /\ Left(t) = E /\ OnceEach(s) /\ OnceEach(t)
  BY DEF Does
<1>2. /\ u \in Seq(F) /\ Len(u) = Len(s) + Len(t) /\ Len(s) \in Nat /\ Len(t) \in Nat
      /\ DOMAIN u = 1 .. Len(u) /\ DOMAIN s = 1 .. Len(s) /\ DOMAIN t = 1 .. Len(t)
      /\ \A k \in 1 .. Len(s) : u[k] = s[k]
      /\ \A k \in 1 .. Len(t) : u[Len(s) + k] = t[k]
  BY <1>1, ConcatProperties, LenProperties
<1> HIDE DEF u
<1>3. ASSUME NEW k \in Acts(u)
      PROVE  \/ k \in Acts(s) /\ u[k] = s[k]
             \/ k - Len(s) \in Acts(t) /\ u[k] = t[k - Len(s)]
  <2>1. k \in 1 .. Len(u) /\ u[k].op # "read"
    BY <1>2 DEF Acts
  <2>2. CASE k <= Len(s)
    BY <1>2, <2>1, <2>2 DEF Acts
  <2>3. CASE ~ (k <= Len(s))
    <3>1. k - Len(s) \in 1 .. Len(t) /\ Len(s) + (k - Len(s)) = k
      BY <1>2, <2>1, <2>3
    <3>2. u[Len(s) + (k - Len(s))] = t[k - Len(s)]
      BY <1>2, <3>1
    <3>3. QED
      BY <1>2, <2>1, <3>1, <3>2 DEF Acts
  <2>4. QED
    BY <2>2, <2>3
<1>4. ASSUME NEW k \in Acts(s) PROVE k \in Acts(u) /\ u[k] = s[k]
  BY <1>2 DEF Acts
<1>5. ASSUME NEW k \in Acts(t) PROVE Len(s) + k \in Acts(u) /\ u[Len(s) + k] = t[k]
  <2>1. k \in 1 .. Len(t) /\ t[k].op # "read"
    BY <1>2 DEF Acts
  <2>2. Len(s) + k \in 1 .. Len(u) /\ u[Len(s) + k] = t[k]
    BY <1>2, <2>1
  <2>3. QED
    BY <1>2, <2>1, <2>2 DEF Acts
<1>6. Left(u) = D \cup E
  <2>1. ASSUME NEW k \in Acts(u) PROVE EventOf(u[k]) \in Left(s) \cup Left(t)
    BY <1>3 DEF Left
  <2>2. ASSUME NEW k \in Acts(s) PROVE EventOf(s[k]) \in Left(u)
    BY <1>4 DEF Left
  <2>3. ASSUME NEW k \in Acts(t) PROVE EventOf(t[k]) \in Left(u)
    BY <1>5 DEF Left
  <2>4. QED
    BY <1>1, <2>1, <2>2, <2>3 DEF Left
<1>7. ASSUME NEW j \in Acts(u), NEW k \in Acts(u), EventOf(u[j]) = EventOf(u[k])
      PROVE  j = k
  <2>1. \A i \in Acts(s) : EventOf(s[i]) \in D
    BY <1>1 DEF Left
  <2>2. \A i \in Acts(t) : EventOf(t[i]) \in E
    BY <1>1 DEF Left
  <2>3. CASE j \in Acts(s) /\ u[j] = s[j]
    <3>1. EventOf(u[k]) \in D
      BY <1>7, <2>1, <2>3
    <3>2. k \in Acts(s) /\ u[k] = s[k]
      BY <1>3, <2>2, <3>1
    <3>3. QED
      BY <1>1, <1>7, <2>3, <3>2 DEF OnceEach
  <2>4. CASE j - Len(s) \in Acts(t) /\ u[j] = t[j - Len(s)]
    <3>1. EventOf(u[k]) \in E
      BY <1>7, <2>2, <2>4
    <3>2. k - Len(s) \in Acts(t) /\ u[k] = t[k - Len(s)]
      BY <1>3, <2>1, <3>1
    <3>3. j - Len(s) = k - Len(s)
      BY <1>1, <1>7, <2>4, <3>2 DEF OnceEach
    <3>4. j \in Int /\ k \in Int
      BY <1>2 DEF Acts
    <3>5. QED
      BY <1>2, <3>3, <3>4
  <2>5. QED
    BY <1>3, <2>3, <2>4
<1>8. QED
  BY <1>2, <1>6, <1>7 DEF Does, OnceEach, u

LEMMA DoesWhen ==
    ASSUME NEW F, NEW cond, NEW s, NEW E, cond => Does(s, F, E)
    PROVE  Does(When(cond, s), F, IF cond THEN E ELSE {})
  BY DoesNothing DEF When

(* Taking the first step.                                                   *)
LEMMA DoesTail ==
    ASSUME NEW F, NEW s, NEW E, Does(s, F, E), s # <<>>
    PROVE  /\ Head(s) \in F
           /\ Head(s).op = "read" => Does(Tail(s), F, E)
           /\ Head(s).op # "read" => /\ EventOf(Head(s)) \in E
                                     /\ Does(Tail(s), F, E \ {EventOf(Head(s))})
<1> DEFINE t == Tail(s)
<1>1. s \in Seq(F) /\ Left(s) = E /\ OnceEach(s)
  BY DEF Does
<1>2. /\ Head(s) \in F /\ Head(s) = s[1]
      /\ t \in Seq(F) /\ Len(t) = Len(s) - 1 /\ Len(s) \in Nat /\ Len(s) >= 1
      /\ DOMAIN s = 1 .. Len(s) /\ DOMAIN t = 1 .. Len(s) - 1
      /\ \A k \in 1 .. Len(s) - 1 : t[k] = s[k + 1]
  BY <1>1, HeadTailProperties, LenProperties, EmptySeq, ElementOfSeq
<1> HIDE DEF t
<1>3. ASSUME NEW k \in Acts(t) PROVE k + 1 \in Acts(s) /\ k + 1 # 1 /\ t[k] = s[k + 1]
  BY <1>2 DEF Acts
<1>4. ASSUME NEW k \in Acts(s), k # 1 PROVE k - 1 \in Acts(t) /\ t[k - 1] = s[k]
  <2>1. k \in 1 .. Len(s) /\ s[k].op # "read" /\ k - 1 \in 1 .. Len(s) - 1 /\ (k - 1) + 1 = k
    BY <1>2, <1>4 DEF Acts
  <2>2. t[k - 1] = s[k]
    BY <1>2, <2>1
  <2>3. QED
    BY <1>2, <2>1, <2>2 DEF Acts
<1>5. OnceEach(t)
  <2>1. ASSUME NEW j \in Acts(t), NEW k \in Acts(t), EventOf(t[j]) = EventOf(t[k]) PROVE j = k
    <3>1. j + 1 = k + 1
      BY <1>1, <1>3, <2>1 DEF OnceEach
    <3>2. j \in Int /\ k \in Int
      BY <1>2 DEF Acts
    <3>3. QED
      BY <3>1, <3>2
  <2>2. QED
    BY <2>1 DEF OnceEach
<1>6. Left(t) \subseteq E
  BY <1>1, <1>3 DEF Left
<1>7. ASSUME Head(s).op = "read" PROVE Left(t) = E
  <2>1. 1 \notin Acts(s)
    BY <1>2, <1>7 DEF Acts
  <2>2. \A k \in Acts(s) : EventOf(s[k]) \in Left(t)
    BY <1>4, <2>1 DEF Left
  <2>3. QED
    BY <1>1, <1>6, <2>2 DEF Left
<1>8. ASSUME Head(s).op # "read"
      PROVE  EventOf(Head(s)) \in E /\ Left(t) = E \ {EventOf(Head(s))}
  <2>1. 1 \in Acts(s)
    BY <1>2, <1>8 DEF Acts
  <2>2. EventOf(Head(s)) \in E
    BY <1>1, <1>2, <2>1 DEF Left
  <2>3. \A k \in Acts(s) : k # 1 => EventOf(s[k]) \in Left(t)
    BY <1>4 DEF Left
  <2>4. \A k \in Acts(t) : EventOf(t[k]) # EventOf(Head(s))
    BY <1>1, <1>2, <1>3, <2>1 DEF OnceEach
  <2>5. E \ {EventOf(Head(s))} \subseteq Left(t)
    BY <1>1, <1>2, <2>3 DEF Left
  <2>6. EventOf(Head(s)) \notin Left(t)
    BY <2>4 DEF Left
  <2>7. QED
    BY <1>6, <2>2, <2>5, <2>6
<1>9. QED
  BY <1>2, <1>5, <1>7, <1>8 DEF Does, t

-----------------------------------------------------------------------------
(* Each handler of a cell in order does all it has to do, once each.        *)
Orderly(c) ==
    /\ Info(c).kind \notin {"prim", "struct"} => Info(c).readable = "ok"
    /\ Info(c).buf.readable = "ok"
    /\ \A i \in DOMAIN PartsOf(c) : PartsOf(c)[i].link = "ok"
    /\ ~ Malformed(c)
    /\ \A i, j \in DOMAIN PartsOf(c) : PartsOf(c)[i].cell = PartsOf(c)[j].cell => i = j

LEMMA PathEnds ==
    ASSUME NEW path \in Path
    PROVE  /\ is_root_or_deref(Append(path, Deref))
           /\ \A i \in Nat \ {0} : ~ is_root_or_deref(ItemPath(path, i))
           /\ \A p \in Seq(Node) : ~ is_root_or_deref(p) => ~ is_root_or_deref(path \o p)
<1>1. path \in Seq(Node) /\ Len(path) \in Nat
  BY Deeper, LenProperties
<1>2. is_root_or_deref(Append(path, Deref))
  <2>1. Deref \in Node
    BY DEF Node
  <2>2. Append(path, Deref)[Len(Append(path, Deref))] = Deref
    BY <1>1, <2>1, AppendProperties
  <2>3. QED
    BY <2>2 DEF is_root_or_deref
<1>3. ASSUME NEW i \in Nat \ {0} PROVE ~ is_root_or_deref(ItemPath(path, i))
  <2>1. Index(i - 1) \in Node /\ Index(i - 1) # Deref
    BY DEF Node, Index, Deref
  <2>2. /\ ItemPath(path, i)[Len(ItemPath(path, i))] = Index(i - 1)
        /\ ItemPath(path, i) # <<>>
    BY <1>1, <2>1, AppendProperties DEF ItemPath
  <2>3. QED
    BY <2>1, <2>2 DEF is_root_or_deref
<1>4. ASSUME NEW p \in Seq(Node), ~ is_root_or_deref(p) PROVE ~ is_root_or_deref(path \o p)
  <2>1. p # <<>> /\ p[Len(p)] # Deref
    BY <1>4 DEF is_root_or_deref
  <2>2. Len(p) \in Nat /\ Len(p) >= 1
    BY <2>1, LenProperties, EmptySeq
  <2>3. Len(path \o p) = Len(path) + Len(p) /\ (path \o p)[Len(path) + Len(p)] = p[Len(p)]
    BY <1>1, <2>2, ConcatProperties
  <2>4. path \o p # <<>>
    BY <1>1, <2>2, <2>3, EmptySeq
  <2>5. QED
    BY <2>1, <2>3, <2>4 DEF is_root_or_deref
<1>5. QED
  BY <1>2, <1>3, <1>4

LEMMA FineSteps ==
    ASSUME dump \in Dumps, NEW c \in Cells, NEW path \in Path
    PROVE
    /\ Read("ok") \in Fine(c) /\ Read("ok").op = "read"
    /\ \A d \in Cells : /\ ClaimItem(path, d) \in Fine(c)
                        /\ VisitOnce(path, d) \in Fine(c)
                        /\ (is_root_or_deref(path) <=> Info(c).kind \in Owners)
                             => Visit(path, d) \in Fine(c)
                        /\ ClaimItem(path, d).op = "claim" /\ EventOf(ClaimItem(path, d)) = <<"claim", d>>
                        /\ VisitOnce(path, d).op = "once" /\ EventOf(VisitOnce(path, d)) = <<"once", d>>
                        /\ Visit(path, d).op = "visit" /\ EventOf(Visit(path, d)) = <<"visit", d>>
<1>1. Read("ok") \in Fine(c) /\ Read("ok").op = "read"
  BY DEF Fine, StepType, Read, Outcomes
<1>2. ASSUME NEW d \in Cells
      PROVE  /\ ClaimItem(path, d) \in Fine(c)
             /\ ClaimItem(path, d).op = "claim" /\ EventOf(ClaimItem(path, d)) = <<"claim", d>>
  BY DEF Fine, StepType, ClaimItem, EventOf, CellOps
<1>3. ASSUME NEW d \in Cells
      PROVE  /\ VisitOnce(path, d) \in Fine(c)
             /\ VisitOnce(path, d).op = "once" /\ EventOf(VisitOnce(path, d)) = <<"once", d>>
  BY DEF Fine, StepType, VisitOnce, EventOf, CellOps
<1>4. ASSUME NEW d \in Cells
      PROVE  /\ Visit(path, d).op = "visit" /\ EventOf(Visit(path, d)) = <<"visit", d>>
             /\ (is_root_or_deref(path) <=> Info(c).kind \in Owners) => Visit(path, d) \in Fine(c)
  BY DEF Fine, StepType, Visit, EventOf, CellOps
<1>5. QED
  BY <1>1, <1>2, <1>3, <1>4

(* The cells of a run of parts.                                             *)
CellsOf(c, first, last) == {PartsOf(c)[i].cell : i \in first .. last}

LEMMA PartFacts ==
    ASSUME dump \in Dumps, NEW c \in Cells, Orderly(c)
    PROVE  /\ Len(PartsOf(c)) \in Nat /\ DOMAIN PartsOf(c) = 1 .. Len(PartsOf(c))
           /\ \A i \in 1 .. Len(PartsOf(c)) : /\ PartsOf(c)[i].cell \in Cells
                                              /\ PartsOf(c)[i].path \in Seq(Node)
                                              /\ PartsOf(c)[i].link = "ok"
           /\ \A i, j \in 1 .. Len(PartsOf(c)) : PartsOf(c)[i].cell = PartsOf(c)[j].cell => i = j
<1>1. Len(PartsOf(c)) \in Nat /\ DOMAIN PartsOf(c) = 1 .. Len(PartsOf(c))
  BY DumpTypes, LenProperties
<1>2. QED
  BY <1>1, PartTypes DEF Orderly

(* The steps of a sequence that is given step by step.                      *)
LEMMA DoesAll ==
    ASSUME NEW F, NEW E, NEW n \in Nat, NEW s, s \in [1 .. n -> F],
           \A k \in 1 .. n : s[k].op # "read" => EventOf(s[k]) \in E,
           \A e \in E : \E k \in 1 .. n : s[k].op # "read" /\ EventOf(s[k]) = e,
           \A j, k \in 1 .. n : s[j].op # "read" /\ s[k].op # "read" /\ EventOf(s[j]) = EventOf(s[k]) => j = k
    PROVE  Does(s, F, E)
<1>1. s \in Seq(F) /\ DOMAIN s = 1 .. n
  BY IsASeq
<1>2. Acts(s) = {k \in 1 .. n : s[k].op # "read"}
  BY <1>1 DEF Acts
<1>3. OnceEach(s)
  BY <1>2 DEF OnceEach
<1>4. Left(s) \subseteq E
  BY <1>2 DEF Left
<1>5. ASSUME NEW e \in E PROVE e \in Left(s)
  BY <1>2 DEF Left
<1>6. QED
  BY <1>1, <1>3, <1>4, <1>5 DEF Does

LEMMA PartsDone ==
    ASSUME dump \in Dumps, NEW c \in Cells, Orderly(c), NEW path \in Path,
           Info(c).kind \in FieldKinds,
           NEW first \in Nat \ {0}, NEW last \in 0 .. Len(PartsOf(c))
    PROVE  Does(VisitParts(c, path, first, last), Fine(c), {"visit"} \X CellsOf(c, first, last))
<1> DEFINE n == IF first <= last THEN last - first + 1 ELSE 0
           at(k) == first + k - 1
           step(k) == Visit(path \o PartsOf(c)[at(k)].path, PartsOf(c)[at(k)].cell)
           s == [k \in 1 .. n |-> step(k)]
           F == Fine(c)
           E == {"visit"} \X CellsOf(c, first, last)
<1>1. /\ Len(PartsOf(c)) \in Nat
      /\ \A i \in 1 .. Len(PartsOf(c)) : /\ PartsOf(c)[i].cell \in Cells
                                         /\ PartsOf(c)[i].path \in Seq(Node)
      /\ \A i, j \in 1 .. Len(PartsOf(c)) : PartsOf(c)[i].cell = PartsOf(c)[j].cell => i = j
  BY PartFacts
<1>2. n \in Nat
  BY <1>1
<1>3. \A k \in 1 .. n : at(k) \in 1 .. Len(PartsOf(c)) /\ at(k) \in first .. last
  BY <1>1
<1>4. \A i \in 1 .. Len(PartsOf(c)) : ~ is_root_or_deref(PartsOf(c)[i].path)
  <2>1. Encoded(dump.cells[c])
    BY WalkAssumption
  <2>2. DOMAIN PartsOf(c) = 1 .. Len(PartsOf(c))
    BY DumpTypes, LenProperties
  <2>3. QED
    BY <2>1, <2>2 DEF Encoded, Info, PartsOf
<1>5. Info(c).kind \notin Owners
  BY DEF FieldKinds, Owners
<1>6. ASSUME NEW k \in 1 .. n
      PROVE  step(k) \in F /\ step(k).op = "visit" /\ EventOf(step(k)) = <<"visit", PartsOf(c)[at(k)].cell>>
  <2> DEFINE q == path \o PartsOf(c)[at(k)].path
             d == PartsOf(c)[at(k)].cell
  <2>1. /\ d \in Cells /\ PartsOf(c)[at(k)].path \in Seq(Node)
        /\ ~ is_root_or_deref(PartsOf(c)[at(k)].path)
    BY <1>1, <1>3, <1>4
  <2>2. q \in Path /\ ~ is_root_or_deref(q)
    BY <2>1, Deeper, PathEnds
  <2>3. step(k) = Visit(q, d)
    OBVIOUS
  <2> HIDE DEF q, d, step, F
  <2>4. Visit(q, d) \in Fine(c) /\ Visit(q, d).op = "visit" /\ EventOf(Visit(q, d)) = <<"visit", d>>
    BY <1>5, <2>1, <2>2, FineSteps
  <2>5. QED
    BY <2>3, <2>4 DEF d, F
<1>7. VisitParts(c, path, first, last) = s
  <2>1. \A k \in 1 .. n : VisitPart(PartsOf(c)[at(k)], path) = step(k)
    BY <1>3, PartFacts DEF VisitPart
  <2>2. VisitParts(c, path, first, last) = [k \in 1 .. n |-> VisitPart(PartsOf(c)[at(k)], path)]
    BY DEF VisitParts
  <2> HIDE DEF n, at, step
  <2>3. QED
    BY <2>1, <2>2
<1>8. \A j, k \in 1 .. n : at(j) = at(k) => j = k
  BY <1>2
<1>9. \A i \in first .. last : i - first + 1 \in 1 .. n /\ at(i - first + 1) = i
  BY <1>1
<1> HIDE DEF step, at, n, F
<1>10. s \in [1 .. n -> F] /\ \A k \in 1 .. n : s[k] = step(k)
  BY <1>6
<1> HIDE DEF s
<1>11. \A k \in 1 .. n : EventOf(s[k]) = <<"visit", PartsOf(c)[at(k)].cell>>
                          /\ EventOf(s[k]) \in E /\ s[k].op # "read"
  BY <1>3, <1>6, <1>10 DEF CellsOf
<1>12. ASSUME NEW e \in E PROVE \E k \in 1 .. n : s[k].op # "read" /\ EventOf(s[k]) = e
  <2>1. PICK i \in first .. last : e = <<"visit", PartsOf(c)[i].cell>>
    BY DEF CellsOf
  <2>2. QED
    BY <1>9, <1>11, <2>1
<1>13. ASSUME NEW j \in 1 .. n, NEW k \in 1 .. n, EventOf(s[j]) = EventOf(s[k]) PROVE j = k
  <2>1. PartsOf(c)[at(j)].cell = PartsOf(c)[at(k)].cell
    BY <1>11, <1>13
  <2>2. QED
    BY <1>1, <1>3, <1>8, <2>1
<1> HIDE DEF E
<1>14. Does(s, F, E)
  BY <1>2, <1>10, <1>11, <1>12, <1>13, DoesAll
<1>15. QED
  BY <1>7, <1>14 DEF E, F
(* The items of a container, claimed and visited in turn.                   *)
LEMMA ItemsDone ==
    ASSUME dump \in Dumps, NEW c \in Cells, Orderly(c), NEW path \in Path,
           Info(c).kind \in ItemKinds
    PROVE  Does(Items(c, path), Fine(c), {"claim", "visit"} \X CellsOf(c, 1, Len(PartsOf(c))))
<1> DEFINE m == Len(PartsOf(c))
           n == 2 * m
           at(k) == (k + 1) \div 2
           step(k) == IF k % 2 = 1 THEN ClaimItem(ItemPath(path, at(k)), PartsOf(c)[at(k)].cell) ELSE Visit(ItemPath(path, at(k)), PartsOf(c)[at(k)].cell)
           s == [k \in 1 .. n |-> step(k)]
           F == Fine(c)
           E == {"claim", "visit"} \X CellsOf(c, 1, m)
<1>1. /\ m \in Nat
      /\ \A i \in 1 .. m : PartsOf(c)[i].cell \in Cells /\ PartsOf(c)[i].link = "ok"
      /\ \A i, j \in 1 .. m : PartsOf(c)[i].cell = PartsOf(c)[j].cell => i = j
  BY PartFacts
<1>2. n \in Nat
  BY <1>1
<1>3. \A k \in 1 .. n : at(k) \in 1 .. m
  BY <1>1
<1>4. Info(c).kind \notin Owners
  BY DEF ItemKinds, Owners
<1>5. ASSUME NEW k \in 1 .. n
      PROVE  /\ step(k) \in F
             /\ k % 2 = 1 => step(k).op = "claim" /\ EventOf(step(k)) = <<"claim", PartsOf(c)[at(k)].cell>>
             /\ k % 2 = 0 => step(k).op = "visit" /\ EventOf(step(k)) = <<"visit", PartsOf(c)[at(k)].cell>>
             /\ k % 2 \notin {1, 0} => step(k).op = "read"
  <2> DEFINE q == ItemPath(path, at(k))
             d == PartsOf(c)[at(k)].cell
  <2>1. d \in Cells /\ PartsOf(c)[at(k)].link = "ok" /\ k % 2 \in 0 .. 1
    BY <1>1, <1>3
  <2>2. q \in Path /\ ~ is_root_or_deref(q)
    <3> DEFINE i == at(k)
    <3>1. i \in Nat \ {0}
      BY <1>1, <1>3
    <3> HIDE DEF i
    <3>2. ItemPath(path, i) \in Path /\ ~ is_root_or_deref(ItemPath(path, i))
      BY <3>1, Deeper, PathEnds
    <3>3. QED
      BY <3>2 DEF i
  <2>3. /\ k % 2 = 1 => step(k) = ClaimItem(q, d)
        /\ k % 2 = 0 => step(k) = Visit(q, d)
        /\ k % 2 \notin {1, 0} => step(k) = Read("ok")
    <3>1. ASSUME k % 2 = 1 PROVE step(k) = ClaimItem(q, d)
      BY <3>1
    <3>2. ASSUME k % 2 = 0 PROVE step(k) = Visit(q, d)
      BY <3>2
    <3>3. ASSUME k % 2 \notin {1, 0} PROVE step(k) = Read("ok")
      <4>1. FALSE
        BY <2>1, <3>3
      <4>2. step(k) = Read(PartsOf(c)[at(k)].link)
        BY <4>1
      <4>3. QED
        BY <2>1, <4>2
    <3>4. QED
      BY <3>1, <3>2, <3>3
  <2> HIDE DEF q, d, step, F
  <2>4. /\ Read("ok") \in Fine(c) /\ Read("ok").op = "read"
        /\ Visit(q, d) \in Fine(c) /\ Visit(q, d).op = "visit" /\ EventOf(Visit(q, d)) = <<"visit", d>>
        /\ ClaimItem(q, d) \in Fine(c) /\ ClaimItem(q, d).op = "claim" /\ EventOf(ClaimItem(q, d)) = <<"claim", d>>
    BY <1>4, <2>1, <2>2, FineSteps
  <2>5. QED
    BY <2>1, <2>3, <2>4 DEF d, F
<1>6. Items(c, path) = s
  BY DEF Items
<1>7. \A j, k \in 1 .. n : at(j) = at(k) /\ j % 2 = k % 2 => j = k
  BY <1>2
<1>8. \A i \in 1 .. m : /\ 2 * i - 1 \in 1 .. n /\ at(2 * i - 1) = i /\ (2 * i - 1) % 2 = 1
                     /\ 2 * i \in 1 .. n /\ at(2 * i) = i /\ (2 * i) % 2 = 0
  BY <1>1
<1> HIDE DEF step, at, n, F
<1>9. s \in [1 .. n -> F] /\ \A k \in 1 .. n : s[k] = step(k)
  BY <1>5
<1> HIDE DEF s
<1>10. ASSUME NEW k \in 1 .. n
       PROVE  /\ k % 2 = 1 => s[k].op = "claim" /\ EventOf(s[k]) = <<"claim", PartsOf(c)[at(k)].cell>>
              /\ k % 2 = 0 => s[k].op = "visit" /\ EventOf(s[k]) = <<"visit", PartsOf(c)[at(k)].cell>>
              /\ k % 2 \notin {1, 0} => s[k].op = "read"
  BY <1>5, <1>9
<1>11. ASSUME NEW k \in 1 .. n, s[k].op # "read" PROVE EventOf(s[k]) \in E
  BY <1>3, <1>10, <1>11 DEF CellsOf
<1>12. ASSUME NEW e \in E PROVE \E k \in 1 .. n : s[k].op # "read" /\ EventOf(s[k]) = e
  <2>1. PICK i \in 1 .. m : e = <<"claim", PartsOf(c)[i].cell>> \/ e = <<"visit", PartsOf(c)[i].cell>>
    BY DEF CellsOf
  <2> DEFINE j == 2 * i - 1
             k == 2 * i
  <2>2. /\ j \in 1 .. n /\ at(j) = i /\ j % 2 = 1
        /\ k \in 1 .. n /\ at(k) = i /\ k % 2 = 0
    BY <1>8
  <2> HIDE DEF j, k
  <2>3. /\ s[j].op # "read" /\ EventOf(s[j]) = <<"claim", PartsOf(c)[i].cell>>
        /\ s[k].op # "read" /\ EventOf(s[k]) = <<"visit", PartsOf(c)[i].cell>>
    BY <1>10, <2>2
  <2>4. QED
    BY <2>1, <2>2, <2>3
<1>13. ASSUME NEW j \in 1 .. n, NEW k \in 1 .. n, s[j].op # "read", s[k].op # "read",
              EventOf(s[j]) = EventOf(s[k])
       PROVE  j = k
  <2>1. j % 2 = k % 2 /\ PartsOf(c)[at(j)].cell = PartsOf(c)[at(k)].cell
    BY <1>10, <1>13
  <2>2. QED
    BY <1>1, <1>3, <1>7, <2>1
<1> HIDE DEF E
<1>14. Does(s, F, E)
  BY <1>2, <1>9, <1>11, <1>12, <1>13, DoesAll
<1>15. QED
  BY <1>6, <1>14 DEF E, F, m

(* The items of a map or list, each with the links read after it.           *)
LEMMA LinkedItemsDone ==
    ASSUME dump \in Dumps, NEW c \in Cells, Orderly(c), NEW path \in Path,
           Info(c).kind \in ItemKinds
    PROVE  Does(LinkedItems(c, path, Len(PartsOf(c))), Fine(c), {"claim", "visit"} \X CellsOf(c, 1, Len(PartsOf(c))))
<1> DEFINE m == Len(PartsOf(c))
           n == 3 * m
           at(k) == (k + 2) \div 3
           step(k) == IF k % 3 = 1 THEN ClaimItem(ItemPath(path, at(k)), PartsOf(c)[at(k)].cell)
                      ELSE IF k % 3 = 2 THEN Visit(ItemPath(path, at(k)), PartsOf(c)[at(k)].cell)
                      ELSE Read(PartsOf(c)[at(k)].link)
           s == [k \in 1 .. n |-> step(k)]
           F == Fine(c)
           E == {"claim", "visit"} \X CellsOf(c, 1, m)
<1>1. /\ m \in Nat
      /\ \A i \in 1 .. m : PartsOf(c)[i].cell \in Cells /\ PartsOf(c)[i].link = "ok"
      /\ \A i, j \in 1 .. m : PartsOf(c)[i].cell = PartsOf(c)[j].cell => i = j
  BY PartFacts
<1>2. n \in Nat
  BY <1>1
<1>3. \A k \in 1 .. n : at(k) \in 1 .. m
  BY <1>1
<1>4. Info(c).kind \notin Owners
  BY DEF ItemKinds, Owners
<1>5. ASSUME NEW k \in 1 .. n
      PROVE  /\ step(k) \in F
             /\ k % 3 = 1 => step(k).op = "claim" /\ EventOf(step(k)) = <<"claim", PartsOf(c)[at(k)].cell>>
             /\ k % 3 = 2 => step(k).op = "visit" /\ EventOf(step(k)) = <<"visit", PartsOf(c)[at(k)].cell>>
             /\ k % 3 \notin {1, 2} => step(k).op = "read"
  <2> DEFINE q == ItemPath(path, at(k))
             d == PartsOf(c)[at(k)].cell
  <2>1. d \in Cells /\ PartsOf(c)[at(k)].link = "ok" /\ k % 3 \in 0 .. 2
    BY <1>1, <1>3
  <2>2. q \in Path /\ ~ is_root_or_deref(q)
    <3> DEFINE i == at(k)
    <3>1. i \in Nat \ {0}
      BY <1>1, <1>3
    <3> HIDE DEF i
    <3>2. ItemPath(path, i) \in Path /\ ~ is_root_or_deref(ItemPath(path, i))
      BY <3>1, Deeper, PathEnds
    <3>3. QED
      BY <3>2 DEF i
  <2>3. /\ k % 3 = 1 => step(k) = ClaimItem(q, d)
        /\ k % 3 = 2 => step(k) = Visit(q, d)
        /\ k % 3 \notin {1, 2} => step(k) = Read("ok")
    <3>1. ASSUME k % 3 = 1 PROVE step(k) = ClaimItem(q, d)
      BY <3>1
    <3>2. ASSUME k % 3 = 2 PROVE step(k) = Visit(q, d)
      BY <3>2
    <3>3. ASSUME k % 3 \notin {1, 2} PROVE step(k) = Read("ok")
      <4>1. k % 3 # 1 /\ k % 3 # 2
        BY <2>1, <3>3
      <4>2. step(k) = Read(PartsOf(c)[at(k)].link)
        BY <4>1
      <4>3. QED
        BY <2>1, <4>2
    <3>4. QED
      BY <3>1, <3>2, <3>3
  <2> HIDE DEF q, d, step, F
  <2>4. /\ Read("ok") \in Fine(c) /\ Read("ok").op = "read"
        /\ Visit(q, d) \in Fine(c) /\ Visit(q, d).op = "visit" /\ EventOf(Visit(q, d)) = <<"visit", d>>
        /\ ClaimItem(q, d) \in Fine(c) /\ ClaimItem(q, d).op = "claim" /\ EventOf(ClaimItem(q, d)) = <<"claim", d>>
    BY <1>4, <2>1, <2>2, FineSteps
  <2>5. QED
    BY <2>1, <2>3, <2>4 DEF d, F
<1>6. LinkedItems(c, path, Len(PartsOf(c))) = s
  BY DEF LinkedItems
<1>7. \A j, k \in 1 .. n : at(j) = at(k) /\ j % 3 = k % 3 => j = k
  BY <1>2
<1>8. \A i \in 1 .. m : /\ 3 * i - 2 \in 1 .. n /\ at(3 * i - 2) = i /\ (3 * i - 2) % 3 = 1
                     /\ 3 * i - 1 \in 1 .. n /\ at(3 * i - 1) = i /\ (3 * i - 1) % 3 = 2
  BY <1>1
<1> HIDE DEF step, at, n, F
<1>9. s \in [1 .. n -> F] /\ \A k \in 1 .. n : s[k] = step(k)
  BY <1>5
<1> HIDE DEF s
<1>10. ASSUME NEW k \in 1 .. n
       PROVE  /\ k % 3 = 1 => s[k].op = "claim" /\ EventOf(s[k]) = <<"claim", PartsOf(c)[at(k)].cell>>
              /\ k % 3 = 2 => s[k].op = "visit" /\ EventOf(s[k]) = <<"visit", PartsOf(c)[at(k)].cell>>
              /\ k % 3 \notin {1, 2} => s[k].op = "read"
  BY <1>5, <1>9
<1>11. ASSUME NEW k \in 1 .. n, s[k].op # "read" PROVE EventOf(s[k]) \in E
  BY <1>3, <1>10, <1>11 DEF CellsOf
<1>12. ASSUME NEW e \in E PROVE \E k \in 1 .. n : s[k].op # "read" /\ EventOf(s[k]) = e
  <2>1. PICK i \in 1 .. m : e = <<"claim", PartsOf(c)[i].cell>> \/ e = <<"visit", PartsOf(c)[i].cell>>
    BY DEF CellsOf
  <2> DEFINE j == 3 * i - 2
             k == 3 * i - 1
  <2>2. /\ j \in 1 .. n /\ at(j) = i /\ j % 3 = 1
        /\ k \in 1 .. n /\ at(k) = i /\ k % 3 = 2
    BY <1>8
  <2> HIDE DEF j, k
  <2>3. /\ s[j].op # "read" /\ EventOf(s[j]) = <<"claim", PartsOf(c)[i].cell>>
        /\ s[k].op # "read" /\ EventOf(s[k]) = <<"visit", PartsOf(c)[i].cell>>
    BY <1>10, <2>2
  <2>4. QED
    BY <2>1, <2>2, <2>3
<1>13. ASSUME NEW j \in 1 .. n, NEW k \in 1 .. n, s[j].op # "read", s[k].op # "read",
              EventOf(s[j]) = EventOf(s[k])
       PROVE  j = k
  <2>1. j % 3 = k % 3 /\ PartsOf(c)[at(j)].cell = PartsOf(c)[at(k)].cell
    BY <1>10, <1>13
  <2>2. QED
    BY <1>1, <1>3, <1>7, <2>1
<1> HIDE DEF E
<1>14. Does(s, F, E)
  BY <1>2, <1>9, <1>11, <1>12, <1>13, DoesAll
<1>15. QED
  BY <1>6, <1>14 DEF E, F, m

(* The buckets of a map, each with the control bytes read before it.        *)
Buckets(c, path) ==
    [k \in 1 .. 3 * Len(PartsOf(c)) |->
        LET i == (k + 2) \div 3
        IN IF k % 3 = 1 THEN Read(PartsOf(c)[i].link)
           ELSE IF k % 3 = 2 THEN ClaimItem(ItemPath(path, i), PartsOf(c)[i].cell)
           ELSE Visit(ItemPath(path, i), PartsOf(c)[i].cell)]
LEMMA BucketsDone ==
    ASSUME dump \in Dumps, NEW c \in Cells, Orderly(c), NEW path \in Path,
           Info(c).kind \in ItemKinds
    PROVE  Does(Buckets(c, path), Fine(c), {"claim", "visit"} \X CellsOf(c, 1, Len(PartsOf(c))))
<1> DEFINE m == Len(PartsOf(c))
           n == 3 * m
           at(k) == (k + 2) \div 3
           step(k) == IF k % 3 = 1 THEN Read(PartsOf(c)[at(k)].link)
                      ELSE IF k % 3 = 2 THEN ClaimItem(ItemPath(path, at(k)), PartsOf(c)[at(k)].cell)
                      ELSE Visit(ItemPath(path, at(k)), PartsOf(c)[at(k)].cell)
           s == [k \in 1 .. n |-> step(k)]
           F == Fine(c)
           E == {"claim", "visit"} \X CellsOf(c, 1, m)
<1>1. /\ m \in Nat
      /\ \A i \in 1 .. m : PartsOf(c)[i].cell \in Cells /\ PartsOf(c)[i].link = "ok"
      /\ \A i, j \in 1 .. m : PartsOf(c)[i].cell = PartsOf(c)[j].cell => i = j
  BY PartFacts
<1>2. n \in Nat
  BY <1>1
<1>3. \A k \in 1 .. n : at(k) \in 1 .. m
  BY <1>1
<1>4. Info(c).kind \notin Owners
  BY DEF ItemKinds, Owners
<1>5. ASSUME NEW k \in 1 .. n
      PROVE  /\ step(k) \in F
             /\ k % 3 = 2 => step(k).op = "claim" /\ EventOf(step(k)) = <<"claim", PartsOf(c)[at(k)].cell>>
             /\ k % 3 = 0 => step(k).op = "visit" /\ EventOf(step(k)) = <<"visit", PartsOf(c)[at(k)].cell>>
             /\ k % 3 \notin {2, 0} => step(k).op = "read"
  <2> DEFINE q == ItemPath(path, at(k))
             d == PartsOf(c)[at(k)].cell
  <2>1. d \in Cells /\ PartsOf(c)[at(k)].link = "ok" /\ k % 3 \in 0 .. 2
    BY <1>1, <1>3
  <2>2. q \in Path /\ ~ is_root_or_deref(q)
    <3> DEFINE i == at(k)
    <3>1. i \in Nat \ {0}
      BY <1>1, <1>3
    <3> HIDE DEF i
    <3>2. ItemPath(path, i) \in Path /\ ~ is_root_or_deref(ItemPath(path, i))
      BY <3>1, Deeper, PathEnds
    <3>3. QED
      BY <3>2 DEF i
  <2>3. /\ k % 3 = 2 => step(k) = ClaimItem(q, d)
        /\ k % 3 = 0 => step(k) = Visit(q, d)
        /\ k % 3 \notin {2, 0} => step(k) = Read("ok")
    <3>1. ASSUME k % 3 = 2 PROVE step(k) = ClaimItem(q, d)
      BY <3>1
    <3>2. ASSUME k % 3 = 0 PROVE step(k) = Visit(q, d)
      BY <3>2
    <3>3. ASSUME k % 3 \notin {2, 0} PROVE step(k) = Read("ok")
      <4>1. k % 3 = 1
        BY <2>1, <3>3
      <4>2. step(k) = Read(PartsOf(c)[at(k)].link)
        BY <4>1
      <4>3. QED
        BY <2>1, <4>2
    <3>4. QED
      BY <3>1, <3>2, <3>3
  <2> HIDE DEF q, d, step, F
  <2>4. /\ Read("ok") \in Fine(c) /\ Read("ok").op = "read"
        /\ Visit(q, d) \in Fine(c) /\ Visit(q, d).op = "visit" /\ EventOf(Visit(q, d)) = <<"visit", d>>
        /\ ClaimItem(q, d) \in Fine(c) /\ ClaimItem(q, d).op = "claim" /\ EventOf(ClaimItem(q, d)) = <<"claim", d>>
    BY <1>4, <2>1, <2>2, FineSteps
  <2>5. QED
    BY <2>1, <2>3, <2>4 DEF d, F
<1>6. Buckets(c, path) = s
  BY DEF Buckets
<1>7. \A j, k \in 1 .. n : at(j) = at(k) /\ j % 3 = k % 3 => j = k
  BY <1>2
<1>8. \A i \in 1 .. m : /\ 3 * i - 1 \in 1 .. n /\ at(3 * i - 1) = i /\ (3 * i - 1) % 3 = 2
                     /\ 3 * i \in 1 .. n /\ at(3 * i) = i /\ (3 * i) % 3 = 0
  BY <1>1
<1> HIDE DEF step, at, n, F
<1>9. s \in [1 .. n -> F] /\ \A k \in 1 .. n : s[k] = step(k)
  BY <1>5
<1> HIDE DEF s
<1>10. ASSUME NEW k \in 1 .. n
       PROVE  /\ k % 3 = 2 => s[k].op = "claim" /\ EventOf(s[k]) = <<"claim", PartsOf(c)[at(k)].cell>>
              /\ k % 3 = 0 => s[k].op = "visit" /\ EventOf(s[k]) = <<"visit", PartsOf(c)[at(k)].cell>>
              /\ k % 3 \notin {2, 0} => s[k].op = "read"
  BY <1>5, <1>9
<1>11. ASSUME NEW k \in 1 .. n, s[k].op # "read" PROVE EventOf(s[k]) \in E
  BY <1>3, <1>10, <1>11 DEF CellsOf
<1>12. ASSUME NEW e \in E PROVE \E k \in 1 .. n : s[k].op # "read" /\ EventOf(s[k]) = e
  <2>1. PICK i \in 1 .. m : e = <<"claim", PartsOf(c)[i].cell>> \/ e = <<"visit", PartsOf(c)[i].cell>>
    BY DEF CellsOf
  <2> DEFINE j == 3 * i - 1
             k == 3 * i
  <2>2. /\ j \in 1 .. n /\ at(j) = i /\ j % 3 = 2
        /\ k \in 1 .. n /\ at(k) = i /\ k % 3 = 0
    BY <1>8
  <2> HIDE DEF j, k
  <2>3. /\ s[j].op # "read" /\ EventOf(s[j]) = <<"claim", PartsOf(c)[i].cell>>
        /\ s[k].op # "read" /\ EventOf(s[k]) = <<"visit", PartsOf(c)[i].cell>>
    BY <1>10, <2>2
  <2>4. QED
    BY <2>1, <2>2, <2>3
<1>13. ASSUME NEW j \in 1 .. n, NEW k \in 1 .. n, s[j].op # "read", s[k].op # "read",
              EventOf(s[j]) = EventOf(s[k])
       PROVE  j = k
  <2>1. j % 3 = k % 3 /\ PartsOf(c)[at(j)].cell = PartsOf(c)[at(k)].cell
    BY <1>10, <1>13
  <2>2. QED
    BY <1>1, <1>3, <1>7, <2>1
<1> HIDE DEF E
<1>14. Does(s, F, E)
  BY <1>2, <1>9, <1>11, <1>12, <1>13, DoesAll
<1>15. QED
  BY <1>6, <1>14 DEF E, F, m

(* The elements of a ThinVector are only visited.                           *)
Elements(c, path) == [i \in 1 .. Len(PartsOf(c)) |-> Visit(ItemPath(path, i), PartsOf(c)[i].cell)]
LEMMA ElementsDone ==
    ASSUME dump \in Dumps, NEW c \in Cells, Orderly(c), NEW path \in Path,
           Info(c).kind \notin Owners
    PROVE  Does(Elements(c, path), Fine(c), {"visit"} \X CellsOf(c, 1, Len(PartsOf(c))))
<1> DEFINE m == Len(PartsOf(c))
           step(k) == Visit(ItemPath(path, k), PartsOf(c)[k].cell)
           s == [k \in 1 .. m |-> step(k)]
           F == Fine(c)
           E == {"visit"} \X CellsOf(c, 1, m)
<1>1. /\ m \in Nat
      /\ \A i \in 1 .. m : PartsOf(c)[i].cell \in Cells
      /\ \A i, j \in 1 .. m : PartsOf(c)[i].cell = PartsOf(c)[j].cell => i = j
  BY PartFacts
<1>2. ASSUME NEW k \in 1 .. m
      PROVE  step(k) \in F /\ step(k).op = "visit" /\ EventOf(step(k)) = <<"visit", PartsOf(c)[k].cell>>
  <2> DEFINE q == ItemPath(path, k)
             d == PartsOf(c)[k].cell
  <2>1. d \in Cells /\ k \in Nat \ {0}
    BY <1>1
  <2>2. q \in Path /\ ~ is_root_or_deref(q)
    BY <2>1, Deeper, PathEnds
  <2>3. step(k) = Visit(q, d)
    OBVIOUS
  <2> HIDE DEF q, d, step, F
  <2>4. Visit(q, d) \in Fine(c) /\ Visit(q, d).op = "visit" /\ EventOf(Visit(q, d)) = <<"visit", d>>
    BY <2>1, <2>2, FineSteps
  <2>5. QED
    BY <2>3, <2>4 DEF d, F
<1>3. Elements(c, path) = s
  BY DEF Elements
<1> HIDE DEF step, F
<1>4. s \in [1 .. m -> F] /\ \A k \in 1 .. m : s[k] = step(k)
  BY <1>2
<1> HIDE DEF s
<1>5. \A k \in 1 .. m : s[k].op # "read" /\ EventOf(s[k]) = <<"visit", PartsOf(c)[k].cell>> /\ EventOf(s[k]) \in E
  BY <1>2, <1>4 DEF CellsOf
<1>6. ASSUME NEW e \in E PROVE \E k \in 1 .. m : s[k].op # "read" /\ EventOf(s[k]) = e
  BY <1>5 DEF CellsOf
<1>7. ASSUME NEW j \in 1 .. m, NEW k \in 1 .. m, EventOf(s[j]) = EventOf(s[k]) PROVE j = k
  <2>1. PartsOf(c)[j].cell = PartsOf(c)[k].cell
    BY <1>5, <1>7
  <2>2. QED
    BY <1>1, <2>1
<1> HIDE DEF E, m
<1>8. m \in Nat
  BY <1>1 DEF m
<1>9. Does(s, F, E)
  BY <1>4, <1>5, <1>6, <1>7, <1>8, DoesAll
<1>10. QED
  BY <1>3, <1>9 DEF E, F, m

LEMMA DoesThen ==
    ASSUME NEW F, NEW s, NEW t, NEW E, Does(s, F, {}), Does(t, F, E)
    PROVE  Does(s \o t, F, E)
<1>1. {} \cap E = {} /\ {} \cup E = E
  OBVIOUS
<1>2. Does(s \o t, F, {} \cup E)
  BY <1>1, DoesBoth
<1>3. QED
  BY <1>1, <1>2

LEMMA ThenDoes ==
    ASSUME NEW F, NEW s, NEW t, NEW E, Does(s, F, E), Does(t, F, {})
    PROVE  Does(s \o t, F, E)
<1>1. E \cap {} = {} /\ E \cup {} = E
  OBVIOUS
<1>2. Does(s \o t, F, E \cup {})
  BY <1>1, DoesBoth
<1>3. QED
  BY <1>1, <1>2

(* What the visit of `c` leads to, by the kind of `c`.                      *)
LEMMA OwnedIs ==
    ASSUME dump \in Dumps, NEW c \in Cells
    PROVE  /\ Info(c).kind \in PartKinds =>
                Owned(c) = CellsOf(c, 1, Len(PartsOf(c))) /\ Shared(c) = {}
           /\ Info(c).kind \in Owners => Owned(c) = {Info(c).target} \ {Null} /\ Shared(c) = {}
           /\ Info(c).kind \notin PartKinds \cup Owners => Owned(c) = {}
           /\ Info(c).kind \in ItemKinds => ItemsOf(c) = CellsOf(c, 1, Len(PartsOf(c)))
           /\ Info(c).kind \notin ItemKinds => ItemsOf(c) = {}
           /\ Info(c).kind \notin SharedKinds => Shared(c) = {}
           /\ Info(c).kind # "CppSharedPtr" => Info(c).count = Null
           /\ Info(c).count # Null => Info(c).count # Info(c).target
           /\ Info(c).kind \in Kinds
           /\ Info(c).target \in Cells \cup {Null} /\ Info(c).count \in Cells \cup {Null}
<1>1. Encoded(Info(c)) /\ Info(c) \in CellInfo
  BY WalkAssumption, DumpTypes DEF Info
<1>2. /\ Info(c).kind \notin PartKinds => PartsOf(c) = <<>>
      /\ Info(c).kind # "CppSharedPtr" => Info(c).count = Null
      /\ Info(c).count # Null => Info(c).count # Info(c).target
  BY <1>1 DEF Encoded, PartsOf
<1>3. DOMAIN PartsOf(c) = 1 .. Len(PartsOf(c))
  BY DumpTypes, LenProperties
<1>4. {p.cell : p \in InRange(PartsOf(c))} = CellsOf(c, 1, Len(PartsOf(c)))
  BY <1>3 DEF InRange, CellsOf
<1>5. Info(c).kind \notin PartKinds => {p.cell : p \in InRange(PartsOf(c))} = {}
  BY <1>2 DEF InRange
<1>6. /\ Info(c).kind \in PartKinds => Info(c).kind \notin Owners \cup SharedKinds
      /\ Info(c).kind \in Owners => Info(c).kind \notin SharedKinds \cup PartKinds
  BY DEF PartKinds, FieldKinds, Owners, SharedKinds
<1>7. Info(c).kind \notin SharedKinds => Shared(c) = {}
  BY DEF Shared
<1>8. /\ Info(c).kind \in Kinds
      /\ Info(c).target \in Cells \cup {Null} /\ Info(c).count \in Cells \cup {Null}
  BY <1>1 DEF CellInfo
<1>9. Info(c).kind \in PartKinds => Owned(c) = CellsOf(c, 1, Len(PartsOf(c))) /\ Shared(c) = {}
  BY <1>4, <1>6, <1>7 DEF Owned
<1>10. Info(c).kind \in Owners => Owned(c) = {Info(c).target} \ {Null} /\ Shared(c) = {}
  BY <1>5, <1>6, <1>7 DEF Owned
<1>11. Info(c).kind \notin PartKinds \cup Owners => Owned(c) = {}
  BY <1>5 DEF Owned
<1>12. /\ Info(c).kind \in ItemKinds => ItemsOf(c) = CellsOf(c, 1, Len(PartsOf(c)))
       /\ Info(c).kind \notin ItemKinds => ItemsOf(c) = {}
  BY <1>4 DEF ItemsOf
<1>13. QED
  BY <1>2, <1>7, <1>8, <1>9, <1>10, <1>11, <1>12

(* No lookup fails in a cell in order.                                      *)
LEMMA OpeningIs ==
    ASSUME NEW c, Orderly(c), Info(c).kind \notin {"prim", "struct"}
    PROVE  Opening(c) = "ok"
<1>1. Info(c).sound /\ ~Info(c).overflows /\ Info(c).readable = "ok"
  BY DEF Orderly, Malformed
<1>2. Info(c).kind \in {"AllocVec", "HashbrownMap"} => Info(c).named
  BY DEF Orderly, Malformed, ByName
<1>3. Info(c).kind \in {"AllocVec", "CppVector", "ThinVector"} => Info(c).sized
  BY DEF Orderly, Malformed, BySize
<1>4. ~NoSuchItems(Info(c))
  BY <1>2, <1>3 DEF NoSuchItems
<1>5. QED
  BY <1>1, <1>2, <1>4 DEF Opening, Panics

LEMMA ReadsDone ==
    ASSUME dump \in Dumps, NEW c \in Cells, Orderly(c)
    PROVE  /\ Info(c).kind \notin {"prim", "struct"} => Does(<<Read(Opening(c))>>, Fine(c), {})
           /\ Does(<<Read(Info(c).buf.readable)>>, Fine(c), {})
<1> DEFINE F == Fine(c)
<1>1. Read("ok") \in F /\ Read("ok").op = "read"
  BY DEF Fine, StepType, Read, Outcomes
<1> HIDE DEF F
<1>2. Does(<<Read("ok")>>, F, {})
  BY <1>1, DoesRead
<1>3. Info(c).kind \notin {"prim", "struct"} => Opening(c) = "ok"
  BY OpeningIs
<1>4. Info(c).buf.readable = "ok"
  BY DEF Orderly
<1>5. QED
  BY <1>2, <1>3, <1>4 DEF F

LEMMA OneEvent ==
    ASSUME dump \in Dumps, NEW c \in Cells, NEW path \in Path, NEW d \in Cells
    PROVE  /\ Does(<<VisitOnce(path, d)>>, Fine(c), {<<"once", d>>})
           /\ (is_root_or_deref(path) <=> Info(c).kind \in Owners)
                => Does(<<Visit(path, d)>>, Fine(c), {<<"visit", d>>})
<1> DEFINE F == Fine(c)
           v == Visit(path, d)
           o == VisitOnce(path, d)
<1>1. /\ o \in F /\ o.op = "once" /\ EventOf(o) = <<"once", d>>
      /\ v.op = "visit" /\ EventOf(v) = <<"visit", d>>
      /\ (is_root_or_deref(path) <=> Info(c).kind \in Owners) => v \in F
  BY FineSteps
<1> HIDE DEF F, v, o
<1>2. Does(<<o>>, F, {<<"once", d>>})
  BY <1>1, DoesOne
<1>3. (is_root_or_deref(path) <=> Info(c).kind \in Owners) => Does(<<v>>, F, {<<"visit", d>>})
  BY <1>1, DoesOne
<1>4. QED
  BY <1>2, <1>3 DEF F, v, o
LEMMA InTurn == ASSUME NEW a, NEW b PROVE <<a, b>> = <<a>> \o <<b>>
<1> DEFINE S == {a, b}
           p == <<a, b>>
           q == <<a>>
           r == <<b>>
<1>1. /\ p \in Seq(S) /\ Len(p) = 2 /\ p[1] = a /\ p[2] = b
      /\ q \in Seq(S) /\ Len(q) = 1 /\ q[1] = a
      /\ r \in Seq(S) /\ Len(r) = 1 /\ r[1] = b
  OBVIOUS
<1> HIDE DEF S, p, q, r
<1>2. q \o r \in Seq(S) /\ Len(q \o r) = 2 /\ \A i \in 1 .. 2 : (q \o r)[i] = IF i <= 1 THEN q[i] ELSE r[i - 1]
  <2>1. /\ q \o r \in Seq(S) /\ Len(q \o r) = Len(q) + Len(r)
        /\ \A i \in 1 .. Len(q) + Len(r) : (q \o r)[i] = IF i <= Len(q) THEN q[i] ELSE r[i - Len(q)]
    BY <1>1, ConcatProperties
  <2>2. Len(q) + Len(r) = 2
    BY <1>1
  <2>3. QED
    BY <1>1, <2>1, <2>2
<1>3. \A i \in 1 .. 2 : p[i] = (q \o r)[i]
  BY <1>1, <1>2
<1>4. p = q \o r
  BY <1>1, <1>2, <1>3, SeqEqual
<1>5. QED
  BY <1>4 DEF p, q, r

LEMMA OwnerDone ==
    ASSUME dump \in Dumps, NEW c \in Cells, Orderly(c), NEW path \in Path,
           Info(c).kind \in Owners
    PROVE  /\ Does(OwnerSteps(c, path), Fine(c), {"visit"} \X Owned(c))
           /\ Info(c).kind = "AllocRc" => Does(AllocRcSteps(c, path), Fine(c), {"visit"} \X Owned(c))
<1> DEFINE F == Fine(c)
           t == Info(c).target
           rd == <<Read(Opening(c))>>
           vs == <<Visit(Append(path, Deref), t)>>
           E == {"visit"} \X Owned(c)
<1>1. t \in Cells \cup {Null} /\ Owned(c) = {t} \ {Null}
  BY OwnedIs
<1>2. Does(rd, F, {})
  BY ReadsDone DEF Owners
<1>3. t # Null => Does(vs, F, E)
  <2> SUFFICES ASSUME t # Null PROVE Does(vs, F, E)
    OBVIOUS
  <2>1. t \in Cells /\ E = {<<"visit", t>>}
    BY <1>1
  <2>2. Append(path, Deref) \in Path /\ is_root_or_deref(Append(path, Deref))
    BY Deeper, PathEnds
  <2>3. Does(vs, F, {<<"visit", t>>})
    BY <2>1, <2>2, OneEvent
  <2>4. QED
    BY <2>1, <2>3
<1>4. t = Null => E = {}
  BY <1>1
<1>5. Info(c).kind = "AllocRc" => t # Null
  BY DumpTypes
<1>6. OwnerSteps(c, path) = rd \o When(t # Null, vs)
  BY DEF OwnerSteps
<1>7. AllocRcSteps(c, path) = rd \o vs
  <2> DEFINE a == Read(Opening(c))
             b == Visit(Append(path, Deref), t)
  <2>1. AllocRcSteps(c, path) = <<a, b>>
    BY DEF AllocRcSteps
  <2> HIDE DEF a, b
  <2>2. <<a, b>> = <<a>> \o <<b>>
    BY InTurn
  <2>3. QED
    BY <2>1, <2>2 DEF a, b
<1> HIDE DEF F, t, rd, vs, E
<1>8. Does(When(t # Null, vs), F, E)
  <2>1. Does(When(t # Null, vs), F, IF t # Null THEN E ELSE {})
    BY <1>3, DoesWhen
  <2>2. QED
    BY <1>4, <2>1
<1>9. Does(rd \o When(t # Null, vs), F, E) /\ (t # Null => Does(rd \o vs, F, E))
  BY <1>2, <1>3, <1>8, DoesThen
<1>10. QED
  BY <1>5, <1>6, <1>7, <1>9 DEF F, E

LEMMA OnceDone ==
    ASSUME dump \in Dumps, NEW c \in Cells, Orderly(c), NEW path \in Path
    PROVE  /\ Info(c).kind = "CppSharedPtr" => Does(CppSharedPtrSteps(c, path), Fine(c), {"once"} \X Shared(c))
           /\ Info(c).kind = "rc_ptr" => Does(rc_ptrSteps(c, path), Fine(c), {"once"} \X Shared(c))
<1> SUFFICES ASSUME Info(c).kind \in SharedKinds
             PROVE  /\ Info(c).kind = "CppSharedPtr" => Does(CppSharedPtrSteps(c, path), Fine(c), {"once"} \X Shared(c))
                    /\ Info(c).kind = "rc_ptr" => Does(rc_ptrSteps(c, path), Fine(c), {"once"} \X Shared(c))
  BY DEF SharedKinds
<1> DEFINE F == Fine(c)
           t == Info(c).target
           n == Info(c).count
           rd == <<Read(Opening(c))>>
           os == <<VisitOnce(path \o <<Field("data"), Deref>>, t)>>
           cs == <<VisitOnce(path \o <<Field("refcount"), Deref>>, n)>>
           rs == <<VisitOnce(Append(path, Deref), t)>>
           E == {"once"} \X ({t} \ {Null})
           G == {"once"} \X ({n} \ {Null})
<1>1. /\ t \in Cells \cup {Null} /\ n \in Cells \cup {Null} /\ Shared(c) = {t, n} \ {Null}
      /\ n # Null => n # t
      /\ Info(c).kind # "CppSharedPtr" => n = Null
  BY OwnedIs DEF Shared
<1>2. Does(rd, F, {})
  BY ReadsDone DEF SharedKinds
<1>3. t # Null => Does(os, F, E) /\ Does(rs, F, E)
  <2> SUFFICES ASSUME t # Null PROVE Does(os, F, E) /\ Does(rs, F, E)
    OBVIOUS
  <2>1. t \in Cells /\ E = {<<"once", t>>}
    BY <1>1
  <2>2. Append(path, Deref) \in Path /\ path \o <<Field("data"), Deref>> \in Path
    BY Deeper
  <2>3. Does(os, F, {<<"once", t>>}) /\ Does(rs, F, {<<"once", t>>})
    BY <2>1, <2>2, OneEvent
  <2>4. QED
    BY <2>1, <2>3
<1>4. n # Null => Does(cs, F, G)
  <2> SUFFICES ASSUME n # Null PROVE Does(cs, F, G)
    OBVIOUS
  <2>1. n \in Cells /\ G = {<<"once", n>>}
    BY <1>1
  <2>2. path \o <<Field("refcount"), Deref>> \in Path
    BY Deeper
  <2>3. Does(cs, F, {<<"once", n>>})
    BY <2>1, <2>2, OneEvent
  <2>4. QED
    BY <2>1, <2>3
<1>5. (t = Null => E = {}) /\ (n = Null => G = {}) /\ E \cap G = {} /\ {"once"} \X Shared(c) = E \cup G
  BY <1>1
<1>6. CppSharedPtrSteps(c, path) = (rd \o When(t # Null, os)) \o When(n # Null, cs)
  BY DEF CppSharedPtrSteps
<1>7. rc_ptrSteps(c, path) = rd \o When(t # Null, rs)
  BY DEF rc_ptrSteps
<1> HIDE DEF F, t, n, rd, os, cs, rs, E, G
<1>8. Does(When(t # Null, os), F, E) /\ Does(When(t # Null, rs), F, E) /\ Does(When(n # Null, cs), F, G)
  <2>1. /\ Does(When(t # Null, os), F, IF t # Null THEN E ELSE {})
        /\ Does(When(t # Null, rs), F, IF t # Null THEN E ELSE {})
        /\ Does(When(n # Null, cs), F, IF n # Null THEN G ELSE {})
    BY <1>3, <1>4, DoesWhen
  <2>2. QED
    BY <1>5, <2>1
<1>9. Does(rd \o When(t # Null, os), F, E) /\ Does(rd \o When(t # Null, rs), F, E)
  BY <1>2, <1>8, DoesThen
<1>10. Does((rd \o When(t # Null, os)) \o When(n # Null, cs), F, E \cup G)
  BY <1>5, <1>8, <1>9, DoesBoth
<1>11. Info(c).kind = "rc_ptr" => G = {}
  BY <1>1, <1>5
<1>12. QED
  BY <1>5, <1>6, <1>7, <1>9, <1>10, <1>11 DEF F

LEMMA ContainersDone ==
    ASSUME dump \in Dumps, NEW c \in Cells, Orderly(c), NEW path \in Path,
           Info(c).kind \in ItemKinds, NEW E, E = {"claim", "visit"} \X CellsOf(c, 1, Len(PartsOf(c)))
    PROVE  /\ Info(c).kind = "CppVector" => Does(CppVectorSteps(c, path), Fine(c), E)
           /\ Info(c).kind = "AllocVec" => Does(AllocVecSteps(c, path), Fine(c), E)
           /\ Info(c).kind = "CppMap" => Does(CppMapSteps(c, path), Fine(c), E)
           /\ Info(c).kind = "CppUnorderedMap" => Does(CppUnorderedMapSteps(c, path), Fine(c), E)
           /\ Info(c).kind = "HashbrownMap" => Does(HashbrownMapSteps(c, path), Fine(c), E)
<1> DEFINE F == Fine(c)
           rd == <<Read(Opening(c))>>
           rb == <<Read(Info(c).buf.readable)>>
           m == Len(PartsOf(c))
<1>1. /\ Does(Items(c, path), F, E)
      /\ Does(LinkedItems(c, path, m), F, E)
      /\ Does(Buckets(c, path), F, E)
  BY ItemsDone, LinkedItemsDone, BucketsDone
<1>2. Does(rd, F, {}) /\ Does(rb, F, {})
  BY ReadsDone DEF ItemKinds
<1>3. Info(c).sane = TRUE
  BY DumpTypes DEF Orderly, Malformed, CellInfo
<1>4. Info(c).kind \in {"CppMap", "CppUnorderedMap"} => Info(c).len = m
  BY DEF Orderly, Malformed
<1>5. m \in Nat
  BY DumpTypes
<1>6. CppVectorSteps(c, path) = rd \o Items(c, path)
  BY <1>3 DEF CppVectorSteps, When
<1>7. AllocVecSteps(c, path) = rd \o Items(c, path)
  BY <1>3 DEF AllocVecSteps
<1>8. Info(c).kind = "CppMap" => CppMapSteps(c, path) = rd \o LinkedItems(c, path, m)
  BY <1>4, <1>5 DEF CppMapSteps
<1>9. Info(c).kind = "CppUnorderedMap" => CppUnorderedMapSteps(c, path) = rd \o LinkedItems(c, path, m)
  BY <1>4, <1>5 DEF CppUnorderedMapSteps
<1>10. HashbrownMapSteps(c, path) = (rd \o Buckets(c, path)) \o rb
  BY DEF HashbrownMapSteps, Buckets
<1> DEFINE items == Items(c, path)
           linked == LinkedItems(c, path, m)
           buckets == Buckets(c, path)
<1> HIDE DEF F, rd, rb, m, items, linked, buckets
<1>11. /\ Does(rd \o items, F, E) /\ Does(rd \o linked, F, E)
       /\ Does((rd \o buckets) \o rb, F, E)
  <2>1. Does(items, F, E) /\ Does(linked, F, E) /\ Does(buckets, F, E)
    BY <1>1 DEF items, linked, buckets
  <2>2. Does(rd \o items, F, E) /\ Does(rd \o linked, F, E) /\ Does(rd \o buckets, F, E)
    BY <1>2, <2>1, DoesThen
  <2>3. Does((rd \o buckets) \o rb, F, E)
    BY <1>2, <2>2, ThenDoes
  <2>4. QED
    BY <2>2, <2>3
<1>12. QED
  BY <1>6, <1>7, <1>8, <1>9, <1>10, <1>11 DEF F, items, linked, buckets
(* The steps of their own that the handlers of strings and unions have.     *)
LEMMA OwnStepsDo ==
    ASSUME dump \in Dumps, NEW c \in Cells, NEW path \in Path
    PROVE  /\ Info(c).kind \in StringKinds =>
                Does(<<Raw(path, Info(c).buf.addr, Info(c).buf.len, TRUE)>>, Fine(c), {<<"raw", Null>>})
           /\ Info(c).kind = "ThinVector" =>
                Does(<<Raw(path, Info(c).buf.addr, Info(c).buf.cap, FALSE)>>, Fine(c), {<<"raw", Null>>})
           /\ Does(<<RawOnce(path, Info(c).buf.addr, Info(c).size + Info(c).buf.len)>>, Fine(c),
                   {<<"rawonce", Null>>})
           /\ Info(c).variant # Null =>
                Does(<<Count(Info(c).ty, Field(Info(c).variant))>>, Fine(c), {<<"count", Null>>})
<1> DEFINE F == Fine(c)
           r == Raw(path, Info(c).buf.addr, Info(c).buf.len, TRUE)
           t == Raw(path, Info(c).buf.addr, Info(c).buf.cap, FALSE)
           o == RawOnce(path, Info(c).buf.addr, Info(c).size + Info(c).buf.len)
           n == Count(Info(c).ty, Field(Info(c).variant))
<1>1. /\ Info(c).buf.addr \in Nat /\ Info(c).buf.len \in Nat /\ Info(c).buf.cap \in Nat
      /\ Info(c).size \in Nat /\ Info(c).ty \in Types
      /\ Info(c).variant # Null => Info(c).variant \in FieldNames
  BY DumpTypes DEF CellInfo, Buffer
<1>2. Info(c).kind \in StringKinds => r \in F
  BY <1>1 DEF Fine, StepType, Raw
<1>3. Info(c).kind = "ThinVector" => t \in F
  <2> SUFFICES ASSUME Info(c).kind = "ThinVector" PROVE t \in F
    OBVIOUS
  <2>1. /\ t \in StepType /\ t.op = "raw" /\ t.addr = Info(c).buf.addr /\ t.size = Info(c).buf.cap
        /\ t.assoc = FALSE
    BY <1>1 DEF StepType, Raw
  <2>2. (Info(c).kind \in StringKinds) = FALSE
    BY DEF StringKinds
  <2> HIDE DEF t
  <2>3. QED
    BY <2>1, <2>2 DEF Fine
<1>4. o \in F
  BY <1>1 DEF Fine, StepType, RawOnce
<1>5. Info(c).variant # Null => n \in F
  BY <1>1 DEF Fine, StepType, Count, Field, Node
<1>6. /\ r.op = "raw" /\ EventOf(r) = <<"raw", Null>>
      /\ t.op = "raw" /\ EventOf(t) = <<"raw", Null>>
      /\ o.op = "rawonce" /\ EventOf(o) = <<"rawonce", Null>>
      /\ n.op = "count" /\ EventOf(n) = <<"count", Null>>
  BY DEF EventOf, CellOps, Raw, RawOnce, Count
<1> HIDE DEF F, r, t, o, n
<1>7. /\ r \in F => Does(<<r>>, F, {<<"raw", Null>>})
      /\ t \in F => Does(<<t>>, F, {<<"raw", Null>>})
      /\ o \in F => Does(<<o>>, F, {<<"rawonce", Null>>})
      /\ n \in F => Does(<<n>>, F, {<<"count", Null>>})
  <2>1. \A e \in F : e.op # "read" => Does(<<e>>, F, {EventOf(e)})
    BY DoesOne
  <2>2. QED
    BY <1>6, <2>1
<1>8. QED
  BY <1>2, <1>3, <1>4, <1>5, <1>7 DEF F, r, t, o, n

LEMMA StringHandlersDo ==
    ASSUME dump \in Dumps, NEW c \in Cells, Orderly(c), NEW path \in Path
    PROVE  /\ Info(c).kind = "CppString" =>
                Does(CppStringSteps(c, path), Fine(c), IF Info(c).buf.cap # 0 THEN {<<"raw", Null>>} ELSE {})
           /\ Info(c).kind = "AllocString" =>
                Does(AllocStringSteps(c, path), Fine(c), IF Info(c).buf.addr # 0 THEN {<<"raw", Null>>} ELSE {})
           /\ Info(c).kind = "RcString" =>
                Does(RcStringSteps(c, path), Fine(c), IF Info(c).buf.addr # 0 THEN {<<"rawonce", Null>>} ELSE {})
           /\ Info(c).kind = "ThinVector" =>
                Does(ThinVectorSteps(c, path), Fine(c),
                     {<<"raw", Null>>} \cup ({"visit"} \X CellsOf(c, 1, Len(PartsOf(c)))))
<1> SUFFICES ASSUME Info(c).kind \in StringKinds \cup LooseKinds
    PROVE  /\ Info(c).kind = "CppString" =>
                Does(CppStringSteps(c, path), Fine(c), IF Info(c).buf.cap # 0 THEN {<<"raw", Null>>} ELSE {})
           /\ Info(c).kind = "AllocString" =>
                Does(AllocStringSteps(c, path), Fine(c), IF Info(c).buf.addr # 0 THEN {<<"raw", Null>>} ELSE {})
           /\ Info(c).kind = "RcString" =>
                Does(RcStringSteps(c, path), Fine(c), IF Info(c).buf.addr # 0 THEN {<<"rawonce", Null>>} ELSE {})
           /\ Info(c).kind = "ThinVector" =>
                Does(ThinVectorSteps(c, path), Fine(c),
                     {<<"raw", Null>>} \cup ({"visit"} \X CellsOf(c, 1, Len(PartsOf(c)))))
  BY DEF StringKinds, LooseKinds
<1> DEFINE F == Fine(c)
           rd == <<Read(Opening(c))>>
           rb == <<Read(Info(c).buf.readable)>>
           q  == Append(path, Deref)
           str == <<Raw(q, Info(c).buf.addr, Info(c).buf.len, TRUE)>>
           loose == <<Raw(path, Info(c).buf.addr, Info(c).buf.cap, FALSE)>>
           once == <<RawOnce(path, Info(c).buf.addr, Info(c).size + Info(c).buf.len)>>
           elems == Elements(c, path)
           E == {<<"raw", Null>>}
           O == {<<"rawonce", Null>>}
           V == {"visit"} \X CellsOf(c, 1, Len(PartsOf(c)))
           b == Info(c).buf
<1>1. Does(rd, F, {}) /\ Does(rb, F, {})
  BY ReadsDone DEF StringKinds, LooseKinds
<1>2. /\ Info(c).kind \in StringKinds => Does(str, F, E)
      /\ Info(c).kind = "ThinVector" => Does(loose, F, E)
      /\ Does(once, F, O)
  <2>1. q \in Path
    BY Deeper
  <2> HIDE DEF q
  <2>2. Info(c).kind \in StringKinds => Does(str, F, E)
    BY <2>1, OwnStepsDo
  <2>3. (Info(c).kind = "ThinVector" => Does(loose, F, E)) /\ Does(once, F, O)
    BY OwnStepsDo
  <2>4. QED
    BY <2>2, <2>3
<1>3. Info(c).kind = "ThinVector" => Does(elems, F, V)
  BY ElementsDone DEF Owners
<1>4. Info(c).sane = TRUE
  BY DumpTypes DEF Orderly, Malformed, CellInfo
<1>5. CppStringSteps(c, path) =
        ((rd \o When(FALSE, <<Panic>>)) \o When(b.addr # 0, rb)) \o When(b.cap # 0, str)
  BY <1>4 DEF CppStringSteps
<1>6. AllocStringSteps(c, path) = rd \o When(b.addr # 0, rb \o str)
  <2> DEFINE x == Read(Info(c).buf.readable)
             y == Raw(q, Info(c).buf.addr, Info(c).buf.len, TRUE)
  <2>1. AllocStringSteps(c, path) = rd \o When(b.addr # 0, <<x, y>>) /\ rb = <<x>> /\ str = <<y>>
    BY DEF AllocStringSteps
  <2> HIDE DEF x, y, rd, rb, str, b
  <2>2. <<x, y>> = <<x>> \o <<y>>
    BY InTurn
  <2>3. QED
    BY <2>1, <2>2
<1>7. RcStringSteps(c, path) = rd \o When(b.addr # 0, rb \o once)
  <2> DEFINE x == Read(Info(c).buf.readable)
             y == RawOnce(path, Info(c).buf.addr, Info(c).size + Info(c).buf.len)
  <2>1. RcStringSteps(c, path) = rd \o When(b.addr # 0, <<x, y>>) /\ rb = <<x>> /\ once = <<y>>
    BY DEF RcStringSteps
  <2> HIDE DEF x, y, rd, rb, once, b
  <2>2. <<x, y>> = <<x>> \o <<y>>
    BY InTurn
  <2>3. QED
    BY <2>1, <2>2
<1>8. ThinVectorSteps(c, path) = ((rd \o When(b.addr # 0, rb)) \o loose) \o elems
  BY DEF ThinVectorSteps, Elements
<1>9. E \cap V = {}
  OBVIOUS
<1> HIDE DEF F, rd, rb, str, loose, once, elems, E, O, V, b
<1>10. ASSUME NEW s, NEW cond, NEW D, cond => Does(s, F, D)
       PROVE  Does(When(cond, s), F, IF cond THEN D ELSE {})
  BY <1>10, DoesWhen
<1>11. Info(c).kind \in StringKinds =>
         /\ Does(When(b.cap # 0, str), F, IF b.cap # 0 THEN E ELSE {})
         /\ Does(When(b.addr # 0, rb \o str), F, IF b.addr # 0 THEN E ELSE {})
  <2>1. Info(c).kind \in StringKinds => Does(rb \o str, F, E)
    BY <1>1, <1>2, DoesThen
  <2>2. QED
    BY <1>2, <1>10, <2>1
<1>12. Does(When(b.addr # 0, rb \o once), F, IF b.addr # 0 THEN O ELSE {})
  <2>1. Does(rb \o once, F, O)
    BY <1>1, <1>2, DoesThen
  <2>2. QED
    BY <1>10, <2>1
<1>13. \A cond : Does(When(cond, rb), F, {})
  <2>1. ASSUME NEW cond PROVE Does(When(cond, rb), F, {})
    <3>1. Does(When(cond, rb), F, IF cond THEN {} ELSE {})
      BY <1>1, <1>10
    <3>2. QED
      BY <3>1
  <2>2. QED
    BY <2>1
<1>14. Does(When(FALSE, <<Panic>>), F, {})
  BY DoesNothing DEF When
<1>15. ASSUME NEW s, NEW t, NEW D, Does(s, F, {}), Does(t, F, D) PROVE Does(s \o t, F, D)
  BY <1>15, DoesThen
<1>16. Info(c).kind = "CppString" => Does(CppStringSteps(c, path), F, IF b.cap # 0 THEN E ELSE {})
  <2>1. Does(rd \o When(FALSE, <<Panic>>), F, {})
    BY <1>1, <1>14, <1>15
  <2>2. Does((rd \o When(FALSE, <<Panic>>)) \o When(b.addr # 0, rb), F, {})
    BY <2>1, <1>13, <1>15
  <2>3. QED
    BY <1>5, <1>11, <1>15, <2>2 DEF StringKinds
<1>17. Info(c).kind = "AllocString" => Does(AllocStringSteps(c, path), F, IF b.addr # 0 THEN E ELSE {})
  BY <1>1, <1>6, <1>11, <1>15 DEF StringKinds
<1>18. Does(RcStringSteps(c, path), F, IF b.addr # 0 THEN O ELSE {})
  BY <1>1, <1>7, <1>12, <1>15
<1>19. Info(c).kind = "ThinVector" => Does(ThinVectorSteps(c, path), F, E \cup V)
  <2> SUFFICES ASSUME Info(c).kind = "ThinVector" PROVE Does(ThinVectorSteps(c, path), F, E \cup V)
    OBVIOUS
  <2> DEFINE rs == rd \o When(b.addr # 0, rb)
  <2>1. Does(rs, F, {})
    BY <1>1, <1>13, <1>15
  <2> HIDE DEF rs
  <2>2. Does(rs \o loose, F, E)
    BY <1>2, <1>15, <2>1
  <2>3. Does((rs \o loose) \o elems, F, E \cup V)
    BY <1>3, <1>9, <2>2, DoesBoth
  <2>4. QED
    BY <1>8, <2>3 DEF rs
<1>20. QED
  BY <1>16, <1>17, <1>18, <1>19 DEF F, E, O, V, b
LEMMA UnionsDone ==
    ASSUME dump \in Dumps, NEW c \in Cells, Orderly(c), NEW path \in Path,
           Info(c).kind \in FieldKinds, NEW V, V = {"visit"} \X CellsOf(c, 1, Len(PartsOf(c))),
           NEW N, N = IF Info(c).variant # Null THEN {<<"count", Null>>} ELSE {}
    PROVE  /\ Info(c).kind = "struct" => Does(StructSteps(c, path), Fine(c), V)
           /\ Info(c).kind = "MrTaggedUnion" => Does(MrTaggedUnionSteps(c, path), Fine(c), N \cup V)
           /\ Info(c).kind = "TaggedUnion" => Does(TaggedUnionSteps(c, path), Fine(c), N \cup V)
<1> DEFINE F == Fine(c)
           m == Len(PartsOf(c))
           out == Info(c).outer
           v == Info(c).variant
           rd == <<Read(Opening(c))>>
           cnt == <<Count(Info(c).ty, Field(v))>>
           all == VisitParts(c, path, 1, m)
           first == VisitParts(c, path, 1, out)
           second == VisitParts(c, path, out + 1, m)
           A == {"visit"} \X CellsOf(c, 1, out)
           B == {"visit"} \X CellsOf(c, out + 1, m)
           C == {<<"count", Null>>}
<1>1. m \in Nat /\ out \in 0 .. m /\ out + 1 \in Nat \ {0}
  BY DumpTypes
<1>2. Does(all, F, V) /\ Does(first, F, A) /\ Does(second, F, B)
  <2>1. \A i \in Nat \ {0}, j \in 0 .. Len(PartsOf(c)) :
          Does(VisitParts(c, path, i, j), Fine(c), {"visit"} \X CellsOf(c, i, j))
    BY PartsDone
  <2>2. 1 \in Nat \ {0} /\ m \in 0 .. m
    BY <1>1
  <2>3. QED
    BY <1>1, <2>1, <2>2
<1>3. /\ Info(c).kind \in {"MrTaggedUnion", "TaggedUnion"} => Does(rd, F, {})
      /\ v # Null => Does(cnt, F, C)
  BY ReadsDone, OwnStepsDo
<1>4. A \cup B = V /\ A \cap B = {} /\ C \cap B = {} /\ C \cap V = {} /\ A \cap C = {}
  <2>1. \A i, j \in 1 .. m : PartsOf(c)[i].cell = PartsOf(c)[j].cell => i = j
    BY PartFacts
  <2>2. CellsOf(c, 1, out) \cap CellsOf(c, out + 1, m) = {}
    BY <1>1, <2>1 DEF CellsOf
  <2>3. CellsOf(c, 1, out) \cup CellsOf(c, out + 1, m) = CellsOf(c, 1, m)
    BY <1>1 DEF CellsOf
  <2>4. QED
    BY <2>2, <2>3
<1>5. Info(c).kind = "TaggedUnion" /\ v = Null => A = V
  <2>1. Encoded(Info(c))
    BY WalkAssumption DEF Info
  <2>2. Info(c).kind = "TaggedUnion" /\ v = Null => out = m
    BY <2>1 DEF Encoded, PartsOf
  <2>3. QED
    BY <2>2
<1>6. StructSteps(c, path) = all
  BY DEF StructSteps
<1>7. MrTaggedUnionSteps(c, path) = (rd \o When(v # Null, cnt)) \o all
  BY DEF MrTaggedUnionSteps
<1>8. TaggedUnionSteps(c, path) = (first \o rd) \o When(v # Null, cnt \o second)
  BY DEF TaggedUnionSteps
<1>9. N = IF v # Null THEN C ELSE {}
  OBVIOUS
<1> HIDE DEF F, m, out, v, rd, cnt, all, first, second, A, B, C
<1>10. Info(c).kind = "MrTaggedUnion" => Does(MrTaggedUnionSteps(c, path), F, N \cup V)
  <2> SUFFICES ASSUME Info(c).kind = "MrTaggedUnion" PROVE Does(MrTaggedUnionSteps(c, path), F, N \cup V)
    OBVIOUS
  <2>1. Does(When(v # Null, cnt), F, N)
    BY <1>3, <1>9, DoesWhen
  <2>2. Does(rd \o When(v # Null, cnt), F, N)
    BY <1>3, <2>1, DoesThen
  <2>3. N \cap V = {}
    BY <1>4, <1>9
  <2>4. Does((rd \o When(v # Null, cnt)) \o all, F, N \cup V)
    BY <1>2, <2>2, <2>3, DoesBoth
  <2>5. QED
    BY <1>7, <2>4
<1>11. Info(c).kind = "TaggedUnion" => Does(TaggedUnionSteps(c, path), F, N \cup V)
  <2> SUFFICES ASSUME Info(c).kind = "TaggedUnion" PROVE Does(TaggedUnionSteps(c, path), F, N \cup V)
    OBVIOUS
  <2>1. Does(first \o rd, F, A)
    <3>1. A \cap {} = {} /\ A \cup {} = A
      OBVIOUS
    <3>2. Does(first \o rd, F, A \cup {})
      BY <1>2, <1>3, <3>1, DoesBoth
    <3>3. QED
      BY <3>1, <3>2
  <2> DEFINE W == IF v # Null THEN C \cup B ELSE {}
             last == When(v # Null, cnt \o second)
  <2>2. Does(last, F, W)
    <3>1. v # Null => Does(cnt \o second, F, C \cup B)
      BY <1>2, <1>3, <1>4, DoesBoth
    <3>2. QED
      BY <3>1, DoesWhen
  <2>3. A \cap W = {} /\ A \cup W = N \cup V
    BY <1>4, <1>5, <1>9
  <2> HIDE DEF W, last
  <2>4. Does((first \o rd) \o last, F, A \cup W)
    BY <2>1, <2>2, <2>3, DoesBoth
  <2>5. QED
    BY <1>8, <2>3, <2>4 DEF last
<1>12. QED
  BY <1>2, <1>6, <1>10, <1>11 DEF F

LEMMA EventsAre ==
    ASSUME dump \in Dumps, NEW c \in Cells, NEW V, V = {"visit"} \X CellsOf(c, 1, Len(PartsOf(c)))
    PROVE  /\ Info(c).kind \in Owners => Events(c) = {"visit"} \X Owned(c)
           /\ Info(c).kind \in SharedKinds => Events(c) = {"once"} \X Shared(c)
           /\ Info(c).kind \in ItemKinds => Events(c) = {"claim", "visit"} \X CellsOf(c, 1, Len(PartsOf(c)))
           /\ Info(c).kind = "CppString" => Events(c) = IF Info(c).buf.cap # 0 THEN {<<"raw", Null>>} ELSE {}
           /\ Info(c).kind = "AllocString" => Events(c) = IF Info(c).buf.addr # 0 THEN {<<"raw", Null>>} ELSE {}
           /\ Info(c).kind = "RcString" => Events(c) = IF Info(c).buf.addr # 0 THEN {<<"rawonce", Null>>} ELSE {}
           /\ Info(c).kind = "ThinVector" => Events(c) = {<<"raw", Null>>} \cup V
           /\ Info(c).kind = "struct" => Events(c) = V
           /\ Info(c).kind \in EnumKinds =>
                Events(c) = (IF Info(c).variant # Null THEN {<<"count", Null>>} ELSE {}) \cup V
           /\ Info(c).kind \in {"prim", "pointer"} => Events(c) = {}
<1>1. /\ Info(c).kind \in PartKinds => Owned(c) = CellsOf(c, 1, Len(PartsOf(c))) /\ Shared(c) = {}
      /\ Info(c).kind \in Owners => Shared(c) = {}
      /\ Info(c).kind \notin PartKinds \cup Owners => Owned(c) = {}
      /\ Info(c).kind \in ItemKinds => ItemsOf(c) = CellsOf(c, 1, Len(PartsOf(c)))
      /\ Info(c).kind \notin ItemKinds => ItemsOf(c) = {}
      /\ Info(c).kind \notin SharedKinds => Shared(c) = {}
  BY OwnedIs
<1>2. Info(c).kind \in Owners => Events(c) = {"visit"} \X Owned(c)
  <2> SUFFICES ASSUME Info(c).kind \in Owners PROVE Events(c) = {"visit"} \X Owned(c)
    OBVIOUS
  <2>1. OwnOps(c) = {} /\ Info(c).kind \notin ItemKinds \cup SharedKinds
    BY DEF OwnOps, Owners, EnumKinds, ItemKinds, SharedKinds
  <2>2. QED
    BY <1>1, <2>1 DEF Events
<1>3. Info(c).kind \in SharedKinds => Events(c) = {"once"} \X Shared(c)
  <2> SUFFICES ASSUME Info(c).kind \in SharedKinds PROVE Events(c) = {"once"} \X Shared(c)
    OBVIOUS
  <2>1. OwnOps(c) = {} /\ Info(c).kind \notin ItemKinds \cup PartKinds \cup Owners
    BY DEF OwnOps, Owners, EnumKinds, ItemKinds, SharedKinds, PartKinds, FieldKinds
  <2>2. QED
    BY <1>1, <2>1 DEF Events
<1>4. Info(c).kind \in ItemKinds => Events(c) = {"claim", "visit"} \X CellsOf(c, 1, Len(PartsOf(c)))
  <2> SUFFICES ASSUME Info(c).kind \in ItemKinds
               PROVE  Events(c) = {"claim", "visit"} \X CellsOf(c, 1, Len(PartsOf(c)))
    OBVIOUS
  <2>1. OwnOps(c) = {} /\ Info(c).kind \in PartKinds
    BY DEF OwnOps, EnumKinds, ItemKinds, PartKinds
  <2> DEFINE P == CellsOf(c, 1, Len(PartsOf(c)))
  <2> HIDE DEF P
  <2>2. Owned(c) = P /\ Shared(c) = {} /\ ItemsOf(c) = P
    BY <1>1, <2>1 DEF P
  <2>3. Events(c) = {"claim", "visit"} \X P
    BY <2>1, <2>2 DEF Events
  <2>4. QED
    BY <2>3 DEF P
<1>5. Info(c).kind \in {"CppString", "AllocString", "RcString", "prim", "pointer"} => Events(c) = OwnOps(c) \X {Null}
  <2> SUFFICES ASSUME Info(c).kind \in {"CppString", "AllocString", "RcString", "prim", "pointer"}
               PROVE Events(c) = OwnOps(c) \X {Null}
    OBVIOUS
  <2>1. Info(c).kind \notin ItemKinds \cup PartKinds \cup Owners \cup SharedKinds
    BY DEF Owners, ItemKinds, SharedKinds, PartKinds, FieldKinds
  <2>2. QED
    BY <1>1, <2>1 DEF Events
<1>6. Info(c).kind \in {"ThinVector", "struct"} \cup EnumKinds => Events(c) = (OwnOps(c) \X {Null}) \cup V
  <2> SUFFICES ASSUME Info(c).kind \in {"ThinVector", "struct"} \cup EnumKinds
               PROVE Events(c) = (OwnOps(c) \X {Null}) \cup V
    OBVIOUS
  <2>1. Info(c).kind \in PartKinds /\ Info(c).kind \notin ItemKinds
    BY DEF ItemKinds, PartKinds, FieldKinds, EnumKinds
  <2>2. QED
    BY <1>1, <2>1 DEF Events
<1>7. /\ Info(c).kind = "CppString" => OwnOps(c) = IF Info(c).buf.cap # 0 THEN {"raw"} ELSE {}
      /\ Info(c).kind = "AllocString" => OwnOps(c) = IF Info(c).buf.addr # 0 THEN {"raw"} ELSE {}
      /\ Info(c).kind = "RcString" => OwnOps(c) = IF Info(c).buf.addr # 0 THEN {"rawonce"} ELSE {}
      /\ Info(c).kind = "ThinVector" => OwnOps(c) = {"raw"}
      /\ Info(c).kind \in {"struct", "prim", "pointer"} => OwnOps(c) = {}
      /\ Info(c).kind \in EnumKinds => OwnOps(c) = IF Info(c).variant # Null THEN {"count"} ELSE {}
  BY DEF OwnOps, EnumKinds
<1>8. \A e : {e} \X {Null} = {<<e, Null>>}
  OBVIOUS
<1>9. {} \X {Null} = {}
  OBVIOUS
<1>10. QED
  BY <1>2, <1>3, <1>4, <1>5, <1>6, <1>7, <1>8, <1>9

LEMMA HandlersDone ==
    ASSUME dump \in Dumps, NEW c \in Cells, Orderly(c), NEW path \in Path
    PROVE  Does(Steps(c, path), Fine(c), Events(c))
<1> DEFINE F == Fine(c)
           E == Events(c)
           D(s) == Does(s, F, E)
<1>1. Info(c).kind \in Kinds /\ Info(c).kind # "array"
  BY OwnedIs DEF Orderly, Malformed
<1>2. Info(c).kind \in Owners => D(OwnerSteps(c, path)) /\ (Info(c).kind = "AllocRc" => D(AllocRcSteps(c, path)))
  BY OwnerDone, EventsAre
<1>3. /\ Info(c).kind = "CppSharedPtr" => D(CppSharedPtrSteps(c, path))
      /\ Info(c).kind = "rc_ptr" => D(rc_ptrSteps(c, path))
  BY OnceDone, EventsAre DEF SharedKinds
<1>4. /\ Info(c).kind = "CppVector" => D(CppVectorSteps(c, path))
      /\ Info(c).kind = "AllocVec" => D(AllocVecSteps(c, path))
      /\ Info(c).kind = "CppMap" => D(CppMapSteps(c, path))
      /\ Info(c).kind = "CppUnorderedMap" => D(CppUnorderedMapSteps(c, path))
      /\ Info(c).kind = "HashbrownMap" => D(HashbrownMapSteps(c, path))
  <2>1. Info(c).kind \in ItemKinds => E = {"claim", "visit"} \X CellsOf(c, 1, Len(PartsOf(c)))
    BY EventsAre
  <2> HIDE DEF E
  <2>2. QED
    BY <2>1, ContainersDone DEF ItemKinds
<1>5. /\ Info(c).kind = "CppString" => D(CppStringSteps(c, path))
      /\ Info(c).kind = "AllocString" => D(AllocStringSteps(c, path))
      /\ Info(c).kind = "RcString" => D(RcStringSteps(c, path))
      /\ Info(c).kind = "ThinVector" => D(ThinVectorSteps(c, path))
  <2> DEFINE X == IF Info(c).buf.cap # 0 THEN {<<"raw", Null>>} ELSE {}
             Y == IF Info(c).buf.addr # 0 THEN {<<"raw", Null>>} ELSE {}
             Z == IF Info(c).buf.addr # 0 THEN {<<"rawonce", Null>>} ELSE {}
             W == {<<"raw", Null>>} \cup ({"visit"} \X CellsOf(c, 1, Len(PartsOf(c))))
  <2>1. /\ Info(c).kind = "CppString" => E = X
        /\ Info(c).kind = "AllocString" => E = Y
        /\ Info(c).kind = "RcString" => E = Z
        /\ Info(c).kind = "ThinVector" => E = W
    BY EventsAre
  <2>2. /\ Info(c).kind = "CppString" => Does(CppStringSteps(c, path), F, X)
        /\ Info(c).kind = "AllocString" => Does(AllocStringSteps(c, path), F, Y)
        /\ Info(c).kind = "RcString" => Does(RcStringSteps(c, path), F, Z)
        /\ Info(c).kind = "ThinVector" => Does(ThinVectorSteps(c, path), F, W)
    BY StringHandlersDo
  <2> HIDE DEF X, Y, Z, W, E, F
  <2>3. QED
    BY <2>1, <2>2
<1>6. /\ Info(c).kind = "struct" => D(StructSteps(c, path))
      /\ Info(c).kind = "MrTaggedUnion" => D(MrTaggedUnionSteps(c, path))
      /\ Info(c).kind = "TaggedUnion" => D(TaggedUnionSteps(c, path))
  <2> DEFINE V == {"visit"} \X CellsOf(c, 1, Len(PartsOf(c)))
             N == IF Info(c).variant # Null THEN {<<"count", Null>>} ELSE {}
  <2>1. /\ Info(c).kind = "struct" => E = V
        /\ Info(c).kind \in EnumKinds => E = N \cup V
    BY EventsAre
  <2>2. Info(c).kind \in FieldKinds =>
           /\ Info(c).kind = "struct" => Does(StructSteps(c, path), F, V)
           /\ Info(c).kind = "MrTaggedUnion" => Does(MrTaggedUnionSteps(c, path), F, N \cup V)
           /\ Info(c).kind = "TaggedUnion" => Does(TaggedUnionSteps(c, path), F, N \cup V)
    BY UnionsDone
  <2> HIDE DEF E, V, N, F
  <2>3. QED
    BY <2>1, <2>2 DEF FieldKinds, EnumKinds
<1>7. /\ Info(c).kind \in {"prim", "pointer"} => E = {}
      /\ Info(c).kind = "pointer" => D(PointerSteps(c, path))
      /\ Info(c).kind = "prim" => D(<<>>)
  <2>1. Info(c).kind \in {"prim", "pointer"} => E = {}
    BY EventsAre
  <2>2. Info(c).kind = "pointer" => PointerSteps(c, path) = <<Read(Opening(c))>>
    BY DEF PointerSteps
  <2> HIDE DEF E
  <2>3. QED
    BY <2>1, <2>2, ReadsDone, DoesNothing
<1>8. Info(c).kind = "box" => D(PointerSteps(c, path))
  BY <1>2 DEF PointerSteps, Owners
<1>9. /\ Info(c).kind = "CppUniquePtr" => D(CppUniquePtrSteps(c, path))
      /\ Info(c).kind = "unique_ptr" => D(unique_ptrSteps(c, path))
      /\ Info(c).kind = "AllocRc" => D(AllocRcSteps(c, path))
  BY <1>2 DEF CppUniquePtrSteps, unique_ptrSteps, Owners
<1> HIDE DEF D
<1>10. D(Steps(c, path))
  BY <1>1, <1>3, <1>4, <1>5, <1>6, <1>7, <1>8, <1>9 DEF Steps, Kinds
<1>11. QED
  BY <1>10 DEF D

-----------------------------------------------------------------------------
(* A tidy dump leaves every handler in order.                               *)
LEMMA OrderlyView ==
    ASSUME dump \in Dumps, Tidy, NEW d \in Reached
    PROVE  Orderly(Seen(d)) /\ Seen(d) \in Cells /\ ~ NoVtable(d)
<1>1. d \in Cells /\ Seen(d) \in Cells
  BY ReachedFacts
<1>2. Readable(d) /\ WellFormed(d)
  BY DEF Tidy
<1>3. ASSUME NEW i \in DOMAIN PartsOf(Seen(d)), NEW j \in DOMAIN PartsOf(Seen(d)),
             PartsOf(Seen(d))[i].cell = PartsOf(Seen(d))[j].cell
      PROVE  i = j
  <2> DEFINE c == PartsOf(Seen(d))[i].cell
  <2>1. i \in 1 .. Len(PartsOf(Seen(d)))
    BY <1>1, DumpTypes, LenProperties
  <2>2. c \in Owned(Seen(d))
    BY <1>1, <2>1, PartTypes
  <2>3. c \in Reached
    BY <2>2, ReachedFacts
  <2>4. SingleOwner(c, Reached)
    BY <2>3 DEF Tidy
  <2>5. <<d, i>> \in OwningPlaces(c, Reached) /\ <<d, j>> \in OwningPlaces(c, Reached)
    BY <1>3 DEF OwningPlaces
  <2>6. <<d, i>> = <<d, j>>
    BY <2>4, <2>5 DEF SingleOwner
  <2>7. QED
    BY <2>6
<1>4. NeverEnds(d, "err") /\ NeverEnds(d, "panic")
  BY <1>2 DEF Readable, WellFormed
<1>5. /\ Info(Seen(d)).buf.readable = "ok"
      /\ Info(Seen(d)).kind \notin {"prim", "struct"} => Info(Seen(d)).readable = "ok"
  BY <1>1, <1>4, DumpTypes DEF NeverEnds, CellInfo, Buffer, Outcomes
<1>6. ASSUME NEW i \in DOMAIN PartsOf(Seen(d)) PROVE PartsOf(Seen(d))[i].link = "ok"
  <2>1. PartsOf(Seen(d))[i].link \in Outcomes
    BY <1>1, DumpTypes, PartTypes, LenProperties
  <2>2. PartsOf(Seen(d))[i].link \notin {"err", "panic"}
    BY <1>4 DEF NeverEnds, InRange
  <2>3. QED
    BY <2>1, <2>2 DEF Outcomes
<1>7. ~ Malformed(Seen(d))
  BY <1>2 DEF WellFormed, Malformed, NeverEnds
<1>8. ~ NoVtable(d)
  <2>1. Info(d).readable \in Outcomes
    BY <1>1, DumpTypes DEF CellInfo
  <2>2. Info(d).vptr => Info(d).readable = "ok" /\ Info(d).named
    BY <1>2, <1>4, <2>1 DEF NeverEnds, WellFormed, Outcomes
  <2>3. QED
    BY <2>2 DEF NoVtable, VtableOutcome
<1>9. QED
  BY <1>1, <1>3, <1>5, <1>6, <1>7, <1>8 DEF Orderly

-----------------------------------------------------------------------------
(* What the calls in progress have left to do, and what has been done.      *)
Pending(st, d) == UNION {Left(st[i].todo) : i \in {j \in 1 .. Len(st) : st[j].cell = d}}
Done(st, ent, d, e) == d \in ent /\ e \in Events(Seen(d)) /\ e \notin Pending(st, d)

FramesFine(st, ent) == \A i \in 1 .. Len(st) :
    /\ st[i].cell \in ent
    /\ Left(st[i].todo) \subseteq Events(Seen(st[i].cell))
    /\ Does(st[i].todo, Fine(Seen(st[i].cell)), Left(st[i].todo))
Apart(st) == \A i, j \in 1 .. Len(st) : st[i].cell = st[j].cell => i = j

LEMMA GivenByPlace ==
    ASSUME NEW R, NEW n \in Nat, NEW f, f \in [1 .. n -> R] PROVE f \in Seq(R) /\ Len(f) = n
<1>1. f \in Seq(R)
  BY IsASeq
<1>2. QED
  BY <1>1, LenProperties

(* The innermost call `d` takes its next step `s`.                          *)
Takes(st, rest, d, s) ==
    /\ st # <<>> /\ st[Len(st)].todo # <<>>
    /\ d = st[Len(st)].cell /\ s = Head(st[Len(st)].todo)
    /\ rest = [st EXCEPT ![Len(st)].todo = Tail(@)]
Taken(st, ent, rest, d, s) ==
    /\ FramesFine(rest, ent) /\ d \in ent /\ s \in Fine(Seen(d))
    /\ rest \in Seq([cell : Reached, todo : Seq(StepType)])
    /\ s.op = "read" => \A x : Pending(rest, x) = Pending(st, x)
    /\ s.op # "read" => /\ EventOf(s) \in Events(Seen(d)) /\ EventOf(s) \in Pending(st, d)
                        /\ Pending(rest, d) = Pending(st, d) \ {EventOf(s)}
                        /\ \A x : x # d => Pending(rest, x) = Pending(st, x)

LEMMA RestDoes ==
    ASSUME NEW ent, NEW st, st \in Seq(Frames), FramesFine(st, ent), Apart(st),
           NEW d, NEW s, NEW rest, Takes(st, rest, d, s)
    PROVE  Taken(st, ent, rest, d, s)
<1> DEFINE n == Len(st)
           old == st[n].todo
           new == Tail(old)
           L == Left(old)
           M == Left(new)
           F == Fine(Seen(d))
           R == [cell : Reached, todo : Seq(StepType)]
<1>0. /\ st # <<>> /\ old # <<>> /\ d = st[n].cell /\ s = Head(old)
      /\ rest = [st EXCEPT ![n].todo = Tail(@)] /\ Frames \subseteq [cell : Reached, todo : Seq(StepType)]
  BY DEF Takes, Frames
<1>1. n \in Nat \ {0} /\ n \in 1 .. n /\ st \in [1 .. n -> [cell : Reached, todo : Seq(StepType)]]
  <2> HIDE DEF R
  <2>1. st \in Seq(R)
    BY <1>0, SeqOfMore DEF R
  <2>2. QED
    BY <1>0, <2>1, EmptySeq, LenProperties DEF R
<1>2. /\ rest \in [1 .. n -> R] /\ rest[n].cell = d /\ rest[n].todo = new
      /\ \A i \in 1 .. n : i # n => rest[i] = st[i]
  <2> DEFINE top == [st[n] EXCEPT !.todo = Tail(@)]
  <2>1. st[n] \in [cell : Reached, todo : Seq(StepType)] /\ st[n].todo \in Seq(StepType)
    BY <1>1
  <2>2. new \in Seq(StepType)
    BY <1>0, <2>1, HeadTailProperties
  <2>3. top \in R /\ top.cell = d /\ top.todo = new
    <3> DEFINE r == st[n]
    <3>1. /\ r \in [cell : Reached, todo : Seq(StepType)] /\ d = r.cell /\ new = Tail(r.todo)
          /\ top = [r EXCEPT !.todo = Tail(r.todo)]
      BY <1>0, <2>1
    <3> HIDE DEF r, new, top
    <3>2. QED
      BY <2>2, <3>1
  <2>4. rest = [st EXCEPT ![n] = top]
    BY <1>0
  <2> HIDE DEF new, n, top, R
  <2>5. QED
    BY <1>1, <2>3, <2>4 DEF R
<1>3. rest \in Seq([cell : Reached, todo : Seq(StepType)]) /\ Len(rest) = n
  <2>1. n \in Nat /\ rest \in [1 .. n -> R]
    BY <1>1, <1>2
  <2> HIDE DEF n, R
  <2>2. rest \in Seq(R) /\ Len(rest) = n
    BY <2>1, GivenByPlace
  <2>3. QED
    BY <2>2 DEF R
<1>4. d \in ent /\ L \subseteq Events(Seen(d)) /\ Does(old, F, L)
  BY <1>0, <1>1 DEF FramesFine
<1>5. /\ s \in F
      /\ s.op = "read" => Does(new, F, L)
      /\ s.op # "read" => EventOf(s) \in L /\ Does(new, F, L \ {EventOf(s)})
  <2> HIDE DEF F, L
  <2>1. Does(old, F, L) /\ old # <<>> /\ s = Head(old)
    BY <1>0, <1>4
  <2> HIDE DEF old
  <2>2. QED
    BY <2>1, DoesTail
<1>6. /\ s.op = "read" => M = L
      /\ s.op # "read" => EventOf(s) \in L /\ M = L \ {EventOf(s)}
      /\ Does(new, F, M)
  <2>1. (\A E : Does(new, F, E) => E = M)
    BY DEF Does
  <2> HIDE DEF F, L, M, new
  <2>2. QED
    BY <1>5, <2>1
<1> HIDE DEF L, M, F
<1>7. \A i \in 1 .. n : rest[i].cell = st[i].cell
  BY <1>0, <1>1, <1>2
<1>8. \A i \in 1 .. n : i # n => rest[i].todo = st[i].todo
  BY <1>2
<1>9. Left(st[n].todo) = L /\ Left(rest[n].todo) = M /\ rest[n].todo = new
  BY <1>2 DEF L, M
<1>10. M \subseteq L
  BY <1>6
<1> HIDE DEF old, new, n
<1>11. FramesFine(rest, ent)
  <2> SUFFICES ASSUME NEW i \in 1 .. n
               PROVE  /\ rest[i].cell \in ent
                      /\ Left(rest[i].todo) \subseteq Events(Seen(rest[i].cell))
                      /\ Does(rest[i].todo, Fine(Seen(rest[i].cell)), Left(rest[i].todo))
    BY <1>3 DEF FramesFine
  <2>1. CASE i = n
    <3>1. rest[i].cell = d /\ rest[i].todo = new /\ Left(rest[i].todo) = M
      BY <1>0, <1>7, <1>9, <2>1
    <3>2. Does(new, F, M) /\ M \subseteq Events(Seen(d)) /\ d \in ent
      BY <1>4, <1>6, <1>10
    <3>3. QED
      BY <3>1, <3>2 DEF F
  <2>2. CASE i # n
    <3>1. rest[i].cell = st[i].cell /\ rest[i].todo = st[i].todo
      BY <1>7, <1>8, <2>2
    <3>2. i \in 1 .. Len(st)
      BY DEF n
    <3>3. QED
      BY <3>1, <3>2 DEF FramesFine
  <2>3. QED
    BY <2>1, <2>2
<1>12. ASSUME NEW x, x # d PROVE Pending(rest, x) = Pending(st, x)
  <2>1. st[n].cell = d
    BY <1>0
  <2>2. {j \in 1 .. Len(rest) : rest[j].cell = x} = {j \in 1 .. Len(st) : st[j].cell = x}
    BY <1>3, <1>7 DEF n
  <2>3. \A j \in {k \in 1 .. Len(st) : st[k].cell = x} : rest[j].todo = st[j].todo
    BY <1>8, <1>12, <2>1 DEF n
  <2>4. QED
    BY <2>2, <2>3 DEF Pending
<1>13. Pending(st, d) = L /\ Pending(rest, d) = M
  <2>1. n \in 1 .. n /\ st[n].cell = d /\ rest[n].cell = d
    BY <1>0, <1>1, <1>7
  <2>2. {j \in 1 .. Len(st) : st[j].cell = d} = {n}
    BY <2>1 DEF Apart, n
  <2>3. {j \in 1 .. Len(rest) : rest[j].cell = d} = {n}
    BY <1>3, <1>7, <2>1, <2>2 DEF n
  <2>4. Pending(st, d) = Left(st[n].todo) /\ Pending(rest, d) = Left(rest[n].todo)
    BY <2>2, <2>3 DEF Pending
  <2>5. QED
    BY <1>9, <2>4
<1>14. ASSUME s.op = "read" PROVE \A x : Pending(rest, x) = Pending(st, x)
  <2>1. ASSUME NEW x PROVE Pending(rest, x) = Pending(st, x)
    BY <1>6, <1>12, <1>13, <1>14
  <2>2. QED
    BY <2>1
<1>15. ASSUME s.op # "read"
       PROVE  /\ EventOf(s) \in Events(Seen(d)) /\ EventOf(s) \in Pending(st, d)
              /\ Pending(rest, d) = Pending(st, d) \ {EventOf(s)}
  BY <1>4, <1>6, <1>13, <1>15
<1>16. d \in ent /\ s \in Fine(Seen(d))
  BY <1>4, <1>5 DEF F
<1>17. QED
  BY <1>3, <1>11, <1>12, <1>14, <1>15, <1>16 DEF Taken

(* A call that has everything left to do is entered.                        *)
Calls(st, new, c) ==
    \E todo : /\ Does(todo, Fine(Seen(c)), Events(Seen(c)))
              /\ new = Append(st, [cell |-> c, todo |-> todo])
Called(st, ent, new, c) ==
    /\ FramesFine(new, ent \cup {c})
    /\ Pending(new, c) = Events(Seen(c))
    /\ \A x : x # c => Pending(new, x) = Pending(st, x)

LEMMA PushDoes ==
    ASSUME NEW ent, NEW st, NEW S, st \in Seq(S), FramesFine(st, ent), NEW c, c \notin ent,
           NEW new, Calls(st, new, c)
    PROVE  Called(st, ent, new, c)
<1>0. PICK todo : /\ Does(todo, Fine(Seen(c)), Events(Seen(c)))
                  /\ new = Append(st, [cell |-> c, todo |-> todo])
  BY DEF Calls
<1> DEFINE n == Len(st)
           f == [cell |-> c, todo |-> todo]
<1>1. f.cell = c /\ f.todo = todo
  OBVIOUS
<1>2. Left(todo) = Events(Seen(c))
  BY <1>0 DEF Does
<1> HIDE DEF f
<1>3. /\ n \in Nat /\ Len(new) = n + 1 /\ new[n + 1] = f
      /\ \A i \in 1 .. n : new[i] = st[i]
  <2>1. st \in Seq(S \cup {f}) /\ f \in S \cup {f}
    OBVIOUS
  <2>2. new = Append(st, f)
    BY <1>0 DEF f
  <2>3. QED
    BY <2>1, <2>2, AppendProperties, LenProperties
<1>4. \A i \in 1 .. n : st[i].cell \in ent
  BY DEF FramesFine
<1>5. \A i \in 1 .. Len(new) : i \in 1 .. n \/ i = n + 1
  BY <1>3
<1> HIDE DEF n
<1>6. FramesFine(new, ent \cup {c})
  <2> SUFFICES ASSUME NEW i \in 1 .. Len(new)
               PROVE  /\ new[i].cell \in ent \cup {c}
                      /\ Left(new[i].todo) \subseteq Events(Seen(new[i].cell))
                      /\ Does(new[i].todo, Fine(Seen(new[i].cell)), Left(new[i].todo))
    BY DEF FramesFine
  <2>1. CASE i \in 1 .. n
    <3>1. new[i] = st[i]
      BY <1>3, <2>1
    <3>2. QED
      BY <2>1, <3>1 DEF FramesFine, n
  <2>2. CASE i = n + 1
    <3>1. new[i].cell = c /\ new[i].todo = todo
      BY <1>1, <1>3, <2>2
    <3>2. QED
      BY <1>0, <1>2, <3>1
  <2>3. QED
    BY <1>5, <2>1, <2>2
<1>7. Pending(new, c) = Events(Seen(c))
  <2>1. {j \in 1 .. Len(new) : new[j].cell = c} = {n + 1}
    BY <1>1, <1>3, <1>4, <1>5
  <2>2. Left(new[n + 1].todo) = Events(Seen(c))
    BY <1>1, <1>2, <1>3
  <2>3. QED
    BY <2>1, <2>2 DEF Pending
<1>8. ASSUME NEW x, x # c PROVE Pending(new, x) = Pending(st, x)
  <2>1. {j \in 1 .. Len(new) : new[j].cell = x} = {j \in 1 .. n : st[j].cell = x}
    BY <1>1, <1>3, <1>5, <1>8
  <2>2. \A j \in {j \in 1 .. n : st[j].cell = x} : new[j].todo = st[j].todo
    BY <1>3
  <2>3. QED
    BY <2>1, <2>2 DEF Pending, n
<1>9. QED
  BY <1>6, <1>7, <1>8 DEF Called

LEMMA PopDoes ==
    ASSUME NEW ent, NEW st, NEW S, st \in Seq(S), st # <<>>, FramesFine(st, ent),
           st[Len(st)].todo = <<>>,
           NEW pop, pop = SubSeq(st, 1, Len(st) - 1)
    PROVE  FramesFine(pop, ent) /\ \A x : Pending(pop, x) = Pending(st, x)
<1> DEFINE n == Len(st)
<1>1. n \in Nat \ {0} /\ n \in 1 .. n
  BY EmptySeq
<1>2. Len(pop) = n - 1 /\ \A i \in 1 .. n - 1 : pop[i] = st[i] /\ i \in 1 .. n
  <2> DEFINE k == n - 1
  <2>1. k \in Nat /\ k \in Int /\ 1 \in Int /\ 1 .. k \subseteq 1 .. n
    BY <1>1
  <2>2. \A i \in 1 .. k : st[i] \in S
    BY <2>1, ElementOfSeq
  <2>3. pop = SubSeq(st, 1, k)
    OBVIOUS
  <2> HIDE DEF k, n
  <2>4. /\ Len(SubSeq(st, 1, k)) = IF 1 <= k THEN k - 1 + 1 ELSE 0
        /\ \A i \in 1 .. k - 1 + 1 : SubSeq(st, 1, k)[i] = st[1 + i - 1]
    BY <2>1, <2>2, SubSeqProperties
  <2>5. Len(SubSeq(st, 1, k)) = k /\ \A i \in 1 .. k : SubSeq(st, 1, k)[i] = st[i]
    BY <2>1, <2>4
  <2>6. QED
    BY <2>1, <2>3, <2>5 DEF k
<1>3. Left(st[n].todo) = {}
  BY DEF Left, Acts
<1>4. \A i \in 1 .. n : i \in 1 .. n - 1 \/ i = n
  BY <1>1
<1> HIDE DEF n
<1>5. FramesFine(pop, ent)
  BY <1>2 DEF FramesFine, n
<1>6. ASSUME NEW x PROVE Pending(pop, x) = Pending(st, x)
  <2>1. \A e : e \in Pending(pop, x) <=> \E i \in 1 .. n - 1 : pop[i].cell = x /\ e \in Left(pop[i].todo)
    BY <1>2 DEF Pending
  <2>2. \A e : e \in Pending(st, x) <=> \E i \in 1 .. n : st[i].cell = x /\ e \in Left(st[i].todo)
    BY DEF Pending, n
  <2>3. ASSUME NEW e, e \in Pending(pop, x) PROVE e \in Pending(st, x)
    BY <1>2, <2>1, <2>2, <2>3
  <2>4. ASSUME NEW e, e \in Pending(st, x) PROVE e \in Pending(pop, x)
    <3>1. PICK i \in 1 .. n : st[i].cell = x /\ e \in Left(st[i].todo)
      BY <2>2, <2>4
    <3>2. i \in 1 .. n - 1
      BY <1>3, <1>4, <3>1
    <3>3. QED
      BY <1>2, <2>1, <3>1, <3>2
  <2>5. QED
    BY <2>3, <2>4
<1>7. QED
  BY <1>5, <1>6

LEMMA EventFacts ==
    ASSUME NEW c
    PROVE  /\ \A x : <<"visit", x>> \in Events(c) <=> x \in Owned(c)
           /\ \A x : <<"once", x>> \in Events(c) <=> x \in Shared(c)
           /\ \A x : <<"claim", x>> \in Events(c) <=> x \in ItemsOf(c)
           /\ <<"raw", Null>> \in Events(c) <=> "raw" \in OwnOps(c)
           /\ <<"rawonce", Null>> \in Events(c) <=> "rawonce" \in OwnOps(c)
           /\ <<"count", Null>> \in Events(c) <=> "count" \in OwnOps(c)
<1>1. OwnOps(c) \subseteq {"count", "raw", "rawonce"}
  BY DEF OwnOps
<1> DEFINE O == Owned(c)
           S == Shared(c)
           I == ItemsOf(c)
           W == OwnOps(c)
<1>2. Events(c) = ({"visit"} \X O) \cup ({"once"} \X S) \cup ({"claim"} \X I) \cup (W \X {Null})
  BY DEF Events
<1> HIDE DEF O, S, I, W
<1>3. W \subseteq {"count", "raw", "rawonce"}
  BY <1>1 DEF W
<1>4. /\ \A x : <<"visit", x>> \in Events(c) <=> x \in O
      /\ \A x : <<"once", x>> \in Events(c) <=> x \in S
      /\ \A x : <<"claim", x>> \in Events(c) <=> x \in I
  BY <1>2, <1>3
<1>5. \A w \in {"raw", "rawonce", "count"} : <<w, Null>> \in Events(c) <=> w \in W
  BY <1>2, <1>3
<1>6. QED
  BY <1>4, <1>5 DEF O, S, I, W

(* How a step changes what has been done.                                   *)
SameDone == \A d, e : Done(stack', entered', d, e) <=> Done(stack, entered, d, e)
NewDone(t, x) ==
    /\ t \in entered /\ x \in Events(Seen(t)) /\ ~ Done(stack, entered, t, x)
    /\ \A d, e : Done(stack', entered', d, e) <=> Done(stack, entered, d, e) \/ (d = t /\ e = x)

EntryDone(t) == \A c \in Reached, path \in Path :
    c \notin entered /\ stack' = Push(Rest, c, path) /\ entered' = entered \cup {c}
      => FramesFine(stack', entered') /\ NewDone(t, EventOf(Step))

LEMMA TopDoes ==
    ASSUME Inv, Tidy, Distinct, FramesFine(stack, entered), NEW op, At(op), NEW t, t = Top.cell
    PROVE  /\ t \in Reached /\ t \in entered /\ Step \in Fine(Seen(t)) /\ Step.op = op
           /\ op # "read" => /\ EventOf(Step) \in Events(Seen(t))
                             /\ ~ Done(stack, entered, t, EventOf(Step))
           /\ op = "read" /\ stack' = Rest /\ entered' = entered
                => FramesFine(stack', entered') /\ SameDone
           /\ op # "read" /\ stack' = Rest /\ entered' = entered
                => FramesFine(stack', entered') /\ NewDone(t, EventOf(Step))
           /\ op # "read" => EntryDone(t)
<1> DEFINE n == Len(stack)
           s == Step
           e0 == EventOf(s)
           rest == Rest
<1>1. stack \in Seq(Frames) /\ stack # <<>> /\ Top.todo # <<>> /\ dump \in Dumps /\ Step.op = op
  BY DEF Inv, At, Step
<1>2. t \in Reached
  BY <1>1, TopOfStack
<1>3. /\ FramesFine(rest, entered) /\ t \in entered /\ s \in Fine(Seen(t))
      /\ rest \in Seq([cell : Reached, todo : Seq(StepType)])
      /\ s.op = "read" => \A x : Pending(rest, x) = Pending(stack, x)
      /\ s.op # "read" => /\ e0 \in Events(Seen(t)) /\ e0 \in Pending(stack, t)
                          /\ Pending(rest, t) = Pending(stack, t) \ {e0}
                          /\ \A x : x # t => Pending(rest, x) = Pending(stack, x)
  <2>1. Frames \subseteq [cell : Reached, todo : Seq(StepType)]
    BY DEF Frames
  <2>2. Apart(stack)
    BY DEF Apart, Distinct
  <2>3. Takes(stack, rest, t, s)
    BY <1>1 DEF Takes, Top, Step, Rest
  <2> HIDE DEF s, rest, e0
  <2>4. Taken(stack, entered, rest, t, s)
    BY <1>1, <2>2, <2>3, RestDoes
  <2>5. QED
    BY <2>4 DEF Taken, e0
<1>4. s.op = op
  BY <1>1
<1> HIDE DEF s, e0, rest
<1>5. ASSUME op = "read", stack' = rest, entered' = entered PROVE FramesFine(stack', entered') /\ SameDone
  BY <1>3, <1>4, <1>5 DEF SameDone, Done
<1>6. op # "read" => ~ Done(stack, entered, t, e0) /\ e0 \in Events(Seen(t))
  BY <1>3, <1>4 DEF Done
<1>7. ASSUME op # "read", NEW d, NEW e
      PROVE Done(rest, entered, d, e) <=> Done(stack, entered, d, e) \/ (d = t /\ e = e0)
  <2>1. CASE d = t
    BY <1>3, <1>4, <1>7, <2>1 DEF Done
  <2>2. CASE d # t
    BY <1>3, <1>4, <1>7, <2>2 DEF Done
  <2>3. QED
    BY <2>1, <2>2
<1>8. ASSUME op # "read", stack' = rest, entered' = entered
      PROVE FramesFine(stack', entered') /\ NewDone(t, e0)
  BY <1>3, <1>6, <1>7, <1>8 DEF NewDone
<1>9. ASSUME NEW c \in Reached, NEW path \in Path, c \notin entered, op # "read",
             stack' = Push(rest, c, path), entered' = entered \cup {c}
      PROVE  FramesFine(stack', entered') /\ NewDone(t, e0)
  <2> DEFINE todo == Steps(Seen(c), path)
  <2>1. Does(todo, Fine(Seen(c)), Events(Seen(c)))
    BY <1>1, OrderlyView, HandlersDone
  <2>2. stack' = Append(rest, [cell |-> c, todo |-> todo])
    BY <1>9 DEF Push, Seen
  <2> HIDE DEF todo
  <2>3. /\ FramesFine(stack', entered')
        /\ Pending(stack', c) = Events(Seen(c))
        /\ \A x : x # c => Pending(stack', x) = Pending(rest, x)
    <3>1. Calls(rest, stack', c)
      BY <2>1, <2>2 DEF Calls
    <3>2. Called(rest, entered, stack', c)
      BY <1>3, <1>9, <3>1, PushDoes
    <3>3. QED
      BY <1>9, <3>2 DEF Called
  <2>4. ASSUME NEW d, NEW e PROVE Done(stack', entered', d, e) <=> Done(rest, entered, d, e)
    <3>1. CASE d = c
      BY <1>9, <2>3, <3>1 DEF Done
    <3>2. CASE d # c
      BY <1>9, <2>3, <3>2 DEF Done
    <3>3. QED
      BY <3>1, <3>2
  <2>5. QED
    BY <1>3, <1>6, <1>7, <1>9, <2>3, <2>4 DEF NewDone
<1>10. op # "read" => EntryDone(t)
  BY <1>9 DEF EntryDone, e0, rest, s
<1>11. QED
  BY <1>2, <1>3, <1>4, <1>5, <1>6, <1>8, <1>10 DEF s, e0, rest

(* The same for what empties or fills the stack.                            *)
LEMMA EndsDo ==
    ASSUME Inv, Tidy, FramesFine(stack, entered)
    PROVE  /\ stack # <<>> /\ Top.todo = <<>> /\ stack' = Pop /\ entered' = entered
                => FramesFine(stack', entered') /\ SameDone
           /\ stack' = stack /\ entered' = entered => FramesFine(stack', entered') /\ SameDone
           /\ \A c \in Reached, path \in Path :
                c \notin entered /\ stack = <<>> /\ stack' = Push(<<>>, c, path) /\ entered' = entered \cup {c}
                  => FramesFine(stack', entered') /\ SameDone
<1>1. stack \in Seq(Frames) /\ dump \in Dumps
  BY DEF Inv
<1>2. ASSUME stack # <<>>, Top.todo = <<>>, stack' = Pop, entered' = entered
      PROVE  FramesFine(stack', entered') /\ SameDone
  <2> DEFINE pop == Pop
  <2>1. pop = SubSeq(stack, 1, Len(stack) - 1) /\ stack[Len(stack)].todo = <<>>
    BY <1>2 DEF Pop, Top
  <2> HIDE DEF pop
  <2>2. FramesFine(pop, entered) /\ \A x : Pending(pop, x) = Pending(stack, x)
    BY <1>1, <1>2, <2>1, PopDoes
  <2>3. stack' = pop
    BY <1>2 DEF pop
  <2>4. QED
    BY <1>2, <2>2, <2>3 DEF SameDone, Done
<1>3. ASSUME stack' = stack, entered' = entered PROVE FramesFine(stack', entered') /\ SameDone
  BY <1>3 DEF SameDone
<1>4. ASSUME NEW c \in Reached, NEW path \in Path, c \notin entered, stack = <<>>,
             stack' = Push(<<>>, c, path), entered' = entered \cup {c}
      PROVE  FramesFine(stack', entered') /\ SameDone
  <2> DEFINE todo == Steps(Seen(c), path)
  <2>1. Does(todo, Fine(Seen(c)), Events(Seen(c)))
    BY <1>1, OrderlyView, HandlersDone
  <2>2. stack' = Append(stack, [cell |-> c, todo |-> todo])
    BY <1>4 DEF Push, Seen
  <2> HIDE DEF todo
  <2>3. /\ FramesFine(stack', entered')
        /\ Pending(stack', c) = Events(Seen(c))
        /\ \A x : x # c => Pending(stack', x) = Pending(stack, x)
    <3>1. Calls(stack, stack', c)
      BY <2>1, <2>2 DEF Calls
    <3>2. Called(stack, entered, stack', c)
      BY <1>1, <1>4, <3>1, PushDoes
    <3>3. QED
      BY <1>4, <3>2 DEF Called
  <2>4. ASSUME NEW d, NEW e PROVE Done(stack', entered', d, e) <=> Done(stack, entered, d, e)
    <3>1. CASE d = c
      BY <1>4, <2>3, <3>1 DEF Done
    <3>2. CASE d # c
      BY <1>4, <2>3, <3>2 DEF Done
    <3>3. QED
      BY <3>1, <3>2
  <2>5. QED
    BY <2>3, <2>4 DEF SameDone
<1>5. QED
  BY <1>2, <1>3, <1>4

-----------------------------------------------------------------------------
(* What the walk of a tidy dump has done so far.  A cell that is owned has  *)
(* been entered when its owner has visited it; one that is shared, when its *)
(* address is remembered; a local, when the loops of main have passed it.   *)
OwnedOnTime == \A d \in Reached : \A c \in Owned(Seen(d)) :
    c \in entered <=> Done(stack, entered, d, <<"visit", c>>)
SharedOnTime == \A d \in Reached : \A c \in Shared(Seen(d)) :
    /\ c \in entered <=> AddrOf(c) \in shared_pointers
    /\ Done(stack, entered, d, <<"once", c>>) => c \in entered
OnlyKnown == \A a \in shared_pointers :
    \/ \E c \in SharedTargets(Reached) : AddrOf(c) = a
    \/ \E s \in Reached : Done(stack, entered, s, <<"rawonce", Null>>) /\ BufOf(s).addr = a
Entered ==
    /\ entered \subseteq Reached /\ ~ unwinding
    /\ FramesFine(stack, entered)
    /\ OwnedOnTime /\ SharedOnTime /\ OnlyKnown

Before(fi) == fi[1] < fr \/ (fi[1] = fr /\ fi[2] < arg)
RootsOnTime == \A fi \in Requested :
    /\ Local(fi) # Null => (Local(fi) \in entered <=> Before(fi))
    /\ Before(fi) => Local(fi) # Null
VisitedBefore == \A i \in visited : \E f \in DOMAIN dump.frames : <<f, i>> \in Requested /\ Before(<<f, i>>)
Finished == status \in {"done", "reported"} => stack = <<>> /\ \A fi \in Requested : Before(fi)
Looped == RootsOnTime /\ VisitedBefore /\ Finished

Progress == Entered /\ Looped

(* What one step of such a walk does to Output, to the claims and to what   *)
(* has been entered, by the event of the handler of `t` that it is.         *)
NoEntry == entered' = entered
Quiet == SameDone /\ NoEntry /\ UNCHANGED <<claims, outvars>>
ClaimsAt(path, c) ==
    /\ claims' = Claimed(c)
    /\ \E ty \in Types : Out!Claim(path, AddrOf(c), ty, SizeOf(c))
EnterCell(c) == c \in Reached \ entered /\ entered' = entered \cup {c}

DidClaim(t, c) ==
    /\ c \in ItemsOf(Seen(t)) /\ NewDone(t, <<"claim", c>>) /\ NoEntry
    /\ \E path \in Path : ClaimsAt(path, c)
DidRaw(t) ==
    /\ NewDone(t, <<"raw", Null>>) /\ NoEntry /\ claims' = claims
    /\ \E path \in Path :
          IF Info(Seen(t)).kind \in StringKinds
            THEN Out!ClaimRaw(path, BufOf(t).addr, BufOf(t).len, TRUE)
            ELSE Out!ClaimRaw(path, BufOf(t).addr, BufOf(t).cap, FALSE)
DidRawOnce(t) ==
    /\ NewDone(t, <<"rawonce", Null>>) /\ NoEntry /\ claims' = claims
    /\ IF BufOf(t).addr \in shared_pointers
         THEN UNCHANGED outvars
         ELSE \E path \in Path :
                 Out!InsertAndClaimRaw(path, BufOf(t).addr, SizeOf(t) + BufOf(t).len)
DidCount(t) ==
    /\ NewDone(t, <<"count", Null>>) /\ NoEntry /\ claims' = claims
    /\ Out!CountVariant(Info(Seen(t)).ty, Field(Info(Seen(t)).variant))
DidVisit(t, c) ==
    /\ c \in Owned(Seen(t)) /\ NewDone(t, <<"visit", c>>) /\ EnterCell(c)
    /\ IF Info(Seen(t)).kind \in Owners THEN \E path \in Path : ClaimsAt(path, c)
                                        ELSE UNCHANGED <<claims, outvars>>
DidSkip(t, c) ==
    /\ c \in Shared(Seen(t)) /\ NewDone(t, <<"once", c>>) /\ NoEntry
    /\ AddrOf(c) \in shared_pointers /\ UNCHANGED <<claims, outvars>>
DidVisitOnce(t, c) ==
    /\ c \in Shared(Seen(t)) /\ NewDone(t, <<"once", c>>) /\ EnterCell(c)
    /\ AddrOf(c) \notin shared_pointers
    /\ claims' = Claimed(c)
    /\ \E path \in Path, ty \in Types : Out!InsertAndClaim(path, AddrOf(c), ty, SizeOf(c))
DidRoot(c) ==
    /\ c \in Roots /\ SameDone /\ EnterCell(c) /\ UNCHANGED <<claims, outvars>>
Did ==
    \/ Quiet
    \/ \E t \in Reached : \/ DidRaw(t) \/ DidRawOnce(t) \/ DidCount(t)
                          \/ \E c \in Reached : \/ DidClaim(t, c) \/ DidVisit(t, c)
                                                \/ DidSkip(t, c) \/ DidVisitOnce(t, c)
Moved == FramesFine(stack', entered') /\ ~ unwinding' /\ Did
RootMoved ==
    /\ FramesFine(stack', entered') /\ ~ unwinding'
    /\ <<fr, arg>> \in Requested /\ DidRoot(Local(<<fr, arg>>))

LEMMA QuietMoves ==
    ASSUME Inv, Tidy, Distinct, Entered, UNCHANGED <<claims, entered, outvars>>
    PROVE  /\ ReadStep \/ Return => Moved /\ status' = status
           /\ ~ PanicStep /\ ~ Propagate
           /\ stack' = stack /\ unwinding' = unwinding => Moved
<1>1. FramesFine(stack, entered) /\ ~ unwinding
  BY DEF Entered
<1>2. ASSUME FramesFine(stack', entered') /\ SameDone, ~ unwinding' PROVE Moved
  BY <1>2 DEF Moved, Did, Quiet, NoEntry
<1>3. ASSUME ReadStep PROVE Moved /\ status' = status
  <2>1. At("read") /\ stack' = Rest /\ After(Step.ok, Rest)
    BY <1>3 DEF ReadStep
  <2>2. Step \in Fine(Seen(Top.cell)) /\ Step.op = "read" /\ FramesFine(stack', entered') /\ SameDone
    BY <1>1, <2>1, TopDoes
  <2>3. Step.ok = "ok"
    BY <2>2 DEF Fine
  <2>4. ~ unwinding' /\ status' = status
    BY <2>1, <2>3 DEF After
  <2>5. QED
    BY <1>2, <2>2, <2>4
<1>4. ASSUME Return PROVE Moved /\ status' = status
  BY <1>1, <1>2, <1>4, EndsDo DEF Return
<1>5. ASSUME PanicStep PROVE FALSE
  <2>1. At("panic")
    BY <1>5 DEF PanicStep
  <2>2. Step \in Fine(Seen(Top.cell)) /\ Step.op = "panic"
    BY <1>1, <2>1, TopDoes
  <2>3. QED
    BY <2>2 DEF Fine
<1>6. ~ Propagate
  BY <1>1 DEF Propagate
<1>7. ASSUME stack' = stack, unwinding' = unwinding PROVE Moved
  BY <1>1, <1>2, <1>7, EndsDo
<1>8. QED
  BY <1>3, <1>4, <1>5, <1>6, <1>7

(* The steps that enter no cell.                                            *)
LEMMA WorkMoves ==
    ASSUME Inv, Tidy, Distinct, Entered, [Next]_vars,
           ClaimStep \/ RawStep \/ RawOnceStep \/ CountStep
    PROVE  Moved
<1> DEFINE t == Top.cell
<1>1. /\ FramesFine(stack, entered) /\ ~ unwinding /\ dump \in Dumps /\ stack \in Seq(Frames)
      /\ stack' = Rest /\ entered' = entered /\ unwinding' = unwinding
  BY DEF Entered, Inv, ClaimStep, RawStep, RawOnceStep, CountStep
<1>2. ASSUME NEW op, At(op), op # "read"
      PROVE  /\ t \in Reached /\ Step \in Fine(Seen(t)) /\ Step.op = op
             /\ FramesFine(stack', entered') /\ NewDone(t, EventOf(Step))
             /\ Step \in Safe(Seen(t)) /\ EventOf(Step) \in Events(Seen(t))
  BY <1>1, <1>2, TopDoes, NextStep
<1>3. ASSUME NEW op, At(op), op \notin CellOps PROVE EventOf(Step) = <<op, Null>>
  <2>1. Step.op = op
    BY <1>3 DEF At, Step
  <2>2. QED
    BY <1>3, <2>1 DEF EventOf
<1>4. SizeOf(t) = Info(Seen(t)).size /\ BufOf(t) = Info(Seen(t)).buf
  BY DEF SizeOf, BufOf
<1>5. CASE ClaimStep
  <2> DEFINE c == Step.cell
             path == Step.path
  <2>1. At("claim") /\ claims' = Claimed(c) /\ Out!Claim(path, AddrOf(c), Info(c).ty, Info(c).size)
    BY <1>5 DEF ClaimStep
  <2>2. t \in Reached /\ Step.op = "claim" /\ Step \in Safe(Seen(t)) /\ NewDone(t, EventOf(Step))
        /\ EventOf(Step) \in Events(Seen(t)) /\ FramesFine(stack', entered')
    BY <1>2, <2>1
  <2>3. EventOf(Step) = <<"claim", c>>
    BY <2>2 DEF EventOf, CellOps
  <2>4. path \in Path /\ c \in Reached /\ c \in Cells
    BY <1>1, <2>2, StepArguments, ReachedFacts
  <2>5. c \in ItemsOf(Seen(t))
    BY <2>2, <2>3, EventFacts
  <2>6. Seen(c) = c
    <3>1. Info(Seen(t)).kind \in ItemKinds /\ c \in PartCells(t)
      BY <2>5 DEF ItemsOf, PartCells
    <3>2. QED
      BY <2>2, <3>1 DEF Tidy
  <2>7. SizeOf(c) = Info(c).size /\ Info(c).ty \in Types
    BY <1>1, <2>4, <2>6, DumpTypes DEF SizeOf, CellInfo
  <2> HIDE DEF t, c, path
  <2>8. ClaimsAt(path, c)
    BY <2>1, <2>7 DEF ClaimsAt
  <2>9. DidClaim(t, c)
    BY <1>1, <2>2, <2>3, <2>4, <2>5, <2>8 DEF DidClaim, NoEntry
  <2>10. QED
    BY <1>1, <2>2, <2>4, <2>9 DEF Moved, Did
<1>6. CASE RawStep
  <2>1. At("raw") /\ claims' = claims /\ Out!ClaimRaw(Step.path, Step.addr, Step.size, Step.assoc)
    BY <1>6 DEF RawStep
  <2>2. /\ t \in Reached /\ Step.op = "raw" /\ Step \in Safe(Seen(t)) /\ Step \in Fine(Seen(t))
        /\ NewDone(t, <<"raw", Null>>) /\ FramesFine(stack', entered')
    BY <1>2, <1>3, <2>1 DEF CellOps
  <2>3. Step.path \in Path /\ Step.assoc \in BOOLEAN
    BY <1>1, <2>2, StepArguments
  <2>4. /\ Step.addr = BufOf(t).addr
        /\ Info(Seen(t)).kind \in StringKinds => Step.assoc = TRUE /\ Step.size = BufOf(t).len
        /\ Info(Seen(t)).kind \notin StringKinds => Step.assoc = FALSE /\ Step.size = BufOf(t).cap
    <3>1. /\ Step.addr = Info(Seen(t)).buf.addr
          /\ Step.assoc = (Info(Seen(t)).kind \in StringKinds)
          /\ Step.size = IF Step.assoc THEN Info(Seen(t)).buf.len ELSE Info(Seen(t)).buf.cap
      BY <2>2, Zenon DEF Fine
    <3>2. CASE Info(Seen(t)).kind \in StringKinds
      BY <1>4, <3>1, <3>2
    <3>3. CASE Info(Seen(t)).kind \notin StringKinds
      <4>0. ~ Step.assoc
        BY <3>1, <3>3, Zenon
      <4>1. Step.assoc = FALSE
        BY <2>3, <4>0
      <4>2. Step.size = Info(Seen(t)).buf.cap
        BY <3>1, <4>1
      <4>3. QED
        BY <1>4, <3>1, <3>3, <4>1, <4>2
    <3>4. QED
      BY <3>2, <3>3
  <2> HIDE DEF t
  <2>5. DidRaw(t)
    BY <1>1, <2>1, <2>2, <2>3, <2>4 DEF DidRaw, NoEntry
  <2>6. QED
    BY <1>1, <2>2, <2>5 DEF Moved, Did
<1>7. CASE RawOnceStep
  <2>1. /\ At("rawonce") /\ claims' = claims
        /\ IF Step.addr \in shared_pointers
             THEN UNCHANGED outvars
             ELSE Out!InsertAndClaimRaw(Step.path, Step.addr, Step.size)
    BY <1>7 DEF RawOnceStep
  <2>2. /\ t \in Reached /\ Step.op = "rawonce" /\ Step \in Safe(Seen(t)) /\ Step \in Fine(Seen(t))
        /\ NewDone(t, <<"rawonce", Null>>) /\ FramesFine(stack', entered')
    BY <1>2, <1>3, <2>1 DEF CellOps
  <2>3. Step.path \in Path
    BY <1>1, <2>2, StepArguments
  <2>4. Step.addr = BufOf(t).addr /\ Step.size = SizeOf(t) + BufOf(t).len
    BY <1>4, <2>2 DEF Fine
  <2> HIDE DEF t
  <2>5. DidRawOnce(t)
    BY <1>1, <2>1, <2>2, <2>3, <2>4 DEF DidRawOnce, NoEntry
  <2>6. QED
    BY <1>1, <2>2, <2>5 DEF Moved, Did
<1>8. CASE CountStep
  <2>1. At("count") /\ claims' = claims /\ Out!CountVariant(Step.enm, Step.variant)
    BY <1>8 DEF CountStep
  <2>2. /\ t \in Reached /\ Step.op = "count" /\ Step \in Fine(Seen(t))
        /\ NewDone(t, <<"count", Null>>) /\ FramesFine(stack', entered')
    BY <1>2, <1>3, <2>1 DEF CellOps
  <2>3. Step.enm = Info(Seen(t)).ty /\ Step.variant = Field(Info(Seen(t)).variant)
    BY <2>2 DEF Fine
  <2> HIDE DEF t
  <2>4. DidCount(t)
    BY <1>1, <2>1, <2>2, <2>3 DEF DidCount, NoEntry
  <2>5. QED
    BY <1>1, <2>2, <2>4 DEF Moved, Did
<1>9. QED
  BY <1>5, <1>6, <1>7, <1>8

(* The steps that enter a cell or would.                                    *)
LEMMA VisitMoves ==
    ASSUME Inv, Tidy, Distinct, Entered, VisitStep
    PROVE  Moved /\ status' = status
<1> DEFINE t == Top.cell
           c == Step.cell
           path == Step.path
<1>1. /\ FramesFine(stack, entered) /\ OwnedOnTime /\ dump \in Dumps /\ stack \in Seq(Frames)
      /\ At("visit") /\ visit_type(Rest, path, c)
  BY DEF Entered, Inv, VisitStep
<1>2. /\ t \in Reached /\ Step \in Fine(Seen(t)) /\ Step.op = "visit" /\ Step \in Safe(Seen(t))
      /\ EventOf(Step) \in Events(Seen(t)) /\ ~ Done(stack, entered, t, EventOf(Step))
  BY <1>1, TopDoes, NextStep
<1>3. EventOf(Step) = <<"visit", c>> /\ (is_root_or_deref(path) <=> Info(Seen(t)).kind \in Owners)
  BY <1>2 DEF EventOf, CellOps, Fine
<1>4. path \in Path /\ c \in Reached /\ c \in Owned(Seen(t))
  BY <1>1, <1>2, StepArguments
<1>5. c \notin entered
  BY <1>1, <1>2, <1>3, <1>4 DEF OwnedOnTime
<1>6. ~ NoVtable(c) /\ Info(Seen(c)).ty \in Types
  BY <1>1, <1>4, OrderlyView, DumpTypes DEF CellInfo
<1>7. /\ stack' = Push(Rest, c, path) /\ unwinding' = FALSE /\ entered' = entered \cup {c}
      /\ status' = status
      /\ IF is_root_or_deref(path)
           THEN /\ Out!Claim(path, AddrOf(c), Info(Info(c).view).ty, Info(Info(c).view).size)
                /\ claims' = Claimed(c)
           ELSE UNCHANGED <<outvars, claims>>
  BY <1>1, <1>6 DEF visit_type, After
<1>8. FramesFine(stack', entered') /\ NewDone(t, <<"visit", c>>)
  <2>1. EntryDone(t)
    BY <1>1, TopDoes
  <2>2. QED
    BY <1>3, <1>4, <1>5, <1>7, <2>1 DEF EntryDone
<1>9. Info(Info(c).view).size = SizeOf(c) /\ Info(Info(c).view).ty = Info(Seen(c)).ty
  BY DEF SizeOf, Seen
<1> HIDE DEF t, c, path
<1>10. IF Info(Seen(t)).kind \in Owners THEN \E p \in Path : ClaimsAt(p, c)
                                        ELSE UNCHANGED <<claims, outvars>>
  <2>1. CASE Info(Seen(t)).kind \in Owners
    <3>1. ClaimsAt(path, c)
      BY <1>3, <1>6, <1>7, <1>9, <2>1 DEF ClaimsAt
    <3>2. QED
      BY <1>4, <2>1, <3>1
  <2>2. CASE Info(Seen(t)).kind \notin Owners
    BY <1>3, <1>7, <2>2
  <2>3. QED
    BY <2>1, <2>2
<1>11. DidVisit(t, c)
  BY <1>4, <1>5, <1>7, <1>8, <1>10 DEF DidVisit, EnterCell
<1>12. QED
  BY <1>2, <1>4, <1>7, <1>8, <1>11 DEF Moved, Did

LEMMA VisitOnceMoves ==
    ASSUME Inv, Tidy, Distinct, Entered, VisitOnceStep
    PROVE  Moved /\ status' = status
<1> DEFINE t == Top.cell
           c == Step.cell
           path == Step.path
<1>1. /\ FramesFine(stack, entered) /\ SharedOnTime /\ dump \in Dumps /\ stack \in Seq(Frames)
      /\ ~ unwinding /\ At("once")
      /\ IF AddrOf(c) \in shared_pointers
           THEN stack' = Rest /\ UNCHANGED <<unwinding, status, claims, entered, outvars>>
           ELSE visit_shared(Rest, path, c)
  BY DEF Entered, Inv, VisitOnceStep
<1>2. /\ t \in Reached /\ Step.op = "once" /\ Step \in Safe(Seen(t))
      /\ stack' = Rest /\ entered' = entered
           => FramesFine(stack', entered') /\ NewDone(t, EventOf(Step))
  BY <1>1, TopDoes, NextStep
<1>3. EventOf(Step) = <<"once", c>>
  BY <1>2 DEF EventOf, CellOps
<1>4. path \in Path /\ c \in Reached /\ c \in Shared(Seen(t))
  BY <1>1, <1>2, StepArguments
<1>5. CASE AddrOf(c) \in shared_pointers
  <2>1. FramesFine(stack', entered') /\ NewDone(t, <<"once", c>>)
    BY <1>1, <1>2, <1>3, <1>5
  <2> HIDE DEF t, c, path
  <2>2. DidSkip(t, c)
    BY <1>1, <1>4, <1>5, <2>1 DEF DidSkip, NoEntry
  <2>3. QED
    BY <1>1, <1>2, <1>4, <1>5, <2>1, <2>2 DEF Moved, Did
<1>6. CASE AddrOf(c) \notin shared_pointers
  <2>1. c \notin entered
    BY <1>1, <1>2, <1>4, <1>6 DEF SharedOnTime
  <2>2. ~ NoVtable(c) /\ Info(Seen(c)).ty \in Types
    BY <1>1, <1>4, OrderlyView, DumpTypes DEF CellInfo
  <2>3. /\ stack' = Push(Rest, c, path) /\ unwinding' = FALSE /\ entered' = entered \cup {c}
        /\ status' = status
        /\ Out!InsertAndClaim(path, AddrOf(c), Info(Info(c).view).ty, Info(Info(c).view).size)
        /\ claims' = Claimed(c)
    BY <1>1, <1>6, <2>2 DEF visit_shared, After
  <2>4. FramesFine(stack', entered') /\ NewDone(t, <<"once", c>>)
    <3>1. EntryDone(t)
      BY <1>1, TopDoes
    <3>2. QED
      BY <1>3, <1>4, <2>1, <2>3, <3>1 DEF EntryDone
  <2>5. Info(Info(c).view).size = SizeOf(c) /\ Info(Info(c).view).ty = Info(Seen(c)).ty
    BY DEF SizeOf, Seen
  <2> HIDE DEF t, c, path
  <2>6. DidVisitOnce(t, c)
    BY <1>4, <1>6, <2>1, <2>2, <2>3, <2>4, <2>5 DEF DidVisitOnce, EnterCell
  <2>7. QED
    BY <1>2, <1>4, <2>3, <2>4, <2>6 DEF Moved, Did
<1>7. QED
  BY <1>5, <1>6

(* A requested variable is one no cell is entered through.                  *)
LEMMA RootMoves ==
    ASSUME Inv, Tidy, Entered, RootsOnTime, VisitVariable
    PROVE  RootMoved /\ status' = status
<1> DEFINE c == Local(<<fr, arg>>)
           path == <<Field(Wanted.var_name)>>
<1>1. /\ InMain /\ ArgsLeft /\ Wanted.fcn_name = Frame.sym
      /\ Frame.local[Wanted.var_name] # Null
      /\ visit_type(<<>>, path, Frame.local[Wanted.var_name])
  BY DEF VisitVariable
<1>2. Frame.local[Wanted.var_name] \in Roots /\ path \in Path /\ arg \in DOMAIN dump.args
  BY <1>1, LocalsSafe
<1>3. c = Frame.local[Wanted.var_name]
  BY DEF Local, Frame, Wanted
<1>4. <<fr, arg>> \in Requested
  BY <1>1, <1>2 DEF Inv, Requested, Frame, Wanted
<1>5. c \in Roots /\ c \in Reached /\ c # Null /\ visit_type(<<>>, path, c)
  BY <1>1, <1>2, <1>3, ReachedFacts DEF Inv
<1>6. c \notin entered
  <2>1. fr \in Int /\ arg \in Int
    <3>1. dump.frames \in Seq(Call)
      BY WalkAssumption DEF Inv, Dump
    <3>2. QED
      BY <3>1, LenProperties DEF Inv
  <2>2. ~ Before(<<fr, arg>>)
    BY <2>1 DEF Before
  <2>3. QED
    BY <1>4, <1>5, <2>2 DEF RootsOnTime
<1>7. ~ is_root_or_deref(path)
  <2>1. Len(path) = 1 /\ path[1] = Field(Wanted.var_name)
    OBVIOUS
  <2>2. QED
    BY <2>1 DEF is_root_or_deref, Field, Deref
<1>8. ~ NoVtable(c)
  BY <1>5, OrderlyView DEF Inv
<1> HIDE DEF c, path
<1>9. /\ stack' = Push(<<>>, c, path) /\ unwinding' = FALSE /\ entered' = entered \cup {c}
      /\ status' = status /\ UNCHANGED <<outvars, claims>>
  BY <1>5, <1>7, <1>8 DEF visit_type, After
<1>10. FramesFine(stack', entered') /\ SameDone
  BY <1>1, <1>2, <1>5, <1>6, <1>9, EndsDo DEF Entered, InMain, path
<1>11. DidRoot(c)
  BY <1>5, <1>6, <1>9, <1>10 DEF DidRoot, EnterCell
<1>12. QED
  BY <1>4, <1>9, <1>10, <1>11 DEF RootMoved, c

(* Every step of such a walk is one of these.                               *)
LEMMA Moves ==
    ASSUME Inv, Tidy, Distinct, Progress, [Next]_vars
    PROVE  /\ dump' = dump
           /\ VisitVariable => RootMoved /\ status' = status
           /\ ~ VisitVariable => Moved
           /\ Handler => Moved /\ UNCHANGED <<fr, arg, visited, status>>
<1>1. Entered /\ RootsOnTime
  BY DEF Progress, Looped
<1>2. dump' = dump
  BY NextStackStep DEF StackStep
<1>3. VisitVariable => RootMoved /\ status' = status
  BY <1>1, RootMoves
<1>4. ASSUME Handler PROVE Moved /\ UNCHANGED <<fr, arg, visited, status>>
  <2>1. ReadStep \/ Return => UNCHANGED <<claims, entered, outvars>>
    BY DEF ReadStep, Return
  <2>2. ReadStep \/ Return => Moved /\ status' = status
    BY <1>1, <2>1, QuietMoves
  <2>3. ~ PanicStep /\ ~ Propagate
    <3>1. PanicStep \/ Propagate => UNCHANGED <<claims, entered, outvars>>
      BY DEF PanicStep, Propagate
    <3>2. QED
      BY <1>1, <3>1, QuietMoves
  <2>4. Moved
    BY <1>1, <1>4, <2>2, <2>3, WorkMoves, VisitMoves, VisitOnceMoves DEF Handler
  <2>5. UNCHANGED <<fr, arg, visited, status>>
    <3>1. UNCHANGED <<fr, arg, visited>>
      BY <1>4, <2>3 DEF Handler, ReadStep, ClaimStep, RawStep, RawOnceStep, CountStep, VisitStep,
           VisitOnceStep, Return, mainvars
    <3>2. ClaimStep \/ RawStep \/ RawOnceStep \/ CountStep => status' = status
      BY DEF ClaimStep, RawStep, RawOnceStep, CountStep
    <3>3. QED
      BY <1>1, <1>4, <2>2, <2>3, <3>1, <3>2, VisitMoves, VisitOnceMoves DEF Handler
  <2>6. QED
    BY <2>4, <2>5
<1>5. ASSUME NoSuchVariable \/ SkipVariable \/ NextFrame \/ Report \/ UNCHANGED vars PROVE Moved
  <2>1. UNCHANGED <<claims, entered, outvars>> /\ stack' = stack /\ unwinding' = unwinding
    BY <1>5 DEF NoSuchVariable, SkipVariable, NextFrame, Report, vars
  <2>2. QED
    BY <1>1, <2>1, QuietMoves
<1>6. QED
  BY <1>2, <1>3, <1>4, <1>5 DEF Next, Main

-----------------------------------------------------------------------------
(* What the dump says stays as it is.                                       *)
LEMMA AboutSame ==
    ASSUME dump \in Dumps, dump' = dump
    PROVE  /\ \A c : /\ Info(c)' = Info(c) /\ Events(c)' = Events(c) /\ ItemsOf(c)' = ItemsOf(c)
                     /\ OwnOps(c)' = OwnOps(c) /\ SizeOf(c)' = SizeOf(c) /\ BufOf(c)' = BufOf(c)
                     /\ Targets(c)' = Targets(c)
           /\ SharedTargets(Reached)' = SharedTargets(Reached)
           /\ Requested' = Requested /\ \A p : Local(p)' = Local(p)
<1>1. \A c : Info(c)' = Info(c) /\ PartsOf(c)' = PartsOf(c)
  BY DEF Info, PartsOf
<1>2. \A c : Seen(c)' = Seen(c) /\ Owned(c)' = Owned(c) /\ Shared(c)' = Shared(c)
  BY DumpSame
<1>3. \A c : OwnOps(c)' = OwnOps(c) /\ ItemsOf(c)' = ItemsOf(c)
  BY <1>1 DEF OwnOps, ItemsOf
<1>4. \A c : Events(c)' = Events(c)
  BY <1>2, <1>3 DEF Events
<1>5. \A c : SizeOf(c)' = SizeOf(c) /\ BufOf(c)' = BufOf(c) /\ Targets(c)' = Targets(c)
  BY <1>1, <1>2 DEF SizeOf, BufOf, Targets
<1>6. SharedTargets(Reached)' = SharedTargets(Reached)
  <2>1. Reached' = Reached
    BY DumpSame
  <2>2. QED
    BY <1>1, <1>2, <1>5, <2>1 DEF SharedTargets
<1>7. Requested' = Requested /\ \A p : Local(p)' = Local(p)
  BY DEF Requested, Local
<1>8. QED
  BY <1>1, <1>3, <1>4, <1>5, <1>6, <1>7

LEMMA DoneSame ==
    ASSUME dump \in Dumps, dump' = dump
    PROVE  /\ \A d, e : Done(stack, entered, d, e)' <=> Done(stack', entered', d, e)
           /\ FramesFine(stack, entered)' <=> FramesFine(stack', entered')
<1>1. \A c : Info(c)' = Info(c) /\ Events(c)' = Events(c) /\ Seen(c)' = Seen(c)
  BY AboutSame, DumpSame
<1>2. \A d : Pending(stack, d)' = Pending(stack', d)
  BY DEF Pending, Left, Acts, EventOf
<1>3. \A d, e : Done(stack, entered, d, e)' <=> Done(stack', entered', d, e)
  BY <1>1, <1>2 DEF Done
<1>4. \A c : Fine(c)' = Fine(c)
  BY <1>1 DEF Fine
<1>5. FramesFine(stack, entered)' <=> FramesFine(stack', entered')
  BY <1>1, <1>4 DEF FramesFine, Does, Left, Acts, EventOf, OnceEach
<1>6. QED
  BY <1>3, <1>5

(* Each cell is entered through its one owner, or at the first shared       *)
(* pointer to it, or from main.                                             *)
LEMMA OwnedKept ==
    ASSUME Inv, Tidy, Entered, Did \/ \E c \in Roots : DidRoot(c),
           NEW d \in Reached, NEW c \in Owned(Seen(d))
    PROVE  c \in entered' <=> Done(stack', entered', d, <<"visit", c>>)
<1> DEFINE e == <<"visit", c>>
<1>1. dump \in Dumps /\ c \in Reached
  BY ReachedFacts DEF Inv
<1>2. /\ c \notin Roots
      /\ \A t \in Reached : c \in Owned(Seen(t)) => t = d
      /\ \A t \in Reached : c \notin Shared(Seen(t))
  BY <1>1, OneWayIn
<1>3. c \in entered <=> Done(stack, entered, d, e)
  BY DEF Entered, OwnedOnTime
<1>4. /\ SameDone => (Done(stack', entered', d, e) <=> Done(stack, entered, d, e))
      /\ \A t, x : NewDone(t, x) /\ ~ (t = d /\ x = e)
                     => (Done(stack', entered', d, e) <=> Done(stack, entered, d, e))
      /\ NewDone(d, e) => Done(stack', entered', d, e)
  BY DEF SameDone, NewDone
<1>5. \A x : <<"claim", x>> # e /\ <<"once", x>> # e /\ <<"raw", x>> # e
             /\ <<"rawonce", x>> # e /\ <<"count", x>> # e
  OBVIOUS
<1>6. \A x : x # c => <<"visit", x>> # e
  OBVIOUS
<1> HIDE DEF e
<1>7. CASE Quiet
  BY <1>3, <1>4, <1>7 DEF Quiet, NoEntry, e
<1>8. ASSUME NEW t \in Reached, DidRaw(t) \/ DidRawOnce(t) \/ DidCount(t)
      PROVE  c \in entered' <=> Done(stack', entered', d, e)
  <2>1. NoEntry /\ (NewDone(t, <<"raw", Null>>) \/ NewDone(t, <<"rawonce", Null>>) \/ NewDone(t, <<"count", Null>>))
    BY <1>8 DEF DidRaw, DidRawOnce, DidCount
  <2>2. QED
    BY <1>3, <1>4, <1>5, <2>1 DEF NoEntry
<1>9. ASSUME NEW t \in Reached, NEW x \in Reached, DidClaim(t, x) \/ DidSkip(t, x)
      PROVE  c \in entered' <=> Done(stack', entered', d, e)
  <2>1. NoEntry /\ (NewDone(t, <<"claim", x>>) \/ NewDone(t, <<"once", x>>))
    BY <1>9 DEF DidClaim, DidSkip
  <2>2. QED
    BY <1>3, <1>4, <1>5, <2>1 DEF NoEntry
<1>10. ASSUME NEW t \in Reached, NEW x \in Reached, DidVisit(t, x)
       PROVE  c \in entered' <=> Done(stack', entered', d, e)
  <2>1. x \in Owned(Seen(t)) /\ NewDone(t, <<"visit", x>>) /\ entered' = entered \cup {x}
    BY <1>10 DEF DidVisit, EnterCell
  <2>2. CASE x = c
    <3>1. t = d /\ NewDone(d, e)
      BY <1>2, <2>1, <2>2 DEF e
    <3>2. QED
      BY <1>4, <2>1, <2>2, <3>1
  <2>3. CASE x # c
    BY <1>3, <1>4, <1>6, <2>1, <2>3
  <2>4. QED
    BY <2>2, <2>3
<1>11. ASSUME NEW t \in Reached, NEW x \in Reached, DidVisitOnce(t, x)
       PROVE  c \in entered' <=> Done(stack', entered', d, e)
  <2>1. x \in Shared(Seen(t)) /\ NewDone(t, <<"once", x>>) /\ entered' = entered \cup {x}
    BY <1>11 DEF DidVisitOnce, EnterCell
  <2>2. x # c
    BY <1>2, <2>1
  <2>3. QED
    BY <1>3, <1>4, <1>5, <2>1, <2>2
<1>12. ASSUME NEW x \in Roots, DidRoot(x) PROVE c \in entered' <=> Done(stack', entered', d, e)
  <2>1. x # c /\ SameDone /\ entered' = entered \cup {x}
    BY <1>2, <1>12 DEF DidRoot, EnterCell
  <2>2. QED
    BY <1>3, <1>4, <2>1
<1>13. QED
  BY <1>7, <1>8, <1>9, <1>10, <1>11, <1>12 DEF Did, e

LEMMA OnceTargets ==
    ASSUME dump \in Dumps, NEW d \in Reached, NEW c \in Shared(Seen(d))
    PROVE  c \in SharedTargets(Reached) /\ c \in Reached
<1>1. c \in Targets(d) /\ Info(Seen(d)).kind \in SharedKinds
  BY DEF Shared, Targets, SharedKinds
<1>2. QED
  BY <1>1, ReachedFacts DEF SharedTargets

LEMMA SharedKept ==
    ASSUME Inv, Tidy, Entered, Did \/ \E c \in Roots : DidRoot(c),
           NEW d \in Reached, NEW c \in Shared(Seen(d))
    PROVE  /\ c \in entered' <=> AddrOf(c) \in shared_pointers'
           /\ Done(stack', entered', d, <<"once", c>>) => c \in entered'
<1> DEFINE e == <<"once", c>>
           G == /\ c \in entered' <=> AddrOf(c) \in shared_pointers'
                /\ Done(stack', entered', d, e) => c \in entered'
<1>1. dump \in Dumps /\ c \in Reached /\ c \in SharedTargets(Reached)
  BY OnceTargets DEF Inv
<1>2. \A t \in Reached : c \notin Owned(Seen(t))
  BY <1>1, OneWayIn
<1>3. c \notin Roots
  BY <1>1, ReachedFacts DEF Tidy
<1>4. /\ c \in entered <=> AddrOf(c) \in shared_pointers
      /\ Done(stack, entered, d, e) => c \in entered
  BY DEF Entered, SharedOnTime
<1>5. /\ SameDone => (Done(stack', entered', d, e) <=> Done(stack, entered, d, e))
      /\ \A t, x : NewDone(t, x) /\ ~ (t = d /\ x = e)
                     => (Done(stack', entered', d, e) <=> Done(stack, entered, d, e))
  BY DEF SameDone, NewDone
<1>6. \A x : <<"claim", x>> # e /\ <<"visit", x>> # e /\ <<"raw", x>> # e
             /\ <<"rawonce", x>> # e /\ <<"count", x>> # e
  OBVIOUS
<1>7. \A x : x # c => <<"once", x>> # e
  OBVIOUS
<1>8. UNCHANGED outvars => shared_pointers' = shared_pointers
  BY DEF outvars
<1> HIDE DEF e
<1>9. ASSUME Quiet PROVE G
  BY <1>4, <1>5, <1>8, <1>9 DEF Quiet, NoEntry
<1>10. ASSUME NEW t \in Reached, DidRaw(t) \/ DidCount(t) PROVE G
  <2>1. NoEntry /\ shared_pointers' = shared_pointers
        /\ (NewDone(t, <<"raw", Null>>) \/ NewDone(t, <<"count", Null>>))
    BY <1>10 DEF DidRaw, DidCount, Out!ClaimRaw, Out!CountVariant
  <2>2. QED
    BY <1>4, <1>5, <1>6, <2>1 DEF NoEntry
<1>11. ASSUME NEW t \in Reached, DidRawOnce(t) PROVE G
  <2>1. /\ NoEntry /\ NewDone(t, <<"rawonce", Null>>)
        /\ shared_pointers' = shared_pointers \cup {BufOf(t).addr}
    BY <1>8, <1>11 DEF DidRawOnce, Out!InsertAndClaimRaw
  <2>2. Info(Seen(t)).kind = "RcString"
    <3>1. <<"rawonce", Null>> \in Events(Seen(t))
      BY <2>1 DEF NewDone
    <3>2. "rawonce" \in OwnOps(Seen(t))
      BY <3>1, EventFacts
    <3>3. QED
      BY <3>2 DEF OwnOps
  <2>3. AddrOf(c) # BufOf(t).addr
    BY <1>1, <2>2 DEF Tidy, SeparateOnce
  <2>4. QED
    BY <1>4, <1>5, <1>6, <2>1, <2>3 DEF NoEntry
<1>12. ASSUME NEW t \in Reached, NEW x \in Reached, DidClaim(t, x) PROVE G
  <2>1. NoEntry /\ shared_pointers' = shared_pointers /\ NewDone(t, <<"claim", x>>)
    BY <1>12 DEF DidClaim, ClaimsAt, Out!Claim
  <2>2. QED
    BY <1>4, <1>5, <1>6, <2>1 DEF NoEntry
<1>13. ASSUME NEW t \in Reached, NEW x \in Reached, DidVisit(t, x) PROVE G
  <2>1. /\ x \in Owned(Seen(t)) /\ NewDone(t, <<"visit", x>>) /\ entered' = entered \cup {x}
        /\ shared_pointers' = shared_pointers
    <3>1. (\E path \in Path : ClaimsAt(path, x)) => shared_pointers' = shared_pointers
      BY DEF ClaimsAt, Out!Claim
    <3>2. QED
      BY <1>8, <1>13, <3>1 DEF DidVisit, EnterCell
  <2>2. x # c
    BY <1>2, <2>1
  <2>3. QED
    BY <1>4, <1>5, <1>6, <2>1, <2>2
<1>14. ASSUME NEW t \in Reached, NEW x \in Reached, DidSkip(t, x) PROVE G
  <2>1. /\ NoEntry /\ shared_pointers' = shared_pointers /\ NewDone(t, <<"once", x>>)
        /\ AddrOf(x) \in shared_pointers
    BY <1>8, <1>14 DEF DidSkip
  <2>2. CASE x = c
    BY <1>4, <2>1, <2>2 DEF NoEntry
  <2>3. CASE x # c
    BY <1>4, <1>5, <1>7, <2>1, <2>3 DEF NoEntry
  <2>4. QED
    BY <2>2, <2>3
<1>15. ASSUME NEW t \in Reached, NEW x \in Reached, DidVisitOnce(t, x) PROVE G
  <2>1. /\ x \in Shared(Seen(t)) /\ NewDone(t, <<"once", x>>) /\ entered' = entered \cup {x}
        /\ shared_pointers' = shared_pointers \cup {AddrOf(x)}
    BY <1>15 DEF DidVisitOnce, EnterCell, Out!InsertAndClaim
  <2>2. CASE x = c
    BY <2>1, <2>2
  <2>3. CASE x # c
    <3>1. AddrOf(x) # AddrOf(c)
      <4>1. x \in SharedTargets(Reached)
        BY <1>1, <2>1, OnceTargets
      <4>2. QED
        BY <1>1, <2>3, <4>1 DEF Tidy, SeparateOnce
    <3>2. QED
      BY <1>4, <1>5, <1>7, <2>1, <2>3, <3>1
  <2>4. QED
    BY <2>2, <2>3
<1>16. ASSUME NEW x \in Roots, DidRoot(x) PROVE G
  <2>1. x # c /\ SameDone /\ entered' = entered \cup {x} /\ shared_pointers' = shared_pointers
    BY <1>3, <1>8, <1>16 DEF DidRoot, EnterCell
  <2>2. QED
    BY <1>4, <1>5, <2>1
<1>17. G
  BY <1>9, <1>10, <1>11, <1>12, <1>13, <1>14, <1>15, <1>16 DEF Did
<1>18. QED
  BY <1>17 DEF e

LEMMA KnownKept ==
    ASSUME Inv, Tidy, Entered, Did \/ \E c \in Roots : DidRoot(c), NEW a \in shared_pointers'
    PROVE  \/ \E c \in SharedTargets(Reached) : AddrOf(c) = a
           \/ \E s \in Reached : Done(stack', entered', s, <<"rawonce", Null>>) /\ BufOf(s).addr = a
<1> DEFINE G == \/ \E c \in SharedTargets(Reached) : AddrOf(c) = a
                \/ \E s \in Reached : Done(stack', entered', s, <<"rawonce", Null>>) /\ BufOf(s).addr = a
<1>1. ASSUME \A d, e : Done(stack, entered, d, e) => Done(stack', entered', d, e), a \in shared_pointers
      PROVE  G
  BY <1>1 DEF Entered, OnlyKnown
<1>2. /\ SameDone => \A d, e : Done(stack, entered, d, e) => Done(stack', entered', d, e)
      /\ \A t, x : NewDone(t, x) => /\ \A d, e : Done(stack, entered, d, e) => Done(stack', entered', d, e)
                                    /\ Done(stack', entered', t, x)
  BY DEF SameDone, NewDone
<1>3. UNCHANGED outvars => shared_pointers' = shared_pointers
  BY DEF outvars
<1>4. /\ \A path, ad, ty, sz : Out!Claim(path, ad, ty, sz) => shared_pointers' = shared_pointers
      /\ \A path, ad, sz, as : Out!ClaimRaw(path, ad, sz, as) => shared_pointers' = shared_pointers
  BY DEF Out!Claim, Out!ClaimRaw
<1> HIDE DEF G
<1>5. ASSUME Quiet PROVE G
  BY <1>1, <1>2, <1>3, <1>5 DEF Quiet
<1>6. ASSUME NEW t \in Reached, DidRaw(t) \/ DidCount(t) PROVE G
  <2>1. shared_pointers' = shared_pointers
        /\ (NewDone(t, <<"raw", Null>>) \/ NewDone(t, <<"count", Null>>))
    BY <1>4, <1>6 DEF DidRaw, DidCount, Out!CountVariant
  <2>2. QED
    BY <1>1, <1>2, <2>1
<1>7. ASSUME NEW t \in Reached, DidRawOnce(t) PROVE G
  <2>1. /\ NewDone(t, <<"rawonce", Null>>)
        /\ shared_pointers' = shared_pointers \cup {BufOf(t).addr}
    BY <1>3, <1>7 DEF DidRawOnce, Out!InsertAndClaimRaw
  <2>2. CASE a = BufOf(t).addr
    BY <1>2, <2>1, <2>2 DEF G
  <2>3. CASE a # BufOf(t).addr
    BY <1>1, <1>2, <2>1, <2>3
  <2>4. QED
    BY <2>2, <2>3
<1>8. ASSUME NEW t \in Reached, NEW x \in Reached, DidClaim(t, x) PROVE G
  BY <1>1, <1>2, <1>4, <1>8 DEF DidClaim, ClaimsAt
<1>9. ASSUME NEW t \in Reached, NEW x \in Reached, DidVisit(t, x) PROVE G
  BY <1>1, <1>2, <1>3, <1>4, <1>9 DEF DidVisit, ClaimsAt
<1>10. ASSUME NEW t \in Reached, NEW x \in Reached, DidSkip(t, x) PROVE G
  BY <1>1, <1>2, <1>3, <1>10 DEF DidSkip
<1>11. ASSUME NEW t \in Reached, NEW x \in Reached, DidVisitOnce(t, x) PROVE G
  <2>1. /\ x \in Shared(Seen(t)) /\ NewDone(t, <<"once", x>>)
        /\ shared_pointers' = shared_pointers \cup {AddrOf(x)}
    BY <1>11 DEF DidVisitOnce, Out!InsertAndClaim
  <2>2. x \in SharedTargets(Reached)
    BY <2>1, OnceTargets DEF Inv
  <2>3. CASE a = AddrOf(x)
    BY <2>2, <2>3 DEF G
  <2>4. CASE a # AddrOf(x)
    BY <1>1, <1>2, <2>1, <2>4
  <2>5. QED
    BY <2>3, <2>4
<1>12. ASSUME NEW x \in Roots, DidRoot(x) PROVE G
  BY <1>1, <1>2, <1>3, <1>12 DEF DidRoot
<1>13. G
  BY <1>5, <1>6, <1>7, <1>8, <1>9, <1>10, <1>11, <1>12 DEF Did
<1>14. QED
  BY <1>13 DEF G

(* Nothing is entered twice, and nothing left out.                          *)
LEMMA EntersReached ==
    ASSUME Inv, Did \/ \E c \in Roots : DidRoot(c)
    PROVE  \/ entered' = entered
           \/ \E c \in Reached \ entered : entered' = entered \cup {c}
  BY DEF Did, Quiet, DidRaw, DidRawOnce, DidCount, DidClaim, DidVisit, DidSkip, DidVisitOnce,
         DidRoot, NoEntry, EnterCell

LEMMA EnteredKept ==
    ASSUME Inv, Tidy, Entered, dump' = dump, Did \/ \E c \in Roots : DidRoot(c),
           FramesFine(stack', entered'), ~ unwinding'
    PROVE  Entered'
<1>1. dump \in Dumps /\ Reached' = Reached /\ \A c : Seen(c)' = Seen(c)
  BY DumpSame DEF Inv
<1>2. /\ \A d, e : Done(stack, entered, d, e)' <=> Done(stack', entered', d, e)
      /\ FramesFine(stack, entered)'
  BY <1>1, DoneSame
<1>3. entered' \subseteq Reached'
  BY <1>1, EntersReached DEF Entered
<1>4. OwnedOnTime'
  <2>1. \A d \in Reached : \A c \in Owned(Seen(d)) : c \in entered' <=> Done(stack', entered', d, <<"visit", c>>)
    BY OwnedKept
  <2>2. \A d : Owned(Seen(d))' = Owned(Seen(d))
    BY <1>1, DumpSame
  <2>3. QED
    BY <1>1, <1>2, <2>1, <2>2 DEF OwnedOnTime
<1>5. SharedOnTime'
  <2>1. \A d \in Reached : \A c \in Shared(Seen(d)) :
          /\ c \in entered' <=> AddrOf(c) \in shared_pointers'
          /\ Done(stack', entered', d, <<"once", c>>) => c \in entered'
    BY SharedKept
  <2>2. \A d : Shared(Seen(d))' = Shared(Seen(d)) /\ AddrOf(d)' = AddrOf(d)
    BY <1>1, DumpSame
  <2>3. QED
    BY <1>1, <1>2, <2>1, <2>2 DEF SharedOnTime
<1>6. OnlyKnown'
  <2>1. SharedTargets(Reached)' = SharedTargets(Reached) /\ \A c : BufOf(c)' = BufOf(c)
    BY <1>1, AboutSame
  <2>2. \A c : AddrOf(c)' = AddrOf(c)
    BY <1>1, DumpSame
  <2>3. \A a \in shared_pointers' :
          \/ \E c \in SharedTargets(Reached) : AddrOf(c) = a
          \/ \E s \in Reached : Done(stack', entered', s, <<"rawonce", Null>>) /\ BufOf(s).addr = a
    BY KnownKept
  <2>4. QED
    BY <1>1, <1>2, <2>1, <2>2, <2>3 DEF OnlyKnown
<1>7. QED
  BY <1>2, <1>3, <1>4, <1>5, <1>6 DEF Entered

-----------------------------------------------------------------------------
(* The loops of main, over the frames and the requested variables.          *)
LEMMA RequestFacts ==
    ASSUME dump \in Dumps
    PROVE  /\ Len(dump.frames) \in Nat /\ DOMAIN dump.frames = 1 .. Len(dump.frames)
           /\ Len(dump.args) \in Nat /\ DOMAIN dump.args = 1 .. Len(dump.args)
           /\ \A fi \in Requested :
                 /\ fi = <<fi[1], fi[2]>>
                 /\ fi[1] \in 1 .. Len(dump.frames) /\ fi[2] \in 1 .. Len(dump.args)
                 /\ dump.frames[fi[1]].sym = dump.args[fi[2]].fcn_name
                 /\ dump.frames[fi[1]].sym # Null
                 /\ Local(fi) # Null => Local(fi) \in Roots
<1>1. dump.frames \in Seq(Call) /\ dump.args \in Seq(Arg)
  BY WalkAssumption DEF Dump
<1>2. /\ Len(dump.frames) \in Nat /\ DOMAIN dump.frames = 1 .. Len(dump.frames)
      /\ Len(dump.args) \in Nat /\ DOMAIN dump.args = 1 .. Len(dump.args)
  BY <1>1, LenProperties
<1>3. ASSUME NEW fi \in Requested
      PROVE  /\ fi = <<fi[1], fi[2]>>
             /\ fi[1] \in 1 .. Len(dump.frames) /\ fi[2] \in 1 .. Len(dump.args)
             /\ dump.frames[fi[1]].sym = dump.args[fi[2]].fcn_name
  BY <1>2 DEF Requested
<1>4. \A i \in 1 .. Len(dump.args) : dump.args[i].fcn_name # Null
  <2>1. \A i \in 1 .. Len(dump.args) : dump.args[i] \in Arg
    BY <1>1, ElementOfSeq
  <2>2. QED
    BY <2>1, WalkAssumption DEF Arg
<1>5. \A fi \in Requested : Local(fi) # Null => Local(fi) \in Roots
  BY DEF Roots
<1>6. QED
  BY <1>2, <1>3, <1>4, <1>5

(* What no handler enters.                                                  *)
LEMMA RootsLeft ==
    ASSUME Inv, Tidy, Did, NEW c \in Roots
    PROVE  c \in entered' <=> c \in entered
<1>1. dump \in Dumps /\ c \in Reached
  BY ReachedFacts DEF Inv
<1>2. \A t \in Reached : c \notin Owned(Seen(t)) /\ c \notin Shared(Seen(t))
  BY <1>1, ReachedFacts DEF Tidy
<1>3. \/ entered' = entered
      \/ \E t, x \in Reached : /\ x \in Owned(Seen(t)) \/ x \in Shared(Seen(t))
                               /\ entered' = entered \cup {x}
  BY DEF Did, Quiet, DidRaw, DidRawOnce, DidCount, DidClaim, DidVisit, DidSkip, DidVisitOnce,
         NoEntry, EnterCell
<1>4. QED
  BY <1>2, <1>3

LEMMA LoopSame ==
    ASSUME Inv, dump' = dump, UNCHANGED <<fr, arg>>
    PROVE  /\ \A fi : Before(fi)' <=> Before(fi)
           /\ visited' = visited /\ VisitedBefore => VisitedBefore'
<1>1. \A fi : Before(fi)' <=> Before(fi)
  BY DEF Before
<1>2. Requested' = Requested
  BY AboutSame DEF Inv
<1>3. QED
  BY <1>1, <1>2 DEF VisitedBefore

LEMMA HandlerLoops == ASSUME Inv, Tidy, Progress, [Next]_vars, Distinct, Handler PROVE Looped'
<1>1. /\ dump' = dump /\ Did /\ UNCHANGED <<fr, arg, visited, status>> /\ dump \in Dumps
      /\ RootsOnTime /\ VisitedBefore
  BY Moves DEF Moved, Inv, Progress, Looped
<1>2. Requested' = Requested /\ \A p : Local(p)' = Local(p)
  BY <1>1, AboutSame
<1>3. \A fi : Before(fi)' <=> Before(fi)
  BY <1>1, LoopSame
<1>4. VisitedBefore'
  BY <1>1, LoopSame
<1>5. \A fi \in Requested : Local(fi) # Null => (Local(fi) \in entered' <=> Local(fi) \in entered)
  <2>1. \A fi \in Requested : Local(fi) # Null => Local(fi) \in Roots
    BY <1>1, RequestFacts
  <2>2. QED
    BY <1>1, <2>1, RootsLeft
<1>6. RootsOnTime'
  BY <1>1, <1>2, <1>3, <1>5 DEF RootsOnTime
<1>7. Finished'
  <2>1. status = "walking"
    BY DEF Handler, ReadStep, ClaimStep, RawStep, RawOnceStep, CountStep, VisitStep, VisitOnceStep,
           PanicStep, Return, Propagate, At
  <2>2. QED
    BY <1>1, <2>1 DEF Finished
<1>8. QED
  BY <1>4, <1>6, <1>7 DEF Looped

(* The inner loop has passed one more request.                              *)
LEMMA PassOne ==
    ASSUME Inv, Tidy, dump' = dump, fr' = fr, arg' = arg + 1,
           NEW fi \in Requested
    PROVE  Before(fi)' <=> Before(fi) \/ fi = <<fr, arg>>
<1>1. /\ fr \in Nat /\ arg \in Nat
      /\ fi = <<fi[1], fi[2]>> /\ fi[1] \in Nat /\ fi[2] \in Nat
  BY RequestFacts DEF Inv
<1>2. fi = <<fr, arg>> <=> fi[1] = fr /\ fi[2] = arg
  BY <1>1
<1>3. QED
  BY <1>1, <1>2 DEF Before

LEMMA VisitLoops == ASSUME Inv, Tidy, Distinct, Progress, VisitVariable PROVE Looped'
<1>1. /\ dump' = dump /\ fr' = fr /\ arg' = arg + 1 /\ status = "walking"
      /\ visited' = visited \cup {arg} /\ dump \in Dumps
  BY DEF VisitVariable, Inv, InMain
<1>2. Entered /\ RootsOnTime /\ VisitedBefore
  BY DEF Progress, Looped
<1>3. RootMoved /\ status' = status
  BY <1>2, RootMoves
<1> DEFINE here == <<fr, arg>>
<1>4. here \in Requested /\ entered' = entered \cup {Local(here)} /\ Local(here) \in Roots
  BY <1>3 DEF RootMoved, DidRoot, EnterCell
<1>5. Local(here) # Null
  BY <1>4 DEF Roots
<1>6. \A fi \in Requested : Before(fi)' <=> Before(fi) \/ fi = here
  BY <1>1, PassOne
<1>7. \A p, q \in Requested : p # q /\ Local(p) # Null => Local(p) # Local(q)
  BY DEF Tidy
<1>8. Requested' = Requested /\ \A p : Local(p)' = Local(p)
  BY <1>1, AboutSame
<1>9. here[1] = fr /\ here[2] = arg /\ here = <<fr, arg>> /\ fr \in DOMAIN dump.frames
  BY DEF Inv
<1> HIDE DEF here
<1>10. RootsOnTime'
  <2> SUFFICES ASSUME NEW fi \in Requested
               PROVE  /\ Local(fi) # Null => (Local(fi) \in entered' <=> Before(fi)')
                      /\ Before(fi)' => Local(fi) # Null
    BY <1>8 DEF RootsOnTime
  <2>1. /\ Local(fi) # Null => (Local(fi) \in entered <=> Before(fi))
        /\ Before(fi) => Local(fi) # Null
    BY <1>2 DEF RootsOnTime
  <2>2. CASE fi = here
    BY <1>4, <1>5, <1>6, <2>2
  <2>3. CASE fi # here
    BY <1>4, <1>6, <1>7, <2>1, <2>3
  <2>4. QED
    BY <2>2, <2>3
<1>11. VisitedBefore'
  <2> SUFFICES ASSUME NEW i \in visited'
               PROVE \E f \in DOMAIN dump.frames : <<f, i>> \in Requested /\ Before(<<f, i>>)'
    BY <1>1, <1>8 DEF VisitedBefore
  <2>1. CASE i = arg
    BY <1>4, <1>6, <1>9, <2>1
  <2>2. CASE i \in visited
    BY <1>2, <1>6, <2>2 DEF VisitedBefore
  <2>3. QED
    BY <1>1, <2>1, <2>2
<1>12. QED
  BY <1>1, <1>3, <1>10, <1>11 DEF Looped, Finished

LEMMA SkipLoops == ASSUME Inv, Tidy, Progress, SkipVariable PROVE Looped'
<1>1. /\ dump' = dump /\ fr' = fr /\ arg' = arg + 1 /\ status' = status /\ status = "walking"
      /\ visited' = visited /\ entered' = entered /\ dump \in Dumps
      /\ Wanted.fcn_name # Frame.sym
  BY DEF SkipVariable, Inv, InMain
<1>2. RootsOnTime /\ VisitedBefore
  BY DEF Progress, Looped
<1>3. <<fr, arg>> \notin Requested
  BY <1>1 DEF Requested, Wanted, Frame
<1>4. \A fi \in Requested : Before(fi)' <=> Before(fi)
  BY <1>1, <1>3, PassOne
<1>5. Requested' = Requested /\ \A p : Local(p)' = Local(p)
  BY <1>1, AboutSame
<1>6. RootsOnTime'
  BY <1>1, <1>2, <1>4, <1>5 DEF RootsOnTime
<1>7. VisitedBefore'
  BY <1>1, <1>2, <1>4, <1>5 DEF VisitedBefore
<1>8. QED
  BY <1>1, <1>6, <1>7 DEF Looped, Finished

(* When the inner loop is through, so is its frame; when every request has  *)
(* been visited in a live frame, no later frame has any.                    *)
LEMMA FrameThrough ==
    ASSUME Inv, ~ ArgsLeft, NEW fi \in Requested, fi[1] = fr PROVE Before(fi)
<1>1. /\ fr \in Nat /\ arg \in 1 .. Len(dump.args) + 1 /\ Len(dump.args) \in Nat
      /\ fi[2] \in 1 .. Len(dump.args) /\ dump.frames[fi[1]].sym # Null
  BY RequestFacts DEF Inv
<1>2. arg > Len(dump.args)
  BY <1>1 DEF ArgsLeft, Frame
<1>3. QED
  BY <1>1, <1>2 DEF Before

LEMMA NothingLater ==
    ASSUME Inv, Tidy, VisitedBefore, AllVisited, NEW fi \in Requested PROVE Before(fi)
<1>1. /\ fi = <<fi[1], fi[2]>> /\ fi[2] \in visited /\ fi[1] \in DOMAIN dump.frames
      /\ dump.frames[fi[1]].sym = dump.args[fi[2]].fcn_name /\ dump.frames[fi[1]].sym # Null
  BY RequestFacts DEF Inv, AllVisited
<1>2. PICK f \in DOMAIN dump.frames : <<f, fi[2]>> \in Requested /\ Before(<<f, fi[2]>>)
  BY <1>1 DEF VisitedBefore
<1>3. dump.frames[f].sym = dump.args[fi[2]].fcn_name
  BY <1>2 DEF Requested
<1>4. f = fi[1]
  BY <1>1, <1>3 DEF Tidy
<1>5. QED
  BY <1>1, <1>2, <1>4

LEMMA FrameLoops == ASSUME Inv, Tidy, Progress, NextFrame PROVE Looped'
<1>1. /\ dump' = dump /\ visited' = visited /\ entered' = entered /\ stack' = stack /\ stack = <<>>
      /\ status = "walking" /\ dump \in Dumps /\ ~ ArgsLeft
      /\ IF (Frame.sym # Null /\ AllVisited) \/ fr = Len(dump.frames)
           THEN status' = "done" /\ UNCHANGED <<fr, arg>>
           ELSE fr' = fr + 1 /\ arg' = 1 /\ status' = status
  BY DEF NextFrame, Inv, InMain
<1>2. RootsOnTime /\ VisitedBefore
  BY DEF Progress, Looped
<1>3. \A fi \in Requested : fi[1] = fr => Before(fi)
  BY <1>1, FrameThrough
<1>4. fr \in Nat /\ \A fi \in Requested : fi[1] \in 1 .. Len(dump.frames) /\ fi[2] \in Nat \ {0}
  BY <1>1, RequestFacts DEF Inv
<1>5. \A fi \in Requested : Before(fi)' <=> Before(fi)
  <2> TAKE fi \in Requested
  <2>1. CASE fr' = fr + 1 /\ arg' = 1
    BY <1>3, <1>4, <2>1 DEF Before
  <2>2. CASE UNCHANGED <<fr, arg>>
    BY <2>2 DEF Before
  <2>3. QED
    BY <1>1, <2>1, <2>2
<1>6. Requested' = Requested /\ \A p : Local(p)' = Local(p)
  BY <1>1, AboutSame
<1>7. RootsOnTime'
  BY <1>1, <1>2, <1>5, <1>6 DEF RootsOnTime
<1>8. VisitedBefore'
  BY <1>1, <1>2, <1>5, <1>6 DEF VisitedBefore
<1>9. Finished'
  <2> SUFFICES ASSUME status' = "done", NEW fi \in Requested PROVE Before(fi)
    <3>1. status' # "reported"
      BY <1>1
    <3>2. QED
      BY <1>1, <1>5, <1>6, <3>1 DEF Finished
  <2>1. CASE Frame.sym # Null /\ AllVisited
    BY <1>2, <2>1, NothingLater
  <2>2. CASE fr = Len(dump.frames)
    BY <1>3, <1>4, <2>2 DEF Before
  <2>3. QED
    BY <1>1, <2>1, <2>2
<1>10. QED
  BY <1>7, <1>8, <1>9 DEF Looped

LEMMA OtherLoops ==
    ASSUME Inv, Progress, NoSuchVariable \/ Report \/ UNCHANGED vars PROVE Looped'
<1>1. /\ dump' = dump /\ fr' = fr /\ arg' = arg /\ visited' = visited /\ entered' = entered
      /\ stack' = stack /\ dump \in Dumps
  BY DEF NoSuchVariable, Report, vars, mainvars, Inv
<1>2. RootsOnTime /\ VisitedBefore /\ Finished
  BY DEF Progress, Looped
<1>3. \A fi : Before(fi)' <=> Before(fi)
  BY <1>1, LoopSame
<1>4. Requested' = Requested /\ \A p : Local(p)' = Local(p)
  BY <1>1, AboutSame
<1>5. VisitedBefore' /\ RootsOnTime'
  BY <1>1, <1>2, <1>3, <1>4 DEF RootsOnTime, VisitedBefore
<1>6. status' \in {"done", "reported"} => status \in {"done", "reported"}
  BY DEF NoSuchVariable, Report, vars
<1>7. Finished'
  BY <1>1, <1>2, <1>3, <1>4, <1>6 DEF Finished
<1>8. QED
  BY <1>5, <1>7 DEF Looped

(* The walk of a tidy dump is always this far.                              *)
LEMMA ProgressStart == ASSUME Init, Inv PROVE Progress
<1>1. /\ stack = <<>> /\ entered = {} /\ shared_pointers = {} /\ visited = {} /\ unwinding = FALSE
      /\ fr = 1 /\ arg = 1 /\ status = "walking"
  BY DEF Init, Out!Init
<1>2. Len(stack) = 0
  BY <1>1
<1>3. FramesFine(stack, entered) /\ \A d, e : ~ Done(stack, entered, d, e)
  BY <1>1, <1>2 DEF FramesFine, Done
<1>4. Entered
  BY <1>1, <1>3 DEF Entered, OwnedOnTime, SharedOnTime, OnlyKnown
<1>5. \A fi \in Requested : ~ Before(fi)
  <2>1. \A fi \in Requested : fi[1] \in Nat \ {0} /\ fi[2] \in Nat \ {0}
    BY RequestFacts DEF Inv
  <2>2. QED
    BY <1>1, <2>1 DEF Before
<1>6. Looped
  BY <1>1, <1>5 DEF Looped, RootsOnTime, VisitedBefore, Finished
<1>7. QED
  BY <1>4, <1>6 DEF Progress

LEMMA ProgressStep == ASSUME Inv, Tidy, Distinct, Progress, [Next]_vars PROVE Progress'
<1>1. dump' = dump /\ Entered
  BY Moves DEF Progress
<1>2. Entered'
  <2>1. CASE VisitVariable
    <3>1. RootMoved
      BY <2>1, Moves
    <3>2. Local(<<fr, arg>>) \in Roots
      BY <3>1 DEF RootMoved, DidRoot
    <3>3. QED
      BY <1>1, <3>1, <3>2, EnteredKept DEF RootMoved
  <2>2. CASE ~ VisitVariable
    <3>1. Moved
      BY <2>2, Moves
    <3>2. QED
      BY <1>1, <3>1, EnteredKept DEF Moved
  <2>3. QED
    BY <2>1, <2>2
<1>3. Looped'
  BY HandlerLoops, VisitLoops, SkipLoops, FrameLoops, OtherLoops DEF Next, Main
<1>4. QED
  BY <1>2, <1>3 DEF Progress

-----------------------------------------------------------------------------
(* What has been claimed as an object: the targets that were entered, and   *)
(* the items whose container has claimed them.                              *)
Targeted == UNION {Targets(d) : d \in Reached}
ClaimedNow ==
    {x \in Reached : \/ x \in entered /\ x \in Targeted
                     \/ \E d \in Reached : Done(stack, entered, d, <<"claim", x>>)}
ClaimsExact == \A x \in Cells : claims[x] = IF x \in ClaimedNow THEN 1 ELSE 0

(* A pointer that is followed owns or shares its target, and has no parts.  *)
LEMMA TargetFacts ==
    ASSUME dump \in Dumps, NEW d \in Reached
    PROVE  /\ Info(Seen(d)).kind \in Owners => Targets(d) = Owned(Seen(d)) /\ ItemsOf(Seen(d)) = {}
           /\ Info(Seen(d)).kind \in SharedKinds => Targets(d) = Shared(Seen(d))
           /\ Info(Seen(d)).kind \notin Owners \cup SharedKinds => Targets(d) = {}
           /\ Shared(Seen(d)) \subseteq Targets(d)
           /\ ItemsOf(Seen(d)) \subseteq Owned(Seen(d))
           /\ PartCells(d) \subseteq Owned(Seen(d))
<1> DEFINE c == Seen(d)
<1>1. c \in Cells
  BY ReachedFacts
<1>2. Encoded(Info(c))
  BY <1>1, WalkAssumption DEF Info
<1>3. ASSUME Info(c).kind \in Owners PROVE Targets(d) = Owned(c) /\ ItemsOf(c) = {}
  <2>1. PartsOf(c) = <<>> /\ Info(c).count = Null
    BY <1>2, <1>3 DEF Encoded, PartsOf, PartKinds, FieldKinds, Owners
  <2>2. DOMAIN PartsOf(c) = {}
    BY <2>1
  <2>3. InRange(PartsOf(c)) = {}
    BY <2>2 DEF InRange
  <2>4. Targets(d) = {Info(c).target} \ {Null}
    BY <1>3, <2>1 DEF Targets
  <2>5. Owned(c) = {Info(c).target} \ {Null}
    BY <1>3, <2>3 DEF Owned
  <2>6. ItemsOf(c) = {}
    BY <2>3 DEF ItemsOf
  <2>7. QED
    BY <2>4, <2>5, <2>6
<1>4. Info(c).kind \in SharedKinds => Targets(d) = Shared(c)
  BY DEF Targets, Shared, SharedKinds
<1>5. Info(c).kind \notin Owners \cup SharedKinds => Targets(d) = {}
  BY DEF Targets, SharedKinds
<1>6. Shared(c) \subseteq Targets(d)
  BY <1>4 DEF Shared
<1>7. ItemsOf(c) \subseteq Owned(c) /\ PartCells(d) \subseteq Owned(c)
  BY DEF ItemsOf, Owned, PartCells
<1>8. QED
  BY <1>3, <1>4, <1>5, <1>6, <1>7

(* An object is claimed for one reason.                                     *)
IsItem(c) == \E d \in Reached : c \in ItemsOf(Seen(d))
LEMMA OneReason ==
    ASSUME dump \in Dumps, Tidy, NEW c \in Reached, NEW d \in Reached
    PROVE  /\ c \in ItemsOf(Seen(d)) => c \notin Targeted
           /\ c \in Owned(Seen(d)) /\ Info(Seen(d)).kind \in Owners => c \in Targeted /\ ~ IsItem(c)
           /\ c \in Owned(Seen(d)) /\ Info(Seen(d)).kind \notin Owners => c \notin Targeted
           /\ c \in Shared(Seen(d)) => c \in Targeted /\ ~ IsItem(c)
           /\ c \in Roots => c \notin Targeted
<1>1. ASSUME c \in Owned(Seen(d)) PROVE c \in Targeted <=> Info(Seen(d)).kind \in Owners
  <2>1. /\ \A e \in Reached : c \in Owned(Seen(e)) => e = d
        /\ \A e \in Reached : c \notin Shared(Seen(e))
    BY <1>1, OneWayIn
  <2>2. ASSUME NEW e \in Reached, c \in Targets(e) PROVE Info(Seen(d)).kind \in Owners
    <3>1. Info(Seen(e)).kind \in Owners /\ c \in Owned(Seen(e))
      BY <2>1, <2>2, TargetFacts
    <3>2. QED
      BY <2>1, <3>1
  <2>3. Info(Seen(d)).kind \in Owners => c \in Targets(d)
    BY <1>1, TargetFacts
  <2>4. QED
    BY <2>2, <2>3 DEF Targeted
<1>2. c \in ItemsOf(Seen(d)) => c \in Owned(Seen(d)) /\ Info(Seen(d)).kind \notin Owners
  BY TargetFacts
<1>3. ASSUME c \in Owned(Seen(d)), Info(Seen(d)).kind \in Owners PROVE ~ IsItem(c)
  <2> SUFFICES ASSUME NEW e \in Reached, c \in ItemsOf(Seen(e)) PROVE FALSE
    BY DEF IsItem
  <2>1. c \in Owned(Seen(e)) /\ Info(Seen(e)).kind \notin Owners
    BY TargetFacts
  <2>2. e = d
    BY <1>3, <2>1, OneWayIn
  <2>3. QED
    BY <1>3, <2>1, <2>2
<1>4. ASSUME c \in Shared(Seen(d)) PROVE c \in Targeted /\ ~ IsItem(c)
  <2>1. c \in Targeted
    BY <1>4, TargetFacts DEF Targeted
  <2>2. \A e \in Reached : c \notin Owned(Seen(e))
    BY <1>4, OneWayIn
  <2>3. ~ IsItem(c)
    BY <2>2, TargetFacts DEF IsItem
  <2>4. QED
    BY <2>1, <2>3
<1>5. c \in Roots => c \notin Targeted
  <2>1. Roots \cap UNION {Follows(e) : e \in Reached} = {}
    BY DEF Tidy
  <2>2. QED
    BY <2>1 DEF Targeted, Follows
<1>6. QED
  BY <1>1, <1>2, <1>3, <1>4, <1>5

(* A step claims one more object, or none.                                  *)
ClaimsOne(c) ==
    /\ c \in Reached \ ClaimedNow
    /\ claims' = Claimed(c)
    /\ \E path \in Path : Out!MarkAndAssociate(path, AddrOf(c), SizeOf(c), TRUE)
NewlyClaimed(c) == ClaimsOne(c) /\ ClaimedNow' = ClaimedNow \cup {c}
ClaimsNone == claims' = claims /\ ClaimedNow' = ClaimedNow

LEMMA NowClaimed ==
    ASSUME dump \in Dumps, dump' = dump
    PROVE  /\ \A x : x \in ClaimedNow' <=>
                 /\ x \in Reached
                 /\ \/ x \in entered' /\ x \in Targeted
                    \/ \E d \in Reached : Done(stack', entered', d, <<"claim", x>>)
           /\ \A x \in ClaimedNow : x \in Targeted \/ IsItem(x)
<1>1. Reached' = Reached /\ \A c : Targets(c)' = Targets(c)
  BY DumpSame, AboutSame
<1>2. Targeted' = Targeted
  BY <1>1 DEF Targeted
<1>3. \A d, e : Done(stack, entered, d, e)' <=> Done(stack', entered', d, e)
  BY DoneSame
<1>4. ASSUME NEW x
      PROVE  x \in ClaimedNow' <=>
                 /\ x \in Reached
                 /\ \/ x \in entered' /\ x \in Targeted
                    \/ \E d \in Reached : Done(stack', entered', d, <<"claim", x>>)
  BY <1>1, <1>2, <1>3 DEF ClaimedNow
<1>5. \A d, x : Done(stack, entered, d, <<"claim", x>>) => x \in ItemsOf(Seen(d))
  BY EventFacts DEF Done
<1>6. \A x \in ClaimedNow : x \in Targeted \/ IsItem(x)
  BY <1>5 DEF ClaimedNow, IsItem
<1>7. QED
  BY <1>4, <1>6

LEMMA ClaimedGrows ==
    ASSUME Inv, Tidy, Entered, dump' = dump, Did \/ \E c \in Roots : DidRoot(c)
    PROVE  \/ ClaimsNone /\ UNCHANGED <<usage, used_memory>>
           \/ ClaimsNone /\ \E t \in Reached : DidRaw(t) \/ DidRawOnce(t)
           \/ \E c : NewlyClaimed(c)
<1> DEFINE Same == ClaimedNow' = ClaimedNow
           Still == ClaimsNone /\ UNCHANGED <<usage, used_memory>>
           Item(d, x) == Done(stack, entered, d, <<"claim", x>>)
           ItemNow(d, x) == Done(stack', entered', d, <<"claim", x>>)
           G == Still \/ \E c : NewlyClaimed(c)
<1>1. dump \in Dumps /\ Reached \subseteq Cells
  BY ReachedFacts DEF Inv
<1>2. /\ \A x : x \in ClaimedNow' <=>
                  x \in Reached /\ ((x \in entered' /\ x \in Targeted) \/ \E d \in Reached : ItemNow(d, x))
      /\ \A x : x \in ClaimedNow <=>
                  x \in Reached /\ ((x \in entered /\ x \in Targeted) \/ \E d \in Reached : Item(d, x))
      /\ \A x \in ClaimedNow : x \in Targeted \/ IsItem(x)
  BY <1>1, NowClaimed DEF ClaimedNow
<1>3. /\ SameDone => \A d, x : ItemNow(d, x) <=> Item(d, x)
      /\ \A t, y : \/ NewDone(t, <<"visit", y>>) \/ NewDone(t, <<"once", y>>) \/ NewDone(t, <<"raw", y>>)
                  \/ NewDone(t, <<"rawonce", y>>) \/ NewDone(t, <<"count", y>>)
                    => \A d, x : ItemNow(d, x) <=> Item(d, x)
      /\ \A t, y : NewDone(t, <<"claim", y>>) =>
            /\ ~ Item(t, y)
            /\ \A d, x : ItemNow(d, x) <=> Item(d, x) \/ (d = t /\ x = y)
  <2>1. SameDone => \A d, x : ItemNow(d, x) <=> Item(d, x)
    BY DEF SameDone
  <2>2. ASSUME NEW t, NEW e, NewDone(t, e)
        PROVE  /\ ~ Done(stack, entered, t, e)
               /\ \A d, x : ItemNow(d, x) <=> Item(d, x) \/ (d = t /\ e = <<"claim", x>>)
    BY <2>2 DEF NewDone
  <2>3. \A x, y : /\ <<"visit", y>> # <<"claim", x>> /\ <<"once", y>> # <<"claim", x>>
                  /\ <<"raw", y>> # <<"claim", x>> /\ <<"rawonce", y>> # <<"claim", x>>
                  /\ <<"count", y>> # <<"claim", x>>
                  /\ <<"claim", y>> = <<"claim", x>> <=> y = x
    OBVIOUS
  <2> HIDE DEF Item, ItemNow
  <2>4. ASSUME NEW t, NEW y,
               \/ NewDone(t, <<"visit", y>>) \/ NewDone(t, <<"once", y>>) \/ NewDone(t, <<"raw", y>>)
               \/ NewDone(t, <<"rawonce", y>>) \/ NewDone(t, <<"count", y>>)
        PROVE  \A d, x : ItemNow(d, x) <=> Item(d, x)
    <3>1. PICK e : NewDone(t, e) /\ \A x : e # <<"claim", x>>
      BY <2>3, <2>4
    <3>2. QED
      BY <2>2, <3>1
  <2>5. ASSUME NEW t, NEW y, NewDone(t, <<"claim", y>>)
        PROVE  ~ Item(t, y) /\ \A d, x : ItemNow(d, x) <=> Item(d, x) \/ (d = t /\ x = y)
    BY <2>2, <2>3, <2>5 DEF Item
  <2>6. QED
    BY <2>1, <2>4, <2>5 DEF Item, ItemNow
<1>4. UNCHANGED outvars => UNCHANGED <<usage, used_memory>>
  BY DEF outvars
<1>5. \A path, c : ClaimsAt(path, c) => claims' = Claimed(c)
  BY DEF ClaimsAt
<1>6. \A path \in Path : \A c : ClaimsAt(path, c) /\ c \in Reached \ ClaimedNow => ClaimsOne(c)
  BY DEF ClaimsAt, Out!Claim, ClaimsOne
<1>7. \A d, x : Item(d, x) => x \in ItemsOf(Seen(d))
  BY EventFacts DEF Done
<1> HIDE DEF Item, ItemNow
<1>8. ASSUME \A d, x : ItemNow(d, x) <=> Item(d, x), \A x \in Targeted : x \in entered' <=> x \in entered
      PROVE  Same
  BY <1>2, <1>8
<1>9. ASSUME NEW c \in Reached \ ClaimedNow, \A d, x : ItemNow(d, x) <=> Item(d, x),
             entered' = entered \cup {c}, c \in Targeted
      PROVE  ClaimedNow' = ClaimedNow \cup {c}
  BY <1>2, <1>9
<1> HIDE DEF Same
<1>10. CASE Quiet
  BY <1>3, <1>4, <1>8, <1>10 DEF Quiet, NoEntry, ClaimsNone, Same
<1>11. ASSUME NEW t \in Reached, DidRaw(t) \/ DidRawOnce(t) PROVE ClaimsNone
  <2>1. /\ claims' = claims /\ entered' = entered
        /\ NewDone(t, <<"raw", Null>>) \/ NewDone(t, <<"rawonce", Null>>)
    BY <1>11 DEF DidRaw, DidRawOnce, NoEntry
  <2>2. Same
    BY <1>3, <1>8, <2>1
  <2>3. QED
    BY <2>1, <2>2 DEF ClaimsNone, Same
<1>12. ASSUME NEW t \in Reached, DidCount(t) PROVE Still
  <2>1. /\ claims' = claims /\ entered' = entered /\ NewDone(t, <<"count", Null>>)
        /\ UNCHANGED <<usage, used_memory>>
    BY <1>12 DEF DidCount, NoEntry, Out!CountVariant
  <2>2. Same
    BY <1>3, <1>8, <2>1
  <2>3. QED
    BY <2>1, <2>2 DEF ClaimsNone, Same
<1>13. ASSUME NEW t \in Reached, NEW x \in Reached, DidSkip(t, x) PROVE Still
  <2>1. /\ claims' = claims /\ entered' = entered /\ NewDone(t, <<"once", x>>)
        /\ UNCHANGED <<usage, used_memory>>
    BY <1>4, <1>13 DEF DidSkip, NoEntry
  <2>2. Same
    BY <1>3, <1>8, <2>1
  <2>3. QED
    BY <2>1, <2>2 DEF ClaimsNone, Same
<1>14. ASSUME NEW t \in Reached, NEW c \in Reached, DidClaim(t, c) PROVE NewlyClaimed(c)
  <2>1. /\ c \in ItemsOf(Seen(t)) /\ NewDone(t, <<"claim", c>>) /\ entered' = entered
        /\ \E path \in Path : ClaimsAt(path, c)
    BY <1>14 DEF DidClaim, NoEntry
  <2>2. c \notin Targeted
    BY <1>1, <2>1, OneReason
  <2>3. ASSUME NEW d \in Reached, Item(d, c) PROVE FALSE
    <3>1. c \in Owned(Seen(d)) /\ c \in Owned(Seen(t))
      BY <1>1, <1>7, <2>1, <2>3, TargetFacts
    <3>2. d = t
      BY <1>1, <3>1, OneWayIn
    <3>3. QED
      BY <1>3, <2>1, <2>3, <3>2
  <2>4. c \notin ClaimedNow
    BY <1>2, <2>2, <2>3
  <2>5. \A x : x \in ClaimedNow' <=> x \in ClaimedNow \cup {c}
    BY <1>2, <1>3, <2>1
  <2>6. ClaimedNow' = ClaimedNow \cup {c}
    BY <2>5
  <2>7. QED
    BY <1>6, <2>1, <2>4, <2>6 DEF NewlyClaimed
<1>15. ASSUME NEW t \in Reached, NEW c \in Reached, DidVisit(t, c) PROVE G
  <2>1. /\ c \in Owned(Seen(t)) /\ NewDone(t, <<"visit", c>>) /\ c \notin entered
        /\ entered' = entered \cup {c} /\ \A d, x : ItemNow(d, x) <=> Item(d, x)
    BY <1>3, <1>15 DEF DidVisit, EnterCell
  <2>2. CASE Info(Seen(t)).kind \in Owners
    <3>1. c \in Targeted /\ ~ IsItem(c)
      BY <1>1, <2>1, <2>2, OneReason
    <3>2. c \notin ClaimedNow
      BY <1>2, <1>7, <2>1, <3>1 DEF IsItem
    <3>3. ClaimedNow' = ClaimedNow \cup {c}
      BY <1>9, <2>1, <3>1, <3>2
    <3>4. \E path \in Path : ClaimsAt(path, c)
      BY <1>15, <2>2 DEF DidVisit
    <3>5. QED
      BY <1>6, <3>2, <3>3, <3>4 DEF NewlyClaimed
  <2>3. CASE Info(Seen(t)).kind \notin Owners
    <3>1. c \notin Targeted
      BY <1>1, <2>1, <2>3, OneReason
    <3>2. Same
      BY <1>8, <2>1, <3>1
    <3>3. claims' = claims /\ UNCHANGED <<usage, used_memory>>
      BY <1>4, <1>15, <2>3 DEF DidVisit
    <3>4. QED
      BY <3>2, <3>3 DEF ClaimsNone, Same
  <2>4. QED
    BY <2>2, <2>3
<1>16. ASSUME NEW t \in Reached, NEW c \in Reached, DidVisitOnce(t, c) PROVE NewlyClaimed(c)
  <2>1. /\ c \in Shared(Seen(t)) /\ NewDone(t, <<"once", c>>) /\ c \notin entered
        /\ entered' = entered \cup {c} /\ \A d, x : ItemNow(d, x) <=> Item(d, x)
        /\ claims' = Claimed(c)
    BY <1>3, <1>16 DEF DidVisitOnce, EnterCell
  <2>2. c \in Targeted /\ ~ IsItem(c)
    BY <1>1, <2>1, OneReason
  <2>3. c \notin ClaimedNow
    BY <1>2, <1>7, <2>1, <2>2 DEF IsItem
  <2>4. ClaimedNow' = ClaimedNow \cup {c}
    BY <1>9, <2>1, <2>2, <2>3
  <2>5. \E path \in Path : Out!MarkAndAssociate(path, AddrOf(c), SizeOf(c), TRUE)
    BY <1>16 DEF DidVisitOnce, Out!InsertAndClaim, Out!MarkAndAssociate
  <2>6. QED
    BY <2>1, <2>3, <2>4, <2>5 DEF NewlyClaimed, ClaimsOne
<1>17. ASSUME NEW c \in Roots, DidRoot(c) PROVE Still
  <2>1. /\ claims' = claims /\ UNCHANGED <<usage, used_memory>> /\ entered' = entered \cup {c}
        /\ \A d, x : ItemNow(d, x) <=> Item(d, x)
    BY <1>3, <1>4, <1>17 DEF DidRoot, EnterCell
  <2>2. c \notin Targeted
    BY <1>1, <1>17, ReachedFacts, OneReason
  <2>3. Same
    BY <1>8, <2>1, <2>2
  <2>4. QED
    BY <2>1, <2>3 DEF ClaimsNone, Same
<1>18. QED
  BY <1>10, <1>11, <1>12, <1>13, <1>14, <1>15, <1>16, <1>17 DEF Did

(* So no object is claimed twice.                                           *)
LEMMA ClaimsStart == ASSUME Init, Inv PROVE ClaimsExact
<1>1. entered = {} /\ claims = [c \in Cells |-> 0]
  BY DEF Init
<1>2. ClaimedNow = {}
  BY <1>1 DEF ClaimedNow, Done
<1>3. QED
  BY <1>1, <1>2 DEF ClaimsExact

LEMMA ClaimsKept ==
    ASSUME Inv, Tidy, Distinct, Progress, ClaimsExact, [Next]_vars PROVE ClaimsExact'
<1>1. dump' = dump /\ dump \in Dumps /\ Entered /\ (Did \/ \E c \in Roots : DidRoot(c))
  BY Moves DEF Moved, RootMoved, DidRoot, Inv, Progress
<1>2. ClaimsNone \/ \E c : NewlyClaimed(c)
  BY <1>1, ClaimedGrows
<1>3. CASE ClaimsNone
  BY <1>3 DEF ClaimsNone, ClaimsExact
<1>4. ASSUME NEW c, NewlyClaimed(c) PROVE ClaimsExact'
  <2>1. /\ c \notin ClaimedNow /\ c \in Cells /\ claims' = [claims EXCEPT ![c] = @ + 1]
        /\ claims \in [Cells -> Nat] /\ ClaimedNow' = ClaimedNow \cup {c}
    BY <1>1, <1>4, ReachedFacts DEF NewlyClaimed, ClaimsOne, Claimed, Inv
  <2>2. QED
    BY <2>1 DEF ClaimsExact
<1>5. QED
  BY <1>2, <1>3, <1>4

-----------------------------------------------------------------------------
(* A report is written when nothing is left to do, and everything that can  *)
(* be reached has been entered.                                             *)
LEMMA AllDone ==
    ASSUME Inv, Tidy, Progress, status = "reported"
    PROVE  entered = Reached /\ \A d \in Reached : \A e : Done(stack, entered, d, e) <=> e \in Events(Seen(d))
<1>1. /\ dump \in Dumps /\ entered \subseteq Reached /\ stack = <<>>
      /\ \A fi \in Requested : Before(fi)
      /\ OwnedOnTime /\ SharedOnTime /\ RootsOnTime
  BY DEF Inv, Progress, Entered, Looped, Finished
<1>2. \A d, e : Done(stack, entered, d, e) <=> d \in entered /\ e \in Events(Seen(d))
  <2>1. Len(stack) = 0
    BY <1>1
  <2>2. \A d : Pending(stack, d) = {}
    BY <2>1 DEF Pending
  <2>3. QED
    BY <2>2 DEF Done
<1>3. Roots \subseteq entered
  BY <1>1 DEF Roots, RootsOnTime
<1>4. ASSUME NEW d \in entered, NEW c \in Follows(d) PROVE c \in entered
  <2>1. d \in Reached
    BY <1>1
  <2>2. c \in Owned(Seen(d)) \/ c \in Shared(Seen(d))
    BY <1>1, <2>1, TargetFacts DEF Follows
  <2>3. CASE c \in Owned(Seen(d))
    <3>1. <<"visit", c>> \in Events(Seen(d))
      BY <2>3, EventFacts
    <3>2. QED
      BY <1>1, <1>2, <2>1, <2>3, <3>1 DEF OwnedOnTime
  <2>4. CASE c \in Shared(Seen(d))
    <3>1. <<"once", c>> \in Events(Seen(d))
      BY <2>4, EventFacts
    <3>2. QED
      BY <1>1, <1>2, <2>1, <2>4, <3>1 DEF SharedOnTime
  <2>5. QED
    BY <2>2, <2>3, <2>4
<1>5. Reached \subseteq entered
  <2>1. IsLeastClosed(Reached, Roots, FollowsFcn)
    BY <1>1, ReachedIsLeast DEF DumpOK, ReachedOK
  <2>2. entered \in SUBSET Cells /\ \A c \in entered : FollowsFcn[c] \subseteq entered
    BY <1>1, <1>4, ReachedFacts DEF FollowsFcn
  <2>3. QED
    BY <1>3, <2>1, <2>2 DEF IsLeastClosed
<1>6. QED
  BY <1>1, <1>2, <1>5

(* What every step keeps of a tidy walk.                                    *)
TidyInv == Chain /\ (Tidy => Distinct /\ Progress)

LEMMA TidyStart == Init /\ Inv => TidyInv
<1>1. Init => Chain /\ Distinct
  BY DEF Init, Chain, Distinct
<1>2. QED
  BY <1>1, ProgressStart DEF TidyInv

LEMMA TidyStep == Inv /\ TidyInv /\ [Next]_vars => TidyInv' /\ (Tidy' => Tidy)
<1> SUFFICES ASSUME Inv, TidyInv, [Next]_vars PROVE TidyInv' /\ (Tidy' => Tidy)
  OBVIOUS
<1>1. StackStep
  BY NextStackStep
<1>2. Chain'
  BY <1>1, ChainStep DEF TidyInv
<1>3. Tidy' => Tidy
  BY <1>1, TidySame DEF Inv, StackStep
<1>4. Tidy => Distinct' /\ Progress'
  BY <1>1, DistinctStep, ProgressStep DEF TidyInv
<1>5. QED
  BY <1>2, <1>3, <1>4 DEF TidyInv

LEMMA TidyHolds == Spec => [](Inv /\ TidyInv)
<1>1. Init => Inv /\ TidyInv
  BY InitInv, TidyStart
<1>2. Inv /\ TidyInv /\ [Next]_vars => (Inv /\ TidyInv)'
  BY NextInv, TidyStep
<1>3. QED
  BY <1>1, <1>2, PTL DEF Spec

LEMMA ObjectsAreClaimed ==
    ASSUME Inv, Tidy, Progress, status = "reported"
    PROVE  ClaimedNow = ExpectedObjects
<1>1. dump \in Dumps /\ entered = Reached
      /\ \A d \in Reached : \A e : Done(stack, entered, d, e) <=> e \in Events(Seen(d))
  BY AllDone DEF Inv
<1>2. \A d \in Reached : \A x : Done(stack, entered, d, <<"claim", x>>) <=> x \in ItemsOf(Seen(d))
  BY <1>1, EventFacts
<1>3. \A d \in Reached : Objects(d) = Targets(d) \cup ItemsOf(Seen(d))
  BY DEF Objects, ItemsOf, PartCells
<1>4. \A d \in Reached : Objects(d) \subseteq Reached
  BY <1>1, ReachedFacts DEF Objects, Follows
<1>5. \A x : x \in ClaimedNow <=> x \in Reached /\ \E d \in Reached : x \in Objects(d)
  <2>1. \A x : x \in ClaimedNow <=>
                 x \in Reached /\ (x \in Targeted \/ \E d \in Reached : x \in ItemsOf(Seen(d)))
    BY <1>1, <1>2 DEF ClaimedNow
  <2>2. \A x : x \in Targeted <=> \E d \in Reached : x \in Targets(d)
    BY DEF Targeted
  <2>3. QED
    BY <1>3, <2>1, <2>2
<1>6. QED
  BY <1>4, <1>5 DEF ExpectedObjects

(* When the report of a tidy dump is written, every object that can be      *)
(* reached from the requested variables has been claimed, once, and nothing *)
(* else (main.rs:474-478, 547, 559, 572, 597, 606).                         *)
THEOREM WalkEveryObjectOnce == Spec => []EveryObjectOnce
<1> DEFINE I == Tidy => ClaimsExact
<1>1. Init /\ Inv => I
  BY ClaimsStart
<1>2. Inv /\ TidyInv /\ I /\ [Next]_vars => I'
  BY ClaimsKept, TidyStep DEF TidyInv
<1>3. Inv /\ TidyInv /\ I => EveryObjectOnce
  BY ObjectsAreClaimed DEF TidyInv, ClaimsExact, EveryObjectOnce
<1>4. Spec => []I
  <2> HIDE DEF I
  <2>1. QED
    BY <1>1, <1>2, InitInv, TidyHolds, PTL DEF Spec
<1>5. QED
  BY <1>3, <1>4, TidyHolds, PTL

-----------------------------------------------------------------------------
(* The counts of the unions reached, and the buffers claimed.               *)
OpDone(op) == {d \in Reached : Done(stack, entered, d, <<op, Null>>)}
BufferOps == {"raw", "rawonce", "count"}
OpSame(op) == OpDone(op)' = OpDone(op)
OpAdds(op, t) == /\ t \in Reached \ OpDone(op) /\ op \in OwnOps(Seen(t))
                 /\ OpDone(op)' = OpDone(op) \cup {t}
                 /\ \A o \in BufferOps : o # op => OpSame(o)

LEMMA OpsGrow ==
    ASSUME Inv, Entered, dump' = dump, Did \/ \E c \in Roots : DidRoot(c)
    PROVE  /\ \A t : DidRaw(t) /\ t \in Reached => OpAdds("raw", t)
           /\ \A t : DidRawOnce(t) /\ t \in Reached => OpAdds("rawonce", t)
           /\ \A t : DidCount(t) /\ t \in Reached => OpAdds("count", t)
           /\ \/ \E t \in Reached : DidRaw(t) \/ DidRawOnce(t) \/ DidCount(t)
              \/ \A o \in BufferOps : OpSame(o)
<1>1. dump \in Dumps /\ Reached' = Reached
  BY DumpSame DEF Inv
<1>2. \A o, d : d \in OpDone(o)' <=> d \in Reached /\ Done(stack', entered', d, <<o, Null>>)
  BY <1>1, DoneSame DEF OpDone
<1>3. \A o, d : d \in OpDone(o) <=> d \in Reached /\ Done(stack, entered, d, <<o, Null>>)
  BY DEF OpDone
<1>4. ASSUME NEW o, \A d : Done(stack', entered', d, <<o, Null>>) <=> Done(stack, entered, d, <<o, Null>>)
      PROVE  OpSame(o)
  <2>1. \A d : d \in OpDone(o)' <=> d \in OpDone(o)
    BY <1>2, <1>3, <1>4
  <2>2. QED
    BY <2>1 DEF OpSame
<1>5. /\ SameDone => \A o \in BufferOps : OpSame(o)
      /\ \A t, e, o : NewDone(t, e) /\ <<o, Null>> # e => OpSame(o)
  BY <1>4 DEF SameDone, NewDone
<1>6. ASSUME NEW t \in Reached, NEW op \in BufferOps, NewDone(t, <<op, Null>>) PROVE OpAdds(op, t)
  <2>1. t \notin OpDone(op) /\ <<op, Null>> \in Events(Seen(t))
    BY <1>3, <1>6 DEF NewDone
  <2>2. op \in OwnOps(Seen(t))
    BY <2>1, EventFacts DEF BufferOps
  <2>3. OpDone(op)' = OpDone(op) \cup {t}
    <3>1. \A d, e : Done(stack', entered', d, e) <=> Done(stack, entered, d, e) \/ (d = t /\ e = <<op, Null>>)
      BY <1>6 DEF NewDone
    <3>2. \A d : d \in OpDone(op)' <=> d \in OpDone(op) \cup {t}
      BY <1>2, <1>3, <3>1
    <3>3. QED
      BY <3>2
  <2>4. \A o \in BufferOps : o # op => <<o, Null>> # <<op, Null>>
    OBVIOUS
  <2>5. \A o \in BufferOps : o # op => OpSame(o)
    BY <1>5, <1>6, <2>4
  <2>6. QED
    BY <2>1, <2>2, <2>3, <2>5 DEF OpAdds
<1>7. ASSUME NEW t \in Reached, NEW x,
             NewDone(t, <<"claim", x>>) \/ NewDone(t, <<"visit", x>>) \/ NewDone(t, <<"once", x>>)
      PROVE  \A o \in BufferOps : OpSame(o)
  <2>1. PICK e : NewDone(t, e) /\ \A o \in BufferOps : <<o, Null>> # e
    BY <1>7 DEF BufferOps
  <2>2. QED
    BY <1>5, <2>1
<1>8. "raw" \in BufferOps /\ "rawonce" \in BufferOps /\ "count" \in BufferOps
  BY DEF BufferOps
<1>9. /\ \A t : DidRaw(t) /\ t \in Reached => OpAdds("raw", t)
      /\ \A t : DidRawOnce(t) /\ t \in Reached => OpAdds("rawonce", t)
      /\ \A t : DidCount(t) /\ t \in Reached => OpAdds("count", t)
  BY <1>6, <1>8 DEF DidRaw, DidRawOnce, DidCount
<1>10. ASSUME NEW t \in Reached, NEW c \in Reached,
              DidClaim(t, c) \/ DidVisit(t, c) \/ DidSkip(t, c) \/ DidVisitOnce(t, c)
       PROVE  \A o \in BufferOps : OpSame(o)
  BY <1>7, <1>10 DEF DidClaim, DidVisit, DidSkip, DidVisitOnce
<1>11. Quiet \/ (\E c \in Roots : DidRoot(c)) => \A o \in BufferOps : OpSame(o)
  BY <1>5 DEF Quiet, DidRoot
<1>12. QED
  BY <1>9, <1>10, <1>11 DEF Did

(* `g` is the table `f` with `n` more at the keys `K`.                      *)
Grown(g, f, K, n) == \A k : Out!Entry(g, k) = Out!Entry(f, k) + (IF k \in K THEN n ELSE 0)

LEMMA EntryOfAdd == ASSUME NEW f, NEW K, NEW n PROVE Grown(Out!AddTo(f, K, n), f, K, n)
<1> SUFFICES ASSUME NEW k
             PROVE  Out!Entry(Out!AddTo(f, K, n), k) = Out!Entry(f, k) + (IF k \in K THEN n ELSE 0)
  BY DEF Grown
<1> DEFINE D == DOMAIN f \cup K
           g == Out!AddTo(f, K, n)
<1>1. DOMAIN g = D /\ \A x \in D : g[x] = Out!Entry(f, x) + (IF x \in K THEN n ELSE 0)
  BY DEF Out!AddTo
<1> HIDE DEF g
<1>2. CASE k \in D
  <2>1. Out!Entry(g, k) = Out!Entry(f, k) + (IF k \in K THEN n ELSE 0)
    BY <1>1, <1>2 DEF Out!Entry
  <2>2. QED
    BY <2>1 DEF g
<1>3. CASE k \notin D
  <2>1. Out!Entry(g, k) = 0 /\ Out!Entry(f, k) = 0 /\ k \notin K
    BY <1>1, <1>3 DEF Out!Entry
  <2>2. QED
    BY <2>1 DEF g
<1>4. QED
  BY <1>2, <1>3 DEF g

(* The counts of the report, step by step.                                  *)
Counted(enm, variant) == {c \in OpDone("count") : IsVariant(c, enm, variant)}
CountsExact == \A enm \in Types, variant \in FieldNames :
    Out!Entry(enum_variant_counts, <<enm, Field(variant)>>) = Cardinality(Counted(enm, variant))

LEMMA CountsStart == ASSUME Init, Inv PROVE CountsExact
<1>1. entered = {} /\ DOMAIN enum_variant_counts = {}
  BY DEF Init, Out!Init, Out!EmptyMap
<1>2. OpDone("count") = {}
  BY <1>1 DEF OpDone, Done
<1>3. \A enm, variant : Counted(enm, variant) = {}
  BY <1>2 DEF Counted
<1>4. QED
  BY <1>1, <1>3, FS_EmptySet DEF CountsExact, Out!Entry

LEMMA CountsKept ==
    ASSUME Inv, Tidy, Distinct, Progress, CountsExact, [Next]_vars PROVE CountsExact'
<1>1. dump' = dump /\ dump \in Dumps /\ Entered /\ (Did \/ \E c \in Roots : DidRoot(c))
  BY Moves DEF Moved, RootMoved, DidRoot, Inv, Progress
<1>2. \A c, enm, variant : IsVariant(c, enm, variant)' <=> IsVariant(c, enm, variant)
  BY <1>1, AboutSame, DumpSame DEF IsVariant
<1>3. \A enm, variant : Counted(enm, variant)' = {c \in OpDone("count")' : IsVariant(c, enm, variant)}
  BY <1>2 DEF Counted
<1>4. ASSUME OpSame("count"), enum_variant_counts' = enum_variant_counts PROVE CountsExact'
  BY <1>3, <1>4 DEF OpSame, Counted, CountsExact
<1>5. ASSUME NEW t \in Reached, DidCount(t) PROVE CountsExact'
  <2> SUFFICES ASSUME NEW enm \in Types, NEW variant \in FieldNames
               PROVE  Out!Entry(enum_variant_counts', <<enm, Field(variant)>>)
                        = Cardinality({c \in OpDone("count")' : IsVariant(c, enm, variant)})
    BY <1>3 DEF CountsExact
  <2> DEFINE k0 == <<Info(Seen(t)).ty, Field(Info(Seen(t)).variant)>>
             k == <<enm, Field(variant)>>
             S == Counted(enm, variant)
             T == {c \in OpDone("count")' : IsVariant(c, enm, variant)}
  <2>1. enum_variant_counts' = Out!AddTo(enum_variant_counts, {k0}, 1)
    BY <1>5 DEF DidCount, Out!CountVariant
  <2>2. /\ t \notin OpDone("count") /\ "count" \in OwnOps(Seen(t))
        /\ OpDone("count")' = OpDone("count") \cup {t}
    BY <1>1, <1>5, OpsGrow DEF OpAdds
  <2>3. Info(Seen(t)).kind \in EnumKinds
    BY <2>2 DEF OwnOps
  <2>4. IsVariant(t, enm, variant) <=> k = k0
    BY <2>3 DEF IsVariant, Field
  <2>5. IsFiniteSet(S) /\ t \notin S /\ Out!Entry(enum_variant_counts, k) = Cardinality(S)
    <3>1. S \subseteq Cells
      BY <1>1, ReachedFacts DEF Counted, OpDone
    <3>2. QED
      BY <2>2, <3>1, CellsAssumption, FS_Subset DEF CountsExact, Counted
  <2>6. T = IF k = k0 THEN S \cup {t} ELSE S
    BY <2>2, <2>4 DEF Counted
  <2> HIDE DEF S, T, k, k0
  <2>7. Out!Entry(enum_variant_counts', k) = Cardinality(S) + (IF k = k0 THEN 1 ELSE 0)
    <3>1. Grown(enum_variant_counts', enum_variant_counts, {k0}, 1)
      BY <2>1, EntryOfAdd
    <3>2. QED
      BY <2>5, <3>1 DEF Grown
  <2>8. Cardinality(S) \in Nat /\ Cardinality(S \cup {t}) = Cardinality(S) + 1
    BY <2>5, FS_AddElement, FS_CardinalityType
  <2>9. Out!Entry(enum_variant_counts', k) = Cardinality(T)
    BY <2>6, <2>7, <2>8
  <2>10. QED
    BY <2>9 DEF k, T
<1>6. ASSUME ~ \E t \in Reached : DidCount(t)
      PROVE  OpSame("count") /\ enum_variant_counts' = enum_variant_counts
  <2>1. "count" \in BufferOps /\ "count" # "raw" /\ "count" # "rawonce"
    BY DEF BufferOps
  <2>2. \/ \E t \in Reached : OpAdds("raw", t) \/ OpAdds("rawonce", t)
        \/ OpSame("count")
    BY <1>1, <1>6, <2>1, OpsGrow
  <2>3. OpSame("count")
    BY <2>1, <2>2 DEF OpAdds
  <2>4. /\ \A path, ad, ty, sz : Out!Claim(path, ad, ty, sz) => enum_variant_counts' = enum_variant_counts
        /\ \A path, ad, sz, as : Out!ClaimRaw(path, ad, sz, as) => enum_variant_counts' = enum_variant_counts
        /\ \A path, ad, sz : Out!InsertAndClaimRaw(path, ad, sz) => enum_variant_counts' = enum_variant_counts
        /\ \A path, ad, ty, sz : Out!InsertAndClaim(path, ad, ty, sz) => enum_variant_counts' = enum_variant_counts
        /\ UNCHANGED outvars => enum_variant_counts' = enum_variant_counts
    BY DEF Out!Claim, Out!ClaimRaw, Out!InsertAndClaimRaw, Out!InsertAndClaim, outvars
  <2>5. enum_variant_counts' = enum_variant_counts
    BY <1>1, <1>6, <2>4 DEF Did, Quiet, DidRaw, DidRawOnce, DidClaim, DidVisit, DidSkip,
       DidVisitOnce, DidRoot, ClaimsAt
  <2>6. QED
    BY <2>3, <2>5
<1>7. QED
  BY <1>4, <1>5, <1>6

(* In the report of a tidy dump every enum and tagged union that can be     *)
(* reached counts once, for the variant it holds (main.rs:156-187).         *)
THEOREM WalkEnumCountsExact == Spec => []EnumCountsExact
<1> DEFINE I == Tidy => CountsExact
<1>1. Init /\ Inv => I
  BY CountsStart
<1>2. Inv /\ TidyInv /\ I /\ [Next]_vars => I'
  BY CountsKept, TidyStep DEF TidyInv
<1>3. Inv /\ TidyInv /\ I => EnumCountsExact
  <2> SUFFICES ASSUME Inv, Tidy, Progress, CountsExact, status = "reported"
               PROVE  \A enm \in Types, variant \in FieldNames :
                        Out!Entry(enum_variant_counts, <<enm, Field(variant)>>)
                          = Cardinality({c \in Reached : IsVariant(c, enm, variant)})
    BY DEF TidyInv, EnumCountsExact
  <2>1. \A d \in Reached : d \in OpDone("count") <=> "count" \in OwnOps(Seen(d))
    BY AllDone, EventFacts DEF OpDone
  <2>2. ASSUME NEW d, NEW enm, NEW variant \in FieldNames, IsVariant(d, enm, variant)
        PROVE  "count" \in OwnOps(Seen(d))
    BY <2>2, WalkAssumption DEF IsVariant, OwnOps
  <2>3. \A enm \in Types, variant \in FieldNames :
           Counted(enm, variant) = {c \in Reached : IsVariant(c, enm, variant)}
    BY <2>1, <2>2 DEF Counted, OpDone
  <2>4. QED
    <3> TAKE enm \in Types, variant \in FieldNames
    <3>1. Counted(enm, variant) = {c \in Reached : IsVariant(c, enm, variant)}
      BY <2>3
    <3>2. QED
      BY <3>1 DEF CountsExact
<1>4. Spec => []I
  <2> HIDE DEF I
  <2>1. QED
    BY <1>1, <1>2, InitInv, TidyHolds, PTL DEF Spec
<1>5. QED
  BY <1>3, <1>4, TidyHolds, PTL

-----------------------------------------------------------------------------
(* Sums over a set of cells.  The sum of the values `v` is the number of    *)
(* their units; one more cell adds its own, in whatever order the fold of   *)
(* the library takes the cells.                                             *)
Units(v, S) == {p \in S \X Nat : p[2] \in 1 .. v[p[1]]}
SumUp(v, S) == Cardinality(Units(v, S))

LEMMA NoUnits == ASSUME NEW v PROVE IsFiniteSet(Units(v, {})) /\ SumUp(v, {}) = 0
<1>1. Units(v, {}) = {}
  BY DEF Units
<1>2. QED
  BY <1>1, FS_EmptySet DEF SumUp

LEMMA UnitsAdd ==
    ASSUME NEW v \in [Cells -> Nat], NEW S, NEW x \in Cells, x \notin S, IsFiniteSet(Units(v, S))
    PROVE  IsFiniteSet(Units(v, S \cup {x})) /\ SumUp(v, S \cup {x}) = SumUp(v, S) + v[x]
<1> DEFINE U == Units(v, S)
           W == {x} \X (1 .. v[x])
<1>1. Units(v, S \cup {x}) = U \cup W
  <2>1. \A p : p \in Units(v, S \cup {x}) <=> p \in U \/ p \in W
    <3>1. \A p : p \in W <=> p \in {x} \X Nat /\ p[2] \in 1 .. v[p[1]]
      OBVIOUS
    <3>2. QED
      BY <3>1 DEF Units
  <2>2. QED
    BY <2>1
<1>2. U \cap W = {}
  BY DEF Units
<1>3. IsFiniteSet(W) /\ Cardinality(W) = v[x]
  <2>1. v[x] \in Nat
    OBVIOUS
  <2>2. IsFiniteSet(1 .. v[x]) /\ Cardinality(1 .. v[x]) = v[x]
    BY <2>1, FS_Interval
  <2>3. IsFiniteSet({x}) /\ Cardinality({x}) = 1
    BY FS_Singleton
  <2>4. IsFiniteSet(W) /\ Cardinality(W) = Cardinality({x}) * Cardinality(1 .. v[x])
    BY <2>2, <2>3, FS_Product
  <2>5. QED
    BY <2>1, <2>2, <2>3, <2>4
<1>4. IsFiniteSet(U)
  OBVIOUS
<1> HIDE DEF U, W
<1>5. /\ IsFiniteSet(U \cup W)
      /\ Cardinality(U \cup W) = Cardinality(U) + Cardinality(W) - Cardinality(U \cap W)
  BY <1>3, <1>4, FS_Union
<1>6. Cardinality(U) \in Nat /\ Cardinality(U \cap W) = 0
  BY <1>2, <1>4, FS_CardinalityType, FS_EmptySet
<1>7. Cardinality(U \cup W) = Cardinality(U) + v[x]
  BY <1>3, <1>5, <1>6
<1>8. QED
  BY <1>1, <1>5, <1>7 DEF SumUp, U

(* What holds of no cells and stays true of one more holds of any cells.    *)
LEMMA CellsInduction ==
    ASSUME NEW P, {} \in P,
           \A s \in SUBSET Cells, x \in Cells : s \in P /\ x \notin s => s \cup {x} \in P
    PROVE  SUBSET Cells \subseteq P
<1> DEFINE T == {n \in Nat : \A s \in SUBSET Cells : Cardinality(s) = n => s \in P}
<1>1. \A s \in SUBSET Cells : IsFiniteSet(s) /\ Cardinality(s) \in Nat
  BY CellsAssumption, FS_Subset, FS_CardinalityType
<1>2. 0 \in T
  BY <1>1, FS_EmptySet
<1>3. ASSUME NEW n \in Nat, n \in T PROVE n + 1 \in T
  <2> SUFFICES ASSUME NEW s \in SUBSET Cells, Cardinality(s) = n + 1 PROVE s \in P
    OBVIOUS
  <2>1. s # {}
    BY FS_EmptySet
  <2>2. PICK x : x \in s
    BY <2>1
  <2>3. Cardinality(s \ {x}) = n
    <3>1. IsFiniteSet(s)
      BY <1>1
    <3>2. Cardinality(s \ {x}) = Cardinality(s) - 1
      BY <2>2, <3>1, FS_RemoveElement
    <3>3. QED
      BY <3>2
  <2>4. s \ {x} \in P
    BY <1>3, <2>3
  <2>5. (s \ {x}) \cup {x} = s
    BY <2>2
  <2>6. QED
    BY <2>2, <2>4, <2>5
<1> HIDE DEF T
<1>4. Nat \subseteq T
  BY <1>2, <1>3, Induction
<1>5. QED
  BY <1>1, <1>4 DEF T

LEMMA UnitsFinite ==
    ASSUME NEW v \in [Cells -> Nat], NEW S \in SUBSET Cells
    PROVE  IsFiniteSet(Units(v, S)) /\ SumUp(v, S) \in Nat
<1> DEFINE P == {s \in SUBSET Cells : IsFiniteSet(Units(v, s))}
<1>1. {} \in P
  BY NoUnits
<1>2. ASSUME NEW s \in SUBSET Cells, NEW x \in Cells, s \in P, x \notin s PROVE s \cup {x} \in P
  BY <1>2, UnitsAdd
<1> HIDE DEF P
<1>3. SUBSET Cells \subseteq P
  BY <1>1, <1>2, CellsInduction
<1>4. QED
  BY <1>3, FS_CardinalityType DEF P, SumUp

(* A fold takes the elements out one by one, each time the one CHOOSE       *)
(* gives.                                                                   *)
First(s) == CHOOSE x \in s : TRUE
Folded(f, v, S) ==
    \A s \in SUBSET S : f[s] = IF s = {} THEN 0 ELSE v[First(s)] + f[s \ {First(s)}]

LEMMA FirstIn == ASSUME NEW s, s # {} PROVE First(s) \in s
  BY DEF First

LEMMA SumIsFolded ==
    ASSUME NEW v \in [Cells -> Nat], NEW S \in SUBSET Cells
    PROVE  Folded([s \in SUBSET S |-> SumUp(v, s)], v, S)
<1> SUFFICES ASSUME NEW s \in SUBSET S
             PROVE  SumUp(v, s) = IF s = {} THEN 0 ELSE v[First(s)] + SumUp(v, s \ {First(s)})
  BY DEF Folded
<1>1. CASE s = {}
  BY <1>1, NoUnits
<1>2. CASE s # {}
  <2> DEFINE x == First(s)
             r == s \ {x}
  <2>1. x \in s /\ x \in Cells /\ r \in SUBSET Cells /\ x \notin r /\ r \cup {x} = s
    BY <1>2, FirstIn
  <2> HIDE DEF x, r
  <2>2. SumUp(v, s) = SumUp(v, r) + v[x]
    BY <2>1, UnitsAdd, UnitsFinite
  <2>3. SumUp(v, r) \in Nat /\ v[x] \in Nat
    BY <2>1, UnitsFinite
  <2>4. QED
    BY <1>2, <2>2, <2>3 DEF x, r
<1>3. QED
  BY <1>1, <1>2

LEMMA FoldedIsSum ==
    ASSUME NEW v \in [Cells -> Nat], NEW S \in SUBSET Cells, NEW f, Folded(f, v, S)
    PROVE  f[S] = SumUp(v, S)
<1> DEFINE g == [s \in SUBSET S |-> SumUp(v, s)]
           T == {n \in Nat : \A s \in SUBSET S : Cardinality(s) = n => f[s] = g[s]}
<1>1. Folded(g, v, S)
  BY SumIsFolded
<1>2. \A s \in SUBSET S : IsFiniteSet(s) /\ Cardinality(s) \in Nat
  BY CellsAssumption, FS_Subset, FS_CardinalityType
<1>3. g[S] = SumUp(v, S)
  OBVIOUS
<1> HIDE DEF g
<1>4. 0 \in T
  BY <1>1, <1>2, FS_EmptySet DEF Folded
<1>5. ASSUME NEW n \in Nat, n \in T PROVE n + 1 \in T
  <2> SUFFICES ASSUME NEW s \in SUBSET S, Cardinality(s) = n + 1 PROVE f[s] = g[s]
    OBVIOUS
  <2>1. s # {}
    BY FS_EmptySet
  <2> DEFINE x == First(s)
  <2>2. x \in s /\ s \ {x} \in SUBSET S
    BY <2>1, FirstIn
  <2> HIDE DEF x
  <2>3. Cardinality(s \ {x}) = n
    BY <1>2, <2>2, FS_RemoveElement
  <2>4. f[s \ {x}] = g[s \ {x}]
    BY <1>5, <2>2, <2>3
  <2>5. QED
    BY <1>1, <2>1, <2>4 DEF Folded, x
<1> HIDE DEF T
<1>6. Nat \subseteq T
  BY <1>4, <1>5, Induction
<1>7. f[S] = g[S]
  BY <1>2, <1>6 DEF T
<1>8. QED
  BY <1>3, <1>7

(* The sums of the report, as numbers of units.                             *)
SizeFcn == [c \in Cells |-> SizeOf(c)]
LenFcn == [c \in Cells |-> LenOf(c)]
FoldedSizes(f, S) ==
    f = [s \in SUBSET S |-> IF s = {} THEN 0
                            ELSE LET x == CHOOSE x \in s : TRUE IN SizeOf(x) + f[s \ {x}]]
FoldedLens(f, S) ==
    f = [s \in SUBSET S |-> IF s = {} THEN 0
                            ELSE LET x == CHOOSE x \in s : TRUE IN LenOf(x) + f[s \ {x}]]

LEMMA SizesAndLens ==
    ASSUME dump \in Dumps
    PROVE  SizeFcn \in [Cells -> Nat] /\ LenFcn \in [Cells -> Nat]
<1>1. dump.cells \in [Cells -> CellInfo]
  BY WalkAssumption DEF Dump
<1>2. \A c \in Cells : /\ dump.cells[c].view \in Cells /\ dump.cells[c].size \in Nat
                       /\ dump.cells[c].buf \in Buffer
  BY <1>1 DEF CellInfo
<1>3. \A c \in Cells : SizeOf(c) \in Nat /\ LenOf(c) \in Nat
  BY <1>2 DEF SizeOf, LenOf, BufOf, Seen, Info, Buffer
<1>4. QED
  BY <1>3 DEF SizeFcn, LenFcn

LEMMA SumOfSizes ==
    ASSUME dump \in Dumps, NEW S \in SUBSET Cells
    PROVE  MapThenSumSet(SizeOf, S) = SumUp(SizeFcn, S)
<1> DEFINE F == CHOOSE f : FoldedSizes(f, S)
           g == [s \in SUBSET S |-> SumUp(SizeFcn, s)]
<1>1. MapThenSumSet(SizeOf, S) = F[S]
  BY DEF MapThenSumSet, MapThenFoldSet, FoldedSizes
<1>2. SizeFcn \in [Cells -> Nat]
  BY SizesAndLens
<1>3. \A s \in SUBSET S : s # {} => SizeFcn[First(s)] = SizeOf(First(s))
  BY FirstIn DEF SizeFcn
<1>4. Folded(g, SizeFcn, S)
  BY <1>2, SumIsFolded
<1>5. FoldedSizes(g, S)
  <2>1. \A s \in SUBSET S : g[s] = IF s = {} THEN 0 ELSE SizeOf(First(s)) + g[s \ {First(s)}]
    BY <1>3, <1>4 DEF Folded
  <2>2. g = [s \in SUBSET S |-> g[s]]
    OBVIOUS
  <2> HIDE DEF g
  <2>3. QED
    BY <2>1, <2>2 DEF FoldedSizes, First
<1>6. FoldedSizes(F, S)
  BY <1>5, Zenon
<1> HIDE DEF F, g
<1>7. \A s \in SUBSET S : F[s] = IF s = {} THEN 0 ELSE SizeOf(First(s)) + F[s \ {First(s)}]
  BY <1>6 DEF FoldedSizes, First
<1>8. Folded(F, SizeFcn, S)
  BY <1>3, <1>7 DEF Folded
<1>9. QED
  BY <1>1, <1>2, <1>8, FoldedIsSum

LEMMA SumOfLens ==
    ASSUME dump \in Dumps, NEW S \in SUBSET Cells
    PROVE  MapThenSumSet(LenOf, S) = SumUp(LenFcn, S)
<1> DEFINE F == CHOOSE f : FoldedLens(f, S)
           g == [s \in SUBSET S |-> SumUp(LenFcn, s)]
<1>1. MapThenSumSet(LenOf, S) = F[S]
  BY DEF MapThenSumSet, MapThenFoldSet, FoldedLens
<1>2. LenFcn \in [Cells -> Nat]
  BY SizesAndLens
<1>3. \A s \in SUBSET S : s # {} => LenFcn[First(s)] = LenOf(First(s))
  BY FirstIn DEF LenFcn
<1>4. Folded(g, LenFcn, S)
  BY <1>2, SumIsFolded
<1>5. FoldedLens(g, S)
  <2>1. \A s \in SUBSET S : g[s] = IF s = {} THEN 0 ELSE LenOf(First(s)) + g[s \ {First(s)}]
    BY <1>3, <1>4 DEF Folded
  <2>2. g = [s \in SUBSET S |-> g[s]]
    OBVIOUS
  <2> HIDE DEF g
  <2>3. QED
    BY <2>1, <2>2 DEF FoldedLens, First
<1>6. FoldedLens(F, S)
  BY <1>5, Zenon
<1> HIDE DEF F, g
<1>7. \A s \in SUBSET S : F[s] = IF s = {} THEN 0 ELSE LenOf(First(s)) + F[s \ {First(s)}]
  BY <1>6 DEF FoldedLens, First
<1>8. Folded(F, LenFcn, S)
  BY <1>3, <1>7 DEF Folded
<1>9. QED
  BY <1>1, <1>2, <1>8, FoldedIsSum

-----------------------------------------------------------------------------
(* The total of the report and the bitmap, step by step: the objects, the   *)
(* buffers of strings and the unassociated areas claimed so far.            *)
StringsDone == {d \in OpDone("raw") : Info(Seen(d)).kind \in StringKinds}
LooseDone == OpDone("rawonce") \cup {d \in OpDone("raw") : Info(Seen(d)).kind \notin StringKinds}
ObjectArea(c) == Out!Atoms(AddrOf(c), SizeOf(c))
StringArea(c) == Out!Atoms(BufOf(c).addr, LenOf(c))
Covered(a, objects, strings, loose) ==
    \/ \E c \in objects : a \in ObjectArea(c)
    \/ \E c \in strings : a \in StringArea(c)
    \/ \E c \in loose : a \in LooseArea(c)
Total == Out!Entry(usage, <<>>)
TotalExact == Total = SumUp(SizeFcn, ClaimedNow) + SumUp(LenFcn, StringsDone)
MemoryExact == \A a : a \in used_memory <=> Covered(a, ClaimedNow, StringsDone, LooseDone)

\* What a step adds to them.
NoMore == /\ ClaimedNow' = ClaimedNow /\ StringsDone' = StringsDone /\ LooseDone' = LooseDone
          /\ Total' = Total /\ used_memory' = used_memory
MoreObject(c) ==
    /\ c \in Reached \ ClaimedNow
    /\ ClaimedNow' = ClaimedNow \cup {c} /\ StringsDone' = StringsDone /\ LooseDone' = LooseDone
    /\ Total' = Total + SizeOf(c) /\ used_memory' = used_memory \cup ObjectArea(c)
MoreString(t) ==
    /\ t \in Reached \ StringsDone
    /\ ClaimedNow' = ClaimedNow /\ StringsDone' = StringsDone \cup {t} /\ LooseDone' = LooseDone
    /\ Total' = Total + LenOf(t) /\ used_memory' = used_memory \cup StringArea(t)
MoreLoose(t) ==
    /\ t \in Reached
    /\ ClaimedNow' = ClaimedNow /\ StringsDone' = StringsDone /\ LooseDone' = LooseDone \cup {t}
    /\ Total' = Total /\ used_memory' = used_memory \cup LooseArea(t)

(* A claim that is associated adds its size to the total, and the other     *)
(* claims add nothing.                                                      *)
LEMMA TotalOfClaim ==
    ASSUME NEW path \in Path, NEW addr, NEW size, NEW assoc, Out!MarkAndAssociate(path, addr, size, assoc)
    PROVE  /\ assoc => Total' = Total + size
           /\ ~ assoc => Total' = Total
           /\ used_memory' = used_memory \cup Out!Atoms(addr, size)
<1>1. used_memory' = used_memory \cup Out!Atoms(addr, size) /\ Out!Associate(path, size, assoc)
  BY DEF Out!MarkAndAssociate
<1> DEFINE p == Out!get_prefix(path, PREFIX_LEVELS)
<1>2. <<>> \in Out!Prefixes(p)
  <2>1. Len(p) \in Nat
    <3>1. path \in Seq(Node) /\ PREFIX_LEVELS \in Nat
      BY WalkAssumption DEF Path
    <3>2. p \in Seq(Node)
      BY <3>1, SubSeqProperties, LenProperties DEF Out!get_prefix
    <3>3. QED
      BY <3>2, LenProperties
  <2> HIDE DEF p
  <2>2. 0 \in 0 .. Len(p) /\ SubSeq(p, 1, 0) = <<>>
    BY <2>1
  <2>3. QED
    BY <2>2 DEF Out!Prefixes
<1>3. ASSUME assoc PROVE Total' = Total + size
  <2>1. usage' = Out!AddTo(usage, Out!Prefixes(p), size)
    BY <1>1, <1>3 DEF Out!Associate
  <2> HIDE DEF p
  <2>2. Grown(usage', usage, Out!Prefixes(p), size)
    BY <2>1, EntryOfAdd
  <2>3. QED
    BY <1>2, <2>2 DEF Grown, Total
<1>4. ASSUME ~ assoc PROVE Total' = Total
  BY <1>1, <1>4 DEF Out!Associate, Total, Out!Entry
<1>5. QED
  BY <1>1, <1>3, <1>4

LEMMA TotalSame == ASSUME usage' = usage PROVE Total' = Total
  BY DEF Total, Out!Entry

(* What is read of a dump stays as it is.                                   *)
LEMMA AreasSame ==
    ASSUME dump' = dump
    PROVE  /\ SizeFcn' = SizeFcn /\ LenFcn' = LenFcn
           /\ \A c : /\ (Info(Seen(c)).kind \in StringKinds)' <=> Info(Seen(c)).kind \in StringKinds
                     /\ ObjectArea(c)' = ObjectArea(c) /\ StringArea(c)' = StringArea(c)
                     /\ LooseArea(c)' = LooseArea(c)
  BY DEF SizeFcn, LenFcn, ObjectArea, StringArea, LooseArea, AddrOf, SizeOf, LenOf, BufOf, Seen, Info,
         StringKinds, Out!Atoms

LEMMA BuffersGrow ==
    ASSUME dump' = dump
    PROVE  /\ OpSame("raw") /\ OpSame("rawonce") => UNCHANGED <<StringsDone, LooseDone>>
           /\ \A t : OpAdds("raw", t) /\ Info(Seen(t)).kind \in StringKinds =>
                 t \notin StringsDone /\ StringsDone' = StringsDone \cup {t} /\ LooseDone' = LooseDone
           /\ \A t : OpAdds("raw", t) /\ Info(Seen(t)).kind \notin StringKinds =>
                 StringsDone' = StringsDone /\ LooseDone' = LooseDone \cup {t}
           /\ \A t : OpAdds("rawonce", t) =>
                 StringsDone' = StringsDone /\ LooseDone' = LooseDone \cup {t}
<1> DEFINE IsString(d) == Info(Seen(d)).kind \in StringKinds
<1>1. /\ \A d : d \in StringsDone <=> d \in OpDone("raw") /\ IsString(d)
      /\ \A d : d \in LooseDone <=> d \in OpDone("rawonce") \/ (d \in OpDone("raw") /\ ~ IsString(d))
  BY DEF StringsDone, LooseDone
<1>2. /\ \A d : d \in StringsDone' <=> d \in OpDone("raw")' /\ IsString(d)
      /\ \A d : d \in LooseDone' <=> d \in OpDone("rawonce")' \/ (d \in OpDone("raw")' /\ ~ IsString(d))
  <2>1. \A d : IsString(d)' <=> IsString(d)
    BY AreasSame
  <2> HIDE DEF IsString
  <2>2. /\ StringsDone' = {d \in OpDone("raw")' : IsString(d)'}
        /\ LooseDone' = OpDone("rawonce")' \cup {d \in OpDone("raw")' : ~ IsString(d)'}
    BY DEF StringsDone, LooseDone, IsString
  <2>3. QED
    BY <2>1, <2>2
<1> HIDE DEF IsString
<1>3. "raw" \in BufferOps /\ "rawonce" \in BufferOps /\ "raw" # "rawonce"
  BY DEF BufferOps
<1>4. ASSUME OpSame("raw"), OpSame("rawonce") PROVE UNCHANGED <<StringsDone, LooseDone>>
  <2>1. /\ \A d : d \in StringsDone' <=> d \in StringsDone
        /\ \A d : d \in LooseDone' <=> d \in LooseDone
    BY <1>1, <1>2, <1>4 DEF OpSame
  <2>2. QED
    BY <2>1
<1>5. ASSUME NEW t, OpAdds("raw", t), IsString(t)
      PROVE  t \notin StringsDone /\ StringsDone' = StringsDone \cup {t} /\ LooseDone' = LooseDone
  <2>1. /\ t \notin OpDone("raw") /\ OpDone("raw")' = OpDone("raw") \cup {t}
        /\ OpDone("rawonce")' = OpDone("rawonce")
    BY <1>3, <1>5 DEF OpAdds, OpSame
  <2>2. /\ \A d : d \in StringsDone' <=> d \in StringsDone \cup {t}
        /\ \A d : d \in LooseDone' <=> d \in LooseDone
    BY <1>1, <1>2, <1>5, <2>1
  <2>3. QED
    BY <1>1, <2>1, <2>2
<1>6. ASSUME NEW t, OpAdds("raw", t), ~ IsString(t)
      PROVE  StringsDone' = StringsDone /\ LooseDone' = LooseDone \cup {t}
  <2>1. OpDone("raw")' = OpDone("raw") \cup {t} /\ OpDone("rawonce")' = OpDone("rawonce")
    BY <1>3, <1>6 DEF OpAdds, OpSame
  <2>2. /\ \A d : d \in StringsDone' <=> d \in StringsDone
        /\ \A d : d \in LooseDone' <=> d \in LooseDone \cup {t}
    BY <1>1, <1>2, <1>6, <2>1
  <2>3. QED
    BY <2>2
<1>7. ASSUME NEW t, OpAdds("rawonce", t)
      PROVE  StringsDone' = StringsDone /\ LooseDone' = LooseDone \cup {t}
  <2>1. OpDone("rawonce")' = OpDone("rawonce") \cup {t} /\ OpDone("raw")' = OpDone("raw")
    BY <1>3, <1>7 DEF OpAdds, OpSame
  <2>2. /\ \A d : d \in StringsDone' <=> d \in StringsDone
        /\ \A d : d \in LooseDone' <=> d \in LooseDone \cup {t}
    BY <1>1, <1>2, <2>1
  <2>3. QED
    BY <2>2
<1>8. QED
  BY <1>4, <1>5, <1>6, <1>7 DEF IsString

(* A string that is followed already has its area marked: what shares its   *)
(* address is a string of the same length, not an object.                   *)
LEMMA SkippedIsMarked ==
    ASSUME Inv, Tidy, Entered, MemoryExact, NEW t \in Reached, "rawonce" \in OwnOps(Seen(t)),
           BufOf(t).addr \in shared_pointers
    PROVE  LooseArea(t) \subseteq used_memory
<1>1. \A c : "rawonce" \in OwnOps(Seen(c)) => Info(Seen(c)).kind = "RcString" /\ BufOf(c).addr # 0
  BY DEF OwnOps, BufOf
<1>2. /\ \A c \in SharedTargets(Reached) : AddrOf(c) # BufOf(t).addr
      /\ \A s \in Reached : Info(Seen(s)).kind = "RcString" /\ BufOf(s).addr = BufOf(t).addr =>
            SizeOf(s) + BufOf(s).len = SizeOf(t) + BufOf(t).len
  <2>1. Info(Seen(t)).kind = "RcString"
    BY <1>1
  <2>2. SeparateOnce(Reached)
    BY DEF Tidy
  <2>3. QED
    BY <2>1, <2>2 DEF SeparateOnce
<1>3. PICK s \in Reached : Done(stack, entered, s, <<"rawonce", Null>>) /\ BufOf(s).addr = BufOf(t).addr
  BY <1>2 DEF Entered, OnlyKnown
<1>4. s \in OpDone("rawonce") /\ "rawonce" \in OwnOps(Seen(s))
  BY <1>3, EventFacts DEF OpDone, Done
<1>5. LooseArea(s) = LooseArea(t)
  BY <1>1, <1>2, <1>3, <1>4 DEF LooseArea
<1>6. QED
  BY <1>4, <1>5 DEF MemoryExact, Covered, LooseDone

LEMMA NothingClaimed == ASSUME Inv, claims' = claims PROVE \A c : ~ NewlyClaimed(c)
<1> SUFFICES ASSUME NEW c \in Reached, claims' = Claimed(c) PROVE FALSE
  BY DEF NewlyClaimed, ClaimsOne
<1>1. c \in Cells /\ claims \in [Cells -> Nat]
  BY ReachedFacts DEF Inv
<1>2. claims'[c] = claims[c] + 1 /\ claims[c] \in Nat
  BY <1>1 DEF Claimed
<1>3. QED
  BY <1>2

LEMMA TotalGrows ==
    ASSUME Inv, Tidy, Entered, MemoryExact, dump' = dump, Did \/ \E c \in Roots : DidRoot(c)
    PROVE  \/ NoMore
           \/ \E c : MoreObject(c) \/ MoreString(c) \/ MoreLoose(c)
<1>1. CASE \E t \in Reached : DidRaw(t)
  <2>1. PICK t \in Reached : DidRaw(t)
    BY <1>1
  <2>2. OpAdds("raw", t)
    BY <2>1, OpsGrow
  <2>3. PICK path \in Path :
           IF Info(Seen(t)).kind \in StringKinds
             THEN Out!MarkAndAssociate(path, BufOf(t).addr, LenOf(t), TRUE)
             ELSE Out!MarkAndAssociate(path, BufOf(t).addr, BufOf(t).cap, FALSE)
    BY <2>1 DEF DidRaw, Out!ClaimRaw, LenOf
  <2>4. ClaimedNow' = ClaimedNow
    <3>1. claims' = claims
      BY <2>1 DEF DidRaw
    <3>2. QED
      BY <3>1, NothingClaimed, ClaimedGrows DEF ClaimsNone
  <2>5. CASE Info(Seen(t)).kind \in StringKinds
    <3>1. Total' = Total + LenOf(t) /\ used_memory' = used_memory \cup StringArea(t)
      BY <2>3, <2>5, TotalOfClaim DEF StringArea
    <3>2. t \notin StringsDone /\ StringsDone' = StringsDone \cup {t} /\ LooseDone' = LooseDone
      BY <2>2, <2>5, BuffersGrow
    <3>3. QED
      BY <2>4, <3>1, <3>2 DEF MoreString
  <2>6. CASE Info(Seen(t)).kind \notin StringKinds
    <3>1. Info(Seen(t)).kind = "ThinVector"
      BY <2>2, <2>6 DEF OpAdds, OwnOps, StringKinds
    <3>2. Total' = Total /\ used_memory' = used_memory \cup LooseArea(t)
      BY <2>3, <2>6, <3>1, TotalOfClaim DEF LooseArea
    <3>3. StringsDone' = StringsDone /\ LooseDone' = LooseDone \cup {t}
      BY <2>2, <2>6, BuffersGrow
    <3>4. QED
      BY <2>4, <3>2, <3>3 DEF MoreLoose
  <2>7. QED
    BY <2>5, <2>6
<1>2. CASE \E t \in Reached : DidRawOnce(t)
  <2>1. PICK t \in Reached : DidRawOnce(t)
    BY <1>2
  <2>2. OpAdds("rawonce", t)
    BY <2>1, OpsGrow
  <2>3. "rawonce" \in OwnOps(Seen(t))
    BY <2>2 DEF OpAdds
  <2>4. ClaimedNow' = ClaimedNow
    <3>1. claims' = claims
      BY <2>1 DEF DidRawOnce
    <3>2. QED
      BY <3>1, NothingClaimed, ClaimedGrows DEF ClaimsNone
  <2>5. StringsDone' = StringsDone /\ LooseDone' = LooseDone \cup {t}
    BY <2>2, BuffersGrow
  <2>6. Total' = Total /\ used_memory' = used_memory \cup LooseArea(t)
    <3>1. CASE BufOf(t).addr \in shared_pointers
      <4>1. usage' = usage /\ used_memory' = used_memory
        BY <2>1, <3>1 DEF DidRawOnce, outvars
      <4>2. LooseArea(t) \subseteq used_memory
        BY <2>3, <3>1, SkippedIsMarked
      <4>3. QED
        BY <4>1, <4>2, TotalSame
    <3>2. CASE BufOf(t).addr \notin shared_pointers
      <4>1. PICK path \in Path :
               Out!MarkAndAssociate(path, BufOf(t).addr, SizeOf(t) + BufOf(t).len, FALSE)
        BY <2>1, <3>2 DEF DidRawOnce, Out!InsertAndClaimRaw
      <4>2. LooseArea(t) = Out!Atoms(BufOf(t).addr, SizeOf(t) + BufOf(t).len)
        BY <2>3 DEF LooseArea, OwnOps, BufOf
      <4>3. QED
        BY <4>1, <4>2, TotalOfClaim
    <3>3. QED
      BY <3>1, <3>2
  <2>7. QED
    BY <2>4, <2>5, <2>6 DEF MoreLoose
<1>3. ASSUME ~ \E t \in Reached : DidRaw(t) \/ DidRawOnce(t)
      PROVE  NoMore \/ \E c : MoreObject(c)
  <2>1. UNCHANGED <<StringsDone, LooseDone>>
    <3>1. (\E t \in Reached : OpAdds("count", t)) \/ \A o \in BufferOps : OpSame(o)
      BY <1>3, OpsGrow
    <3>2. {"raw", "rawonce"} \subseteq BufferOps \ {"count"}
      BY DEF BufferOps
    <3>3. OpSame("raw") /\ OpSame("rawonce")
      BY <3>1, <3>2 DEF OpAdds
    <3>4. QED
      BY <3>3, BuffersGrow
  <2>2. ASSUME UNCHANGED <<usage, used_memory>>, ClaimsNone PROVE NoMore
    BY <2>1, <2>2, TotalSame DEF ClaimsNone, NoMore
  <2>3. ASSUME NEW c, NewlyClaimed(c) PROVE MoreObject(c)
    <3>1. PICK path \in Path : Out!MarkAndAssociate(path, AddrOf(c), SizeOf(c), TRUE)
      BY <2>3 DEF NewlyClaimed, ClaimsOne
    <3>2. Total' = Total + SizeOf(c) /\ used_memory' = used_memory \cup ObjectArea(c)
      BY <3>1, TotalOfClaim DEF ObjectArea
    <3>3. QED
      BY <2>1, <2>3, <3>2 DEF NewlyClaimed, ClaimsOne, MoreObject
  <2>4. QED
    BY <1>3, <2>2, <2>3, ClaimedGrows
<1>4. QED
  BY <1>1, <1>2, <1>3

(* The report is written only with a total.                                 *)
Totalled == status = "reported" => <<>> \in DOMAIN usage

LEMMA TotalStart == ASSUME Init, Inv PROVE TotalExact /\ MemoryExact
<1>1. entered = {} /\ used_memory = {} /\ DOMAIN usage = {}
  BY DEF Init, Out!Init, Out!EmptyMap
<1>2. ClaimedNow = {} /\ StringsDone = {} /\ LooseDone = {}
  BY <1>1 DEF ClaimedNow, StringsDone, LooseDone, OpDone, Done
<1>3. Total = 0
  BY <1>1 DEF Total, Out!Entry
<1>4. QED
  BY <1>1, <1>2, <1>3, NoUnits DEF TotalExact, MemoryExact, Covered

LEMMA TotalKept ==
    ASSUME Inv, Tidy, Distinct, Progress, TotalExact, MemoryExact, [Next]_vars
    PROVE  TotalExact' /\ MemoryExact'
<1>1. dump' = dump /\ dump \in Dumps /\ Entered /\ (Did \/ \E c \in Roots : DidRoot(c))
  BY Moves DEF Moved, RootMoved, DidRoot, Inv, Progress
<1>2. NoMore \/ \E c : MoreObject(c) \/ MoreString(c) \/ MoreLoose(c)
  BY <1>1, TotalGrows
<1>3. SizeFcn' = SizeFcn /\ LenFcn' = LenFcn
  BY <1>1, AreasSame
<1>4. /\ TotalExact' <=> Total' = SumUp(SizeFcn, ClaimedNow') + SumUp(LenFcn, StringsDone')
      /\ MemoryExact' <=> \A a : a \in used_memory' <=> Covered(a, ClaimedNow', StringsDone', LooseDone')
  <2>1. \A a : Covered(a, ClaimedNow, StringsDone, LooseDone)'
                  <=> Covered(a, ClaimedNow', StringsDone', LooseDone')
    BY <1>1, AreasSame DEF Covered
  <2>2. SumUp(SizeFcn, ClaimedNow)' = SumUp(SizeFcn, ClaimedNow')
        /\ SumUp(LenFcn, StringsDone)' = SumUp(LenFcn, StringsDone')
    BY <1>3 DEF SumUp, Units
  <2>3. QED
    BY <2>1, <2>2 DEF TotalExact, MemoryExact
<1>5. /\ ClaimedNow \in SUBSET Cells /\ StringsDone \in SUBSET Cells
      /\ SizeFcn \in [Cells -> Nat] /\ LenFcn \in [Cells -> Nat]
  BY <1>1, ReachedFacts, SizesAndLens DEF ClaimedNow, StringsDone, OpDone
<1>6. /\ SumUp(SizeFcn, ClaimedNow) \in Nat /\ SumUp(LenFcn, StringsDone) \in Nat
      /\ IsFiniteSet(Units(SizeFcn, ClaimedNow)) /\ IsFiniteSet(Units(LenFcn, StringsDone))
  BY <1>5, UnitsFinite
<1>7. \A c \in Reached : /\ c \in Cells /\ SizeFcn[c] = SizeOf(c) /\ LenFcn[c] = LenOf(c)
                         /\ SizeOf(c) \in Nat /\ LenOf(c) \in Nat
  <2>1. \A c \in Reached : c \in Cells
    BY <1>1, ReachedFacts
  <2>2. QED
    BY <1>5, <2>1 DEF SizeFcn, LenFcn
<1>8. CASE NoMore
  BY <1>4, <1>8 DEF NoMore, TotalExact, MemoryExact
<1>9. ASSUME NEW c, MoreObject(c) PROVE TotalExact' /\ MemoryExact'
  <2>1. c \in Reached /\ c \notin ClaimedNow
    BY <1>9 DEF MoreObject
  <2>2. SumUp(SizeFcn, ClaimedNow \cup {c}) = SumUp(SizeFcn, ClaimedNow) + SizeOf(c)
    BY <1>5, <1>6, <1>7, <2>1, UnitsAdd
  <2>3. Total' = SumUp(SizeFcn, ClaimedNow \cup {c}) + SumUp(LenFcn, StringsDone)
    BY <1>6, <1>7, <1>9, <2>1, <2>2 DEF MoreObject, TotalExact
  <2>4. \A a : a \in used_memory' <=> Covered(a, ClaimedNow \cup {c}, StringsDone, LooseDone)
    BY <1>9 DEF MoreObject, MemoryExact, Covered
  <2>5. QED
    BY <1>4, <1>9, <2>3, <2>4 DEF MoreObject
<1>10. ASSUME NEW t, MoreString(t) PROVE TotalExact' /\ MemoryExact'
  <2>1. t \in Reached /\ t \notin StringsDone
    BY <1>10 DEF MoreString
  <2>2. SumUp(LenFcn, StringsDone \cup {t}) = SumUp(LenFcn, StringsDone) + LenOf(t)
    BY <1>5, <1>6, <1>7, <2>1, UnitsAdd
  <2>3. Total' = SumUp(SizeFcn, ClaimedNow) + SumUp(LenFcn, StringsDone \cup {t})
    BY <1>6, <1>7, <1>10, <2>1, <2>2 DEF MoreString, TotalExact
  <2>4. \A a : a \in used_memory' <=> Covered(a, ClaimedNow, StringsDone \cup {t}, LooseDone)
    BY <1>10 DEF MoreString, MemoryExact, Covered
  <2>5. QED
    BY <1>4, <1>10, <2>3, <2>4 DEF MoreString
<1>11. ASSUME NEW t, MoreLoose(t) PROVE TotalExact' /\ MemoryExact'
  <2>1. Total' = SumUp(SizeFcn, ClaimedNow) + SumUp(LenFcn, StringsDone)
    BY <1>11 DEF MoreLoose, TotalExact
  <2>2. \A a : a \in used_memory' <=> Covered(a, ClaimedNow, StringsDone, LooseDone \cup {t})
    BY <1>11 DEF MoreLoose, MemoryExact, Covered
  <2>3. QED
    BY <1>4, <1>11, <2>1, <2>2 DEF MoreLoose
<1>12. QED
  BY <1>2, <1>8, <1>9, <1>10, <1>11

(* A visit goes on, or the program panics.                                  *)
LEMMA AfterStatus ==
    ASSUME NEW calls, NEW path, NEW c, visit_type(calls, path, c) \/ visit_shared(calls, path, c)
    PROVE  status' \in {status, "panicked"}
  BY DEF visit_type, visit_shared, After

LEMMA TotalledStep == Totalled /\ [Next]_vars => Totalled'
<1> SUFFICES ASSUME Totalled, [Next]_vars, status' = "reported" PROVE <<>> \in DOMAIN usage'
  BY DEF Totalled
<1>1. CASE status = "reported" /\ UNCHANGED vars
  BY <1>1 DEF Totalled, vars, outvars
<1>2. CASE status # "reported" /\ UNCHANGED vars
  BY <1>2 DEF vars
<1>3. CASE Handler
  <2>1. VisitStep \/ VisitOnceStep => status = "walking" /\ status' \in {status, "panicked"}
    BY AfterStatus DEF VisitStep, VisitOnceStep, At
  <2>2. ReadStep => status = "walking" /\ status' \in {status, "panicked"}
    BY DEF ReadStep, At, After
  <2>3. status = "walking" /\ status' \in {status, "panicked"}
    BY <1>3, <2>1, <2>2 DEF Handler, At, ClaimStep, RawStep, RawOnceStep, CountStep,
       PanicStep, Return, Propagate
  <2>4. QED
    BY <2>3
<1>4. CASE Main
  <2>1. VisitVariable \/ NoSuchVariable \/ SkipVariable \/ NextFrame => status' # "reported"
    BY AfterStatus DEF VisitVariable, NoSuchVariable, SkipVariable, NextFrame, InMain
  <2>2. Report => <<>> \in DOMAIN usage'
    BY DEF Report, outvars
  <2>3. QED
    BY <1>4, <2>1, <2>2 DEF Main
<1>5. QED
  BY <1>1, <1>2, <1>3, <1>4 DEF Next

LEMMA BuffersAreDone ==
    ASSUME Inv, Tidy, Progress, status = "reported"
    PROVE  /\ StringsDone = {c \in Reached : HasBuffer(c)}
           /\ \A a : (\E c \in LooseDone : a \in LooseArea(c))
                <=> \E c \in Reached : Info(Seen(c)).kind \in LooseKinds /\ a \in LooseArea(c)
<1>1. \A d \in Reached, op \in {"raw", "rawonce"} : d \in OpDone(op) <=> op \in OwnOps(Seen(d))
  BY AllDone, EventFacts DEF OpDone
<1>2. \A d \in Reached : "raw" \in OwnOps(Seen(d)) <=>
         HasBuffer(d) \/ Info(Seen(d)).kind = "ThinVector"
  BY DEF OwnOps, HasBuffer, StringKinds, BufOf
<1>3. \A d \in Reached : "rawonce" \in OwnOps(Seen(d)) <=>
         Info(Seen(d)).kind = "RcString" /\ BufOf(d).addr # 0
  BY DEF OwnOps, BufOf
<1>4. \A op, d : d \in OpDone(op) => d \in Reached
  BY DEF OpDone
<1>5. StringsDone = {c \in Reached : HasBuffer(c)}
  <2>1. \A d \in Reached : d \in StringsDone <=> HasBuffer(d)
    BY <1>1, <1>2 DEF StringsDone, HasBuffer, StringKinds
  <2>2. QED
    BY <1>4, <2>1 DEF StringsDone
<1>6. \A d : d \in LooseDone <=>
         d \in Reached /\ \/ Info(Seen(d)).kind = "ThinVector"
                          \/ Info(Seen(d)).kind = "RcString" /\ BufOf(d).addr # 0
  <2>1. "ThinVector" \notin StringKinds
    BY DEF StringKinds
  <2>2. \A d \in Reached : HasBuffer(d) => Info(Seen(d)).kind \in StringKinds
    BY DEF HasBuffer
  <2>3. QED
    BY <1>1, <1>2, <1>3, <1>4, <2>1, <2>2 DEF LooseDone
<1>7. \A d, a : Info(Seen(d)).kind = "RcString" /\ a \in LooseArea(d) => BufOf(d).addr # 0
  BY DEF LooseArea
<1>8. QED
  BY <1>5, <1>6, <1>7 DEF LooseKinds

(* The total of the report of a tidy dump is the sum of the sizes of the    *)
(* objects that can be reached and of the buffers of the strings, and the   *)
(* bitmap is the union of their areas and of the unassociated ones          *)
(* (main.rs:217, 245-248).                                                  *)
THEOREM WalkTotalIsSum == Spec => []TotalIsSumOfObjects
<1> DEFINE I == Totalled /\ (Tidy => TotalExact /\ MemoryExact)
<1>1. Init /\ Inv => I
  <2>1. Init => Totalled
    BY DEF Init, Totalled
  <2>2. QED
    BY <2>1, TotalStart
<1>2. Inv /\ TidyInv /\ I /\ [Next]_vars => I'
  BY TotalKept, TidyStep, TotalledStep DEF TidyInv
<1>3. Inv /\ TidyInv /\ I => TotalIsSumOfObjects
  <2> SUFFICES ASSUME Inv, Tidy, Progress, Totalled, TotalExact, MemoryExact, status = "reported"
               PROVE  TotalIsSumOfObjects
    BY DEF TidyInv, TotalIsSumOfObjects
  <2> DEFINE strings == {c \in Reached : HasBuffer(c)}
             loose == {c \in Reached : Info(Seen(c)).kind \in LooseKinds}
  <2>1. ClaimedNow = ExpectedObjects /\ StringsDone = strings /\ dump \in Dumps
    BY ObjectsAreClaimed, BuffersAreDone DEF Inv
  <2>2. ExpectedObjects \in SUBSET Cells /\ strings \in SUBSET Cells
    BY <2>1, ReachedFacts DEF ClaimedNow
  <2>3. usage[<<>>] = MapThenSumSet(SizeOf, ExpectedObjects) + MapThenSumSet(LenOf, strings)
    <3>1. usage[<<>>] = SumUp(SizeFcn, ExpectedObjects) + SumUp(LenFcn, strings)
      BY <2>1 DEF Totalled, TotalExact, Total, Out!Entry
    <3> HIDE DEF strings
    <3>2. QED
      BY <2>1, <2>2, <3>1, SumOfSizes, SumOfLens
  <2>4. used_memory = UNION ({Out!Atoms(AddrOf(c), SizeOf(c)) : c \in ExpectedObjects}
                             \cup {Out!Atoms(BufOf(c).addr, LenOf(c)) : c \in strings}
                             \cup {LooseArea(c) : c \in loose})
    <3>1. \A a : a \in used_memory <=> \/ \E c \in ExpectedObjects : a \in Out!Atoms(AddrOf(c), SizeOf(c))
                                       \/ \E c \in strings : a \in Out!Atoms(BufOf(c).addr, LenOf(c))
                                       \/ \E c \in LooseDone : a \in LooseArea(c)
      BY <2>1 DEF MemoryExact, Covered, ObjectArea, StringArea
    <3>2. \A a : (\E c \in LooseDone : a \in LooseArea(c)) <=> \E c \in loose : a \in LooseArea(c)
      BY BuffersAreDone
    <3> HIDE DEF strings, loose
    <3>3. QED
      BY <3>1, <3>2
  <2>5. QED
    BY <2>3, <2>4 DEF TotalIsSumOfObjects
<1>4. Spec => []I
  <2> HIDE DEF I
  <2>1. QED
    BY <1>1, <1>2, InitInv, TidyHolds, PTL DEF Spec
<1>5. QED
  BY <1>3, <1>4, TidyHolds, PTL
=============================================================================
