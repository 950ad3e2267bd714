--------------------------- MODULE DieParserProofs ---------------------------
(***************************************************************************)
(* For all debug information: the parser keeps its types, what a TypeRef   *)
(* is given comes from the one entry it is for, every scope that ends is   *)
(* recorded as the tree of entries describes it, and a panic has a cause.  *)
(*                                                                         *)
(* IInv says how the variables fit together; it is enough for the first    *)
(* two.  Found relates them to the tree: which entries the frames of the   *)
(* stack are for (Shape), what each frame has gathered from the entries    *)
(* read so far (FramesHold), and what types, functions and status say of   *)
(* the scopes that have ended (TypesHold, FunctionsHold, Caused, AtEnd).   *)
(***************************************************************************)
EXTENDS DieParser, SequenceTheorems, FiniteSetTheorems, WellFoundedInduction, TLAPS

(* The type a frame is for is that of a structure or a union of this unit,  *)
(* so that what is recorded when the frame is popped is of its kind.        *)
OwnType(frame, lookup) ==
    frame.kind = "InType" =>
        /\ frame.ty \in DOMAIN lookup
        /\ IF frame.is_union THEN TagOf(lookup[frame.ty]) = "union_type"
           ELSE TagOf(lookup[frame.ty]) \in {"structure_type", "class_type"}

Injective(lookup) == \A r, s \in DOMAIN lookup : lookup[r] = lookup[s] => r = s
Fitting(T, lookup) == \A r \in DOMAIN T : T[r] # None => T[r].kind \in KindsFor(TagOf(lookup[r]))
Extends(M, L) == DOMAIN L \subseteq DOMAIN M /\ \A r \in DOMAIN L : M[r] = L[r]
Table(L) == L \in Seq(Nat \X Nat) /\ Injective(L)

FrameOK(frame) == frame.kind \in DOMAIN FrameFields /\ DOMAIN frame = FrameFields[frame.kind]
Stack(s) == \E S : s \in Seq(S)
Nesting(s) ==
    \A k \in DOMAIN s : IF k = 1 THEN MayBeAbove(s[k].kind) = DOMAIN FrameFields
                        ELSE s[k - 1].kind \in MayBeAbove(s[k].kind)
Frames(s, lookup) == Stack(s) /\ Nesting(s) /\ \A k \in DOMAIN s : FrameOK(s[k]) /\ OwnType(s[k], lookup)

Place == /\ dwarf \in Dwarfs /\ unit \in DOMAIN dwarf /\ pos \in 1..Len(Entries) + 1
         /\ status \in {"running", "done", "panicked"}
Deep == Len(stack) <= (IF pos = 1 THEN 1 ELSE Entries[pos - 1].depth + 1)
Tables == Table(type_lookup) /\ DOMAIN types = DOMAIN type_lookup /\ Fitting(types, type_lookup)

IInv == Place /\ Deep /\ Frames(stack, type_lookup) /\ Tables

-----------------------------------------------------------------------------
LEMMA EntryFacts ==
    ASSUME Place
    PROVE  /\ Entries \in Seq(Entry) /\ Len(Entries) \in Nat \ {0} /\ unit \in Nat /\ pos \in Nat
           /\ dwarf[unit].load_base \in Nat
           /\ pos <= Len(Entries) => Here \in Entry
           /\ \A i \in 1..Len(Entries) : Entries[i].depth \in Nat
<1>1. dwarf \in Seq({dwarf[u] : u \in DOMAIN dwarf}) /\ IsUnit(dwarf[unit])
  BY DwarfsAssumption DEF Place
<1>2. unit \in Nat  BY <1>1 DEF Place
<1>3. Entries \in Seq(Entry) /\ Len(Entries) > 0  BY <1>1 DEF IsUnit, Entries
<1>4. \A i \in 1..Len(Entries) : Entries[i] \in Entry  BY <1>3
<1>5. ASSUME NEW e \in Entry PROVE e.depth \in Nat  BY DEF Entry
<1> QED  BY <1>1, <1>2, <1>3, <1>4, <1>5 DEF Place, Here, IsUnit

-----------------------------------------------------------------------------
(* dwarf_type_ref: the table grows at its end, and finds what it was asked. *)
LEMMA RefFound ==
    ASSUME NEW L, NEW i, \E r \in DOMAIN L : L[r] = <<unit, i>>
    PROVE  Ref(L, i) \in DOMAIN L /\ L[Ref(L, i)] = <<unit, i>>
BY DEF Ref

LEMMA WithRefGrows ==
    ASSUME NEW L, Table(L), unit \in Nat, NEW i \in Nat
    PROVE  /\ Table(WithRef(L, i)) /\ Extends(WithRef(L, i), L)
           /\ \E r \in DOMAIN WithRef(L, i) : WithRef(L, i)[r] = <<unit, i>>
<1>1. CASE \E r \in DOMAIN L : L[r] = <<unit, i>>
  BY <1>1 DEF WithRef, Extends
<1>2. CASE ~\E r \in DOMAIN L : L[r] = <<unit, i>>
  <2> DEFINE M == Append(L, <<unit, i>>)
  <2>1. WithRef(L, i) = M  BY <1>2 DEF WithRef
  <2>2. L \in Seq(Nat \X Nat) /\ <<unit, i>> \in Nat \X Nat  BY DEF Table
  <2>3. M \in Seq(Nat \X Nat) /\ Len(M) = Len(L) + 1 /\ M[Len(L) + 1] = <<unit, i>>
        /\ \A r \in 1..Len(L) : M[r] = L[r]
    BY <2>2
  <2> HIDE DEF M
  <2>4. Len(L) \in Nat /\ DOMAIN L = 1..Len(L) /\ DOMAIN M = 1..Len(L) + 1  BY <2>2, <2>3
  <2>5. Injective(M)
    <3> SUFFICES ASSUME NEW r \in DOMAIN M, NEW s \in DOMAIN M, M[r] = M[s] PROVE r = s
      BY DEF Injective
    <3>1. CASE r \in 1..Len(L) /\ s \in 1..Len(L)  BY <3>1, <2>3, <2>4 DEF Table, Injective
    <3>2. CASE r = Len(L) + 1 /\ s \in 1..Len(L)  BY <3>2, <2>3, <2>4, <1>2
    <3>3. CASE s = Len(L) + 1 /\ r \in 1..Len(L)  BY <3>3, <2>3, <2>4, <1>2
    <3> QED  BY <3>1, <3>2, <3>3, <2>4
  <2>6. Table(M)  BY <2>3, <2>5 DEF Table
  <2>8. Extends(M, L)  BY <2>3, <2>4 DEF Extends
  <2>7. Len(L) + 1 \in DOMAIN M  BY <2>4
  <2> QED  BY <2>1, <2>3, <2>6, <2>7, <2>8
<1> QED  BY <1>1, <1>2

LEMMA WithTargetGrows ==
    ASSUME Place, pos <= Len(Entries), NEW L, Table(L)
    PROVE  Table(WithTarget(L)) /\ Extends(WithTarget(L), L)
<1>1. Here.ty \in Nat /\ unit \in Nat  BY EntryFacts DEF Entry
<1> QED  BY <1>1, WithRefGrows DEF WithTarget, Extends

LEMMA ExtendsTrans ==
    ASSUME NEW L, NEW M, NEW N, Extends(M, L), Extends(N, M) PROVE Extends(N, L)
BY DEF Extends

LEMMA GrownFits ==
    ASSUME Tables, NEW M, Extends(M, type_lookup)
    PROVE  DOMAIN Grown(M) = DOMAIN M /\ Fitting(Grown(M), M)
BY DEF Tables, Grown, Fitting, Extends

LEMMA ReferKeeps ==
    ASSUME Tables, NEW M, Table(M), Extends(M, type_lookup), Refer(M), dwarf' = dwarf
    PROVE  Tables' /\ type_lookup' = M
<1>1. DOMAIN Grown(M) = DOMAIN M /\ Fitting(Grown(M), M)  BY GrownFits
<1>2. \A k : TagOf(k)' = TagOf(k)  BY DEF TagOf, Es
<1>3. Fitting(types, type_lookup)'
  BY <1>1, <1>2 DEF Fitting, Refer
<1> QED  BY <1>1, <1>3 DEF Tables, Table, Injective, Refer

LEMMA DefineKeeps ==
    ASSUME Tables, NEW M, Table(M), Extends(M, type_lookup),
           \E r \in DOMAIN M : M[r] = <<unit, pos>>,
           NEW v, v.kind \in KindsFor(Here.tag), Define(M, v), dwarf' = dwarf
    PROVE  Tables' /\ type_lookup' = M
<1>1. DOMAIN Grown(M) = DOMAIN M /\ Fitting(Grown(M), M)  BY GrownFits
<1>2. Ref(M, pos) \in DOMAIN M /\ M[Ref(M, pos)] = <<unit, pos>>  BY RefFound
<1>3. TagOf(<<unit, pos>>) = Here.tag  BY DEF TagOf, Es, Here, Entries
<1>4. Fitting([Grown(M) EXCEPT ![Ref(M, pos)] = v], M)  BY <1>1, <1>2, <1>3 DEF Fitting
<1>5. \A k : TagOf(k)' = TagOf(k)  BY DEF TagOf, Es
<1>6. Fitting(types, type_lookup)'  BY <1>4, <1>5 DEF Fitting, Define
<1> QED  BY <1>1, <1>6 DEF Tables, Table, Injective, Define

-----------------------------------------------------------------------------
(* The stack: pushing, popping and replacing a frame keep the frames sound. *)
LEMMA StackFacts == ASSUME NEW s, Stack(s) PROVE Len(s) \in Nat /\ DOMAIN s = 1..Len(s)
BY DEF Stack

LEMMA InvariantImplies == ASSUME IInv PROVE TypeOK /\ TypesAreTheirs
<1>1. Entries \in Seq(Entry) /\ \A i \in 1..Len(Entries) : Entries[i].depth \in Nat
  BY EntryFacts DEF IInv
<1>2. Len(stack) \in 0..(IF pos = 1 THEN 1 ELSE Entries[pos - 1].depth + 1)
  <2>1. Len(stack) \in Nat  BY StackFacts DEF IInv, Frames
  <2>2. pos # 1 => pos - 1 \in 1..Len(Entries)  BY <1>1 DEF IInv, Place
  <2> QED  BY <1>1, <2>1, <2>2 DEF IInv, Deep
<1>3. DOMAIN stack = 1..Len(stack)  BY StackFacts DEF IInv, Frames
<1>4. TypeOK
  BY <1>2, <1>3 DEF IInv, Place, Frames, Nesting, FrameOK, Tables, Table, TypeOK
<1> QED  BY <1>4 DEF IInv, Tables, Table, Injective, Fitting, TypesAreTheirs

LEMMA AppendFacts ==
    ASSUME NEW s, Stack(s), NEW f
    PROVE  /\ Stack(Append(s, f)) /\ Len(Append(s, f)) = Len(s) + 1
           /\ Append(s, f)[Len(s) + 1] = f /\ \A k \in 1..Len(s) : Append(s, f)[k] = s[k]
<1>1. PICK S : s \in Seq(S)  BY DEF Stack
<1>2. s \in Seq(S \cup {f}) /\ f \in S \cup {f}  BY <1>1
<1>3. Append(s, f) \in Seq(S \cup {f})  BY <1>2
<1> QED  BY <1>2, <1>3 DEF Stack

Replaced(s, k, f) == [s EXCEPT ![k] = f]
LEMMA ReplaceFacts ==
    ASSUME NEW s, Stack(s), NEW k \in DOMAIN s, NEW f
    PROVE  LET t == Replaced(s, k, f)
           IN  /\ Stack(t) /\ Len(t) = Len(s) /\ DOMAIN t = DOMAIN s /\ t[k] = f
               /\ \A j \in DOMAIN s : j # k => t[j] = s[j]
<1>1. PICK S : s \in Seq(S)  BY DEF Stack
<1>2. s \in Seq(S \cup {f}) /\ f \in S \cup {f}  BY <1>1
<1>3. [s EXCEPT ![k] = f] \in Seq(S \cup {f})  BY <1>2
<1> QED  BY <1>2, <1>3 DEF Stack, Replaced

LEMMA PopFacts ==
    ASSUME Stack(stack), Len(stack) > 0
    PROVE  /\ Stack(Popped) /\ Len(Popped) = Len(stack) - 1
           /\ \A k \in 1..Len(stack) - 1 : Popped[k] = stack[k]
<1>1. PICK S : stack \in Seq(S)  BY DEF Stack
<1>2. Popped \in Seq(S)  BY <1>1 DEF Popped
<1>3. 1 \in 1..Len(stack) + 1 /\ Len(stack) - 1 \in (1 - 1)..Len(stack)  BY <1>1
<1>4. Len(Popped) = Len(stack) - 1 /\ \A k \in 1..Len(stack) - 1 : Popped[k] = stack[k]
  <2>1. /\ Len(Popped) = (Len(stack) - 1) - 1 + 1
        /\ \A k \in 1..(Len(stack) - 1) - 1 + 1 : Popped[k] = stack[1 + k - 1]
    BY <1>1, <1>3, SubSeqProperties DEF Popped
  <2> QED  BY <1>1, <2>1
<1> QED  BY <1>2, <1>4 DEF Stack

LEMMA FramesGrow ==
    ASSUME NEW s, NEW L, NEW M, Frames(s, L), Extends(M, L) PROVE Frames(s, M)
BY DEF Frames, OwnType, Extends

LEMMA FramesPush ==
    ASSUME NEW L, Frames(stack, L), NEW f, FrameOK(f), OwnType(f, L),
           \/ MayBeAbove(f.kind) = DOMAIN FrameFields
           \/ stack # <<>> /\ Top.kind \in MayBeAbove(f.kind)
    PROVE  Frames(Append(stack, f), L) /\ Len(Append(stack, f)) = Len(stack) + 1
<1> DEFINE t == Append(stack, f)
<1>1. Stack(stack) /\ Len(stack) \in Nat /\ DOMAIN stack = 1..Len(stack)  BY StackFacts DEF Frames
<1>2. /\ Stack(t) /\ Len(t) = Len(stack) + 1 /\ t[Len(stack) + 1] = f
      /\ \A k \in 1..Len(stack) : t[k] = stack[k]
  BY <1>1, AppendFacts
<1> HIDE DEF t
<1>3. DOMAIN t = 1..Len(stack) + 1  BY <1>2, StackFacts
<1>4. \A k \in DOMAIN t : FrameOK(t[k]) /\ OwnType(t[k], L)  BY <1>1, <1>2, <1>3 DEF Frames
<1>5. Len(stack) > 0 => FrameOK(stack[Len(stack)])  BY <1>1 DEF Frames
<1>6. ASSUME NEW k \in DOMAIN t
      PROVE  IF k = 1 THEN MayBeAbove(t[k].kind) = DOMAIN FrameFields
             ELSE t[k - 1].kind \in MayBeAbove(t[k].kind)
  <2>1. CASE k <= Len(stack)
    <3>1. k \in DOMAIN stack /\ t[k] = stack[k] /\ (k # 1 => t[k - 1] = stack[k - 1])
      BY <2>1, <1>1, <1>2, <1>3
    <3> QED  BY <3>1 DEF Frames, Nesting
  <2>2. CASE k > Len(stack)
    <3>1. k = Len(stack) + 1 /\ t[k] = f  BY <2>2, <1>1, <1>2, <1>3
    <3>2. k # 1 => t[k - 1] = stack[Len(stack)] /\ Top = stack[Len(stack)]
      BY <3>1, <1>1, <1>2 DEF Top
    <3>3. k = 1 => stack = <<>>  BY <3>1, <1>1 DEF Stack
    <3> QED  BY <3>1, <3>2, <3>3, <1>1, <1>5 DEF FrameOK
  <2> QED  BY <2>1, <2>2, <1>1, <1>3
<1>7. Nesting(t)  BY <1>6 DEF Nesting
<1>8. Frames(t, L)  BY <1>2, <1>4, <1>7 DEF Frames
<1> QED  BY <1>2, <1>8 DEF t

LEMMA FramesReplace ==
    ASSUME NEW L, NEW s, Frames(s, L), NEW k \in DOMAIN s,
           NEW f, f.kind = s[k].kind, FrameOK(f), OwnType(f, L)
    PROVE  Frames(Replaced(s, k, f), L) /\ Len(Replaced(s, k, f)) = Len(s)
<1> DEFINE t == Replaced(s, k, f)
<1>1. /\ Stack(t) /\ Len(t) = Len(s) /\ DOMAIN t = DOMAIN s /\ t[k] = f
      /\ \A j \in DOMAIN s : j # k => t[j] = s[j]
  BY ReplaceFacts DEF Frames
<1> HIDE DEF t
<1>2. \A j \in DOMAIN s : t[j].kind = s[j].kind  BY <1>1
<1>3. DOMAIN s = 1..Len(s) /\ Len(s) \in Nat  BY StackFacts DEF Frames
<1>4. Nesting(t)
  <2>1. \A j \in DOMAIN s : j # 1 => j - 1 \in DOMAIN s  BY <1>3
  <2> QED  BY <1>1, <1>2, <2>1 DEF Frames, Nesting
<1>5. \A j \in DOMAIN t : FrameOK(t[j]) /\ OwnType(t[j], L)  BY <1>1 DEF Frames
<1> QED  BY <1>1, <1>4, <1>5 DEF t, Frames

LEMMA FramesPop ==
    ASSUME NEW L, Frames(stack, L), Len(stack) > 0
    PROVE  Frames(Popped, L) /\ Len(Popped) = Len(stack) - 1
<1>1. DOMAIN stack = 1..Len(stack) /\ Len(stack) \in Nat  BY StackFacts DEF Frames
<1>2. /\ Stack(Popped) /\ Len(Popped) = Len(stack) - 1
      /\ \A k \in 1..Len(stack) - 1 : Popped[k] = stack[k]
  BY PopFacts DEF Frames
<1>3. DOMAIN Popped = 1..Len(stack) - 1  BY <1>2, StackFacts
<1>4. \A k \in DOMAIN Popped : k \in DOMAIN stack /\ Popped[k] = stack[k]
                               /\ (k # 1 => Popped[k - 1] = stack[k - 1])
  BY <1>1, <1>2, <1>3
<1>5. Nesting(Popped)  BY <1>4 DEF Frames, Nesting
<1> QED  BY <1>2, <1>4, <1>5 DEF Frames

-----------------------------------------------------------------------------
(* The two shapes of a step: the next entry, or a frame less.               *)
LEMMA FramesPrimed ==
    ASSUME dwarf' = dwarf, Frames(stack', type_lookup') PROVE Frames(stack, type_lookup)'
<1>1. \A k : TagOf(k)' = TagOf(k)  BY DEF TagOf, Es
<1> QED  BY <1>1 DEF Frames, Stack, Nesting, FrameOK, OwnType

LEMMA TablesKept ==
    ASSUME Tables, dwarf' = dwarf, UNCHANGED <<type_lookup, types>> PROVE Tables'
<1>1. \A k : TagOf(k)' = TagOf(k)  BY DEF TagOf, Es
<1> QED  BY <1>1 DEF Tables, Table, Injective, Fitting

LEMMA AdvanceKeeps ==
    ASSUME IInv, pos <= Len(Entries), Advance, Len(stack') <= Here.depth + 1,
           Frames(stack', type_lookup'), Tables'
    PROVE  IInv'
<1>1. Len(Entries) \in Nat /\ pos \in Nat /\ Entries' = Entries  BY EntryFacts DEF IInv, Advance, Entries
<1>2. Place'  BY <1>1 DEF IInv, Place, Advance
<1>3. Deep'
  <2>1. pos' # 1 /\ Entries'[pos' - 1] = Here  BY <1>1 DEF IInv, Place, Advance, Here
  <2> QED  BY <2>1 DEF Deep
<1>4. Frames(stack, type_lookup)'  BY FramesPrimed DEF Advance
<1> QED  BY <1>2, <1>3, <1>4 DEF IInv

LEMMA PopKeeps ==
    ASSUME IInv, Len(stack) > 0, UNCHANGED <<dwarf, unit, pos, status>>, Len(stack') <= Len(stack),
           Frames(stack', type_lookup'), Tables'
    PROVE  IInv'
<1>1. Entries \in Seq(Entry) /\ (\A i \in 1..Len(Entries) : Entries[i].depth \in Nat) /\ Entries' = Entries
  BY EntryFacts DEF IInv, Entries
<1>2. Len(stack) \in Nat /\ Len(stack') \in Nat  BY StackFacts DEF IInv, Frames
<1>3. Place'  BY <1>1 DEF IInv, Place
<1>4. Deep'
  <2>1. pos # 1 => pos - 1 \in 1..Len(Entries)  BY <1>1 DEF IInv, Place
  <2> QED  BY <1>1, <1>2, <2>1 DEF IInv, Deep
<1>5. Frames(stack, type_lookup)'  BY FramesPrimed
<1> QED  BY <1>3, <1>4, <1>5 DEF IInv

LEMMA StandStill == ASSUME IInv, UNCHANGED <<dwarf, unit, pos, stack, type_lookup, types>>,
                           status' \in {"running", "done", "panicked"} PROVE IInv'
<1>1. Tables'  BY TablesKept DEF IInv
<1>2. Frames(stack, type_lookup)'  BY FramesPrimed DEF IInv
<1>3. Place' /\ Deep'  BY DEF IInv, Place, Deep, Entries
<1> QED  BY <1>1, <1>2, <1>3 DEF IInv

Fresh == IInv /\ pos <= Len(Entries) /\ Len(stack) = Here.depth
LEMMA AtFacts ==
    ASSUME IInv, NEW tags, At(tags)
    PROVE  Fresh /\ Here \in Entry /\ Here.depth \in Nat /\ Here.ty \in Nat /\ Here.tag \in tags
BY EntryFacts DEF IInv, At, Reading, Fresh, Entry

LEMMA PushStep ==
    ASSUME Fresh, Advance, Tables', Extends(type_lookup', type_lookup), NEW f, stack' = Append(stack, f),
           FrameOK(f), OwnType(f, type_lookup'),
           MayBeAbove(f.kind) = DOMAIN FrameFields \/ (stack # <<>> /\ Top.kind \in MayBeAbove(f.kind))
    PROVE  IInv'
<1>1. Frames(stack, type_lookup')  BY FramesGrow DEF Fresh, IInv
<1>2. Frames(stack', type_lookup') /\ Len(stack') = Len(stack) + 1  BY <1>1, FramesPush
<1>3. Here.depth \in Nat  BY StackFacts DEF Fresh, IInv, Frames
<1> QED  BY <1>2, <1>3, AdvanceKeeps DEF Fresh

LEMMA KeepStep ==
    ASSUME Fresh, Advance, Tables', Extends(type_lookup', type_lookup), stack' = stack
    PROVE  IInv'
<1>1. Frames(stack', type_lookup')  BY FramesGrow DEF Fresh, IInv
<1>2. Here.depth \in Nat  BY StackFacts DEF Fresh, IInv, Frames
<1> QED  BY <1>1, <1>2, AdvanceKeeps DEF Fresh

LEMMA ReplaceStep ==
    ASSUME Fresh, Advance, Tables', Extends(type_lookup', type_lookup), NEW k \in DOMAIN stack,
           NEW f, stack' = Replaced(stack, k, f), f.kind = stack[k].kind, FrameOK(f), OwnType(f, type_lookup')
    PROVE  IInv'
<1>1. Frames(stack, type_lookup')  BY FramesGrow DEF Fresh, IInv
<1>2. Frames(stack', type_lookup') /\ Len(stack') = Len(stack)  BY <1>1, FramesReplace
<1>3. Here.depth \in Nat  BY StackFacts DEF Fresh, IInv, Frames
<1> QED  BY <1>2, <1>3, AdvanceKeeps DEF Fresh

LEMMA TopFacts ==
    ASSUME IInv, stack # <<>>
    PROVE  Len(stack) \in DOMAIN stack /\ Len(stack) > 0 /\ Top = stack[Len(stack)] /\ FrameOK(Top)
           /\ OwnType(Top, type_lookup)
<1>1. Len(stack) \in Nat /\ DOMAIN stack = 1..Len(stack)  BY StackFacts DEF IInv, Frames
<1>2. Len(stack) # 0  BY DEF IInv, Frames, Stack
<1> QED  BY <1>1, <1>2 DEF Top, IInv, Frames

LEMMA TypeRefKept ==
    ASSUME Fresh, UNCHANGED <<type_lookup, types>>, dwarf' = dwarf
    PROVE  Tables' /\ Extends(type_lookup', type_lookup)
BY TablesKept DEF Fresh, IInv, Extends

-----------------------------------------------------------------------------
(* Scopes that end.                                                         *)
LEMMA EndKeeps == ASSUME IInv, End PROVE IInv'
<1>1. Reading /\ Len(stack) > Here.depth /\ Len(stack) > 0 /\ Len(stack) \in Nat /\ stack # <<>>
  <2>1. Reading /\ Len(stack) > Here.depth
    BY DEF End, EndFunction, EndType, EndTypeWithoutDiscr, EndVariants, EndVariant, EndScope, Ending
  <2>2. Here.depth \in Nat  BY <2>1, EntryFacts DEF Reading, IInv, Entry
  <2>3. Len(stack) \in Nat  BY StackFacts DEF IInv, Frames
  <2>4. stack # <<>>  BY <2>1, <2>2, <2>3
  <2> QED  BY <2>1, <2>2, <2>3, <2>4
<1>2. Frames(Popped, type_lookup) /\ Len(Popped) = Len(stack) - 1  BY <1>1, FramesPop DEF IInv
<1>3. FrameOK(Top) /\ OwnType(Top, type_lookup) /\ Top = stack[Len(stack)] /\ Len(stack) \in DOMAIN stack
  BY <1>1, TopFacts
<1>4. ASSUME UNCHANGED <<dwarf, unit, pos, status, type_lookup, types>>, stack' = Popped PROVE IInv'
  <2>1. Tables'  BY <1>4, TablesKept DEF IInv
  <2> QED  BY <2>1, <1>1, <1>2, <1>4, PopKeeps
<1>5. CASE EndFunction  BY <1>5, <1>4 DEF EndFunction
<1>6. CASE EndScope  BY <1>6, <1>4 DEF EndScope
<1>7. CASE EndTypeWithoutDiscr
  <2>1. UNCHANGED <<dwarf, unit, pos, stack, type_lookup, types>> /\ status' = "panicked"
    BY <1>7 DEF EndTypeWithoutDiscr, Panic
  <2> QED  BY <2>1, StandStill
<1>8. CASE EndType
  <2>1. Top.ty \in DOMAIN type_lookup /\ TypeOf(Top).kind \in KindsFor(TagOf(type_lookup[Top.ty]))
    BY <1>3, <1>8 DEF OwnType, EndType, Ending, TypeOf, KindsFor, Indirections
  <2>2. types' = [types EXCEPT ![Top.ty] = TypeOf(Top)] /\ UNCHANGED <<dwarf, unit, pos, status, type_lookup>>
        /\ stack' = Popped
    BY <1>8 DEF EndType
  <2>3. Fitting(types', type_lookup) /\ DOMAIN types' = DOMAIN types
    BY <2>1, <2>2 DEF IInv, Tables, Fitting
  <2>4. \A k : TagOf(k)' = TagOf(k)  BY <2>2 DEF TagOf, Es
  <2>5. Tables'  BY <2>2, <2>3, <2>4 DEF IInv, Tables, Table, Injective, Fitting
  <2> QED  BY <2>2, <2>5, <1>1, <1>2, PopKeeps
<1>9. ASSUME NEW below, Top.kind \in {"EnumVariants", "EnumVariant"}, below.kind = Popped[Len(Popped)].kind,
             DOMAIN below = DOMAIN Popped[Len(Popped)],
             below.kind = "InType" => below.ty = Popped[Len(Popped)].ty /\ below.is_union = Popped[Len(Popped)].is_union,
             stack' = Replaced(Popped, Len(Popped), below),
             UNCHANGED <<dwarf, unit, pos, status, type_lookup, types>>
      PROVE  IInv'
  <2>1. Len(Popped) \in DOMAIN Popped
    <3>1. Len(stack) # 1  BY <1>3, <1>9 DEF IInv, Frames, Nesting, MayBeAbove, FrameFields
    <3> QED  BY <3>1, <1>1, <1>2, StackFacts DEF Frames
  <2>2. FrameOK(below) /\ OwnType(below, type_lookup)  BY <2>1, <1>2, <1>9 DEF Frames, FrameOK, OwnType
  <2>3. Frames(stack', type_lookup) /\ Len(stack') = Len(Popped)  BY <2>1, <2>2, <1>2, <1>9, FramesReplace
  <2>4. Tables'  BY <1>9, TablesKept DEF IInv
  <2> QED  BY <2>3, <2>4, <1>1, <1>2, <1>9, PopKeeps
<1>10. Top.kind \in {"EnumVariants", "EnumVariant"} =>
          Popped[Len(Popped)].kind \in MayBeAbove(Top.kind) /\ FrameOK(Popped[Len(Popped)])
  <2>1. Len(stack) # 1 => Popped[Len(Popped)] = stack[Len(stack) - 1] /\ Len(stack) - 1 \in DOMAIN stack
    BY <1>1, <1>2, PopFacts, StackFacts DEF IInv, Frames
  <2>2. Top.kind \in {"EnumVariants", "EnumVariant"} => Len(stack) # 1
    BY <1>3 DEF IInv, Frames, Nesting, MayBeAbove, FrameFields
  <2> QED  BY <2>1, <2>2, <1>3 DEF IInv, Frames, Nesting
<1>11. CASE EndVariants
  <2> DEFINE old == Popped[Len(Popped)]
             new == [old EXCEPT !.enum_data = [discr |-> Top.discr, variants |-> Top.variants, top_fields |-> Top.top_fields]]
  <2>1. old.kind = "InType" /\ DOMAIN old = FrameFields["InType"]
    BY <1>10, <1>11 DEF EndVariants, Ending, MayBeAbove, FrameOK
  <2>2. new.kind = old.kind /\ DOMAIN new = DOMAIN old /\ new.ty = old.ty /\ new.is_union = old.is_union
    BY <2>1 DEF FrameFields
  <2>3. stack' = Replaced(Popped, Len(Popped), new)
        /\ UNCHANGED <<dwarf, unit, pos, status, type_lookup, types>> /\ Top.kind = "EnumVariants"
    BY <1>11 DEF EndVariants, Ending, Replaced
  <2> HIDE DEF new
  <2> QED  BY <2>2, <2>3, <1>9
<1>12. CASE EndVariant
  <2> DEFINE old == Popped[Len(Popped)]
             new == [old EXCEPT !.variants = Append(@, [of |-> Top.of, fields |-> Top.fields])]
  <2>1. old.kind = "EnumVariants" /\ DOMAIN old = FrameFields["EnumVariants"]
    BY <1>10, <1>12 DEF EndVariant, Ending, MayBeAbove, FrameOK
  <2>2. new.kind = old.kind /\ DOMAIN new = DOMAIN old /\ new.kind # "InType"
    BY <2>1 DEF FrameFields
  <2>3. stack' = Replaced(Popped, Len(Popped), new)
        /\ UNCHANGED <<dwarf, unit, pos, status, type_lookup, types>> /\ Top.kind = "EnumVariant"
    BY <1>12 DEF EndVariant, Ending, Replaced
  <2> HIDE DEF new
  <2> QED  BY <2>2, <2>3, <1>9
<1> QED  BY <1>5, <1>6, <1>7, <1>8, <1>11, <1>12 DEF End

-----------------------------------------------------------------------------
(* Entries of any scope.                                                    *)
LEMMA OwnRefGrows ==
    ASSUME Fresh, Here.ty \in Nat
    PROVE  LET L == WithRef(type_lookup, pos)  M == WithTarget(L)
           IN  /\ Table(L) /\ Extends(L, type_lookup) /\ (\E r \in DOMAIN L : L[r] = <<unit, pos>>)
               /\ Table(M) /\ Extends(M, type_lookup) /\ (\E r \in DOMAIN M : M[r] = <<unit, pos>>)
<1> DEFINE L == WithRef(type_lookup, pos)
           M == WithTarget(L)
<1>1. unit \in Nat /\ pos \in Nat /\ Table(type_lookup)  BY EntryFacts DEF Fresh, IInv, Tables
<1>2. Table(L) /\ Extends(L, type_lookup) /\ \E r \in DOMAIN L : L[r] = <<unit, pos>>
  BY <1>1, WithRefGrows
<1> HIDE DEF L
<1>3. Table(M) /\ Extends(M, L)  BY <1>2, WithTargetGrows DEF Fresh, IInv
<1> HIDE DEF M
<1>4. Extends(M, type_lookup) /\ \E r \in DOMAIN M : M[r] = <<unit, pos>>
  BY <1>2, <1>3, ExtendsTrans DEF Extends
<1> QED  BY <1>2, <1>3, <1>4 DEF L, M

LEMMA AnyScopeKeeps == ASSUME IInv, AnyScope PROVE IInv'
<1>1. At(Tags)
  BY DEF AnyScope, DW_TAG_namespace, DW_TAG_subprogram, DW_TAG_base_type, DW_TAG_enumeration_type,
         Indirection, DW_TAG_array_type, Composite, At, Tags, Types, Indirections, Composites
<1>2. Fresh /\ Here.ty \in Nat  BY <1>1, AtFacts
<1> DEFINE L == WithRef(type_lookup, pos)
           M == WithTarget(L)
<1>3. /\ Table(L) /\ Extends(L, type_lookup) /\ (\E r \in DOMAIN L : L[r] = <<unit, pos>>)
      /\ Table(M) /\ Extends(M, type_lookup) /\ (\E r \in DOMAIN M : M[r] = <<unit, pos>>)
  BY <1>2, OwnRefGrows
<1>4. Tables  BY <1>2 DEF Fresh, IInv
<1>5. CASE DW_TAG_namespace
  <2> DEFINE f == [kind |-> "Namespace", name |-> ScopedName("ns")]
  <2>1. FrameOK(f) /\ OwnType(f, type_lookup') /\ MayBeAbove(f.kind) = DOMAIN FrameFields
    BY DEF FrameOK, FrameFields, OwnType, MayBeAbove
  <2>2. stack' = Append(stack, f) /\ Advance /\ UNCHANGED <<type_lookup, types>>  BY <1>5 DEF DW_TAG_namespace
  <2> QED  BY <2>1, <2>2, <1>2, TypeRefKept, PushStep DEF Advance
<1>6. CASE DW_TAG_subprogram
  <2> DEFINE f == [kind |-> "InFunction", name |-> ScopedName("fn"),
                   fr |-> [pc_range |-> PcRange(dwarf[unit].load_base, Here.pc),
                           frame_base |-> FrameBase(Here, pos), variables |-> <<>>]]
  <2>1. FrameOK(f) /\ OwnType(f, type_lookup') /\ MayBeAbove(f.kind) = DOMAIN FrameFields
    BY DEF FrameOK, FrameFields, OwnType, MayBeAbove
  <2>2. CASE Here.frame_base = "other"
    <3>1. Panic  BY <1>6, <2>2 DEF DW_TAG_subprogram
    <3> QED  BY <1>2, <3>1, StandStill DEF Panic, Fresh
  <2>3. CASE Here.frame_base # "other"
    <3>1. stack' = Append(stack, f) /\ Advance /\ UNCHANGED <<type_lookup, types>>  BY <1>6, <2>3 DEF DW_TAG_subprogram
    <3> QED  BY <2>1, <3>1, <1>2, TypeRefKept, PushStep DEF Advance
  <2> QED  BY <2>2, <2>3
<1> HIDE DEF L, M
<1>7. ASSUME NEW v, v.kind \in KindsFor(Here.tag), Define(L, v) \/ Define(M, v), Advance, stack' = stack PROVE IInv'
  <2>1. CASE Define(L, v)
    <3>1. Tables' /\ type_lookup' = L  BY <2>1, <1>3, <1>4, <1>7, DefineKeeps DEF Advance
    <3> QED  BY <3>1, <1>2, <1>3, <1>7, KeepStep
  <2>2. CASE Define(M, v)
    <3>1. Tables' /\ type_lookup' = M  BY <2>2, <1>3, <1>4, <1>7, DefineKeeps DEF Advance
    <3> QED  BY <3>1, <1>2, <1>3, <1>7, KeepStep
  <2> QED  BY <2>1, <2>2, <1>7
<1>8. CASE DW_TAG_base_type
  <2> DEFINE v == [kind |-> "Primitive", name |-> ScopedName("prim")]
  <2>1. Define(L, v) /\ Advance /\ stack' = stack /\ Here.tag = "base_type"  BY <1>8 DEF DW_TAG_base_type, At, L
  <2>2. v.kind \in KindsFor(Here.tag)  BY <2>1 DEF KindsFor, Indirections
  <2> QED  BY <2>1, <2>2, <1>7
<1>9. CASE DW_TAG_enumeration_type
  <2> DEFINE v == [kind |-> "Enum", name |-> ScopedName("enum")]
  <2>1. Define(L, v) /\ Advance /\ stack' = stack /\ Here.tag = "enumeration_type"
    BY <1>9 DEF DW_TAG_enumeration_type, At, L
  <2>2. v.kind \in KindsFor(Here.tag)  BY <2>1 DEF KindsFor, Indirections
  <2> QED  BY <2>1, <2>2, <1>7
<1>10. CASE Indirection
  <2> DEFINE v == [kind |-> KindOf[Here.tag], to |-> Ref(M, Here.ty)]
             g == [Top EXCEPT !.sub_types = [n \in DOMAIN @ \cup {Here.name} |->
                                     IF n = Here.name THEN Ref(M, pos) ELSE @[n]]]
  <2>1. /\ Here.tag \in Indirections /\ Advance /\ (IF Here.ty = 0 THEN Refer(M) ELSE Define(M, v))
        /\ stack' = IF Here.tag = "typedef" /\ Top.kind = "InType" /\ Here.name # NoName THEN Below(g) ELSE stack
    BY <1>10 DEF Indirection, At, L, M
  <2>2. v.kind \in KindsFor(Here.tag)  BY <2>1 DEF KindsFor, Indirections
  <2>3. Tables' /\ type_lookup' = M
    BY <2>1, <2>2, <1>3, <1>4, ReferKeeps, DefineKeeps DEF Advance
  <2>4. CASE stack' = stack  BY <2>1, <2>3, <2>4, <1>2, <1>3, KeepStep
  <2>5. CASE Top.kind = "InType" /\ stack' = Below(g)
    <3>1. stack # <<>>  BY <2>5 DEF Top, Root
    <3>2. FrameOK(Top) /\ OwnType(Top, type_lookup) /\ Top = stack[Len(stack)] /\ Len(stack) \in DOMAIN stack
      BY <3>1, <1>2, TopFacts DEF Fresh
    <3>3. g.kind = "InType" /\ DOMAIN g = DOMAIN Top /\ g.ty = Top.ty /\ g.is_union = Top.is_union
      BY <2>5, <3>2 DEF FrameOK, FrameFields
    <3>4. stack' = Replaced(stack, Len(stack), g)  BY <2>5 DEF Below, Replaced
    <3> HIDE DEF g
    <3>5. FrameOK(g) /\ OwnType(g, type_lookup')
      BY <2>3, <2>5, <3>2, <3>3, <1>3 DEF FrameOK, OwnType, Extends
    <3> QED  BY <2>1, <2>3, <2>5, <3>2, <3>3, <3>4, <3>5, <1>2, <1>3, ReplaceStep
  <2> QED  BY <2>1, <2>4, <2>5
<1>11. ASSUME Panic PROVE IInv'  BY <1>2, <1>11, StandStill DEF Panic, Fresh
<1>12. CASE DW_TAG_array_type
  <2> DEFINE v == [kind |-> "Array", to |-> Ref(M, Here.ty)]
  <2>1. Here.tag = "array_type" /\ (Panic \/ (Define(M, v) /\ Advance /\ stack' = stack))
    BY <1>12 DEF DW_TAG_array_type, At, L, M
  <2>2. v.kind \in KindsFor(Here.tag)  BY <2>1 DEF KindsFor, Indirections
  <2> QED  BY <2>1, <2>2, <1>7, <1>11
<1>13. CASE Composite
  <2> DEFINE f == [kind |-> "InType", ty |-> Ref(L, pos),
                   name |-> ScopedName(IF Here.tag = "union_type" THEN "union" ELSE "struct"),
                   is_union |-> Here.tag = "union_type", fields |-> <<>>, parents |-> <<>>,
                   sub_types |-> <<>>, enum_data |-> None]
  <2>1. /\ Here.tag \in Composites
        /\ Panic \/ (Refer(L) /\ Advance /\ stack' = Append(stack, f))
    BY <1>13 DEF Composite, At, L
  <2>2. CASE Refer(L) /\ Advance /\ stack' = Append(stack, f)
    <3>1. Tables' /\ type_lookup' = L  BY <2>2, <1>3, <1>4, ReferKeeps DEF Advance
    <3>2. FrameOK(f) /\ MayBeAbove(f.kind) = DOMAIN FrameFields  BY DEF FrameOK, FrameFields, MayBeAbove
    <3>3. f.ty \in DOMAIN L /\ L[f.ty] = <<unit, pos>>  BY <1>3, RefFound
    <3>4. TagOf(<<unit, pos>>) = Here.tag  BY DEF TagOf, Es, Here, Entries
    <3>5. OwnType(f, type_lookup')  BY <2>1, <3>1, <3>3, <3>4 DEF OwnType, Composites
    <3> HIDE DEF f
    <3> QED  BY <2>2, <3>1, <3>2, <3>5, <1>2, <1>3, PushStep
  <2> QED  BY <2>1, <2>2, <1>11
<1> QED  BY <1>5, <1>6, <1>8, <1>9, <1>10, <1>12, <1>13 DEF AnyScope

-----------------------------------------------------------------------------
(* Entries of the scope on top.                                             *)
LEMMA ReferStep ==
    ASSUME Fresh, Refer(WithTarget(type_lookup)), Advance
    PROVE  Tables' /\ Extends(type_lookup', type_lookup)
<1>1. Table(WithTarget(type_lookup)) /\ Extends(WithTarget(type_lookup), type_lookup)
  BY WithTargetGrows DEF Fresh, IInv, Tables
<1> QED  BY <1>1, ReferKeeps DEF Fresh, IInv, Advance

LEMMA TopStep ==
    ASSUME Fresh, stack # <<>>, NEW f, stack' = Below(f), f.kind = Top.kind, DOMAIN f = DOMAIN Top,
           f.kind = "InType" => f.ty = Top.ty /\ f.is_union = Top.is_union,
           Advance, Tables', Extends(type_lookup', type_lookup)
    PROVE  IInv'
<1>1. /\ FrameOK(Top) /\ OwnType(Top, type_lookup) /\ Top = stack[Len(stack)] /\ Len(stack) \in DOMAIN stack
  BY TopFacts DEF Fresh
<1>2. stack' = Replaced(stack, Len(stack), f)  BY DEF Below, Replaced
<1>3. FrameOK(f) /\ OwnType(f, type_lookup')  BY <1>1 DEF FrameOK, OwnType, Extends
<1> QED  BY <1>1, <1>2, <1>3, ReplaceStep

LEMMA OwnScopeKeeps == ASSUME IInv, OwnScope PROVE IInv'
<1>1. At(Tags)
  BY DEF OwnScope, DW_TAG_compile_unit, DW_TAG_lexical_block, DW_TAG_variable, DW_TAG_inheritance,
         DW_TAG_member, DW_TAG_variant_part, DW_TAG_variant, IgnoreEntry, UnexpectedEntry, Inner, At, Tags
<1>2. Fresh  BY <1>1, AtFacts
<1>3. ASSUME Top.kind # "Root" PROVE stack # <<>> /\ FrameOK(Top)
  <2>1. stack # <<>>  BY <1>3 DEF Top, Root
  <2> QED  BY <2>1, <1>2, TopFacts DEF Fresh
<1>4. ASSUME Panic PROVE IInv'  BY <1>2, <1>4, StandStill DEF Panic, Fresh
<1>5. ASSUME Advance, UNCHANGED <<stack, type_lookup, types>> PROVE IInv'
  BY <1>2, <1>5, TypeRefKept, KeepStep DEF Advance
<1>6. ASSUME Advance, Refer(WithTarget(type_lookup)), stack' = stack PROVE IInv'
  BY <1>2, <1>6, ReferStep, KeepStep
<1>7. ASSUME Advance, UNCHANGED <<type_lookup, types>>, NEW f, stack' = Append(stack, f), FrameOK(f),
             f.kind # "InType",
             MayBeAbove(f.kind) = DOMAIN FrameFields \/ (stack # <<>> /\ Top.kind \in MayBeAbove(f.kind))
      PROVE  IInv'
  <2>1. OwnType(f, type_lookup')  BY <1>7 DEF OwnType
  <2>2. Tables' /\ Extends(type_lookup', type_lookup)  BY <1>2, <1>7, TypeRefKept DEF Advance
  <2> QED  BY <2>1, <2>2, <1>2, <1>7, PushStep
<1>8. CASE DW_TAG_compile_unit
  <2>1. FrameOK(Root) /\ MayBeAbove(Root.kind) = DOMAIN FrameFields /\ Root.kind # "InType"
    BY DEF FrameOK, FrameFields, MayBeAbove, Root
  <2> QED  BY <2>1, <1>7, <1>8 DEF DW_TAG_compile_unit
<1>9. CASE DW_TAG_lexical_block
  <2> DEFINE f == [kind |-> "FcnScope", pc_range |-> PcRange(dwarf[unit].load_base, Here.pc)]
  <2>1. FrameOK(f) /\ f.kind # "InType" /\ MayBeAbove(f.kind) = {"InFunction", "FcnScope"}
    BY DEF FrameOK, FrameFields, MayBeAbove
  <2>2. /\ Top.kind \in {"InFunction", "FcnScope"} /\ Advance /\ UNCHANGED <<type_lookup, types>>
        /\ stack' = Append(stack, f)
    BY <1>9 DEF DW_TAG_lexical_block
  <2> QED  BY <2>1, <2>2, <1>3, <1>7
<1>10. CASE DW_TAG_variant_part
  <2> DEFINE f == [kind |-> "EnumVariants", discr |-> Here.discr, variants |-> <<>>, top_fields |-> <<>>]
  <2>1. FrameOK(f) /\ f.kind # "InType" /\ MayBeAbove(f.kind) = {"InType"}
    BY DEF FrameOK, FrameFields, MayBeAbove
  <2>2. Top.kind = "InType" /\ Advance /\ UNCHANGED <<type_lookup, types>> /\ stack' = Append(stack, f)
    BY <1>10 DEF DW_TAG_variant_part
  <2> QED  BY <2>1, <2>2, <1>3, <1>7
<1>11. CASE DW_TAG_variant
  <2> DEFINE f == [kind |-> "EnumVariant", of |-> pos, fields |-> <<>>]
  <2>1. FrameOK(f) /\ f.kind # "InType" /\ MayBeAbove(f.kind) = {"EnumVariants"}
    BY DEF FrameOK, FrameFields, MayBeAbove
  <2>2. Top.kind = "EnumVariants" /\ Advance /\ UNCHANGED <<type_lookup, types>> /\ stack' = Append(stack, f)
    BY <1>11 DEF DW_TAG_variant
  <2> QED  BY <2>1, <2>2, <1>3, <1>7
<1>12. CASE DW_TAG_variable
  <2> DEFINE M == WithTarget(type_lookup)
             c == CurrentFunction
             f == [stack[c] EXCEPT !.fr.variables =
                     WithVariable(@, Here.name, Ref(M, Here.ty), [pc_range |-> ScopeRange, position |-> pos])]
  <2>1. /\ Top.kind \in {"InFunction", "FcnScope"}
        /\ \/ Panic \/ (Refer(M) /\ Advance /\ stack' = stack)
           \/ Refer(M) /\ Advance /\ stack' = Replaced(stack, c, f)
    BY <1>12 DEF DW_TAG_variable, Replaced
  <2>2. CASE Refer(M) /\ Advance /\ stack' = Replaced(stack, c, f)
    <3>1. CASE c \in DOMAIN stack
      <4>1. FrameOK(stack[c]) /\ OwnType(stack[c], type_lookup)  BY <3>1, <1>2 DEF Fresh, IInv, Frames
      <4>2. FrameOK(f) /\ f.kind = stack[c].kind /\ (f.kind = "InType" => f.ty = stack[c].ty /\ f.is_union = stack[c].is_union)
        BY <4>1 DEF FrameOK, FrameFields
      <4> HIDE DEF f, c
      <4>3. Tables' /\ Extends(type_lookup', type_lookup)  BY <2>2, <1>2, ReferStep
      <4>4. OwnType(f, type_lookup')  BY <4>1, <4>2, <4>3 DEF OwnType, Extends
      <4> QED  BY <3>1, <4>2, <4>3, <4>4, <2>2, <1>2, ReplaceStep
    <3>2. CASE c \notin DOMAIN stack
      <4>1. \E S : stack \in Seq(S)  BY <1>2 DEF Fresh, IInv, Frames, Stack
      <4> HIDE DEF f, c
      <4>2. Replaced(stack, c, f) = stack  BY <3>2, <4>1 DEF Replaced
      <4> QED  BY <4>2, <2>2, <1>6
    <3> QED  BY <3>1, <3>2
  <2> QED  BY <2>1, <2>2, <1>4, <1>6
<1>13. CASE DW_TAG_inheritance
  <2> DEFINE M == WithTarget(type_lookup)
             f == [Top EXCEPT !.parents = Append(@, <<pos, Ref(M, Here.ty)>>)]
  <2>1. Top.kind = "InType" /\ (Panic \/ (Refer(M) /\ Advance /\ (stack' = stack \/ stack' = Below(f))))
    BY <1>13 DEF DW_TAG_inheritance
  <2>2. stack # <<>> /\ f.kind = Top.kind /\ DOMAIN f = DOMAIN Top /\ f.ty = Top.ty /\ f.is_union = Top.is_union
    BY <2>1, <1>3 DEF FrameOK, FrameFields
  <2> HIDE DEF f
  <2>3. CASE Refer(M) /\ Advance /\ stack' = Below(f)  BY <2>2, <2>3, <1>2, ReferStep, TopStep
  <2> QED  BY <2>1, <2>3, <1>4, <1>6
<1>14. CASE DW_TAG_member
  <2> DEFINE M == WithTarget(type_lookup)
             g == [Top EXCEPT !.top_fields = Append(@, pos)]
             h == [Top EXCEPT !.fields = Append(@, pos)]
             f == IF Top.kind = "EnumVariants" THEN g ELSE h
  <2>0. ASSUME stack' = IF Top.kind = "EnumVariants" THEN Below(g) ELSE Below(h) PROVE stack' = Below(f)
    <3> HIDE DEF g, h
    <3> QED  BY <2>0
  <2>1. /\ Top.kind \in {"InType", "EnumVariants", "EnumVariant"}
        /\ \/ Panic
           \/ Advance /\ UNCHANGED <<stack, type_lookup, types>>
           \/ Refer(M) /\ Advance /\ stack' = Below(f)
    BY <1>14, <2>0 DEF DW_TAG_member, InTypes
  <2>2. stack # <<>> /\ f.kind = Top.kind /\ DOMAIN f = DOMAIN Top
        /\ (f.kind = "InType" => f.ty = Top.ty /\ f.is_union = Top.is_union)
    BY <2>1, <1>3 DEF FrameOK, FrameFields
  <2> HIDE DEF f
  <2>3. CASE Refer(M) /\ Advance /\ stack' = Below(f)  BY <2>2, <2>3, <1>2, ReferStep, TopStep
  <2> QED  BY <2>1, <2>3, <1>4, <1>5
<1>15. CASE IgnoreEntry  BY <1>15, <1>5 DEF IgnoreEntry
<1>16. CASE UnexpectedEntry  BY <1>16, <1>4 DEF UnexpectedEntry
<1> QED  BY <1>8, <1>9, <1>10, <1>11, <1>12, <1>13, <1>14, <1>15, <1>16 DEF OwnScope

-----------------------------------------------------------------------------
LEMMA SkipEntryKeeps == ASSUME IInv, SkipEntry PROVE IInv'
<1>1. pos <= Len(Entries) /\ Len(stack) < Here.depth /\ Advance /\ UNCHANGED <<stack, type_lookup, types>>
  BY DEF SkipEntry, Reading
<1>2. Here.depth \in Nat /\ Len(stack) \in Nat
  BY <1>1, EntryFacts, StackFacts DEF IInv, Frames, Entry
<1>3. Tables' /\ Frames(stack', type_lookup')  BY <1>1, TablesKept DEF IInv, Advance
<1> QED  BY <1>1, <1>2, <1>3, AdvanceKeeps

LEMMA RootFrames == ASSUME NEW L PROVE Frames(<<Root>>, L) /\ Len(<<Root>>) = 1
<1>1. Stack(<<Root>>)  BY <<Root>> \in Seq({Root}) DEF Stack
<1>2. \A k \in DOMAIN <<Root>> : k = 1 /\ <<Root>>[k] = Root  OBVIOUS
<1>3. FrameOK(Root) /\ OwnType(Root, L) /\ MayBeAbove(Root.kind) = DOMAIN FrameFields
  BY DEF FrameOK, FrameFields, OwnType, MayBeAbove, Root
<1>4. Nesting(<<Root>>)  BY <1>2, <1>3 DEF Nesting
<1> QED  BY <1>1, <1>2, <1>3, <1>4 DEF Frames

LEMMA NextUnitKeeps == ASSUME IInv, NextUnit PROVE IInv'
<1>1. CASE unit < Len(dwarf)
  <2>1. /\ unit' = unit + 1 /\ pos' = 1 /\ stack' = <<Root>> /\ status' = status
        /\ UNCHANGED <<dwarf, type_lookup, types>>
    BY <1>1 DEF NextUnit
  <2>2. dwarf \in Seq({dwarf[u] : u \in DOMAIN dwarf})  BY DwarfsAssumption DEF IInv, Place
  <2>3. unit' \in DOMAIN dwarf  BY <2>1, <2>2, <1>1 DEF IInv, Place
  <2>4. IsUnit(dwarf[unit'])  BY <2>3, DwarfsAssumption DEF IInv, Place
  <2>5. Len(Entries') \in Nat  BY <2>1, <2>4 DEF Entries, IsUnit
  <2>6. Place' /\ Deep'  BY <2>1, <2>3, <2>5, RootFrames DEF IInv, Place, Deep
  <2>7. Frames(stack, type_lookup)'  BY <2>1, RootFrames, FramesPrimed
  <2>8. Tables'  BY <2>1, TablesKept DEF IInv
  <2> QED  BY <2>6, <2>7, <2>8 DEF IInv
<1>2. CASE ~(unit < Len(dwarf))
  <2>1. UNCHANGED <<dwarf, unit, pos, stack, type_lookup, types>> /\ status' = "done"
    BY <1>2 DEF NextUnit
  <2> QED  BY <2>1, StandStill
<1> QED  BY <1>1, <1>2

LEMMA InitHolds == ASSUME Init PROVE IInv
<1>1. dwarf \in Seq({dwarf[u] : u \in DOMAIN dwarf}) /\ Len(dwarf) > 0 /\ \A u \in DOMAIN dwarf : IsUnit(dwarf[u])
  BY DwarfsAssumption DEF Init
<1>2. unit \in DOMAIN dwarf  BY <1>1 DEF Init
<1>3. Len(Entries) \in Nat  BY <1>1, <1>2 DEF Entries, IsUnit
<1>4. Place /\ Deep  BY <1>2, <1>3, RootFrames DEF Init, Place, Deep
<1>5. Frames(stack, type_lookup)  BY RootFrames DEF Init
<1>6. Tables
  <2>1. type_lookup = <<>> /\ types = <<>>  BY DEF Init
  <2>2. <<>> \in Seq(Nat \X Nat) /\ DOMAIN <<>> = {}  OBVIOUS
  <2> QED  BY <2>1, <2>2 DEF Tables, Table, Injective, Fitting
<1> QED  BY <1>4, <1>5, <1>6 DEF IInv

LEMMA NextKeeps == ASSUME IInv, [Next]_vars PROVE IInv'
<1>1. CASE UNCHANGED vars  BY <1>1, StandStill DEF vars, IInv, Place
<1>2. CASE Finished  BY <1>2, <1>1 DEF Finished
<1> QED  BY <1>1, <1>2, EndKeeps, SkipEntryKeeps, AnyScopeKeeps, OwnScopeKeeps, NextUnitKeeps DEF Next

LEMMA Invariant == Spec => []IInv
<1>1. Init => IInv  BY InitHolds
<1>2. IInv /\ [Next]_vars => IInv'  BY NextKeeps
<1> QED  BY <1>1, <1>2, PTL DEF Spec

\* Whatever the debug information, the stack never holds more than the path to
\* the last entry, and its frames are above those they belong to.
THEOREM ParserTypeOK == Spec => []TypeOK
<1>1. IInv => TypeOK  BY InvariantImplies
<1> QED  BY <1>1, Invariant, PTL

\* Whatever the debug information, dwarf_type_ref gives each entry a TypeRef of
\* its own, and what types holds for it was read from that entry.
THEOREM ParserTypesAreTheirs == Spec => []TypesAreTheirs
<1>1. IInv => TypesAreTheirs  BY InvariantImplies
<1> QED  BY <1>1, Invariant, PTL

-----------------------------------------------------------------------------
(* Least and greatest numbers, and induction for a set.                     *)
LEMMA Least == ASSUME NEW T \in SUBSET Nat, T # {} PROVE \E n \in T : \A m \in T : n <= m
<1>1. PICK n \in T : \A m \in T : <<m, n>> \notin OpToRel(<, Nat)
  BY WFMin, NatLessThanWellFounded, Zenon
<1>2. ASSUME NEW m \in T PROVE ~ (m < n)
  <2>1. n \in Nat /\ m \in Nat  OBVIOUS
  <2>2. <<m, n>> \notin OpToRel(<, Nat)  BY <1>1
  <2> QED  BY <2>1, <2>2, Zenon DEF OpToRel
<1>3. \A m \in T : ~ (m < n)  BY <1>2, Zenon
<1> QED  BY <1>3

LEMMA Greatest ==
    ASSUME NEW T \in SUBSET Nat, T # {}, NEW N \in Nat, \A n \in T : n <= N
    PROVE  Max(T) \in T /\ \A m \in T : m <= Max(T)
<1>0. \A n \in T : N - n \in Nat  OBVIOUS
<1>1. {N - n : n \in T} \in SUBSET Nat /\ {N - n : n \in T} # {}  BY <1>0
<1>2. PICK d \in {N - n : n \in T} : \A e \in {N - n : n \in T} : d <= e  BY <1>1, Least
<1>3. PICK n \in T : d = N - n  BY <1>2
<1>4. \A m \in T : N - n <= N - m  BY <1>2, <1>3
<1>5. \A m \in T : n >= m  BY <1>3, <1>4
<1> QED  BY <1>5 DEF Max

LEMMA MaxIs == ASSUME NEW T \in SUBSET Nat, NEW n \in T, \A m \in T : m <= n PROVE Max(T) = n
<1>1. Max(T) \in T /\ \A m \in T : Max(T) >= m
  <2>1. \A m \in T : n >= m  OBVIOUS
  <2> QED  BY <2>1 DEF Max
<1>2. Max(T) \in Nat /\ Max(T) >= n /\ n >= Max(T)  BY <1>1
<1> QED  BY <1>2

LEMMA Induction ==
    ASSUME NEW S, 0 \in S, \A n \in Nat : n \in S => n + 1 \in S PROVE Nat \subseteq S
<1> SUFFICES ASSUME Nat \ S # {} PROVE FALSE  OBVIOUS
<1>1. PICK n \in Nat \ S : \A m \in Nat \ S : n <= m  BY Least
<1>2. n # 0 /\ n - 1 \in Nat /\ n - 1 \notin Nat \ S  BY <1>1
<1>3. (n - 1) + 1 \in S  BY <1>2
<1> QED  BY <1>3

-----------------------------------------------------------------------------
(* Sets of positions in the order of the file.                              *)
FilePositions(S) == S \in SUBSET Nat /\ IsFiniteSet(S)
Rank(S, j) == Cardinality({i \in S : i <= j})

LEMMA OrderSize ==
    ASSUME NEW S, FilePositions(S)
    PROVE  /\ Cardinality(S) \in Nat /\ DOMAIN InFileOrder(S) = 1..Cardinality(S)
           /\ \A k \in 1..Cardinality(S) : InFileOrder(S)[k] = CHOOSE j \in S : Rank(S, j) = k
BY FS_CardinalityType DEF FilePositions, InFileOrder, Rank

LEMMA OrderIsList == ASSUME NEW S PROVE InFileOrder(S) = [k \in 1..Cardinality(S) |-> InFileOrder(S)[k]]
<1> DEFINE at(k) == CHOOSE j \in S : Cardinality({i \in S : i <= j}) = k
<1>1. InFileOrder(S) = [k \in 1..Cardinality(S) |-> at(k)]  BY DEF InFileOrder
<1> HIDE DEF at
<1> QED  BY <1>1

LEMMA OrderEmpty == InFileOrder({}) = <<>>
<1>1. Cardinality({}) = 0  BY FS_EmptySet
<1>2. InFileOrder({}) = [k \in 1..0 |-> CHOOSE j \in {} : Cardinality({i \in {} : i <= j}) = k]  BY <1>1 DEF InFileOrder
<1> QED  BY <1>2

\* One more position, after all of those there are.
LEMMA OrderGrows ==
    ASSUME NEW S, FilePositions(S), NEW n \in Nat, \A j \in S : j < n
    PROVE  /\ FilePositions(S \cup {n}) /\ Cardinality(S \cup {n}) = Cardinality(S) + 1
           /\ InFileOrder(S \cup {n})[Cardinality(S) + 1] = n
           /\ \A k \in 1..Cardinality(S) : InFileOrder(S \cup {n})[k] = InFileOrder(S)[k]
<1> DEFINE T == S \cup {n}  c == Cardinality(S)
<1>1. S \in SUBSET Nat /\ IsFiniteSet(S) /\ n \notin S /\ \A j \in T : j \in Nat /\ j <= n  BY DEF FilePositions
<1>2. IsFiniteSet(T) /\ Cardinality(T) = c + 1  BY <1>1, FS_AddElement
<1>3. c \in Nat  BY <1>1, FS_CardinalityType
<1>4. \A j \in S : {i \in T : i <= j} = {i \in S : i <= j}  BY <1>1
<1>5. \A j \in S : Rank(T, j) = Rank(S, j)  BY <1>4 DEF Rank
<1>6. Rank(T, n) = c + 1
  <2>1. \A i \in T : i <= n  BY <1>1
  <2>2. {i \in T : i <= n} = T  BY <2>1, Zenon
  <2> QED  BY <2>2, <1>2 DEF Rank
<1>7. \A j \in S : Rank(S, j) \in 0..c
  <2> TAKE j \in S
  <2>1. {i \in S : i <= j} \in SUBSET S  OBVIOUS
  <2>2. IsFiniteSet({i \in S : i <= j}) /\ Rank(S, j) <= c  BY <2>1, <1>1, FS_Subset DEF Rank
  <2>3. Rank(S, j) \in Nat  BY <2>2, FS_CardinalityType DEF Rank
  <2> QED  BY <2>2, <2>3, <1>3
<1>8. FilePositions(T)  BY <1>1, <1>2 DEF FilePositions
<1>9. InFileOrder(T)[c + 1] = n
  <2>1. InFileOrder(T)[c + 1] = CHOOSE j \in T : Rank(T, j) = c + 1  BY <1>2, <1>3, <1>8, OrderSize
  <2>2. \A j \in T : Rank(T, j) = c + 1 <=> j = n
    <3>1. \A j \in S : Rank(T, j) # c + 1  BY <1>3, <1>5, <1>7
    <3> QED  BY <3>1, <1>1, <1>6
  <2> QED  BY <2>1, <2>2
<1>10. ASSUME NEW k \in 1..c PROVE InFileOrder(T)[k] = InFileOrder(S)[k]
  <2>1. InFileOrder(T)[k] = CHOOSE j \in T : Rank(T, j) = k  BY <1>2, <1>3, <1>8, OrderSize
  <2>2. InFileOrder(S)[k] = CHOOSE j \in S : Rank(S, j) = k  BY OrderSize
  <2>3. \A j : (j \in T /\ Rank(T, j) = k) <=> (j \in S /\ Rank(S, j) = k)  BY <1>3, <1>5, <1>6
  <2> HIDE DEF T
  <2>4. (CHOOSE j \in T : Rank(T, j) = k) = (CHOOSE j \in S : Rank(S, j) = k)  BY <2>3, Zenon
  <2> QED  BY <2>1, <2>2, <2>4, Zenon
<1> QED  BY <1>2, <1>8, <1>9, <1>10

LEMMA OrderTypes ==
    ASSUME NEW S, FilePositions(S), NEW N \in Nat, \A j \in S : j < N
    PROVE  /\ \A k \in 1..Cardinality(S) : InFileOrder(S)[k] \in S
           /\ \A j \in S : \E k \in 1..Cardinality(S) : InFileOrder(S)[k] = j
<1> DEFINE B(m) == {j \in S : j < m}
           G == {m \in Nat : /\ FilePositions(B(m))
                             /\ \A k \in 1..Cardinality(B(m)) : InFileOrder(B(m))[k] \in B(m)
                             /\ \A j \in B(m) : \E k \in 1..Cardinality(B(m)) : InFileOrder(B(m))[k] = j}
<1>0. S \in SUBSET Nat /\ IsFiniteSet(S) /\ \A j \in S : j \in Nat  BY DEF FilePositions
<1>1. 0 \in G
  <2>1. B(0) = {}
    <3>1. \A j \in S : ~(j < 0)  BY <1>0
    <3> QED  BY <3>1
  <2>2. FilePositions({}) /\ Cardinality({}) = 0  BY FS_EmptySet DEF FilePositions
  <2> QED  BY <2>1, <2>2
<1>2. ASSUME NEW m \in Nat, m \in G PROVE m + 1 \in G
  <2> DEFINE P == B(m)  Q == B(m + 1)
  <2>1. CASE m \notin S
    <3>1. \A j \in S : j < m + 1 <=> j < m  BY <2>1, <1>0
    <3>2. B(m + 1) = B(m)  BY <3>1
    <3> QED  BY <1>2, <3>2
  <2>2. CASE m \in S
    <3>0. \A j \in S : j < m + 1 <=> j < m \/ j = m  BY <2>2, <1>0
    <3>1. Q = P \cup {m} /\ \A j \in P : j < m  BY <2>2, <3>0
    <3>2. /\ FilePositions(P) /\ \A k \in 1..Cardinality(P) : InFileOrder(P)[k] \in P
          /\ \A j \in P : \E k \in 1..Cardinality(P) : InFileOrder(P)[k] = j
      BY <1>2
    <3> HIDE DEF P, Q
    <3>3. /\ FilePositions(Q) /\ Cardinality(Q) = Cardinality(P) + 1 /\ InFileOrder(Q)[Cardinality(P) + 1] = m
          /\ \A k \in 1..Cardinality(P) : InFileOrder(Q)[k] = InFileOrder(P)[k]
      BY <3>1, <3>2, OrderGrows
    <3>4. Cardinality(P) \in Nat  BY <3>2, FS_CardinalityType DEF FilePositions
    <3>5. ASSUME NEW k \in 1..Cardinality(Q) PROVE InFileOrder(Q)[k] \in Q
      <4>1. k \in 1..Cardinality(P) \/ k = Cardinality(P) + 1  BY <3>3, <3>4
      <4> QED  BY <4>1, <3>1, <3>2, <3>3
    <3>6. ASSUME NEW j \in Q PROVE \E k \in 1..Cardinality(Q) : InFileOrder(Q)[k] = j
      <4>1. CASE j = m  BY <4>1, <3>3, <3>4
      <4>2. CASE j \in P
        <5>1. PICK k \in 1..Cardinality(P) : InFileOrder(P)[k] = j  BY <4>2, <3>2
        <5> QED  BY <5>1, <3>3, <3>4
      <4> QED  BY <4>1, <4>2, <3>1
    <3>7. FilePositions(Q) /\ (\A k \in 1..Cardinality(Q) : InFileOrder(Q)[k] \in Q)
          /\ (\A j \in Q : \E k \in 1..Cardinality(Q) : InFileOrder(Q)[k] = j)
      BY <3>3, <3>5, <3>6
    <3> QED  BY <3>7 DEF Q
  <2> QED  BY <2>1, <2>2
<1> HIDE DEF G
<1>3. N \in G  BY <1>1, <1>2, Induction
<1>4. B(N) = S  OBVIOUS
<1> QED  BY <1>3, <1>4 DEF G

-----------------------------------------------------------------------------
(* The tree of entries of a unit.                                           *)
HasUnit(u) == dwarf \in Dwarfs /\ u \in DOMAIN dwarf
Depth(u, i) == Es(u)[i].depth

LEMMA UnitFacts ==
    ASSUME NEW u, HasUnit(u)
    PROVE  /\ Es(u) \in Seq(Entry) /\ Len(Es(u)) \in Nat \ {0} /\ DOMAIN Es(u) = 1..Len(Es(u)) /\ u \in Nat
           /\ \A i \in 1..Len(Es(u)) : Es(u)[i] \in Entry /\ Depth(u, i) \in Nat
           /\ Depth(u, 1) = 0 /\ Es(u)[1].tag = "compile_unit"
           /\ \A i \in 2..Len(Es(u)) : Depth(u, i) >= 1 /\ Depth(u, i) <= Depth(u, i - 1) + 1 /\ Es(u)[i].tag # "compile_unit"
<1>1. dwarf \in Seq({dwarf[v] : v \in DOMAIN dwarf}) /\ IsUnit(dwarf[u])
  BY DwarfsAssumption DEF HasUnit
<1>2. u \in Nat  BY <1>1 DEF HasUnit
<1>3. Es(u) \in Seq(Entry) /\ Len(Es(u)) > 0  BY <1>1 DEF IsUnit, Es
<1>4. \A i \in 1..Len(Es(u)) : Es(u)[i] \in Entry  BY <1>3
<1>5. ASSUME NEW e \in Entry PROVE e.depth \in Nat  BY DEF Entry
<1>6. ASSUME NEW i \in 2..Len(Es(u))
      PROVE  Depth(u, i) >= 1 /\ Depth(u, i) <= Depth(u, i - 1) + 1 /\ Es(u)[i].tag # "compile_unit"
  <2>1. Es(u)[i].depth \in 1..(Es(u)[i - 1].depth + 1) /\ Es(u)[i].tag # "compile_unit"
    BY <1>1 DEF IsUnit, Es
  <2>2. i \in 1..Len(Es(u)) /\ i - 1 \in 1..Len(Es(u))  BY <1>3
  <2>3. Es(u)[i].depth \in Nat /\ Es(u)[i - 1].depth \in Nat  BY <2>2, <1>4, <1>5
  <2> QED  BY <2>1, <2>3 DEF Depth
<1>7. Depth(u, 1) = 0 /\ Es(u)[1].tag = "compile_unit"  BY <1>1 DEF IsUnit, Es, Depth
<1> QED  BY <1>2, <1>3, <1>4, <1>5, <1>6, <1>7 DEF Depth

LEMMA AncestorFacts ==
    ASSUME NEW u, HasUnit(u), NEW i \in 1..Len(Es(u)), NEW a \in Ancestors(u, i)
    PROVE  a \in 1..i - 1 /\ a \in 1..Len(Es(u)) /\ Depth(u, a) < Depth(u, i)
           /\ \A k \in a + 1..i : Depth(u, k) > Depth(u, a)
<1>1. a \in 1..i - 1 /\ \A k \in a + 1..i : Depth(u, k) > Depth(u, a)  BY DEF Ancestors, Depth
<1>2. Len(Es(u)) \in Nat /\ Depth(u, a) \in Nat /\ Depth(u, i) \in Nat  BY <1>1, UnitFacts
<1>3. i \in a + 1..i /\ a \in 1..Len(Es(u))  BY <1>1, <1>2
<1> QED  BY <1>1, <1>2, <1>3

LEMMA AncestorIf ==
    ASSUME NEW u, NEW i, NEW a \in 1..i - 1, \A k \in a + 1..i : Depth(u, k) > Depth(u, a)
    PROVE  a \in Ancestors(u, i)
BY DEF Ancestors, Depth

\* The last entry before `i` that is not deeper than `d` has depth `d`.
LEMMA AncestorAt ==
    ASSUME NEW u, HasUnit(u), NEW i \in 1..Len(Es(u)), NEW d \in Nat, d < Depth(u, i)
    PROVE  \E a \in Ancestors(u, i) : Depth(u, a) = d
<1> DEFINE T == {j \in 1..i - 1 : Depth(u, j) <= d}
           m == Max(T)
<1>1. /\ Len(Es(u)) \in Nat /\ \A j \in 1..Len(Es(u)) : Depth(u, j) \in Nat
      /\ Depth(u, 1) = 0 /\ \A j \in 2..Len(Es(u)) : Depth(u, j) <= Depth(u, j - 1) + 1
  BY UnitFacts
<1>2. i # 1  BY <1>1
<1>3. 1 \in T  BY <1>1, <1>2
<1>4. m \in T /\ \A j \in T : j <= m
  <2>1. T \in SUBSET Nat /\ T # {} /\ i \in Nat /\ \A j \in T : j <= i  BY <1>1, <1>3
  <2> HIDE DEF T
  <2> QED  BY <2>1, Greatest
<1> HIDE DEF m
<1>5. m \in 1..i - 1 /\ Depth(u, m) <= d  BY <1>4
<1>6. \A k \in m + 1..i : k \in 1..Len(Es(u)) /\ Depth(u, k) > d
  <2> TAKE k \in m + 1..i
  <2>1. k \in 1..Len(Es(u))  BY <1>1, <1>5
  <2>2. CASE k = i  BY <2>1, <2>2
  <2>3. CASE k # i
    <3>1. k \in 1..i - 1 /\ ~(k <= m)  BY <2>3, <1>5
    <3>2. k \notin T  BY <3>1, <1>4
    <3> QED  BY <3>1, <3>2, <2>1, <1>1
  <2> QED  BY <2>2, <2>3
<1>7. m + 1 \in m + 1..i /\ m + 1 \in 2..Len(Es(u)) /\ m \in 1..Len(Es(u))  BY <1>1, <1>5
<1>8. Depth(u, m + 1) <= Depth(u, (m + 1) - 1) + 1 /\ (m + 1) - 1 = m  BY <1>1, <1>7
<1>9. Depth(u, m) = d  BY <1>1, <1>5, <1>6, <1>7, <1>8
<1>10. m \in Ancestors(u, i)  BY <1>5, <1>6, <1>9, AncestorIf
<1> QED  BY <1>9, <1>10

LEMMA AncestorsChain ==
    ASSUME NEW u, HasUnit(u), NEW i \in 1..Len(Es(u)), NEW a \in Ancestors(u, i)
    PROVE  Ancestors(u, a) = {b \in Ancestors(u, i) : b < a}
<1>0. /\ Len(Es(u)) \in Nat /\ \A j \in 1..Len(Es(u)) : Depth(u, j) \in Nat  BY UnitFacts
<1>1. a \in 1..i - 1 /\ a \in 1..Len(Es(u)) /\ \A k \in a + 1..i : Depth(u, k) > Depth(u, a)  BY AncestorFacts
<1>2. ASSUME NEW b \in Ancestors(u, a) PROVE b \in Ancestors(u, i) /\ b < a
  <2>1. b \in 1..a - 1 /\ Depth(u, b) < Depth(u, a) /\ \A k \in b + 1..a : Depth(u, k) > Depth(u, b)
    BY <1>1, AncestorFacts
  <2>2. ASSUME NEW k \in b + 1..i PROVE Depth(u, k) > Depth(u, b)
    <3>1. CASE k \in b + 1..a  BY <3>1, <2>1
    <3>2. CASE k \in a + 1..i
      <4>1. k \in 1..Len(Es(u)) /\ b \in 1..Len(Es(u))  BY <3>2, <2>1, <1>0, <1>1
      <4> QED  BY <3>2, <4>1, <1>0, <1>1, <2>1
    <3> QED  BY <3>1, <3>2, <2>1, <1>1
  <2>3. b \in 1..i - 1 /\ b < a  BY <2>1, <1>1
  <2> QED  BY <2>2, <2>3, AncestorIf
<1>3. ASSUME NEW b \in Ancestors(u, i), b < a PROVE b \in Ancestors(u, a)
  <2>1. b \in 1..i - 1 /\ \A k \in b + 1..i : Depth(u, k) > Depth(u, b)  BY AncestorFacts
  <2>2. b \in 1..a - 1 /\ \A k \in b + 1..a : k \in b + 1..i  BY <2>1, <1>1, <1>3
  <2> QED  BY <2>1, <2>2, AncestorIf
<1> QED  BY <1>2, <1>3

LEMMA ParentFacts ==
    ASSUME NEW u, HasUnit(u), NEW i \in 2..Len(Es(u))
    PROVE  /\ ParentOf(u, i) \in Ancestors(u, i) /\ ParentOf(u, i) \in 1..i - 1
           /\ Depth(u, ParentOf(u, i)) = Depth(u, i) - 1
           /\ \A a \in Ancestors(u, i) : a <= ParentOf(u, i)
<1> DEFINE m == ParentOf(u, i)
<1>0. /\ Len(Es(u)) \in Nat /\ \A j \in 1..Len(Es(u)) : Depth(u, j) \in Nat  BY UnitFacts
<1>1. i \in 1..Len(Es(u)) /\ Depth(u, i) >= 1 /\ Depth(u, i) \in Nat  BY UnitFacts
<1>2. PICK a \in Ancestors(u, i) : Depth(u, a) = Depth(u, i) - 1  BY <1>1, AncestorAt
<1>3. m \in Ancestors(u, i) /\ \A b \in Ancestors(u, i) : b <= m
  <2>1. \A b \in Ancestors(u, i) : b \in 1..i - 1  BY DEF Ancestors
  <2>2. Ancestors(u, i) \in SUBSET Nat /\ Ancestors(u, i) # {} /\ i \in Nat /\ \A b \in Ancestors(u, i) : b <= i
    BY <2>1, <1>1, <1>2
  <2> QED  BY <2>2, Greatest DEF ParentOf
<1> HIDE DEF m
<1>4. m = a
  <2>1. m \in 1..i - 1 /\ m \in 1..Len(Es(u)) /\ Depth(u, m) < Depth(u, i)  BY <1>1, <1>3, AncestorFacts
  <2>2. a \in 1..i - 1 /\ \A k \in a + 1..i : Depth(u, k) > Depth(u, a)  BY <1>1, AncestorFacts
  <2>3. m >= a  BY <1>3, <2>1, <2>2
  <2>4. ASSUME m # a PROVE FALSE
    <3>1. m \in a + 1..i  BY <2>1, <2>2, <2>3, <2>4
    <3>2. Depth(u, m) > Depth(u, i) - 1  BY <3>1, <2>2, <1>2
    <3> QED  BY <3>2, <2>1, <1>0, <1>1
  <2> QED  BY <2>4
<1>5. m \in 1..i - 1  BY <1>1, <1>3, AncestorFacts
<1> QED  BY <1>2, <1>3, <1>4, <1>5 DEF m

-----------------------------------------------------------------------------
(* The open scopes: of the entries before `n`, those that none of them has   *)
(* closed and whose frame is among the first `h` of the stack.              *)
Unclosed(u, n, o) == \A m \in o + 1..n - 1 : Depth(u, m) > Depth(u, o)
OpenAt(u, n, h) == {o \in 1..n - 1 : Depth(u, o) < h /\ Unclosed(u, n, o)}

LEMMA OpenFacts ==
    ASSUME NEW u, HasUnit(u), NEW n \in 1..Len(Es(u)) + 1, NEW h, NEW o \in OpenAt(u, n, h)
    PROVE  o \in 1..n - 1 /\ o \in 1..Len(Es(u)) /\ Depth(u, o) \in Nat /\ Depth(u, o) < h /\ Unclosed(u, n, o)
BY UnitFacts DEF OpenAt

LEMMA OpenDepths ==
    ASSUME NEW u, HasUnit(u), NEW n \in 1..Len(Es(u)) + 1, NEW h, NEW o \in OpenAt(u, n, h), NEW q \in OpenAt(u, n, h),
           o < q
    PROVE  o \in Ancestors(u, q) /\ Depth(u, o) < Depth(u, q)
<1>1. /\ o \in 1..n - 1 /\ o \in 1..Len(Es(u)) /\ Unclosed(u, n, o)
      /\ q \in 1..n - 1 /\ q \in 1..Len(Es(u))
  BY OpenFacts
<1>2. \A k \in o + 1..q : Depth(u, k) > Depth(u, o)  BY <1>1 DEF Unclosed
<1>3. o \in 1..q - 1  BY <1>1
<1> QED  BY <1>1, <1>2, <1>3, AncestorIf, AncestorFacts

LEMMA OneOpen ==
    ASSUME NEW u, HasUnit(u), NEW n \in 1..Len(Es(u)) + 1, NEW h, NEW o \in OpenAt(u, n, h), NEW q \in OpenAt(u, n, h),
           Depth(u, o) = Depth(u, q)
    PROVE  o = q
<1>1. o \in 1..n - 1 /\ q \in 1..n - 1 /\ Depth(u, o) \in Nat  BY OpenFacts
<1>2. ~(o < q) /\ ~(q < o)  BY <1>1, OpenDepths
<1> QED  BY <1>1, <1>2

LEMMA OpenKept ==
    ASSUME NEW u, HasUnit(u), NEW n \in 1..Len(Es(u)), NEW h \in Nat, h <= Depth(u, n)
    PROVE  OpenAt(u, n + 1, h) = OpenAt(u, n, h)
<1>0. Len(Es(u)) \in Nat /\ \A j \in 1..Len(Es(u)) : Depth(u, j) \in Nat  BY UnitFacts
<1>1. ASSUME NEW o \in OpenAt(u, n + 1, h) PROVE o \in OpenAt(u, n, h)
  <2>1. o \in 1..n /\ Depth(u, o) < h /\ \A m \in o + 1..n : Depth(u, m) > Depth(u, o)
    BY <1>1 DEF OpenAt, Unclosed
  <2>2. o # n  BY <2>1, <1>0
  <2> QED  BY <2>1, <2>2 DEF OpenAt, Unclosed
<1>2. ASSUME NEW o \in OpenAt(u, n, h) PROVE o \in OpenAt(u, n + 1, h)
  <2>1. o \in 1..n - 1 /\ Depth(u, o) < h /\ \A m \in o + 1..n - 1 : Depth(u, m) > Depth(u, o)
    BY <1>2 DEF OpenAt, Unclosed
  <2>2. Depth(u, o) \in Nat /\ Depth(u, n) > Depth(u, o)  BY <2>1, <1>0
  <2>3. \A m \in o + 1..(n + 1) - 1 : Depth(u, m) > Depth(u, o)  BY <2>1, <2>2
  <2>4. o \in 1..(n + 1) - 1  BY <2>1
  <2> QED  BY <2>1, <2>3, <2>4 DEF OpenAt, Unclosed
<1> QED  BY <1>1, <1>2

LEMMA OpenPushed ==
    ASSUME NEW u, HasUnit(u), NEW n \in 1..Len(Es(u)), NEW h \in Nat, h = Depth(u, n)
    PROVE  OpenAt(u, n + 1, h + 1) = OpenAt(u, n, h) \cup {n}
<1>0. Len(Es(u)) \in Nat /\ \A j \in 1..Len(Es(u)) : Depth(u, j) \in Nat  BY UnitFacts
<1>1. ASSUME NEW o \in OpenAt(u, n + 1, h + 1), o # n PROVE o \in OpenAt(u, n, h)
  <2>1. o \in 1..n /\ Depth(u, o) < h + 1 /\ \A m \in o + 1..n : Depth(u, m) > Depth(u, o)
    BY <1>1 DEF OpenAt, Unclosed
  <2>2. o \in 1..n - 1 /\ n \in o + 1..n  BY <2>1, <1>1
  <2>3. Depth(u, n) > Depth(u, o) /\ Depth(u, o) \in Nat  BY <2>1, <2>2, <1>0
  <2> QED  BY <2>1, <2>2, <2>3 DEF OpenAt, Unclosed
<1>2. OpenAt(u, n, h) \subseteq OpenAt(u, n + 1, h + 1)
  <2>1. OpenAt(u, n, h) = OpenAt(u, n + 1, h)  BY OpenKept, <1>0
  <2> SUFFICES ASSUME NEW o \in OpenAt(u, n + 1, h) PROVE o \in OpenAt(u, n + 1, h + 1)  BY <2>1
  <2>2. o \in 1..n /\ Depth(u, o) < h  BY DEF OpenAt
  <2>3. Depth(u, o) < h + 1  BY <2>2, <1>0
  <2> QED  BY <2>3 DEF OpenAt
<1>3. n \in OpenAt(u, n + 1, h + 1)
  <2>1. n \in 1..(n + 1) - 1 /\ Depth(u, n) < h + 1 /\ n + 1..(n + 1) - 1 = {}  BY <1>0
  <2> QED  BY <2>1 DEF OpenAt, Unclosed
<1> QED  BY <1>1, <1>2, <1>3

LEMMA OpenPopped ==
    ASSUME NEW u, HasUnit(u), NEW n \in 1..Len(Es(u)) + 1, NEW h \in Nat, h > 0
    PROVE  OpenAt(u, n, h - 1) = {o \in OpenAt(u, n, h) : Depth(u, o) # h - 1}
<1>0. Len(Es(u)) \in Nat /\ \A j \in 1..Len(Es(u)) : Depth(u, j) \in Nat  BY UnitFacts
<1>1. \A o \in 1..n - 1 : Depth(u, o) \in Nat  BY <1>0
<1>2. \A o \in 1..n - 1 : Depth(u, o) < h - 1 <=> Depth(u, o) < h /\ Depth(u, o) # h - 1  BY <1>1
<1> QED  BY <1>2 DEF OpenAt

LEMMA OpenIsAncestors ==
    ASSUME NEW u, HasUnit(u), NEW n \in 1..Len(Es(u)), NEW h, h = Depth(u, n)
    PROVE  OpenAt(u, n, h) = Ancestors(u, n)
<1>0. Len(Es(u)) \in Nat /\ \A j \in 1..Len(Es(u)) : Depth(u, j) \in Nat  BY UnitFacts
<1>1. ASSUME NEW o \in OpenAt(u, n, h) PROVE o \in Ancestors(u, n)
  <2>1. o \in 1..n - 1 /\ Depth(u, o) < Depth(u, n) /\ \A m \in o + 1..n - 1 : Depth(u, m) > Depth(u, o)
    BY DEF OpenAt, Unclosed
  <2>2. \A m \in o + 1..n : Depth(u, m) > Depth(u, o)  BY <2>1, <1>0
  <2> QED  BY <2>1, <2>2, AncestorIf
<1>2. ASSUME NEW o \in Ancestors(u, n) PROVE o \in OpenAt(u, n, h)
  BY <1>2, AncestorFacts DEF OpenAt, Unclosed
<1> QED  BY <1>1, <1>2

-----------------------------------------------------------------------------
(* What has been found so far.  A TypeRef is described by what it is for, so *)
(* that a description remains true when the table grows.                     *)
IsRef(L, r, u, i) == r \in DOMAIN L /\ L[r] = <<u, i>>
Before(S, n) == {j \in S : j < n}
Named == Names \ {NoName}
\* What the parser makes of an entry: the range of get_pc_range, the base of its
\* frame, and the variables of a function with the type of the first of a name.
PcOf(u, i) == PcRange(dwarf[u].load_base, Es(u)[i].pc)
BaseOf(u, i) == FrameBase(Es(u)[i], i)
Declared(u, i, n) ==
    {j \in DOMAIN Es(u) :
        /\ Es(u)[j].tag = "variable" /\ Es(u)[j].name = n /\ Visible(u, j) /\ FunctionOf(u, j) = i
        /\ Es(u)[ParentOf(u, j)].tag \in {"subprogram", "lexical_block"} /\ PcOf(u, ParentOf(u, j)) # {}}
BasesOf(u, i) == {j \in Children(u, i, "inheritance") : Es(u)[j].loc = "constant"}
AliasesOf(u, i) == {j \in Children(u, i, "typedef") : Es(u)[j].name # NoName}
VariantsOf(u, S) == [k \in DOMAIN InFileOrder(S) |-> [of |-> InFileOrder(S)[k], fields |-> Members(u, InFileOrder(S)[k])]]
RangesOf(u, S) ==
    [k \in DOMAIN InFileOrder(S) |-> [pc_range |-> PcOf(u, ParentOf(u, InFileOrder(S)[k])), position |-> InFileOrder(S)[k]]]
EnumData(u, parts) ==
    IF parts = {} THEN None
    ELSE [discr |-> Es(u)[Max(parts)].discr, variants |-> Variants(u, Max(parts)), top_fields |-> Members(u, Max(parts))]

\* What of a scope comes before entry `n`, its own scopes once they have ended,
\* and all of it.
Seen(u, o, n, open) ==
    [members |-> Before(MembersOf(u, o), n), bases |-> Before(BasesOf(u, o), n), aliases |-> Before(AliasesOf(u, o), n),
     parts |-> Before(Children(u, o, "variant_part"), n) \ open,
     variants |-> Before(Children(u, o, "variant"), n) \ open,
     variables |-> [name \in Named |-> Before(Declared(u, o, name), n)]]
All(u, o) ==
    [members |-> MembersOf(u, o), bases |-> BasesOf(u, o), aliases |-> AliasesOf(u, o),
     parts |-> Children(u, o, "variant_part"), variants |-> Children(u, o, "variant"),
     variables |-> [name \in Named |-> Declared(u, o, name)]]

ParentsHold(L, u, S, s) ==
    /\ s = [k \in DOMAIN InFileOrder(S) |-> <<InFileOrder(S)[k], s[k][2]>>]
    /\ \A k \in DOMAIN InFileOrder(S) : IsRef(L, s[k][2], u, Es(u)[InFileOrder(S)[k]].ty)
NamesOf(u, S) == {Es(u)[j].name : j \in S}
LastNamed(u, S, n) == Max({j \in S : Es(u)[j].name = n})
SubTypesHold(L, u, S, s) ==
    /\ s = [n \in NamesOf(u, S) |-> s[n]]
    /\ \A n \in NamesOf(u, S) : IsRef(L, s[n], u, LastNamed(u, S, n))
VariableHolds(L, u, S, v) ==
    /\ v = [ty |-> v.ty, ranges |-> RangesOf(u, S)]
    /\ IsRef(L, v.ty, u, Es(u)[InFileOrder(S)[1]].ty)
VariablesHold(L, u, declared, vs) ==
    /\ vs = [name \in {name \in Named : declared[name] # {}} |-> vs[name]]
    /\ \A name \in Named : declared[name] # {} => VariableHolds(L, u, declared[name], vs[name])
FunctionHolds(L, u, o, seen, fr) ==
    /\ fr = [pc_range |-> PcOf(u, o), frame_base |-> BaseOf(u, o), variables |-> fr.variables]
    /\ ~Nested(u, o) => VariablesHold(L, u, seen.variables, fr.variables)
CompositeHolds(L, u, o, seen, f) ==
    /\ IsRef(L, f.ty, u, o) /\ f.is_union = (Es(u)[o].tag = "union_type")
    /\ f.fields = InFileOrder(seen.members)
    /\ ParentsHold(L, u, seen.bases, f.parents) /\ SubTypesHold(L, u, seen.aliases, f.sub_types)
    /\ f.enum_data = EnumData(u, seen.parts)
VariantPartHolds(u, o, seen, f) ==
    /\ f.discr = Es(u)[o].discr /\ f.top_fields = InFileOrder(seen.members)
    /\ f.variants = VariantsOf(u, seen.variants)
VariantHolds(o, seen, f) == f.of = o /\ f.fields = InFileOrder(seen.members)

Naming == Composites \cup {"namespace", "subprogram"}
FrameHolds(L, u, o, seen, f) ==
    /\ f.kind = ScopeKind(Es(u)[o].tag)
    /\ Es(u)[o].tag \in Naming => f.name = FullName(u, o)
    /\ Es(u)[o].tag = "subprogram" => FunctionHolds(L, u, o, seen, f.fr)
    /\ Es(u)[o].tag = "lexical_block" => f.pc_range = PcOf(u, o)
    /\ Es(u)[o].tag \in Composites => CompositeHolds(L, u, o, seen, f)
    /\ Es(u)[o].tag = "variant_part" => VariantPartHolds(u, o, seen, f)
    /\ Es(u)[o].tag = "variant" => VariantHolds(o, seen, f)

(* Which scopes are open before entry `n` with `h` frames, and the frames.   *)
Shape(u, n, h) ==
    /\ n # 1 => \A k \in 1..h : \E o \in OpenAt(u, n, h) : Depth(u, o) = k - 1
    /\ \A o \in 1..n - 1 :
          Unclosed(u, n, o) /\ Opens(u, o) /\ Visible(u, o) /\ (n <= Len(Es(u)) => Depth(u, o) < Depth(u, n))
              => o \in OpenAt(u, n, h)
    /\ \A o \in OpenAt(u, n, h) : Opens(u, o) /\ Visible(u, o)
FramesHold(L, u, n, s) ==
    /\ n = 1 => \A k \in DOMAIN s : s[k] = Root
    /\ \A o \in OpenAt(u, n, Len(s)) : FrameHolds(L, u, o, Seen(u, o, n, OpenAt(u, n, Len(s))), s[Depth(u, o) + 1])

\* A scope has ended; a type, and a function, that has is recorded.
HasEnded(u, n, h, v, i) == IF v < u THEN Closed(v, i) ELSE v = u /\ i < n /\ i \notin OpenAt(u, n, h)
TypeHolds(L, u, i, t) ==
    LET e == Es(u)[i]
    IN  /\ e.tag \in Composites => \E f : FrameHolds(L, u, i, All(u, i), f) /\ t = TypeOf(f)
        /\ e.tag \in Indirections \cup {"array_type"} /\ e.ty = 0 => t = None
        /\ e.tag \in Indirections \cup {"array_type"} /\ e.ty # 0 =>
              /\ t = [kind |-> IF e.tag = "array_type" THEN "Array" ELSE KindOf[e.tag], to |-> t.to]
              /\ IsRef(L, t.to, u, e.ty)
        /\ e.tag = "base_type" => t = [kind |-> "Primitive", name |-> FullName(u, i)]
        /\ e.tag = "enumeration_type" => t = [kind |-> "Enum", name |-> FullName(u, i)]
TypesHold(L, T, u, n, h) ==
    /\ \A v \in 1..u : \A i \in 1..Len(Es(v)) :
          (v < u \/ i < n) /\ IsType(v, i) =>
              \E r : IsRef(L, r, v, i)
                     /\ ((Es(v)[i].tag \in Composites => HasEnded(u, n, h, v, i)) => TypeHolds(L, v, i, T[r]))
    /\ \A r \in DOMAIN L : T[r] # None => L[r][1] < u \/ (L[r][1] = u /\ L[r][2] < n)

EndedAs(u, n, h, name) ==
    {p \in AllEntries : IsFunction(p[1], p[2]) /\ HasEnded(u, n, h, p[1], p[2]) /\ FullName(p[1], p[2]) = name}
IsLast(p, S) == p \in S /\ \A q \in S : q[1] < p[1] \/ (q[1] = p[1] /\ q[2] <= p[2])
FunctionsHold(L, F, u, n, h) ==
    \A name :
        /\ name \in DOMAIN F <=> EndedAs(u, n, h, name) # {}
        /\ EndedAs(u, n, h, name) # {} /\ (\A p \in EndedAs(u, n, h, name) : ~Nested(p[1], p[2])) =>
              \E p : /\ IsLast(p, EndedAs(u, n, h, name))
                     /\ FunctionHolds(L, p[1], p[2], All(p[1], p[2]), F[name])

Caused(u, st) == st = "panicked" => \E i \in 2..Len(Es(u)) : Visible(u, i) /\ Unsupported(u, i)
AtEnd(u, n, st) == st = "done" => u = Len(dwarf) /\ n = Len(Es(u)) + 1

Found ==
    /\ Shape(unit, pos, Len(stack)) /\ FramesHold(type_lookup, unit, pos, stack)
    /\ TypesHold(type_lookup, types, unit, pos, Len(stack))
    /\ FunctionsHold(type_lookup, functions, unit, pos, Len(stack))
    /\ Caused(unit, status) /\ AtEnd(unit, pos, status)

NameIn(es, ancestors, i) ==
    LET around == {j \in ancestors : es[j].tag \in Composites \cup {"namespace", "subprogram"}}
        path == InFileOrder(around \cup {i})
    IN  [k \in DOMAIN path |-> OwnName(ClassOf(es[path[k]].tag), es[path[k]], path[k])]
ListedFrom(low, list, i) ==
    LET base == IF Bases(list, i) = {} THEN low ELSE list[Max(Bases(list, i))].a
    IN  CASE list[i].kind = "offsets"   -> <<base + list[i].a, base + list[i].b>>
          [] list[i].kind = "addresses" -> <<list[i].a, list[i].b>>
          [] list[i].kind = "length"    -> <<list[i].a, list[i].a + list[i].b>>
ParentsIn(es, L, u, S, s) ==
    /\ s = [k \in DOMAIN InFileOrder(S) |-> <<InFileOrder(S)[k], s[k][2]>>]
    /\ \A k \in DOMAIN InFileOrder(S) : IsRef(L, s[k][2], u, es[InFileOrder(S)[k]].ty)

LEMMA SameTree ==
    ASSUME dwarf' = dwarf
    PROVE  /\ \A u, n, h : Shape(u, n, h)' <=> Shape(u, n, h)
           /\ \A L, u, n, s : FramesHold(L, u, n, s)' <=> FramesHold(L, u, n, s)
           /\ \A L, T, u, n, h : TypesHold(L, T, u, n, h)' <=> TypesHold(L, T, u, n, h)
           /\ \A L, F, u, n, h : FunctionsHold(L, F, u, n, h)' <=> FunctionsHold(L, F, u, n, h)
           /\ \A u, st : Caused(u, st)' <=> Caused(u, st)
           /\ \A u, n, st : AtEnd(u, n, st)' <=> AtEnd(u, n, st)
<1>1. \A u : Es(u)' = Es(u)  BY DEF Es
<1>2. \A u, i : Depth(u, i)' = Depth(u, i)  BY <1>1 DEF Depth
<1>3. \A u, i : Ancestors(u, i)' = Ancestors(u, i)  BY <1>1 DEF Ancestors
<1>4. \A u, i : ParentOf(u, i)' = ParentOf(u, i)  BY <1>3 DEF ParentOf
<1>5. \A u, i : (Opens(u, i)' <=> Opens(u, i)) /\ (Closed(u, i)' <=> Closed(u, i))  BY <1>1, <1>4 DEF Opens, Closed
<1>6. \A u, i : Visible(u, i)' <=> Visible(u, i)  BY <1>3, <1>5 DEF Visible
<1>7. \A u, i, t : Children(u, i, t)' = Children(u, i, t)  BY <1>1, <1>4 DEF Children
<1>8. \A u, i : FullName(u, i)' = FullName(u, i)
  <2> SUFFICES ASSUME NEW u, NEW i PROVE FullName(u, i)' = FullName(u, i)  OBVIOUS
  <2>1. FullName(u, i) = NameIn(Es(u), Ancestors(u, i), i)  BY Zenon DEF FullName, NameIn
  <2>2. FullName(u, i)' = NameIn(Es(u)', Ancestors(u, i)', i)  BY Zenon DEF FullName, NameIn
  <2> QED  BY <2>1, <2>2, <1>1, <1>3
<1>9. \A u, i : MembersOf(u, i)' = MembersOf(u, i)  BY <1>1, <1>7 DEF MembersOf
<1>10. \A u, i : Members(u, i)' = Members(u, i)  BY <1>9 DEF Members
<1>11. \A u, i : Variants(u, i)' = Variants(u, i)  BY <1>7, <1>10 DEF Variants
<1>12. \A u, i : (IsType(u, i)' <=> IsType(u, i)) /\ (IsFunction(u, i)' <=> IsFunction(u, i))
  BY <1>1, <1>6 DEF IsType, IsFunction
<1>13. \A u, i : FunctionOf(u, i)' = FunctionOf(u, i)  BY <1>1, <1>3 DEF FunctionOf
<1>14. \A u, i : PcOf(u, i)' = PcOf(u, i) /\ BaseOf(u, i)' = BaseOf(u, i)  BY <1>1 DEF PcOf, BaseOf
<1>15. \A u, i, n : Declared(u, i, n)' = Declared(u, i, n)  BY <1>1, <1>4, <1>6, <1>13, <1>14 DEF Declared
<1>16. \A u, i : Nested(u, i)' <=> Nested(u, i)  BY <1>1, <1>3, <1>12 DEF Nested
<1>17. AllEntries' = AllEntries  BY <1>1 DEF AllEntries
<1>18. \A u, i : Unsupported(u, i)' <=> Unsupported(u, i)
  <2>1. \A u, i : HasCode(u, i)' <=> HasCode(u, i)
    <3>1. \A u : UnitBase(u)' = UnitBase(u)  BY <1>1 DEF UnitBase
    <3>2. \A u, list, i : Listed(u, list, i)' = Listed(u, list, i)
      <4> SUFFICES ASSUME NEW u, NEW list, NEW i PROVE Listed(u, list, i)' = Listed(u, list, i)  OBVIOUS
      <4>1. Listed(u, list, i) = ListedFrom(UnitBase(u), list, i)  BY Zenon DEF Listed, ListedFrom
      <4>2. Listed(u, list, i)' = ListedFrom(UnitBase(u)', list, i)  BY Zenon DEF Listed, ListedFrom
      <4> QED  BY <4>1, <4>2, <3>1
    <3>3. \A u, pc : Covered(u, pc)' = Covered(u, pc)  BY <3>2 DEF Covered, Pairs
    <3>4. \A u, i : RealRange(u, i)' = RealRange(u, i)  BY <1>1, <3>3 DEF RealRange
    <3> QED  BY <3>4 DEF HasCode
  <2> QED  BY <2>1, <1>1, <1>4, <1>7, <1>9 DEF Unsupported
<1>19. \A u, i : BasesOf(u, i)' = BasesOf(u, i) /\ AliasesOf(u, i)' = AliasesOf(u, i)
  BY <1>1, <1>7 DEF BasesOf, AliasesOf
<1>20. \A u, S : VariantsOf(u, S)' = VariantsOf(u, S) /\ RangesOf(u, S)' = RangesOf(u, S) /\ EnumData(u, S)' = EnumData(u, S)
  BY <1>1, <1>4, <1>10, <1>11, <1>14 DEF VariantsOf, RangesOf, EnumData
<1>21. \A u, o, n, open : Seen(u, o, n, open)' = Seen(u, o, n, open) /\ All(u, o)' = All(u, o)
  <2> SUFFICES ASSUME NEW u, NEW o, NEW n, NEW open
               PROVE Seen(u, o, n, open)' = Seen(u, o, n, open) /\ All(u, o)' = All(u, o)
    OBVIOUS
  <2>1. Seen(u, o, n, open)' = Seen(u, o, n, open)  BY <1>7, <1>9, <1>15, <1>19 DEF Seen
  <2>2. All(u, o)' = All(u, o)  BY <1>7, <1>9, <1>15, <1>19 DEF All
  <2> QED  BY <2>1, <2>2
<1>22. \A L, u, S, s : ParentsHold(L, u, S, s)' <=> ParentsHold(L, u, S, s)
  <2> SUFFICES ASSUME NEW L, NEW u, NEW S, NEW s PROVE ParentsHold(L, u, S, s)' <=> ParentsHold(L, u, S, s)  OBVIOUS
  <2>1. ParentsHold(L, u, S, s) <=> ParentsIn(Es(u), L, u, S, s)  BY Zenon DEF ParentsHold, ParentsIn
  <2>2. ParentsHold(L, u, S, s)' <=> ParentsIn(Es(u)', L, u, S, s)  BY Zenon DEF ParentsHold, ParentsIn
  <2> QED  BY <2>1, <2>2, <1>1
<1>23. \A u, S, n : NamesOf(u, S)' = NamesOf(u, S) /\ LastNamed(u, S, n)' = LastNamed(u, S, n)  BY <1>1 DEF NamesOf, LastNamed
<1>24. \A L, u, S, s : SubTypesHold(L, u, S, s)' <=> SubTypesHold(L, u, S, s)  BY <1>23 DEF SubTypesHold
<1>25. \A L, u, S, v : VariableHolds(L, u, S, v)' <=> VariableHolds(L, u, S, v)  BY <1>1, <1>20 DEF VariableHolds
<1>26. \A L, u, d, vs : VariablesHold(L, u, d, vs)' <=> VariablesHold(L, u, d, vs)  BY <1>25 DEF VariablesHold
<1>27. \A L, u, o, seen, fr : FunctionHolds(L, u, o, seen, fr)' <=> FunctionHolds(L, u, o, seen, fr)
  BY <1>14, <1>16, <1>26 DEF FunctionHolds
<1>28. \A L, u, o, seen, f : CompositeHolds(L, u, o, seen, f)' <=> CompositeHolds(L, u, o, seen, f)
  BY <1>1, <1>20, <1>22, <1>24 DEF CompositeHolds
<1>29. \A u, o, seen, f : VariantPartHolds(u, o, seen, f)' <=> VariantPartHolds(u, o, seen, f)
  BY <1>1, <1>20 DEF VariantPartHolds
<1>30. \A L, u, o, seen, f : FrameHolds(L, u, o, seen, f)' <=> FrameHolds(L, u, o, seen, f)
  BY <1>1, <1>8, <1>14, <1>27, <1>28, <1>29 DEF FrameHolds
<1>31. \A u, n, h : OpenAt(u, n, h)' = OpenAt(u, n, h) /\ \A o : Unclosed(u, n, o)' <=> Unclosed(u, n, o)
  BY <1>2 DEF OpenAt, Unclosed
<1>32. \A u, n, h : Shape(u, n, h)' <=> Shape(u, n, h)  BY <1>1, <1>2, <1>5, <1>6, <1>31 DEF Shape
<1>33. \A L, u, n, s : FramesHold(L, u, n, s)' <=> FramesHold(L, u, n, s)  BY <1>2, <1>21, <1>30, <1>31 DEF FramesHold
<1>34. \A u, n, h, v, i : HasEnded(u, n, h, v, i)' <=> HasEnded(u, n, h, v, i)  BY <1>5, <1>31 DEF HasEnded
<1>35. \A L, u, i, t : TypeHolds(L, u, i, t)' <=> TypeHolds(L, u, i, t)  BY <1>1, <1>8, <1>21, <1>30 DEF TypeHolds
<1>36. \A L, T, u, n, h : TypesHold(L, T, u, n, h)' <=> TypesHold(L, T, u, n, h)
  BY <1>1, <1>12, <1>34, <1>35 DEF TypesHold
<1>37. \A u, n, h, name : EndedAs(u, n, h, name)' = EndedAs(u, n, h, name)  BY <1>8, <1>12, <1>17, <1>34 DEF EndedAs
<1>38. \A L, F, u, n, h : FunctionsHold(L, F, u, n, h)' <=> FunctionsHold(L, F, u, n, h)
  BY <1>16, <1>21, <1>27, <1>37 DEF FunctionsHold
<1>39. \A u, st : Caused(u, st)' <=> Caused(u, st)  BY <1>1, <1>6, <1>18 DEF Caused
<1>40. \A u, n, st : AtEnd(u, n, st)' <=> AtEnd(u, n, st)  BY <1>1 DEF AtEnd
<1> QED  BY <1>32, <1>33, <1>36, <1>38, <1>39, <1>40

-----------------------------------------------------------------------------
(* Lists in the order of the file grow at their end.                         *)
LEMMA BeforeNext ==
    ASSUME NEW S, S \in SUBSET Nat, NEW n \in Nat
    PROVE  Before(S, n + 1) = IF n \in S THEN Before(S, n) \cup {n} ELSE Before(S, n)
<1>1. \A j \in S : j \in Nat  OBVIOUS
<1>2. \A j \in S : j < n + 1 <=> j < n \/ j = n  BY <1>1
<1> QED  BY <1>2 DEF Before

LEMMA BeforeFacts ==
    ASSUME NEW N \in Nat, NEW S, S \in SUBSET (1..N), NEW n \in Nat
    PROVE  /\ FilePositions(S) /\ FilePositions(Before(S, n)) /\ \A j \in Before(S, n) : j < n
           /\ S \in SUBSET Nat /\ \A j \in S : j \in Nat /\ j < N + 1
<1>1. IsFiniteSet(1..N)  BY FS_Interval
<1>2. IsFiniteSet(S) /\ Before(S, n) \in SUBSET S  BY <1>1, FS_Subset DEF Before
<1>3. IsFiniteSet(Before(S, n))  BY <1>2, FS_Subset
<1>4. S \in SUBSET Nat /\ \A j \in S : j \in Nat /\ j < N + 1
  <2>1. \A j \in S : j \in 1..N  OBVIOUS
  <2>2. \A j \in 1..N : j \in Nat /\ j < N + 1  OBVIOUS
  <2> QED  BY <2>1, <2>2
<1>5. Before(S, n) \in SUBSET Nat /\ \A j \in Before(S, n) : j < n  BY <1>4 DEF Before
<1> QED  BY <1>1, <1>2, <1>3, <1>4, <1>5, FS_Subset DEF FilePositions

LEMMA AppendIs ==
    ASSUME NEW c \in Nat, NEW s, s = [k \in 1..c |-> s[k]], NEW x
    PROVE  Append(s, x) = [k \in 1..c + 1 |-> IF k = c + 1 THEN x ELSE s[k]]
<1> DEFINE S == {s[k] : k \in 1..c}
           t == Append(s, x)
<1>1. s \in [1..c -> S]  OBVIOUS
<1>2. s \in Seq(S) /\ Len(s) = c  BY <1>1
<1>3. Stack(s)  BY <1>2 DEF Stack
<1>4. Stack(t) /\ Len(t) = c + 1 /\ t[c + 1] = x /\ \A k \in 1..c : t[k] = s[k]
  BY <1>2, <1>3, AppendFacts
<1> HIDE DEF t, S
<1>5. PICK T : t \in Seq(T)  BY <1>4 DEF Stack
<1>6. t = [k \in 1..c + 1 |-> t[k]]  BY <1>4, <1>5
<1>7. \A k \in 1..c + 1 : t[k] = IF k = c + 1 THEN x ELSE s[k]  BY <1>4
<1> QED  BY <1>6, <1>7 DEF t

LEMMA OrderAppends ==
    ASSUME NEW S, FilePositions(S), NEW n \in Nat, \A j \in S : j < n
    PROVE  /\ FilePositions(S \cup {n}) /\ DOMAIN InFileOrder(S \cup {n}) = 1..Cardinality(S) + 1
           /\ InFileOrder(S \cup {n}) = Append(InFileOrder(S), n)
           /\ InFileOrder(S \cup {n})[Cardinality(S) + 1] = n
           /\ \A k \in 1..Cardinality(S) : InFileOrder(S \cup {n})[k] = InFileOrder(S)[k]
<1> DEFINE c == Cardinality(S)  s == InFileOrder(S)  t == InFileOrder(S \cup {n})
<1>1. c \in Nat /\ DOMAIN s = 1..c  BY OrderSize
<1>2. FilePositions(S \cup {n}) /\ Cardinality(S \cup {n}) = c + 1 /\ t[c + 1] = n /\ \A k \in 1..c : t[k] = s[k]
  BY OrderGrows
<1>3. DOMAIN t = 1..c + 1  BY <1>1, <1>2, OrderSize
<1>4. s = [k \in 1..c |-> s[k]] /\ t = [k \in 1..c + 1 |-> t[k]]  BY <1>2, OrderIsList
<1> HIDE DEF c, s, t
<1>5. Append(s, n) = [k \in 1..c + 1 |-> IF k = c + 1 THEN n ELSE s[k]]  BY <1>1, <1>4, AppendIs
<1>6. \A k \in 1..c + 1 : t[k] = IF k = c + 1 THEN n ELSE s[k]  BY <1>1, <1>2
<1> QED  BY <1>2, <1>3, <1>4, <1>5, <1>6 DEF c, s, t

\* A list of what the positions stand for.
Lists(s, S) == s = [k \in DOMAIN InFileOrder(S) |-> s[k]]
Longer(t, s, x) == t = Append(s, x)
After(n, S) == FilePositions(S) /\ n \in Nat /\ \A j \in S : j < n
Continues(t, s, x, S) ==
    /\ t[Cardinality(S) + 1] = x /\ \A k \in DOMAIN InFileOrder(S) : t[k] = s[k]
    /\ DOMAIN InFileOrder(S) = 1..Cardinality(S) /\ Cardinality(S) \in Nat
LEMMA ListAppends ==
    ASSUME NEW S, NEW n, After(n, S), NEW s, Lists(s, S),
           NEW x, NEW t, Longer(t, s, x)
    PROVE  Lists(t, S \cup {n}) /\ Continues(t, s, x, S)
<1>1. /\ Cardinality(S) \in Nat /\ DOMAIN InFileOrder(S) = 1..Cardinality(S)
      /\ s = [k \in DOMAIN InFileOrder(S) |-> s[k]]
  BY OrderSize DEF Lists, After
<1>2. DOMAIN InFileOrder(S \cup {n}) = 1..Cardinality(S) + 1  BY OrderAppends DEF After
<1>3. Append(s, x) = [k \in 1..Cardinality(S) + 1 |-> IF k = Cardinality(S) + 1 THEN x ELSE s[k]]
  BY <1>1, AppendIs DEF Longer
<1> DEFINE c == Cardinality(S)
<1>4. t = [k \in 1..c + 1 |-> IF k = c + 1 THEN x ELSE s[k]]  BY <1>3 DEF Longer
<1> HIDE DEF c
<1>5. t = [k \in 1..c + 1 |-> t[k]]  BY <1>4
<1>6. c \in Nat  BY <1>1 DEF c
<1>7. t[c + 1] = x /\ \A k \in 1..c : t[k] = s[k]
  <2>1. c + 1 \in 1..c + 1 /\ \A k \in 1..c : k \in 1..c + 1 /\ k # c + 1  BY <1>6
  <2> QED  BY <1>4, <2>1, Zenon
<1> QED  BY <1>1, <1>2, <1>5, <1>7 DEF Lists, Continues, c

LEMMA FirstKept ==
    ASSUME NEW S, FilePositions(S), NEW n \in Nat, \A j \in S : j < n
    PROVE  InFileOrder(S \cup {n})[1] = IF S = {} THEN n ELSE InFileOrder(S)[1]
<1> DEFINE t == InFileOrder(S \cup {n})  s == InFileOrder(S)  c == Cardinality(S)
<1>1. c \in Nat /\ (S = {} <=> c = 0)  BY OrderSize, FS_EmptySet DEF FilePositions
<1>2. t[c + 1] = n /\ \A k \in 1..c : t[k] = s[k]  BY OrderAppends
<1> HIDE DEF t, s, c
<1>3. t[1] = IF S = {} THEN n ELSE s[1]
  <2>1. CASE S = {}  BY <1>1, <1>2, <2>1
  <2>2. CASE S # {}
    <3>1. 1 \in 1..c  BY <1>1, <2>2
    <3> QED  BY <3>1, <1>2, <2>2
  <2> QED  BY <2>1, <2>2
<1> QED  BY <1>3 DEF t, s

LEMMA OrderSet == ASSUME NEW N \in Nat, NEW S, S \in SUBSET (1..N) PROVE ToSet(InFileOrder(S)) = S
<1>1. FilePositions(S) /\ \A j \in S : j \in Nat /\ j < N + 1  BY BeforeFacts
<1>2. /\ \A k \in 1..Cardinality(S) : InFileOrder(S)[k] \in S
      /\ \A j \in S : \E k \in 1..Cardinality(S) : InFileOrder(S)[k] = j
  <2>1. N + 1 \in Nat  OBVIOUS
  <2> QED  BY <1>1, <2>1, OrderTypes
<1>3. DOMAIN InFileOrder(S) = 1..Cardinality(S)  BY <1>1, OrderSize
<1> QED  BY <1>2, <1>3 DEF ToSet

-----------------------------------------------------------------------------
(* The shape of the stack: the open scopes are the path to the next entry.   *)
LEMMA ShapeFirst == ASSUME NEW u, HasUnit(u), NEW h PROVE Shape(u, 1, h) /\ OpenAt(u, 1, h) = {}
BY DEF Shape, OpenAt

LEMMA ShapePops ==
    ASSUME NEW u, HasUnit(u), NEW n \in 1..Len(Es(u)), NEW h \in Nat, h > Depth(u, n), Shape(u, n, h)
    PROVE  Shape(u, n, h - 1)
<1>1. Len(Es(u)) \in Nat /\ \A j \in 1..Len(Es(u)) : Depth(u, j) \in Nat  BY UnitFacts
<1>2. Depth(u, n) \in Nat /\ n \in 1..Len(Es(u)) + 1 /\ n <= Len(Es(u)) /\ h > 0 /\ h - 1 \in Nat  BY <1>1
<1>3. OpenAt(u, n, h - 1) = {o \in OpenAt(u, n, h) : Depth(u, o) # h - 1}  BY <1>2, OpenPopped
<1>4. n # 1 => \A k \in 1..h - 1 : \E o \in OpenAt(u, n, h - 1) : Depth(u, o) = k - 1
  <2> SUFFICES ASSUME n # 1, NEW k \in 1..h - 1 PROVE \E o \in OpenAt(u, n, h - 1) : Depth(u, o) = k - 1
    OBVIOUS
  <2>1. PICK o \in OpenAt(u, n, h) : Depth(u, o) = k - 1  BY DEF Shape
  <2>2. k - 1 # h - 1  OBVIOUS
  <2> QED  BY <2>1, <2>2, <1>3
<1>5. \A o \in OpenAt(u, n, h - 1) : Opens(u, o) /\ Visible(u, o)  BY <1>3 DEF Shape
<1>6. ASSUME NEW o \in 1..n - 1, Unclosed(u, n, o), Opens(u, o), Visible(u, o),
             n <= Len(Es(u)) => Depth(u, o) < Depth(u, n)
      PROVE  o \in OpenAt(u, n, h - 1)
  <2>1. o \in OpenAt(u, n, h)  BY <1>6 DEF Shape
  <2>2. Depth(u, o) < Depth(u, n) /\ Depth(u, o) \in Nat  BY <1>1, <1>2, <1>6
  <2> QED  BY <2>1, <2>2, <1>2, <1>3
<1> QED  BY <1>4, <1>5, <1>6 DEF Shape

LEMMA AtShape ==
    ASSUME NEW u, HasUnit(u), NEW n \in 1..Len(Es(u)), NEW h \in Nat, h = Depth(u, n), Shape(u, n, h)
    PROVE  Visible(u, n) /\ OpenAt(u, n, h) = Ancestors(u, n)
<1>1. OpenAt(u, n, h) = Ancestors(u, n)  BY OpenIsAncestors
<1> QED  BY <1>1 DEF Shape, Visible

LEMMA SkipShape ==
    ASSUME NEW u, HasUnit(u), NEW n \in 1..Len(Es(u)), NEW h \in Nat, h < Depth(u, n), Shape(u, n, h)
    PROVE  ~Visible(u, n)
<1> SUFFICES ASSUME Visible(u, n) PROVE FALSE  OBVIOUS
<1>1. PICK a \in Ancestors(u, n) : Depth(u, a) = h  BY AncestorAt
<1>2. a \in 1..n - 1 /\ Depth(u, a) < Depth(u, n) /\ \A k \in a + 1..n : Depth(u, k) > Depth(u, a)  BY AncestorFacts
<1>3. Unclosed(u, n, a)  BY <1>2 DEF Unclosed
<1>4. Opens(u, a)  BY DEF Visible
<1>5. Visible(u, a)  BY AncestorsChain DEF Visible
<1>6. a \in OpenAt(u, n, h)  BY <1>2, <1>3, <1>4, <1>5 DEF Shape
<1> QED  BY <1>1, <1>6 DEF OpenAt

\* The next entry, which is no scope of its own, or one that is not looked at.
LEMMA ShapeAdvances ==
    ASSUME NEW u, HasUnit(u), NEW n \in 2..Len(Es(u)), NEW h \in Nat, h <= Depth(u, n),
           h = Depth(u, n) => ~Opens(u, n), Shape(u, n, h)
    PROVE  Shape(u, n + 1, h) /\ OpenAt(u, n + 1, h) = OpenAt(u, n, h)
<1>1. Len(Es(u)) \in Nat /\ \A j \in 1..Len(Es(u)) : Depth(u, j) \in Nat  BY UnitFacts
<1>2. n \in 1..Len(Es(u)) /\ n + 1 # 1 /\ n # 1  BY <1>1
<1>3. OpenAt(u, n + 1, h) = OpenAt(u, n, h)  BY <1>2, OpenKept
<1>4. ASSUME NEW o \in 1..(n + 1) - 1, Unclosed(u, n + 1, o), Opens(u, o), Visible(u, o)
      PROVE  o \in OpenAt(u, n + 1, h)
  <2>1. CASE o = n
    <3>1. h < Depth(u, n)  BY <2>1, <1>1, <1>2, <1>4
    <3> QED  BY <3>1, <2>1, <1>2, <1>4, SkipShape
  <2>2. CASE o # n
    <3>1. o \in 1..n - 1 /\ n \in o + 1..(n + 1) - 1  BY <2>2, <1>2
    <3>2. Depth(u, n) > Depth(u, o) /\ Unclosed(u, n, o)  BY <3>1, <1>4 DEF Unclosed
    <3>3. Depth(u, o) < Depth(u, n)  BY <3>1, <3>2, <1>1
    <3> QED  BY <3>1, <3>2, <3>3, <1>3, <1>4 DEF Shape
  <2> QED  BY <2>1, <2>2
<1> QED  BY <1>2, <1>3, <1>4 DEF Shape

LEMMA ShapePushes ==
    ASSUME NEW u, HasUnit(u), NEW n \in 1..Len(Es(u)), NEW h \in Nat, h = Depth(u, n), Opens(u, n), Shape(u, n, h)
    PROVE  Shape(u, n + 1, h + 1) /\ OpenAt(u, n + 1, h + 1) = OpenAt(u, n, h) \cup {n}
<1>1. Len(Es(u)) \in Nat /\ \A j \in 1..Len(Es(u)) : Depth(u, j) \in Nat  BY UnitFacts
<1>2. OpenAt(u, n + 1, h + 1) = OpenAt(u, n, h) \cup {n}  BY OpenPushed
<1>3. Visible(u, n)  BY AtShape
<1>4. ASSUME NEW k \in 1..h + 1 PROVE \E o \in OpenAt(u, n + 1, h + 1) : Depth(u, o) = k - 1
  <2>1. CASE k = h + 1  BY <2>1, <1>2
  <2>2. CASE k # h + 1
    <3>1. k \in 1..h  BY <2>2
    <3>2. n # 1  BY <3>1, UnitFacts
    <3> QED  BY <3>1, <3>2, <1>2 DEF Shape
  <2> QED  BY <2>1, <2>2
<1>5. ASSUME NEW o \in 1..(n + 1) - 1, Unclosed(u, n + 1, o), Opens(u, o), Visible(u, o)
      PROVE  o \in OpenAt(u, n + 1, h + 1)
  <2>1. CASE o = n  BY <2>1, <1>2
  <2>2. CASE o # n
    <3>1. o \in 1..n - 1 /\ n \in o + 1..(n + 1) - 1  BY <2>2
    <3>2. Depth(u, n) > Depth(u, o) /\ Unclosed(u, n, o)  BY <3>1, <1>5 DEF Unclosed
    <3>3. Depth(u, o) < Depth(u, n)  BY <3>1, <3>2, <1>1
    <3> QED  BY <3>1, <3>2, <3>3, <1>2, <1>5 DEF Shape
  <2> QED  BY <2>1, <2>2
<1>6. \A o \in OpenAt(u, n + 1, h + 1) : Opens(u, o) /\ Visible(u, o)  BY <1>2, <1>3 DEF Shape
<1> QED  BY <1>2, <1>4, <1>5, <1>6 DEF Shape

-----------------------------------------------------------------------------
(* Full names: the name of the nearest scope that gives names, and its own.  *)
Around(u, i) == {j \in Ancestors(u, i) : Es(u)[j].tag \in Naming}
NameOf(u, i) == OwnName(ClassOf(Es(u)[i].tag), Es(u)[i], i)

LEMMA FullNameIs ==
    ASSUME NEW u, NEW i
    PROVE  FullName(u, i) = [k \in DOMAIN InFileOrder(Around(u, i) \cup {i}) |->
                                NameOf(u, InFileOrder(Around(u, i) \cup {i})[k])]
BY DEF FullName, Around, NameOf, Naming

LEMMA AroundFacts ==
    ASSUME NEW u, HasUnit(u), NEW n \in 1..Len(Es(u))
    PROVE  /\ FilePositions(Around(u, n)) /\ \A j \in Around(u, n) : j < n /\ j \in 1..Len(Es(u))
           /\ Around(u, n) # {} =>
                /\ Max(Around(u, n)) \in Around(u, n) /\ \A j \in Around(u, n) : j <= Max(Around(u, n))
                /\ Around(u, n) = Around(u, Max(Around(u, n))) \cup {Max(Around(u, n))}
<1> DEFINE A == Around(u, n)
<1>1. Len(Es(u)) \in Nat  BY UnitFacts
<1>2. \A j \in A : j \in 1..Len(Es(u)) /\ j < n
  <2> SUFFICES ASSUME NEW j \in A PROVE j \in 1..Len(Es(u)) /\ j < n  OBVIOUS
  <2>1. j \in 1..n - 1  BY DEF Around, Ancestors
  <2> QED  BY <2>1, <1>1
<1>3. A \in SUBSET (1..Len(Es(u)))  BY <1>2
<1> HIDE DEF A
<1>4. FilePositions(A) /\ A \in SUBSET Nat  BY <1>1, <1>3, BeforeFacts
<1>5. ASSUME A # {} PROVE /\ Max(A) \in A /\ \A j \in A : j <= Max(A)
                          /\ A = Around(u, Max(A)) \cup {Max(A)}
  <2>1. Max(A) \in A /\ \A j \in A : j <= Max(A)
    <3>1. \A j \in A : j <= Len(Es(u))  BY <1>2
    <3> QED  BY <3>1, <1>1, <1>4, <1>5, Greatest
  <2> DEFINE m == Max(A)
  <2>2. m \in Ancestors(u, n)  BY <2>1 DEF A, Around
  <2>3. Ancestors(u, m) = {b \in Ancestors(u, n) : b < m}  BY <2>2, AncestorsChain
  <2> HIDE DEF m
  <2>4. m \in A /\ (\A j \in A : j \in Nat /\ j <= m) /\ m \in Nat  BY <2>1, <1>2 DEF m
  <2>5. \A j \in A : j < m \/ j = m  BY <2>4
  <2>6. A = Around(u, m) \cup {m}  BY <2>3, <2>4, <2>5 DEF A, Around
  <2> QED  BY <2>1, <2>6 DEF m
<1> QED  BY <1>2, <1>4, <1>5 DEF A

LEMMA FullNameGrows ==
    ASSUME NEW u, HasUnit(u), NEW n \in 1..Len(Es(u))
    PROVE  FullName(u, n) = Append(IF Around(u, n) = {} THEN <<>> ELSE FullName(u, Max(Around(u, n))), NameOf(u, n))
<1> DEFINE A == Around(u, n)  c == Cardinality(A)  path == InFileOrder(A \cup {n})
           s == IF A = {} THEN <<>> ELSE FullName(u, Max(A))
           own(j) == NameOf(u, j)
<1>1. FilePositions(A) /\ (\A j \in A : j < n) /\ n \in Nat  BY AroundFacts
<1>2. c \in Nat /\ DOMAIN InFileOrder(A) = 1..c  BY <1>1, OrderSize
<1>3. DOMAIN path = 1..c + 1 /\ path[c + 1] = n /\ \A k \in 1..c : path[k] = InFileOrder(A)[k]
  BY <1>1, OrderAppends
<1>4. FullName(u, n) = [k \in 1..c + 1 |-> own(path[k])]  BY <1>3, FullNameIs
<1>5. s = [k \in 1..c |-> own(InFileOrder(A)[k])]
  <2>1. CASE A = {}
    <3>1. c = 0  BY <2>1, FS_EmptySet
    <3>2. 1..c = {}  BY <3>1
    <3> QED  BY <2>1, <3>2
  <2>2. CASE A # {}
    <3>1. A = Around(u, Max(A)) \cup {Max(A)}  BY <2>2, AroundFacts
    <3> QED  BY <2>2, <3>1, <1>2, FullNameIs
  <2> QED  BY <2>1, <2>2
<1> HIDE DEF A, c, path, s, own
<1>6. s = [k \in 1..c |-> s[k]]  BY <1>5
<1>7. Append(s, own(n)) = [k \in 1..c + 1 |-> IF k = c + 1 THEN own(n) ELSE s[k]]  BY <1>2, <1>6, AppendIs
<1>8. \A k \in 1..c + 1 : own(path[k]) = IF k = c + 1 THEN own(n) ELSE s[k]
  <2>1. \A k \in 1..c + 1 : k = c + 1 \/ k \in 1..c  BY <1>2
  <2> QED  BY <2>1, <1>3, <1>5
<1> QED  BY <1>4, <1>7, <1>8 DEF A, s, own

LEMMA KindNames ==
    ASSUME NEW tag \in Scopes PROVE ScopeKind(tag) \in {"Namespace", "InFunction", "InType"} <=> tag \in Naming
BY DEF Scopes, ScopeKind, Naming, Composites

\* The frame of an open scope.
FramesOf(u, n, s) ==
    /\ \A o \in OpenAt(u, n, Len(s)) :
          /\ Depth(u, o) + 1 \in DOMAIN s /\ Depth(u, o) \in Nat /\ Es(u)[o].tag \in Scopes
          /\ s[Depth(u, o) + 1].kind = ScopeKind(Es(u)[o].tag)
          /\ Es(u)[o].tag \in Naming => s[Depth(u, o) + 1].name = FullName(u, o)
    /\ \A k \in DOMAIN s : \E o \in OpenAt(u, n, Len(s)) : k = Depth(u, o) + 1
LEMMA FrameAt ==
    ASSUME NEW L, NEW u, HasUnit(u), NEW n \in 2..Len(Es(u)) + 1, NEW s, Stack(s), Shape(u, n, Len(s)), FramesHold(L, u, n, s)
    PROVE  FramesOf(u, n, s)
<1>1. Len(s) \in Nat /\ DOMAIN s = 1..Len(s) /\ n # 1 /\ n \in 1..Len(Es(u)) + 1  BY StackFacts, UnitFacts
<1>2. ASSUME NEW o \in OpenAt(u, n, Len(s))
      PROVE  /\ Depth(u, o) + 1 \in DOMAIN s /\ Depth(u, o) \in Nat /\ Es(u)[o].tag \in Scopes
             /\ s[Depth(u, o) + 1].kind = ScopeKind(Es(u)[o].tag)
             /\ Es(u)[o].tag \in Naming => s[Depth(u, o) + 1].name = FullName(u, o)
  <2>1. Depth(u, o) \in Nat /\ Depth(u, o) < Len(s)  BY <1>1, OpenFacts
  <2>2. Es(u)[o].tag \in Scopes  BY DEF Shape, Opens
  <2> QED  BY <1>1, <2>1, <2>2 DEF FramesHold, FrameHolds
<1>3. ASSUME NEW k \in DOMAIN s PROVE \E o \in OpenAt(u, n, Len(s)) : k = Depth(u, o) + 1
  <2>1. PICK o \in OpenAt(u, n, Len(s)) : Depth(u, o) = k - 1  BY <1>1 DEF Shape
  <2>2. k \in Nat  BY <1>1
  <2> QED  BY <2>1, <2>2
<1> QED  BY <1>2, <1>3 DEF FramesOf

LEMMA ScopedNameIs ==
    ASSUME NEW L, NEW u, HasUnit(u), NEW n \in 2..Len(Es(u)), NEW s, Stack(s), Len(s) = Depth(u, n),
           Shape(u, n, Len(s)), FramesHold(L, u, n, s)
    PROVE  Append(ParentName(s), NameOf(u, n)) = FullName(u, n)
<1> DEFINE A == Around(u, n)  O == OpenAt(u, n, Len(s))
           named == {k \in DOMAIN s : s[k].kind \in {"Namespace", "InFunction", "InType"}}
<1>0. n \in 1..Len(Es(u)) /\ n \in 2..Len(Es(u)) + 1 /\ Len(s) \in Nat /\ DOMAIN s = 1..Len(s)
  BY StackFacts, UnitFacts
<1>1. O = Ancestors(u, n)  BY <1>0, AtShape
<1>2. /\ \A o \in O : /\ Depth(u, o) + 1 \in DOMAIN s /\ Depth(u, o) \in Nat /\ Es(u)[o].tag \in Scopes
                      /\ s[Depth(u, o) + 1].kind = ScopeKind(Es(u)[o].tag)
                      /\ Es(u)[o].tag \in Naming => s[Depth(u, o) + 1].name = FullName(u, o)
      /\ \A k \in DOMAIN s : \E o \in O : k = Depth(u, o) + 1
  <2>1. /\ HasUnit(u) /\ n \in 2..Len(Es(u)) + 1 /\ Stack(s) /\ Shape(u, n, Len(s)) /\ FramesHold(L, u, n, s)  BY <1>0
  <2>2. FramesOf(u, n, s)  BY <2>1, FrameAt
  <2> HIDE DEF named
  <2> QED  BY <2>2 DEF FramesOf
<1>3. A = {o \in O : Es(u)[o].tag \in Naming}  BY <1>1 DEF Around
<1>4. \A o \in O : o \in A <=> Depth(u, o) + 1 \in named  BY <1>2, <1>3, KindNames
<1>5. named = {Depth(u, o) + 1 : o \in A}  BY <1>2, <1>3, <1>4
<1>6. A = {} => ParentName(s) = <<>>  BY <1>5 DEF ParentName
<1>7. ASSUME A # {} PROVE ParentName(s) = FullName(u, Max(A))
  <2>1. Max(A) \in A /\ \A j \in A : j <= Max(A)  BY <1>0, <1>7, AroundFacts
  <2>2. Depth(u, Max(A)) + 1 \in named /\ named \in SUBSET Nat  BY <2>1, <1>0, <1>3, <1>4
  <2>3. ASSUME NEW k \in named PROVE k <= Depth(u, Max(A)) + 1
    <3>1. PICK o \in A : k = Depth(u, o) + 1  BY <1>5
    <3>2. o \in O /\ Max(A) \in O /\ Depth(u, o) \in Nat /\ Depth(u, Max(A)) \in Nat  BY <2>1, <1>2, <1>3
    <3>3. o = Max(A) \/ o < Max(A)
      <4>1. o \in Nat /\ Max(A) \in Nat  BY <3>2, <1>0, OpenFacts
      <4> QED  BY <4>1, <2>1
    <3>4. o < Max(A) => Depth(u, o) < Depth(u, Max(A))  BY <3>2, <1>0, OpenDepths
    <3> QED  BY <3>1, <3>2, <3>3, <3>4
  <2>4. Max(named) = Depth(u, Max(A)) + 1  BY <2>2, <2>3, MaxIs
  <2>5. s[Depth(u, Max(A)) + 1].name = FullName(u, Max(A))  BY <2>1, <1>2, <1>3
  <2> QED  BY <2>2, <2>4, <2>5 DEF ParentName
<1> QED  BY <1>0, <1>6, <1>7, FullNameGrows

-----------------------------------------------------------------------------
(* What of a scope has been seen, and when another entry changes it.         *)
LEMMA FunctionOfFacts ==
    ASSUME NEW u, HasUnit(u), NEW j \in 1..Len(Es(u))
    PROVE  /\ FunctionOf(u, j) = 0 \/ (FunctionOf(u, j) \in Ancestors(u, j) /\ Es(u)[FunctionOf(u, j)].tag = "subprogram")
           /\ \A i \in Ancestors(u, j) : Es(u)[i].tag = "subprogram" => i <= FunctionOf(u, j)
           /\ FunctionOf(u, j) \in Nat
<1> DEFINE T == {0} \cup {i \in Ancestors(u, j) : Es(u)[i].tag = "subprogram"}
<1>1. j \in Nat  BY UnitFacts
<1>2. ASSUME NEW i \in T PROVE i \in Nat /\ i <= j
  <2>1. i = 0 \/ i \in 1..j - 1  BY DEF Ancestors
  <2> QED  BY <2>1, <1>1
<1>3. T \in SUBSET Nat /\ T # {} /\ \A i \in T : i <= j
  <2>1. 0 \in T  OBVIOUS
  <2> HIDE DEF T
  <2> QED  BY <2>1, <1>2
<1>4. Max(T) \in T /\ \A i \in T : i <= Max(T)
  <2> HIDE DEF T
  <2> QED  BY <1>1, <1>3, Greatest
<1>5. FunctionOf(u, j) = Max(T)  BY DEF FunctionOf
<1> QED  BY <1>2, <1>4, <1>5

LEMMA PartsFacts ==
    ASSUME NEW u, HasUnit(u), NEW o \in 1..Len(Es(u))
    PROVE  /\ \A tag : Children(u, o, tag) \in SUBSET (o + 1..Len(Es(u)))
           /\ MembersOf(u, o) \in SUBSET (o + 1..Len(Es(u))) /\ BasesOf(u, o) \in SUBSET (o + 1..Len(Es(u)))
           /\ AliasesOf(u, o) \in SUBSET (o + 1..Len(Es(u)))
           /\ \A name : Declared(u, o, name) \in SUBSET (o + 1..Len(Es(u)))
<1>0. Len(Es(u)) \in Nat /\ DOMAIN Es(u) = 1..Len(Es(u))  BY UnitFacts
<1>1. \A tag : Children(u, o, tag) \in SUBSET (o + 1..Len(Es(u)))
  <2> SUFFICES ASSUME NEW tag, NEW j \in Children(u, o, tag) PROVE j \in o + 1..Len(Es(u))  OBVIOUS
  <2>1. j \in 1..Len(Es(u)) /\ j > o  BY <1>0 DEF Children
  <2> QED  BY <2>1, <1>0
<1>2. MembersOf(u, o) \in SUBSET (o + 1..Len(Es(u)))  BY <1>1 DEF MembersOf
<1>3. BasesOf(u, o) \in SUBSET (o + 1..Len(Es(u)))  BY <1>1 DEF BasesOf
<1>4. AliasesOf(u, o) \in SUBSET (o + 1..Len(Es(u)))  BY <1>1 DEF AliasesOf
<1>5. ASSUME NEW name, NEW j \in Declared(u, o, name) PROVE j \in o + 1..Len(Es(u))
  <2>1. j \in 1..Len(Es(u)) /\ FunctionOf(u, j) = o  BY <1>0 DEF Declared
  <2>5. o \in Ancestors(u, j)  BY <2>1, <1>0, FunctionOfFacts
  <2>6. o \in 1..j - 1  BY <2>5 DEF Ancestors
  <2> QED  BY <2>1, <2>6
<1> QED  BY <1>1, <1>2, <1>3, <1>4, <1>5

\* The part of what has been seen that a frame of its kind holds.
SameFor(u, o, a, b) ==
    /\ Es(u)[o].tag \in Composites \cup {"variant_part", "variant"} => a.members = b.members
    /\ Es(u)[o].tag \in Composites => a.bases = b.bases /\ a.aliases = b.aliases /\ a.parts = b.parts
    /\ Es(u)[o].tag = "variant_part" => a.variants = b.variants
    /\ Es(u)[o].tag = "subprogram" /\ ~Nested(u, o) => a.variables = b.variables

LEMMA FrameDepends ==
    ASSUME NEW L, NEW M, Extends(M, L), NEW u, NEW o, NEW a, NEW b, SameFor(u, o, a, b), NEW f, FrameHolds(L, u, o, a, f)
    PROVE  FrameHolds(M, u, o, b, f)
<1>1. \A r, v, i : IsRef(L, r, v, i) => IsRef(M, r, v, i)  BY DEF IsRef, Extends
<1>2. Es(u)[o].tag = "subprogram" => FunctionHolds(M, u, o, b, f.fr)
  <2> SUFFICES ASSUME Es(u)[o].tag = "subprogram" PROVE FunctionHolds(M, u, o, b, f.fr)  OBVIOUS
  <2>1. FunctionHolds(L, u, o, a, f.fr) /\ (~Nested(u, o) => a.variables = b.variables)  BY DEF FrameHolds, SameFor
  <2>2. \A S, v : VariableHolds(L, u, S, v) => VariableHolds(M, u, S, v)  BY <1>1 DEF VariableHolds
  <2>3. \A d, vs : VariablesHold(L, u, d, vs) => VariablesHold(M, u, d, vs)  BY <2>2 DEF VariablesHold
  <2> QED  BY <2>1, <2>3 DEF FunctionHolds
<1>3. Es(u)[o].tag \in Composites => CompositeHolds(M, u, o, b, f)
  <2> SUFFICES ASSUME Es(u)[o].tag \in Composites PROVE CompositeHolds(M, u, o, b, f)  OBVIOUS
  <2>1. /\ CompositeHolds(L, u, o, a, f)
        /\ a.members = b.members /\ a.bases = b.bases /\ a.aliases = b.aliases /\ a.parts = b.parts
    BY DEF FrameHolds, SameFor
  <2>2. \A S, s : ParentsHold(L, u, S, s) => ParentsHold(M, u, S, s)  BY <1>1 DEF ParentsHold
  <2>3. \A S, s : SubTypesHold(L, u, S, s) => SubTypesHold(M, u, S, s)  BY <1>1 DEF SubTypesHold
  <2> QED  BY <2>1, <2>2, <2>3, <1>1 DEF CompositeHolds
<1>4. Es(u)[o].tag = "variant_part" => VariantPartHolds(u, o, b, f)  BY DEF FrameHolds, SameFor, VariantPartHolds
<1>5. Es(u)[o].tag = "variant" => VariantHolds(o, b, f)  BY DEF FrameHolds, SameFor, VariantHolds
<1> QED  BY <1>2, <1>3, <1>4, <1>5 DEF FrameHolds

\* Entry `n` is something the frame of `o` holds.
Touches(u, o, n) ==
    \/ Es(u)[o].tag \in Composites \cup {"variant_part", "variant"} /\ n \in MembersOf(u, o)
    \/ Es(u)[o].tag \in Composites /\ n \in BasesOf(u, o) \cup AliasesOf(u, o)
    \/ Es(u)[o].tag = "subprogram" /\ ~Nested(u, o) /\ \E name \in Named : n \in Declared(u, o, name)

LEMMA TouchedBy ==
    ASSUME NEW u, NEW o, NEW n, Es(u)[n].tag \notin {"member", "inheritance", "typedef", "variable"}
    PROVE  ~Touches(u, o, n)
BY DEF Touches, MembersOf, BasesOf, AliasesOf, Children, Declared

LEMMA SeenNext ==
    ASSUME NEW u, HasUnit(u), NEW n \in 1..Len(Es(u)), NEW o \in 1..n - 1, ~Touches(u, o, n), NEW open, NEW open2,
           ParentOf(u, n) = o /\ Opens(u, n) => n \in open2, \A j \in 1..n - 1 : j \in open2 <=> j \in open
    PROVE  SameFor(u, o, Seen(u, o, n, open), Seen(u, o, n + 1, open2))
<1>0. Len(Es(u)) \in Nat /\ n \in Nat /\ o \in 1..Len(Es(u))  BY UnitFacts
<1> DEFINE P == o + 1..Len(Es(u))
<1>1. \A S \in SUBSET P : S \in SUBSET Nat
  <2>1. \A j \in P : j \in Nat  BY <1>0
  <2> QED  BY <2>1
<1>2. \A S \in SUBSET P : n \notin S => Before(S, n) = Before(S, n + 1)  BY <1>0, <1>1, BeforeNext
<1>3. ASSUME NEW S \in SUBSET P, n \in S => n \in open2 PROVE Before(S, n) \ open = Before(S, n + 1) \ open2
  <2>1. \A j \in S : j \in 1..n - 1 <=> j < n  BY <1>0
  <2>2. \A j \in Before(S, n) : j \in 1..n - 1  BY <2>1 DEF Before
  <2>3. n \notin Before(S, n)  BY <1>0 DEF Before
  <2>4. Before(S, n + 1) = IF n \in S THEN Before(S, n) \cup {n} ELSE Before(S, n)  BY <1>0, <1>1, BeforeNext
  <2> QED  BY <2>2, <2>3, <2>4, <1>3
<1>4. /\ \A tag : Children(u, o, tag) \in SUBSET P
      /\ MembersOf(u, o) \in SUBSET P /\ BasesOf(u, o) \in SUBSET P /\ AliasesOf(u, o) \in SUBSET P
      /\ \A name : Declared(u, o, name) \in SUBSET P
  BY <1>0, PartsFacts
<1> DEFINE a == Seen(u, o, n, open)  b == Seen(u, o, n + 1, open2)
<1>5. Es(u)[o].tag \in Composites \cup {"variant_part", "variant"} => a.members = b.members
  BY <1>2, <1>4 DEF Touches, Seen
<1>6. Es(u)[o].tag \in Composites => a.bases = b.bases /\ a.aliases = b.aliases  BY <1>2, <1>4 DEF Touches, Seen
<1>7. Es(u)[o].tag \in Composites => a.parts = b.parts
  <2>1. Es(u)[o].tag \in Composites /\ n \in Children(u, o, "variant_part") => n \in open2
    BY DEF Children, Opens, Hosts, Scopes
  <2> QED  BY <2>1, <1>3, <1>4 DEF Seen
<1>8. Es(u)[o].tag = "variant_part" => a.variants = b.variants
  <2>1. Es(u)[o].tag = "variant_part" /\ n \in Children(u, o, "variant") => n \in open2
    BY DEF Children, Opens, Hosts, Scopes
  <2> QED  BY <2>1, <1>3, <1>4 DEF Seen
<1>9. Es(u)[o].tag = "subprogram" /\ ~Nested(u, o) => a.variables = b.variables
  <2> SUFFICES ASSUME Es(u)[o].tag = "subprogram", ~Nested(u, o) PROVE a.variables = b.variables  OBVIOUS
  <2>1. \A name \in Named : Before(Declared(u, o, name), n) = Before(Declared(u, o, name), n + 1)
    BY <1>2, <1>4 DEF Touches
  <2> QED  BY <2>1 DEF Seen
<1> QED  BY <1>5, <1>6, <1>7, <1>8, <1>9 DEF SameFor

Nothing == [members |-> {}, bases |-> {}, aliases |-> {}, parts |-> {}, variants |-> {},
            variables |-> [name \in Named |-> {}]]
LEMMA SeenNothing ==
    ASSUME NEW u, HasUnit(u), NEW n \in 1..Len(Es(u)), NEW open PROVE SameFor(u, n, Nothing, Seen(u, n, n + 1, open))
<1>0. Len(Es(u)) \in Nat /\ n \in Nat  BY UnitFacts
<1>1. \A S \in SUBSET (n + 1..Len(Es(u))) : Before(S, n + 1) = {}
  <2>1. \A j \in n + 1..Len(Es(u)) : ~(j < n + 1)  BY <1>0
  <2> QED  BY <2>1 DEF Before
<1>2. /\ \A tag : Before(Children(u, n, tag), n + 1) = {}
      /\ Before(MembersOf(u, n), n + 1) = {} /\ Before(BasesOf(u, n), n + 1) = {} /\ Before(AliasesOf(u, n), n + 1) = {}
      /\ \A name : Before(Declared(u, n, name), n + 1) = {}
  BY <1>1, PartsFacts
<1> QED  BY <1>2 DEF SameFor, Seen, Nothing

\* A scope that an entry that is no deeper ends: nothing of it is left.
LEMMA SeenAll ==
    ASSUME NEW u, HasUnit(u), NEW n \in 1..Len(Es(u)), NEW q \in 1..n - 1, Depth(u, n) <= Depth(u, q),
           NEW open, \A j \in open : j <= q
    PROVE  SameFor(u, q, Seen(u, q, n, open), All(u, q))
<1>0. Len(Es(u)) \in Nat /\ n \in Nat /\ q \in 1..Len(Es(u)) /\ \A j \in 1..Len(Es(u)) : Depth(u, j) \in Nat
  BY UnitFacts
<1>1. ASSUME NEW j \in q + 1..Len(Es(u)), q \in Ancestors(u, j) PROVE j < n
  <2>1. j \in 1..Len(Es(u))  BY <1>0
  <2>2. \A k \in q + 1..j : Depth(u, k) > Depth(u, q)  BY <2>1, <1>1, AncestorFacts
  <2>3. n \notin q + 1..j  BY <2>2, <1>0
  <2> QED  BY <2>3, <2>1, <1>0
<1>2. ASSUME NEW j \in q + 1..Len(Es(u)), ParentOf(u, j) = q PROVE j < n
  <2>1. j \in 2..Len(Es(u))  BY <1>0
  <2>2. q \in Ancestors(u, j)  BY <2>1, <1>2, ParentFacts
  <2> QED  BY <2>2, <1>1
<1>3. \A tag : \A j \in Children(u, q, tag) : j < n  BY <1>0, <1>2, PartsFacts DEF Children
<1>4. \A tag : Before(Children(u, q, tag), n) \ open = Children(u, q, tag)
  <2>1. \A j \in open : ~(j \in q + 1..Len(Es(u)))
    <3>1. \A j \in q + 1..Len(Es(u)) : ~(j <= q)  BY <1>0
    <3> QED  BY <3>1
  <2>2. \A tag : \A j \in Children(u, q, tag) : j \notin open  BY <2>1, <1>0, PartsFacts
  <2> QED  BY <2>2, <1>3 DEF Before
<1>5. Before(MembersOf(u, q), n) = MembersOf(u, q) /\ Before(BasesOf(u, q), n) = BasesOf(u, q)
      /\ Before(AliasesOf(u, q), n) = AliasesOf(u, q)
  BY <1>3 DEF Before, MembersOf, BasesOf, AliasesOf
<1>6. \A name \in Named : Before(Declared(u, q, name), n) = Declared(u, q, name)
  <2> SUFFICES ASSUME NEW name, NEW j \in Declared(u, q, name) PROVE j < n  BY DEF Before
  <2>1. j \in q + 1..Len(Es(u)) /\ FunctionOf(u, j) = q  BY <1>0, PartsFacts DEF Declared
  <2>6. q \in Ancestors(u, j)  BY <2>1, <1>0, FunctionOfFacts
  <2> QED  BY <2>1, <2>6, <1>1
<1> QED  BY <1>4, <1>5, <1>6 DEF SameFor, Seen, All

-----------------------------------------------------------------------------
(* The frames, as the stack is kept, pushed to and popped.                   *)
LEMMA FramesAdvance ==
    ASSUME NEW L, NEW M, Extends(M, L), NEW u, HasUnit(u), NEW n \in 2..Len(Es(u)), NEW s, Stack(s),
           NEW t, Len(t) = Len(s), Len(s) <= Depth(u, n), Len(s) = Depth(u, n) => ~Opens(u, n),
           Shape(u, n, Len(s)), FramesHold(L, u, n, s),
           \A o \in OpenAt(u, n, Len(s)) :
              \/ ~Touches(u, o, n) /\ t[Depth(u, o) + 1] = s[Depth(u, o) + 1]
              \/ FrameHolds(M, u, o, Seen(u, o, n + 1, OpenAt(u, n, Len(s))), t[Depth(u, o) + 1])
    PROVE  FramesHold(M, u, n + 1, t)
<1> DEFINE h == Len(s)  O == OpenAt(u, n, h)
<1>1. h \in Nat  BY StackFacts
<1>2. OpenAt(u, n + 1, h) = O  BY <1>1, ShapeAdvances
<1>3. n + 1 # 1 /\ n \in 1..Len(Es(u)) /\ n \in 1..Len(Es(u)) + 1 /\ \A j \in 1..Len(Es(u)) : Depth(u, j) \in Nat
  BY UnitFacts
<1>4. ASSUME NEW o \in O PROVE FrameHolds(M, u, o, Seen(u, o, n + 1, O), t[Depth(u, o) + 1])
  <2>1. CASE ~Touches(u, o, n) /\ t[Depth(u, o) + 1] = s[Depth(u, o) + 1]
    <3>1. o \in 1..n - 1 /\ Depth(u, o) \in Nat /\ Depth(u, o) < h  BY <1>3, OpenFacts
    <3>2. ~(ParentOf(u, n) = o /\ Opens(u, n))
      <4> SUFFICES ASSUME ParentOf(u, n) = o, Opens(u, n) PROVE FALSE  OBVIOUS
      <4>1. Depth(u, o) = Depth(u, n) - 1  BY ParentFacts
      <4>2. Depth(u, n) \in Nat  BY <1>3
      <4> QED  BY <4>1, <4>2, <3>1, <1>1
    <3>3. SameFor(u, o, Seen(u, o, n, O), Seen(u, o, n + 1, O))  BY <2>1, <3>1, <3>2, <1>3, SeenNext
    <3>4. FrameHolds(L, u, o, Seen(u, o, n, O), s[Depth(u, o) + 1])  BY DEF FramesHold
    <3> QED  BY <2>1, <3>3, <3>4, FrameDepends
  <2>2. CASE FrameHolds(M, u, o, Seen(u, o, n + 1, O), t[Depth(u, o) + 1])  BY <2>2
  <2> QED  BY <2>1, <2>2
<1> QED  BY <1>2, <1>3, <1>4 DEF FramesHold

LEMMA FramesPushed ==
    ASSUME NEW L, NEW M, Extends(M, L), NEW u, HasUnit(u), NEW n \in 1..Len(Es(u)), NEW s, Stack(s),
           Len(s) = Depth(u, n), Opens(u, n), Shape(u, n, Len(s)), FramesHold(L, u, n, s),
           NEW f, FrameHolds(M, u, n, Nothing, f)
    PROVE  FramesHold(M, u, n + 1, Append(s, f))
<1> DEFINE h == Len(s)  O == OpenAt(u, n, h)  t == Append(s, f)
<1>1. h \in Nat /\ Len(t) = h + 1 /\ t[h + 1] = f /\ \A k \in 1..h : t[k] = s[k]  BY StackFacts, AppendFacts
<1> HIDE DEF t
<1>2. OpenAt(u, n + 1, h + 1) = O \cup {n}  BY <1>1, ShapePushes
<1>3. /\ n \in Nat /\ n + 1 # 1 /\ n \in 1..Len(Es(u)) + 1 /\ \A j \in 1..Len(Es(u)) : Depth(u, j) \in Nat
      /\ n \notin O
  BY UnitFacts DEF OpenAt
<1>4. ASSUME NEW o \in O PROVE FrameHolds(M, u, o, Seen(u, o, n + 1, O \cup {n}), t[Depth(u, o) + 1])
  <2>1. o \in 1..n - 1 /\ Depth(u, o) \in Nat /\ Depth(u, o) < h  BY <1>3, OpenFacts
  <2>2. ~Touches(u, o, n)
    <3>1. Es(u)[n].tag \notin {"member", "inheritance", "typedef", "variable"}  BY DEF Opens, Scopes, Composites
    <3> QED  BY <3>1, TouchedBy
  <2>3. \A j \in 1..n - 1 : j \in O \cup {n} <=> j \in O  BY <1>3
  <2>4. SameFor(u, o, Seen(u, o, n, O), Seen(u, o, n + 1, O \cup {n}))  BY <2>1, <2>2, <2>3, SeenNext
  <2>5. FrameHolds(L, u, o, Seen(u, o, n, O), s[Depth(u, o) + 1])  BY DEF FramesHold
  <2>6. t[Depth(u, o) + 1] = s[Depth(u, o) + 1]  BY <2>1, <1>1
  <2> QED  BY <2>4, <2>5, <2>6, FrameDepends
<1>5. FrameHolds(M, u, n, Seen(u, n, n + 1, O \cup {n}), t[Depth(u, n) + 1])
  <2>1. SameFor(u, n, Nothing, Seen(u, n, n + 1, O \cup {n}))  BY SeenNothing
  <2>2. Extends(M, M)  BY DEF Extends
  <2> QED  BY <2>1, <2>2, <1>1, FrameDepends
<1> QED  BY <1>1, <1>2, <1>3, <1>4, <1>5 DEF FramesHold, t

\* The open scope of the frame on top.
LEMMA LastOpen ==
    ASSUME NEW u, HasUnit(u), NEW n \in 2..Len(Es(u)) + 1, NEW h \in Nat, h > 0, Shape(u, n, h)
    PROVE  \E q \in OpenAt(u, n, h) :
              /\ Depth(u, q) = h - 1 /\ \A o \in OpenAt(u, n, h) : o <= q /\ (o # q => o \in Ancestors(u, q))
              /\ OpenAt(u, n, h - 1) = OpenAt(u, n, h) \ {q}
<1>0. n # 1 /\ n \in 1..Len(Es(u)) + 1 /\ h \in 1..h /\ Len(Es(u)) \in Nat  BY UnitFacts
<1>1. PICK q \in OpenAt(u, n, h) : Depth(u, q) = h - 1  BY <1>0 DEF Shape
<1>2. ASSUME NEW o \in OpenAt(u, n, h) PROVE o <= q /\ (o # q => o \in Ancestors(u, q)) /\ (o # q => Depth(u, o) # h - 1)
  <2>1. o \in 1..n - 1 /\ q \in 1..n - 1 /\ Depth(u, o) \in Nat /\ Depth(u, o) < h  BY <1>0, OpenFacts
  <2>2. ~(q < o)
    <3>1. q < o => Depth(u, q) < Depth(u, o)  BY <1>0, OpenDepths
    <3> QED  BY <3>1, <2>1, <1>1
  <2>3. o < q => o \in Ancestors(u, q) /\ Depth(u, o) < Depth(u, q)  BY <1>0, OpenDepths
  <2> QED  BY <2>1, <2>2, <2>3, <1>1
<1>3. OpenAt(u, n, h - 1) = {o \in OpenAt(u, n, h) : Depth(u, o) # h - 1}  BY <1>0, OpenPopped
<1>4. OpenAt(u, n, h - 1) = OpenAt(u, n, h) \ {q}  BY <1>1, <1>2, <1>3
<1> QED  BY <1>1, <1>2, <1>4

\* Scope `q` ends: it is a variant, or a list of variants, of the one around it.
Completes(u, o, q) ==
    /\ ParentOf(u, q) = o
    /\ \/ Es(u)[o].tag \in Composites /\ Es(u)[q].tag = "variant_part"
       \/ Es(u)[o].tag = "variant_part" /\ Es(u)[q].tag = "variant"
LEMMA SeenPopped ==
    ASSUME NEW u, NEW o, NEW q, ~Completes(u, o, q), NEW n, NEW open, q \in open
    PROVE  SameFor(u, o, Seen(u, o, n, open), Seen(u, o, n, open \ {q}))
<1>1. Es(u)[o].tag \in Composites => q \notin Before(Children(u, o, "variant_part"), n)
  BY DEF Completes, Before, Children
<1>2. Es(u)[o].tag = "variant_part" => q \notin Before(Children(u, o, "variant"), n)
  BY DEF Completes, Before, Children
<1>3. \A S : q \notin S => S \ open = S \ (open \ {q})  OBVIOUS
<1> QED  BY <1>1, <1>2, <1>3 DEF SameFor, Seen

LEMMA FramesPopped ==
    ASSUME NEW L, NEW u, HasUnit(u), NEW n \in 1..Len(Es(u)), NEW s, Stack(s), Len(s) > 0, Shape(u, n, Len(s)),
           FramesHold(L, u, n, s), NEW t, Stack(t), Len(t) = Len(s) - 1,
           n = 1 => \A k \in 1..Len(s) - 1 : t[k] = s[k],
           \A q \in OpenAt(u, n, Len(s)) : \A o \in OpenAt(u, n, Len(s)) \ {q} : Depth(u, q) = Len(s) - 1 =>
              \/ ~Completes(u, o, q) /\ t[Depth(u, o) + 1] = s[Depth(u, o) + 1]
              \/ FrameHolds(L, u, o, Seen(u, o, n, OpenAt(u, n, Len(s)) \ {q}), t[Depth(u, o) + 1])
    PROVE  FramesHold(L, u, n, t)
<1> DEFINE h == Len(s)
<1>1. h \in Nat /\ DOMAIN s = 1..h /\ DOMAIN t = 1..h - 1  BY StackFacts
<1>2. CASE n = 1
  <2>1. OpenAt(u, n, Len(t)) = {}  BY <1>2, ShapeFirst
  <2>2. \A k \in DOMAIN t : t[k] = Root
    <3>1. \A k \in DOMAIN t : k \in DOMAIN s /\ t[k] = s[k]  BY <1>1, <1>2
    <3> QED  BY <3>1, <1>2 DEF FramesHold
  <2> QED  BY <2>1, <2>2 DEF FramesHold
<1>3. CASE n # 1
  <2>1. n \in 2..Len(Es(u)) + 1  BY <1>3, UnitFacts
  <2>2. PICK q \in OpenAt(u, n, h) : Depth(u, q) = h - 1 /\ OpenAt(u, n, h - 1) = OpenAt(u, n, h) \ {q}
    BY <2>1, <1>1, LastOpen
  <2>3. ASSUME NEW o \in OpenAt(u, n, h) \ {q}
        PROVE  FrameHolds(L, u, o, Seen(u, o, n, OpenAt(u, n, h) \ {q}), t[Depth(u, o) + 1])
    <3>1. CASE ~Completes(u, o, q) /\ t[Depth(u, o) + 1] = s[Depth(u, o) + 1]
      <4>1. SameFor(u, o, Seen(u, o, n, OpenAt(u, n, h)), Seen(u, o, n, OpenAt(u, n, h) \ {q}))
        BY <3>1, SeenPopped
      <4>2. FrameHolds(L, u, o, Seen(u, o, n, OpenAt(u, n, h)), s[Depth(u, o) + 1])  BY DEF FramesHold
      <4>3. Extends(L, L)  BY DEF Extends
      <4> QED  BY <3>1, <4>1, <4>2, <4>3, FrameDepends
    <3> QED  BY <3>1, <2>2
  <2> QED  BY <2>2, <2>3, <1>3 DEF FramesHold
<1> QED  BY <1>2, <1>3

-----------------------------------------------------------------------------
(* The types, as entries are read and scopes end.                            *)
LEMMA TypeHoldsGrows ==
    ASSUME NEW L, NEW M, Extends(M, L), NEW u, NEW i, NEW t, TypeHolds(L, u, i, t) PROVE TypeHolds(M, u, i, t)
<1>1. \A r, v, j : IsRef(L, r, v, j) => IsRef(M, r, v, j)  BY DEF IsRef, Extends
<1>2. SameFor(u, i, All(u, i), All(u, i))  BY DEF SameFor
<1>3. \A f : FrameHolds(L, u, i, All(u, i), f) => FrameHolds(M, u, i, All(u, i), f)  BY <1>2, FrameDepends
<1> QED  BY <1>1, <1>3 DEF TypeHolds

LEMMA TypesAdvance ==
    ASSUME NEW L, NEW M, Extends(M, L), Table(M), NEW T, NEW T2, NEW u \in Nat, NEW n \in Nat, NEW h, NEW h2,
           TypesHold(L, T, u, n, h), OpenAt(u, n, h) \subseteq OpenAt(u, n + 1, h2),
           \A r \in DOMAIN L : M[r] # <<u, n>> => T2[r] = T[r],
           \A r \in DOMAIN M \ DOMAIN L : M[r] # <<u, n>> => T2[r] = None,
           IsType(u, n) => \E r : /\ IsRef(M, r, u, n)
                                  /\ (Es(u)[n].tag \in Composites => HasEnded(u, n + 1, h2, u, n)) => TypeHolds(M, u, n, T2[r])
    PROVE  TypesHold(M, T2, u, n + 1, h2)
<1>1. ASSUME NEW v \in 1..u, NEW i \in 1..Len(Es(v)), v < u \/ i < n + 1, IsType(v, i)
      PROVE  \E r : IsRef(M, r, v, i)
                    /\ ((Es(v)[i].tag \in Composites => HasEnded(u, n + 1, h2, v, i)) => TypeHolds(M, v, i, T2[r]))
  <2>1. CASE v = u /\ i = n  BY <2>1, <1>1
  <2>2. CASE ~(v = u /\ i = n)
    <3>0. v \in Nat  OBVIOUS
    <3>1. v < u \/ (v = u /\ i < n)
      <4>1. CASE v < u  BY <4>1
      <4>2. CASE ~(v < u)
        <5>1. v = u  BY <4>2, <3>0
        <5>2. i \in 1..Len(Es(u)) /\ i # n /\ i < n + 1  BY <5>1, <4>2, <2>2, <1>1
        <5>3. i \in Int  BY <5>2
        <5> QED  BY <5>1, <5>2, <5>3
      <4> QED  BY <4>1, <4>2
    <3>2. PICK r : IsRef(L, r, v, i)
                   /\ ((Es(v)[i].tag \in Composites => HasEnded(u, n, h, v, i)) => TypeHolds(L, v, i, T[r]))
      BY <3>1, <1>1 DEF TypesHold
    <3>3. IsRef(M, r, v, i)  BY <3>2 DEF IsRef, Extends
    <3>4. T2[r] = T[r]
      <4>1. M[r] # <<u, n>>  BY <3>3, <2>2 DEF IsRef
      <4> QED  BY <4>1, <3>2 DEF IsRef
    <3>5. HasEnded(u, n + 1, h2, v, i) => HasEnded(u, n, h, v, i)  BY <3>1 DEF HasEnded
    <3> QED  BY <3>2, <3>3, <3>4, <3>5, TypeHoldsGrows
  <2> QED  BY <2>1, <2>2
<1>2. ASSUME NEW r \in DOMAIN M, T2[r] # None PROVE M[r][1] < u \/ (M[r][1] = u /\ M[r][2] < n + 1)
  <2>1. CASE M[r] = <<u, n>>  BY <2>1
  <2>2. CASE M[r] # <<u, n>>
    <3>1. r \in DOMAIN L /\ T2[r] = T[r] /\ M[r] = L[r]  BY <2>2, <1>2 DEF Extends
    <3>2. L[r][1] < u \/ (L[r][1] = u /\ L[r][2] < n)  BY <3>1, <1>2 DEF TypesHold
    <3>3. M[r] \in Nat \X Nat  BY DEF Table
    <3> QED  BY <3>1, <3>2, <3>3
  <2> QED  BY <2>1, <2>2
<1> QED  BY <1>1, <1>2 DEF TypesHold

LEMMA TypesPopped ==
    ASSUME NEW L, NEW T, NEW T2, NEW u \in Nat, NEW n \in Nat, NEW q, q < n, NEW h, NEW h2, TypesHold(L, T, u, n, h),
           OpenAt(u, n, h) \ {q} \subseteq OpenAt(u, n, h2), \A r \in DOMAIN L : L[r] # <<u, q>> => T2[r] = T[r],
           IsType(u, q) /\ q \in OpenAt(u, n, h) => \E r : IsRef(L, r, u, q) /\ TypeHolds(L, u, q, T2[r]),
           q \notin OpenAt(u, n, h) => T2 = T
    PROVE  TypesHold(L, T2, u, n, h2)
<1>1. ASSUME NEW v \in 1..u, NEW i \in 1..Len(Es(v)), v < u \/ i < n, IsType(v, i)
      PROVE  \E r : IsRef(L, r, v, i)
                    /\ ((Es(v)[i].tag \in Composites => HasEnded(u, n, h2, v, i)) => TypeHolds(L, v, i, T2[r]))
  <2>1. CASE v = u /\ i = q /\ q \in OpenAt(u, n, h)  BY <2>1, <1>1
  <2>2. CASE ~(v = u /\ i = q /\ q \in OpenAt(u, n, h))
    <3>1. PICK r : IsRef(L, r, v, i)
                   /\ ((Es(v)[i].tag \in Composites => HasEnded(u, n, h, v, i)) => TypeHolds(L, v, i, T[r]))
      BY <1>1 DEF TypesHold
    <3>2. T2[r] = T[r]
      <4>1. CASE q \notin OpenAt(u, n, h)  BY <4>1
      <4>2. CASE q \in OpenAt(u, n, h)  BY <4>2, <2>2, <3>1 DEF IsRef
      <4> QED  BY <4>1, <4>2
    <3>3. HasEnded(u, n, h2, v, i) => HasEnded(u, n, h, v, i)  BY <2>2 DEF HasEnded
    <3> QED  BY <3>1, <3>2, <3>3
  <2> QED  BY <2>1, <2>2
<1>2. ASSUME NEW r \in DOMAIN L, T2[r] # None PROVE L[r][1] < u \/ (L[r][1] = u /\ L[r][2] < n)
  <2>1. CASE L[r] = <<u, q>>  BY <2>1
  <2>2. CASE L[r] # <<u, q>>  BY <2>2, <1>2 DEF TypesHold
  <2> QED  BY <2>1, <2>2
<1> QED  BY <1>1, <1>2 DEF TypesHold

LEMMA ClosedEnds ==
    ASSUME NEW u, HasUnit(u), NEW h, NEW i \in 1..Len(Es(u)), Closed(u, i) PROVE i \notin OpenAt(u, Len(Es(u)) + 1, h)
<1>1. Len(Es(u)) \in Nat /\ \A j \in 1..Len(Es(u)) : Depth(u, j) \in Nat  BY UnitFacts
<1>2. PICK k \in i + 1..Len(Es(u)) : Depth(u, k) <= Depth(u, i)  BY DEF Closed, Depth
<1>3. k \in i + 1..(Len(Es(u)) + 1) - 1 /\ k \in 1..Len(Es(u))  BY <1>1
<1> QED  BY <1>1, <1>2, <1>3 DEF OpenAt, Unclosed

LEMMA TypesNextUnit ==
    ASSUME NEW L, Table(L), NEW T, NEW u, HasUnit(u), NEW h, NEW h2, TypesHold(L, T, u, Len(Es(u)) + 1, h)
    PROVE  TypesHold(L, T, u + 1, 1, h2)
<1>0. u \in Nat /\ Len(Es(u)) \in Nat  BY UnitFacts
<1>1. ASSUME NEW v \in 1..u + 1, NEW i \in 1..Len(Es(v)), v < u + 1 \/ i < 1, IsType(v, i)
      PROVE  \E r : IsRef(L, r, v, i)
                    /\ ((Es(v)[i].tag \in Composites => HasEnded(u + 1, 1, h2, v, i)) => TypeHolds(L, v, i, T[r]))
  <2>1. v \in 1..u /\ v < u + 1
    <3>1. ~(i < 1)  OBVIOUS
    <3> QED  BY <3>1, <1>0, <1>1
  <2>2. v < u \/ (v = u /\ i < Len(Es(u)) + 1)
    <3>1. CASE v = u  BY <3>1, <1>0
    <3>2. CASE v # u  BY <3>2, <2>1, <1>0
    <3> QED  BY <3>1, <3>2
  <2>3. PICK r : IsRef(L, r, v, i)
                 /\ ((Es(v)[i].tag \in Composites => HasEnded(u, Len(Es(u)) + 1, h, v, i)) => TypeHolds(L, v, i, T[r]))
    BY <2>1, <2>2, <1>1 DEF TypesHold
  <2>4. HasEnded(u + 1, 1, h2, v, i) => Closed(v, i)  BY <2>1 DEF HasEnded
  <2>5. Closed(v, i) => HasEnded(u, Len(Es(u)) + 1, h, v, i)  BY <2>2, ClosedEnds DEF HasEnded
  <2> QED  BY <2>3, <2>4, <2>5
<1>2. ASSUME NEW r \in DOMAIN L, T[r] # None PROVE L[r][1] < u + 1
  <2>1. L[r][1] < u \/ L[r][1] = u  BY <1>2 DEF TypesHold
  <2>2. L[r] \in Nat \X Nat  BY DEF Table
  <2> QED  BY <2>1, <2>2, <1>0
<1> QED  BY <1>1, <1>2 DEF TypesHold

-----------------------------------------------------------------------------
(* The functions.                                                            *)
LEMMA EntriesAre ==
    ASSUME NEW p \in AllEntries PROVE p[1] \in DOMAIN dwarf /\ p[2] \in DOMAIN Es(p[1]) /\ p = <<p[1], p[2]>>
BY DEF AllEntries

LEMMA FunctionHoldsGrows ==
    ASSUME NEW L, NEW M, Extends(M, L), NEW u, NEW o, NEW seen, NEW fr, FunctionHolds(L, u, o, seen, fr)
    PROVE  FunctionHolds(M, u, o, seen, fr)
<1>1. \A r, v, i : IsRef(L, r, v, i) => IsRef(M, r, v, i)  BY DEF IsRef, Extends
<1>2. \A S, v : VariableHolds(L, u, S, v) => VariableHolds(M, u, S, v)  BY <1>1 DEF VariableHolds
<1>3. \A d, vs : VariablesHold(L, u, d, vs) => VariablesHold(M, u, d, vs)  BY <1>2 DEF VariablesHold
<1> QED  BY <1>3 DEF FunctionHolds

LEMMA FunctionsSame ==
    ASSUME NEW L, NEW M, Extends(M, L), NEW F, NEW u, NEW n, NEW h, NEW w, NEW m, NEW g,
           FunctionsHold(L, F, u, n, h),
           \A p \in AllEntries : IsFunction(p[1], p[2]) => (HasEnded(w, m, g, p[1], p[2]) <=> HasEnded(u, n, h, p[1], p[2]))
    PROVE  FunctionsHold(M, F, w, m, g)
<1>1. \A name : EndedAs(w, m, g, name) = EndedAs(u, n, h, name)  BY DEF EndedAs
<1>2. \A p, fr : FunctionHolds(L, p[1], p[2], All(p[1], p[2]), fr) => FunctionHolds(M, p[1], p[2], All(p[1], p[2]), fr)
  BY FunctionHoldsGrows
<1> QED  BY <1>1, <1>2 DEF FunctionsHold

LEMMA FunctionsAdvance ==
    ASSUME NEW L, NEW M, Extends(M, L), NEW F, NEW u, NEW n \in Nat, NEW h, NEW h2, FunctionsHold(L, F, u, n, h),
           IsFunction(u, n) => n \in OpenAt(u, n + 1, h2),
           HasUnit(u), \A j \in 1..n - 1 : j \in OpenAt(u, n + 1, h2) <=> j \in OpenAt(u, n, h)
    PROVE  FunctionsHold(M, F, u, n + 1, h2)
<1>1. ASSUME NEW p \in AllEntries, IsFunction(p[1], p[2])
      PROVE  HasEnded(u, n + 1, h2, p[1], p[2]) <=> HasEnded(u, n, h, p[1], p[2])
  <2>1. CASE p[1] # u  BY <2>1 DEF HasEnded
  <2>2. CASE p[1] = u
    <3>1. p[2] \in 1..Len(Es(u)) /\ Len(Es(u)) \in Nat /\ u \in Nat  BY <2>2, EntriesAre, UnitFacts
    <3>2. p[2] = n => n \in OpenAt(u, n + 1, h2)  BY <2>2, <1>1
    <3>3. p[2] < n + 1 <=> p[2] < n \/ p[2] = n  BY <3>1
    <3>4. p[2] < n => p[2] \in 1..n - 1  BY <3>1
    <3>5. ~(p[2] < n /\ p[2] = n)  BY <3>1
    <3> QED  BY <2>2, <3>1, <3>2, <3>3, <3>4, <3>5 DEF HasEnded
  <2> QED  BY <2>1, <2>2
<1> QED  BY <1>1, FunctionsSame

LEMMA FunctionsKept ==
    ASSUME NEW L, NEW F, NEW u, NEW n, NEW h, NEW h2, FunctionsHold(L, F, u, n, h), NEW q, ~IsFunction(u, q),
           OpenAt(u, n, h2) = OpenAt(u, n, h) \ {q}
    PROVE  FunctionsHold(L, F, u, n, h2)
<1>1. ASSUME NEW p \in AllEntries, IsFunction(p[1], p[2])
      PROVE  HasEnded(u, n, h2, p[1], p[2]) <=> HasEnded(u, n, h, p[1], p[2])
  BY <1>1 DEF HasEnded
<1>2. Extends(L, L)  BY DEF Extends
<1> QED  BY <1>1, <1>2, FunctionsSame

LEMMA FunctionsNextUnit ==
    ASSUME NEW L, NEW F, NEW u, HasUnit(u), NEW h, NEW h2, FunctionsHold(L, F, u, Len(Es(u)) + 1, h),
           Shape(u, Len(Es(u)) + 1, h)
    PROVE  FunctionsHold(L, F, u + 1, 1, h2)
<1>0. u \in Nat /\ Len(Es(u)) \in Nat /\ DOMAIN Es(u) = 1..Len(Es(u)) /\ \A j \in 1..Len(Es(u)) : Depth(u, j) \in Nat
  BY UnitFacts
<1>1. ASSUME NEW p \in AllEntries, IsFunction(p[1], p[2])
      PROVE  HasEnded(u + 1, 1, h2, p[1], p[2]) <=> HasEnded(u, Len(Es(u)) + 1, h, p[1], p[2])
  <2>0. HasUnit(p[1])  BY EntriesAre DEF HasUnit
  <2>1. p[1] \in Nat /\ p[2] \in 1..Len(Es(p[1]))  BY <2>0, EntriesAre, UnitFacts
  <2>2. CASE p[1] < u  BY <2>1, <2>2, <1>0 DEF HasEnded
  <2>3. CASE p[1] > u
    <3>1. ~(p[1] < u) /\ p[1] # u /\ ~(p[1] < u + 1) /\ ~(p[2] < 1)  BY <2>1, <2>3, <1>0
    <3> QED  BY <3>1 DEF HasEnded
  <2>4. CASE p[1] = u
    <3> DEFINE i == p[2]
    <3>1. i \in 1..Len(Es(u)) /\ i < Len(Es(u)) + 1 /\ Opens(u, i) /\ Visible(u, i)
      BY <2>1, <2>4, <1>0, <1>1 DEF IsFunction, Opens, Scopes, Hosts
    <3>2. HasEnded(u + 1, 1, h2, u, i) <=> Closed(u, i)  BY <1>0 DEF HasEnded
    <3>3. HasEnded(u, Len(Es(u)) + 1, h, u, i) <=> i \notin OpenAt(u, Len(Es(u)) + 1, h)  BY <3>1, <1>0 DEF HasEnded
    <3>4. Closed(u, i) => i \notin OpenAt(u, Len(Es(u)) + 1, h)  BY <3>1, ClosedEnds
    <3>5. ASSUME i \notin OpenAt(u, Len(Es(u)) + 1, h) PROVE Closed(u, i)
      <4>1. i \in 1..(Len(Es(u)) + 1) - 1 /\ ~(Len(Es(u)) + 1 <= Len(Es(u)))  BY <3>1, <1>0
      <4>2. ~Unclosed(u, Len(Es(u)) + 1, i)  BY <3>1, <3>5, <4>1 DEF Shape
      <4>3. PICK m \in i + 1..(Len(Es(u)) + 1) - 1 : ~(Depth(u, m) > Depth(u, i))  BY <4>2 DEF Unclosed
      <4>4. m \in i + 1..Len(Es(u)) /\ m \in 1..Len(Es(u))  BY <4>3, <3>1, <1>0
      <4>5. Depth(u, m) <= Depth(u, i)  BY <4>3, <4>4, <3>1, <1>0
      <4> QED  BY <4>4, <4>5 DEF Closed, Depth
    <3> QED  BY <2>4, <3>2, <3>3, <3>4, <3>5
  <2> QED  BY <2>1, <2>2, <2>3, <2>4, <1>0
<1>2. Extends(L, L)  BY DEF Extends
<1> QED  BY <1>1, <1>2, FunctionsSame

WithFunction(F, new, fr) == [name \in DOMAIN F \cup {new} |-> IF name = new THEN fr ELSE F[name]]
LEMMA FunctionsPopped ==
    ASSUME NEW L, NEW F, NEW u, HasUnit(u), NEW n \in 1..Len(Es(u)) + 1, NEW h, NEW h2, FunctionsHold(L, F, u, n, h),
           NEW q \in OpenAt(u, n, h), IsFunction(u, q), OpenAt(u, n, h2) = OpenAt(u, n, h) \ {q},
           NEW fr, FunctionHolds(L, u, q, All(u, q), fr), NEW new, new = FullName(u, q)
    PROVE  FunctionsHold(L, WithFunction(F, new, fr), u, n, h2)
<1> DEFINE G == WithFunction(F, new, fr)
           Was(name) == EndedAs(u, n, h, name)
           Is(name) == EndedAs(u, n, h2, name)
<1>1. q \in 1..n - 1 /\ q \in 1..Len(Es(u)) /\ Unclosed(u, n, q)  BY OpenFacts
<1>2. u \in Nat /\ Len(Es(u)) \in Nat /\ DOMAIN Es(u) = 1..Len(Es(u)) /\ u \in DOMAIN dwarf  BY UnitFacts DEF HasUnit
<1>3. <<u, q>> \in AllEntries  BY <1>1, <1>2 DEF AllEntries
<1>4. HasEnded(u, n, h2, u, q)  BY <1>1, <1>2 DEF HasEnded
<1>5. ASSUME NEW p \in AllEntries, p # <<u, q>>
      PROVE  HasEnded(u, n, h2, p[1], p[2]) <=> HasEnded(u, n, h, p[1], p[2])
  <2>1. ~(p[1] = u /\ p[2] = q)  BY <1>5, EntriesAre
  <2> QED  BY <2>1 DEF HasEnded
<1>6. \A name : name # new => Is(name) = Was(name)
  <2> SUFFICES ASSUME NEW name, name # new, NEW p \in AllEntries, IsFunction(p[1], p[2]), FullName(p[1], p[2]) = name
               PROVE  HasEnded(u, n, h2, p[1], p[2]) <=> HasEnded(u, n, h, p[1], p[2])
    BY DEF EndedAs
  <2>1. p # <<u, q>>  OBVIOUS
  <2> QED  BY <2>1, <1>5
<1>7. <<u, q>> \in Is(new)  BY <1>3, <1>4 DEF EndedAs
<1>8. ASSUME \A p \in Is(new) : ~Nested(p[1], p[2]) PROVE IsLast(<<u, q>>, Is(new))
  <2> SUFFICES ASSUME NEW p \in Is(new) PROVE p[1] < u \/ (p[1] = u /\ p[2] <= q)  BY <1>7 DEF IsLast
  <2>1. p \in AllEntries /\ IsFunction(p[1], p[2]) /\ HasEnded(u, n, h2, p[1], p[2])  BY DEF EndedAs
  <2>2. CASE p[1] = u
    <3>1. p[2] \in 1..Len(Es(u)) /\ p[2] \in DOMAIN Es(u) /\ p[2] < n  BY <2>1, <2>2, <1>2, EntriesAre DEF HasEnded
    <3>2. ASSUME p[2] > q PROVE FALSE
      <4>1. \A k \in q + 1..p[2] : Depth(u, k) > Depth(u, q)  BY <3>1, <1>1, <1>2 DEF Unclosed
      <4>2. q \in 1..p[2] - 1  BY <3>1, <3>2, <1>1
      <4>3. q \in Ancestors(u, p[2])  BY <4>1, <4>2, AncestorIf
      <4>4. Nested(u, q)  BY <4>3, <3>1, <2>1, <2>2 DEF Nested
      <4> QED  BY <4>4, <1>7, <1>8
    <3>3. p[2] \in Nat /\ q \in Nat  BY <3>1, <1>1
    <3> QED  BY <2>2, <3>2, <3>3
  <2>3. CASE p[1] # u  BY <2>1, <2>3 DEF HasEnded
  <2> QED  BY <2>2, <2>3
<1>9. G[new] = fr /\ DOMAIN G = DOMAIN F \cup {new} /\ \A name \in DOMAIN F : name # new => G[name] = F[name]
  BY DEF WithFunction
<1> HIDE DEF G, Is, Was
<1>10. ASSUME NEW name
       PROVE  /\ name \in DOMAIN G <=> Is(name) # {}
              /\ Is(name) # {} /\ (\A p \in Is(name) : ~Nested(p[1], p[2])) =>
                    \E p : IsLast(p, Is(name)) /\ FunctionHolds(L, p[1], p[2], All(p[1], p[2]), G[name])
  <2>1. CASE name = new
    <3> DEFINE p == <<u, q>>
    <3>1. p[1] = u /\ p[2] = q  OBVIOUS
    <3>2. FunctionHolds(L, p[1], p[2], All(p[1], p[2]), G[name])  BY <2>1, <3>1, <1>9
    <3>3. Is(name) # {} /\ name \in DOMAIN G  BY <2>1, <1>7, <1>9
    <3> QED  BY <2>1, <3>2, <3>3, <1>8
  <2>2. CASE name # new
    <3>1. /\ name \in DOMAIN F <=> Was(name) # {}
          /\ Was(name) # {} /\ (\A p \in Was(name) : ~Nested(p[1], p[2])) =>
                \E p : IsLast(p, Was(name)) /\ FunctionHolds(L, p[1], p[2], All(p[1], p[2]), F[name])
      BY DEF FunctionsHold, Was
    <3>2. Is(name) = Was(name) /\ (name \in DOMAIN G <=> name \in DOMAIN F)
          /\ (name \in DOMAIN F => G[name] = F[name])
      BY <2>2, <1>6, <1>9
    <3> QED  BY <3>1, <3>2
  <2> QED  BY <2>1, <2>2
<1> QED  BY <1>10 DEF FunctionsHold, G, Is

-----------------------------------------------------------------------------
(* One more base, name, place, variant or variable.                          *)
LEMMA ParentsAdd ==
    ASSUME NEW L, NEW M, Extends(M, L), NEW u, NEW S, FilePositions(S), NEW n \in Nat, \A j \in S : j < n,
           NEW s, ParentsHold(L, u, S, s), NEW r, IsRef(M, r, u, Es(u)[n].ty)
    PROVE  ParentsHold(M, u, S \cup {n}, Append(s, <<n, r>>))
<1> DEFINE D == DOMAIN InFileOrder(S)  order == InFileOrder(S \cup {n})  t == Append(s, <<n, r>>)
<1>0. s = [k \in D |-> <<InFileOrder(S)[k], s[k][2]>>] /\ \A k \in D : IsRef(L, s[k][2], u, Es(u)[InFileOrder(S)[k]].ty)
  BY DEF ParentsHold
<1>1. Lists(s, S) /\ Longer(t, s, <<n, r>>) /\ After(n, S)  BY <1>0 DEF Lists, Longer, After
<1> HIDE DEF t
<1>2. /\ Lists(t, S \cup {n}) /\ t[Cardinality(S) + 1] = <<n, r>> /\ \A k \in D : t[k] = s[k]
      /\ D = 1..Cardinality(S) /\ Cardinality(S) \in Nat
  <2>1. Lists(t, S \cup {n}) /\ Continues(t, s, <<n, r>>, S)  BY <1>1, ListAppends
  <2> QED  BY <2>1 DEF Continues
<1>3. /\ DOMAIN order = 1..Cardinality(S) + 1 /\ order[Cardinality(S) + 1] = n
      /\ \A k \in 1..Cardinality(S) : order[k] = InFileOrder(S)[k]
  BY OrderAppends
<1>4. \A k \in D : s[k] = <<InFileOrder(S)[k], s[k][2]>>  BY <1>0
<1> HIDE DEF D, order
<1>5. ASSUME NEW k \in DOMAIN order PROVE t[k] = <<order[k], t[k][2]>> /\ IsRef(M, t[k][2], u, Es(u)[order[k]].ty)
  <2>1. CASE k = Cardinality(S) + 1
    <3>1. t[k] = <<n, r>> /\ order[k] = n  BY <2>1, <1>2, <1>3
    <3>2. t[k][2] = r  BY <3>1
    <3> QED  BY <3>1, <3>2
  <2>2. CASE k # Cardinality(S) + 1
    <3>1. k \in 1..Cardinality(S) + 1 /\ Cardinality(S) \in Nat  BY <1>2, <1>3
    <3>2. k \in 1..Cardinality(S)  BY <3>1, <2>2
    <3>3. k \in D /\ t[k] = s[k] /\ order[k] = InFileOrder(S)[k]  BY <3>2, <1>2, <1>3
    <3> QED  BY <3>3, <1>0, <1>4 DEF IsRef, Extends
  <2> QED  BY <2>1, <2>2
<1>6. t = [k \in DOMAIN order |-> <<order[k], t[k][2]>>]  BY <1>2, <1>5 DEF Lists, order
<1> QED  BY <1>5, <1>6 DEF ParentsHold, order, t

WithName(s, new, r) == [name \in DOMAIN s \cup {new} |-> IF name = new THEN r ELSE s[name]]
LEMMA SubTypesAdd ==
    ASSUME NEW L, NEW M, Extends(M, L), NEW u, NEW S, FilePositions(S), NEW n \in Nat, \A j \in S : j < n,
           NEW s, SubTypesHold(L, u, S, s), NEW r, IsRef(M, r, u, n), NEW new, new = Es(u)[n].name
    PROVE  SubTypesHold(M, u, S \cup {n}, WithName(s, new, r))
<1> DEFINE t == WithName(s, new, r)
<1>1. DOMAIN s = NamesOf(u, S) /\ \A name \in NamesOf(u, S) : IsRef(L, s[name], u, LastNamed(u, S, name))
  BY DEF SubTypesHold
<1>2. NamesOf(u, S \cup {n}) = NamesOf(u, S) \cup {new}  BY DEF NamesOf
<1>3. DOMAIN t = NamesOf(u, S \cup {n}) /\ t = [name \in NamesOf(u, S \cup {n}) |-> t[name]]
      /\ t[new] = r /\ \A name \in DOMAIN s : name # new => t[name] = s[name]
  BY <1>1, <1>2 DEF WithName
<1> HIDE DEF t
<1>4. LastNamed(u, S \cup {n}, new) = n
  <2> DEFINE T == {j \in S \cup {n} : Es(u)[j].name = new}
  <2>1. n \in T /\ T \in SUBSET Nat /\ \A j \in T : j <= n
    <3>1. \A j \in T : j \in Nat /\ j <= n  BY DEF FilePositions
    <3> QED  BY <3>1
  <2> HIDE DEF T
  <2>2. Max(T) = n  BY <2>1, MaxIs
  <2> QED  BY <2>2 DEF LastNamed, T
<1>5. \A name : name # new => LastNamed(u, S \cup {n}, name) = LastNamed(u, S, name)
  <2> SUFFICES ASSUME NEW name, name # new PROVE LastNamed(u, S \cup {n}, name) = LastNamed(u, S, name)  OBVIOUS
  <2>1. {j \in S \cup {n} : Es(u)[j].name = name} = {j \in S : Es(u)[j].name = name}  OBVIOUS
  <2> QED  BY <2>1 DEF LastNamed
<1>6. \A name \in NamesOf(u, S \cup {n}) : IsRef(M, t[name], u, LastNamed(u, S \cup {n}, name))
  <2> SUFFICES ASSUME NEW name \in NamesOf(u, S \cup {n}) PROVE IsRef(M, t[name], u, LastNamed(u, S \cup {n}, name))
    OBVIOUS
  <2>1. CASE name = new  BY <2>1, <1>3, <1>4
  <2>2. CASE name # new
    <3>1. name \in DOMAIN s /\ IsRef(L, s[name], u, LastNamed(u, S, name))  BY <2>2, <1>1, <1>2
    <3> QED  BY <3>1, <2>2, <1>3, <1>5 DEF IsRef, Extends
  <2> QED  BY <2>1, <2>2
<1> QED  BY <1>3, <1>6 DEF SubTypesHold, t

LEMMA RangesAdd ==
    ASSUME NEW u, NEW S, FilePositions(S), NEW n \in Nat, \A j \in S : j < n
    PROVE  RangesOf(u, S \cup {n}) = Append(RangesOf(u, S), [pc_range |-> PcOf(u, ParentOf(u, n)), position |-> n])
<1> DEFINE D == DOMAIN InFileOrder(S)  order == InFileOrder(S \cup {n})
           at(j) == [pc_range |-> PcOf(u, ParentOf(u, j)), position |-> j]
           s == RangesOf(u, S)  t == Append(s, at(n))
<1>1. s = [k \in D |-> at(InFileOrder(S)[k])] /\ RangesOf(u, S \cup {n}) = [k \in DOMAIN order |-> at(order[k])]
  BY DEF RangesOf
<1> HIDE DEF s, at
<1>2. Lists(s, S) /\ Longer(t, s, at(n)) /\ After(n, S)  BY <1>1 DEF Lists, Longer, After
<1> HIDE DEF t
<1>3. /\ Lists(t, S \cup {n}) /\ t[Cardinality(S) + 1] = at(n) /\ \A k \in D : t[k] = s[k]
      /\ D = 1..Cardinality(S) /\ Cardinality(S) \in Nat
  <2>1. Lists(t, S \cup {n}) /\ Continues(t, s, at(n), S)  BY <1>2, ListAppends
  <2> QED  BY <2>1 DEF Continues
<1>4. /\ DOMAIN order = 1..Cardinality(S) + 1 /\ order[Cardinality(S) + 1] = n
      /\ \A k \in 1..Cardinality(S) : order[k] = InFileOrder(S)[k]
  BY OrderAppends
<1> HIDE DEF order, D
<1>5. \A k \in DOMAIN order : t[k] = at(order[k])
  <2>1. \A k \in DOMAIN order : k = Cardinality(S) + 1 \/ k \in 1..Cardinality(S)  BY <1>3, <1>4
  <2> QED  BY <2>1, <1>1, <1>3, <1>4
<1>6. t = RangesOf(u, S \cup {n})  BY <1>1, <1>3, <1>5 DEF Lists, order
<1> QED  BY <1>6 DEF t, s, at

LEMMA VariantsAdd ==
    ASSUME NEW u, NEW S, FilePositions(S), NEW n \in Nat, \A j \in S : j < n
    PROVE  VariantsOf(u, S \cup {n}) = Append(VariantsOf(u, S), [of |-> n, fields |-> Members(u, n)])
<1> DEFINE D == DOMAIN InFileOrder(S)  order == InFileOrder(S \cup {n})
           at(j) == [of |-> j, fields |-> Members(u, j)]
           s == VariantsOf(u, S)  t == Append(s, at(n))
<1>1. s = [k \in D |-> at(InFileOrder(S)[k])] /\ VariantsOf(u, S \cup {n}) = [k \in DOMAIN order |-> at(order[k])]
  BY DEF VariantsOf
<1> HIDE DEF s, at
<1>2. Lists(s, S) /\ Longer(t, s, at(n)) /\ After(n, S)  BY <1>1 DEF Lists, Longer, After
<1> HIDE DEF t
<1>3. /\ Lists(t, S \cup {n}) /\ t[Cardinality(S) + 1] = at(n) /\ \A k \in D : t[k] = s[k]
      /\ D = 1..Cardinality(S) /\ Cardinality(S) \in Nat
  <2>1. Lists(t, S \cup {n}) /\ Continues(t, s, at(n), S)  BY <1>2, ListAppends
  <2> QED  BY <2>1 DEF Continues
<1>4. /\ DOMAIN order = 1..Cardinality(S) + 1 /\ order[Cardinality(S) + 1] = n
      /\ \A k \in 1..Cardinality(S) : order[k] = InFileOrder(S)[k]
  BY OrderAppends
<1> HIDE DEF order, D
<1>5. \A k \in DOMAIN order : t[k] = at(order[k])
  <2>1. \A k \in DOMAIN order : k = Cardinality(S) + 1 \/ k \in 1..Cardinality(S)  BY <1>3, <1>4
  <2> QED  BY <2>1, <1>1, <1>3, <1>4
<1>6. t = VariantsOf(u, S \cup {n})  BY <1>1, <1>3, <1>5 DEF Lists, order
<1> QED  BY <1>6 DEF t, s, at

LEMMA RangesSet ==
    ASSUME NEW v, NEW R, v = [ty |-> v.ty, ranges |-> R], NEW Q
    PROVE  v.ranges = R /\ [v EXCEPT !.ranges = Q] = [ty |-> v.ty, ranges |-> Q]
<1>1. PICK t : v = [ty |-> t, ranges |-> R]  OBVIOUS
<1>2. v.ranges = R /\ v.ty = t  BY <1>1
<1>3. [[ty |-> t, ranges |-> R] EXCEPT !.ranges = Q] = [ty |-> t, ranges |-> Q]  OBVIOUS
<1> QED  BY <1>1, <1>2, <1>3

LEMMA VariablesAdd ==
    ASSUME NEW L, NEW M, Extends(M, L), NEW u, NEW d, NEW e, NEW n \in Nat, NEW new \in Named, FilePositions(d[new]),
           \A j \in d[new] : j < n, \A name \in Named : e[name] = IF name = new THEN d[name] \cup {n} ELSE d[name],
           NEW vs, VariablesHold(L, u, d, vs), NEW r, IsRef(M, r, u, Es(u)[n].ty)
    PROVE  VariablesHold(M, u, e, WithVariable(vs, new, r, [pc_range |-> PcOf(u, ParentOf(u, n)), position |-> n]))
<1> DEFINE range == [pc_range |-> PcOf(u, ParentOf(u, n)), position |-> n]
           ws == WithVariable(vs, new, r, range)
           some == {name \in Named : d[name] # {}}
<1> HIDE DEF range
<1>1. DOMAIN vs = some /\ \A name \in some : VariableHolds(L, u, d[name], vs[name])
  BY DEF VariablesHold
<1>2. {name \in Named : e[name] # {}} = some \cup {new}  OBVIOUS
<1>3. ws = [name \in some \cup {new} |->
              IF name # new THEN vs[name]
              ELSE IF name \in some THEN [vs[name] EXCEPT !.ranges = Append(@, range)]
              ELSE [ty |-> r, ranges |-> <<range>>]]
  BY <1>1 DEF WithVariable
<1> HIDE DEF ws, some
<1>4. \A name \in some : name # new => ws[name] = vs[name]  BY <1>3
<1>5. ws[new] = IF new \in some THEN [vs[new] EXCEPT !.ranges = Append(@, range)] ELSE [ty |-> r, ranges |-> <<range>>]
  BY <1>3
<1>6. VariableHolds(M, u, d[new] \cup {n}, ws[new])
  <2>1. RangesOf(u, d[new] \cup {n}) = Append(RangesOf(u, d[new]), range)  BY RangesAdd DEF range
  <2>2. InFileOrder(d[new] \cup {n})[1] = IF d[new] = {} THEN n ELSE InFileOrder(d[new])[1]  BY FirstKept
  <2>3. CASE new \in some
    <3>1. vs[new] = [ty |-> vs[new].ty, ranges |-> RangesOf(u, d[new])]
          /\ IsRef(L, vs[new].ty, u, Es(u)[InFileOrder(d[new])[1]].ty)
      BY <2>3, <1>1 DEF VariableHolds
    <3> DEFINE v == vs[new]  R == RangesOf(u, d[new])  Q == Append(R, range)
    <3>2. v.ranges = R /\ [v EXCEPT !.ranges = Q] = [ty |-> v.ty, ranges |-> Q]  BY <3>1, RangesSet
    <3>3. ws[new] = [v EXCEPT !.ranges = Append(v.ranges, range)]  BY <2>3, <1>5
    <3>4. ws[new] = [ty |-> v.ty, ranges |-> RangesOf(u, d[new] \cup {n})]  BY <3>2, <3>3, <2>1
    <3>5. ws[new].ty = v.ty  BY <3>4
    <3>6. d[new] # {}  BY <2>3 DEF some
    <3>7. IsRef(M, v.ty, u, Es(u)[InFileOrder(d[new] \cup {n})[1]].ty)  BY <3>1, <3>6, <2>2 DEF IsRef, Extends
    <3> QED  BY <3>4, <3>5, <3>7 DEF VariableHolds
  <2>4. CASE new \notin some
    <3>1. d[new] = {}  BY <2>4 DEF some
    <3>2. RangesOf(u, {}) = <<>>
      <4>1. InFileOrder({}) = <<>>  BY OrderEmpty
      <4>2. DOMAIN InFileOrder({}) = {}  BY <4>1
      <4> QED  BY <4>2 DEF RangesOf
    <3>3. Append(<<>>, range) = <<range>>  OBVIOUS
    <3> QED  BY <3>1, <3>2, <3>3, <2>1, <2>2, <2>4, <1>5 DEF VariableHolds
  <2> QED  BY <2>3, <2>4
<1>7. \A name \in some : name # new => VariableHolds(M, u, e[name], ws[name])
  <2> SUFFICES ASSUME NEW name \in some, name # new PROVE VariableHolds(M, u, e[name], ws[name])  OBVIOUS
  <2>1. name \in Named  BY DEF some
  <2>2. VariableHolds(L, u, d[name], ws[name]) /\ e[name] = d[name]  BY <2>1, <1>1, <1>4
  <2> QED  BY <2>2 DEF VariableHolds, IsRef, Extends
<1>8. ws = [name \in {name \in Named : e[name] # {}} |-> ws[name]]  BY <1>2, <1>3
<1>9. \A name \in Named : e[name] # {} => name \in some \cup {new}  BY <1>2
<1>10. VariablesHold(M, u, e, ws)  BY <1>6, <1>7, <1>8, <1>9 DEF VariablesHold
<1> QED  BY <1>10 DEF ws, range

-----------------------------------------------------------------------------
(* What the next entry adds to what has been seen of a scope.                *)
Adds(T, S, P, n) == T = IF n \in P THEN S \cup {n} ELSE S
LEMMA SeenSteps ==
    ASSUME NEW u, HasUnit(u), NEW n \in 1..Len(Es(u)), NEW o \in 1..n - 1, NEW open
    PROVE  LET a == Seen(u, o, n, open)  b == Seen(u, o, n + 1, open)
           IN  /\ After(n, a.members) /\ After(n, a.bases) /\ After(n, a.aliases)
               /\ \A name \in Named : After(n, a.variables[name])
               /\ Adds(b.members, a.members, MembersOf(u, o), n)
               /\ Adds(b.bases, a.bases, BasesOf(u, o), n)
               /\ Adds(b.aliases, a.aliases, AliasesOf(u, o), n)
               /\ Es(u)[n].tag # "variant_part" => b.parts = a.parts
               /\ Es(u)[n].tag # "variant" => b.variants = a.variants
               /\ \A name \in Named : Adds(b.variables[name], a.variables[name], Declared(u, o, name), n)
<1>0. Len(Es(u)) \in Nat /\ n \in Nat /\ o \in 1..Len(Es(u))  BY UnitFacts
<1> DEFINE P == o + 1..Len(Es(u))
<1>1. \A S \in SUBSET P : S \in SUBSET (1..Len(Es(u))) /\ S \in SUBSET Nat
  <2>1. \A j \in P : j \in Nat /\ j \in 1..Len(Es(u))  BY <1>0
  <2> QED  BY <2>1
<1>2. \A S \in SUBSET P : After(n, Before(S, n))  BY <1>0, <1>1, BeforeFacts DEF After
<1>3. \A S \in SUBSET P : Before(S, n + 1) = IF n \in S THEN Before(S, n) \cup {n} ELSE Before(S, n)
  BY <1>0, <1>1, BeforeNext
<1>4. /\ \A tag : Children(u, o, tag) \in SUBSET P
      /\ MembersOf(u, o) \in SUBSET P /\ BasesOf(u, o) \in SUBSET P /\ AliasesOf(u, o) \in SUBSET P
      /\ \A name : Declared(u, o, name) \in SUBSET P
  BY <1>0, PartsFacts
<1>5. \A tag : Es(u)[n].tag # tag => n \notin Children(u, o, tag)  BY DEF Children
<1> HIDE DEF P
<1> QED  BY <1>2, <1>3, <1>4, <1>5 DEF Seen, Adds

\* The scope of the frame on top is the parent of the entry at hand.
LEMMA TopIs ==
    ASSUME NEW L, NEW u, HasUnit(u), NEW n \in 2..Len(Es(u)), NEW s, Stack(s), Len(s) = Depth(u, n),
           Shape(u, n, Len(s)), FramesHold(L, u, n, s)
    PROVE  LET q == ParentOf(u, n)
           IN  /\ q \in OpenAt(u, n, Len(s)) /\ q \in 1..n - 1 /\ Depth(u, q) + 1 = Len(s) /\ Len(s) \in DOMAIN s
               /\ FrameHolds(L, u, q, Seen(u, q, n, OpenAt(u, n, Len(s))), s[Len(s)])
               /\ Es(u)[q].tag \in Scopes /\ s[Len(s)].kind = ScopeKind(Es(u)[q].tag)
               /\ \A o \in OpenAt(u, n, Len(s)) : o # q => Depth(u, o) + 1 # Len(s)
<1>1. /\ Len(s) \in Nat /\ DOMAIN s = 1..Len(s) /\ n \in 1..Len(Es(u)) /\ Depth(u, n) >= 1 /\ n \in 1..Len(Es(u)) + 1
      /\ n \in 2..Len(Es(u)) + 1 /\ \A j \in 1..Len(Es(u)) : Depth(u, j) \in Nat
  <2>1. Len(s) \in Nat /\ DOMAIN s = 1..Len(s)  BY StackFacts
  <2>2. Len(Es(u)) \in Nat /\ Depth(u, n) >= 1 /\ \A j \in 1..Len(Es(u)) : Depth(u, j) \in Nat  BY UnitFacts
  <2> QED  BY <2>1, <2>2
<1> DEFINE q == ParentOf(u, n)  h == Len(s)
<1>2. q \in OpenAt(u, n, h) /\ q \in 1..n - 1 /\ Depth(u, q) = Depth(u, n) - 1  BY <1>1, AtShape, ParentFacts
<1>3. Depth(u, q) \in Nat /\ q \in 1..Len(Es(u))  BY <1>1, <1>2
<1>4. Depth(u, q) + 1 = h /\ h \in DOMAIN s  BY <1>1, <1>2, <1>3
<1>5. \A o \in OpenAt(u, n, h) : o # q => Depth(u, o) + 1 # h
  <2> SUFFICES ASSUME NEW o \in OpenAt(u, n, h), o # q PROVE Depth(u, o) + 1 # h  OBVIOUS
  <2>1. Depth(u, o) \in Nat  BY <1>1, OpenFacts
  <2>2. Depth(u, o) # Depth(u, q)  BY <1>1, <1>2, OneOpen
  <2> QED  BY <2>1, <2>2, <1>3, <1>4
<1>6. FrameHolds(L, u, q, Seen(u, q, n, OpenAt(u, n, h)), s[Depth(u, q) + 1])  BY <1>2 DEF FramesHold
<1>7. Es(u)[q].tag \in Scopes /\ s[Depth(u, q) + 1].kind = ScopeKind(Es(u)[q].tag)
  BY <1>2, <1>6 DEF Shape, Opens, FrameHolds
<1> QED  BY <1>2, <1>4, <1>5, <1>6, <1>7

LEMMA KindIs ==
    ASSUME NEW tag \in Scopes
    PROVE  /\ ScopeKind(tag) \in {"Root", "Namespace", "InFunction", "FcnScope", "InType", "EnumVariants", "EnumVariant"}
           /\ ScopeKind(tag) = "Root" <=> tag = "compile_unit"
           /\ ScopeKind(tag) = "Namespace" <=> tag = "namespace"
           /\ ScopeKind(tag) = "InFunction" <=> tag = "subprogram"
           /\ ScopeKind(tag) = "FcnScope" <=> tag = "lexical_block"
           /\ ScopeKind(tag) = "InType" <=> tag \in Composites
           /\ ScopeKind(tag) = "EnumVariants" <=> tag = "variant_part"
           /\ ScopeKind(tag) = "EnumVariant" <=> tag = "variant"
BY DEF Scopes, ScopeKind, Composites

-----------------------------------------------------------------------------
(* The frame that holds it: a field, a base, a name or a variable more.      *)
LEMMA TagKinds ==
    ASSUME NEW L, NEW u, NEW o, NEW seen, NEW f, FrameHolds(L, u, o, seen, f), Es(u)[o].tag \in Scopes
    PROVE  /\ f.kind = "InType" <=> Es(u)[o].tag \in Composites
           /\ f.kind = "EnumVariants" <=> Es(u)[o].tag = "variant_part"
           /\ f.kind = "EnumVariant" <=> Es(u)[o].tag = "variant"
           /\ f.kind = "InFunction" <=> Es(u)[o].tag = "subprogram"
           /\ f.kind = "FcnScope" <=> Es(u)[o].tag = "lexical_block"
<1>1. f.kind = ScopeKind(Es(u)[o].tag)  BY DEF FrameHolds
<1> QED  BY <1>1, KindIs

LEMMA FieldAdds ==
    ASSUME NEW M, NEW u, HasUnit(u), NEW n \in 1..Len(Es(u)), NEW o \in 1..n - 1, n \in MembersOf(u, o), NEW open,
           NEW f, FrameOK(f), f.kind \in {"InType", "EnumVariant"}, Es(u)[o].tag \in Scopes,
           FrameHolds(M, u, o, Seen(u, o, n, open), f)
    PROVE  FrameHolds(M, u, o, Seen(u, o, n + 1, open), [f EXCEPT !.fields = Append(@, n)])
<1> DEFINE a == Seen(u, o, n, open)  b == Seen(u, o, n + 1, open)  g == [f EXCEPT !.fields = Append(@, n)]
<1>1. Es(u)[n].tag = "member"  BY DEF MembersOf, Children
<1>2. n \notin BasesOf(u, o) /\ n \notin AliasesOf(u, o)  BY <1>1 DEF BasesOf, AliasesOf, Children
<1>3. After(n, a.members) /\ b.members = a.members \cup {n} /\ b.bases = a.bases /\ b.aliases = a.aliases
      /\ b.parts = a.parts
  <2>1. /\ After(n, a.members) /\ Adds(b.members, a.members, MembersOf(u, o), n) /\ Adds(b.bases, a.bases, BasesOf(u, o), n)
        /\ Adds(b.aliases, a.aliases, AliasesOf(u, o), n) /\ (Es(u)[n].tag # "variant_part" => b.parts = a.parts)
    BY SeenSteps
  <2> HIDE DEF a, b
  <2> QED  BY <2>1, <1>1, <1>2 DEF Adds
<1> HIDE DEF a, b
<1>4. InFileOrder(b.members) = Append(InFileOrder(a.members), n)
  <2> DEFINE S == a.members
  <2>1. After(n, S)  BY <1>3
  <2> HIDE DEF S
  <2>2. InFileOrder(S \cup {n}) = Append(InFileOrder(S), n)  BY <2>1, OrderAppends DEF After
  <2> QED  BY <1>3, <2>2 DEF S
<1>5. CASE f.kind = "InType"
  <2>1. Es(u)[o].tag \in Composites /\ CompositeHolds(M, u, o, a, f)  BY <1>5, TagKinds DEF FrameHolds, a
  <2>2. /\ g.fields = Append(f.fields, n) /\ g.kind = f.kind /\ g.name = f.name /\ g.ty = f.ty
        /\ g.is_union = f.is_union /\ g.parents = f.parents /\ g.sub_types = f.sub_types /\ g.enum_data = f.enum_data
    BY <1>5 DEF FrameOK, FrameFields
  <2> HIDE DEF g
  <2>3. CompositeHolds(M, u, o, b, g)  BY <2>1, <2>2, <1>3, <1>4 DEF CompositeHolds
  <2>4. Es(u)[o].tag \notin {"subprogram", "lexical_block", "variant_part", "variant"}  BY <2>1 DEF Composites
  <2>5. FrameHolds(M, u, o, b, g)  BY <2>2, <2>3, <2>4 DEF FrameHolds
  <2> QED  BY <2>5 DEF b, g
<1>6. CASE f.kind = "EnumVariant"
  <2>1. Es(u)[o].tag = "variant" /\ VariantHolds(o, a, f)  BY <1>6, TagKinds DEF FrameHolds, a
  <2>2. g.fields = Append(f.fields, n) /\ g.kind = f.kind /\ g.of = f.of  BY <1>6 DEF FrameOK, FrameFields
  <2> HIDE DEF g
  <2>3. VariantHolds(o, b, g)  BY <2>1, <2>2, <1>3, <1>4 DEF VariantHolds
  <2>4. FrameHolds(M, u, o, b, g)  BY <2>1, <2>2, <2>3 DEF FrameHolds, Naming, Composites
  <2> QED  BY <2>4 DEF b, g
<1> QED  BY <1>5, <1>6

LEMMA TopFieldAdds ==
    ASSUME NEW M, NEW u, HasUnit(u), NEW n \in 1..Len(Es(u)), NEW o \in 1..n - 1, n \in MembersOf(u, o), NEW open,
           NEW f, FrameOK(f), f.kind = "EnumVariants", Es(u)[o].tag \in Scopes,
           FrameHolds(M, u, o, Seen(u, o, n, open), f)
    PROVE  FrameHolds(M, u, o, Seen(u, o, n + 1, open), [f EXCEPT !.top_fields = Append(@, n)])
<1> DEFINE a == Seen(u, o, n, open)  b == Seen(u, o, n + 1, open)  g == [f EXCEPT !.top_fields = Append(@, n)]
<1>1. Es(u)[n].tag = "member"  BY DEF MembersOf, Children
<1>2. After(n, a.members) /\ b.members = a.members \cup {n} /\ b.variants = a.variants  BY <1>1, SeenSteps DEF Adds
<1> HIDE DEF a, b
<1>3. InFileOrder(b.members) = Append(InFileOrder(a.members), n)
  <2>1. InFileOrder(a.members \cup {n}) = Append(InFileOrder(a.members), n)  BY <1>2, OrderAppends DEF After
  <2> QED  BY <2>1, <1>2
<1>4. Es(u)[o].tag = "variant_part" /\ VariantPartHolds(u, o, a, f)  BY TagKinds DEF FrameHolds, a
<1>5. g.top_fields = Append(f.top_fields, n) /\ g.kind = f.kind /\ g.discr = f.discr /\ g.variants = f.variants
  BY DEF FrameOK, FrameFields
<1> HIDE DEF g
<1>6. VariantPartHolds(u, o, b, g)  BY <1>2, <1>3, <1>4, <1>5 DEF VariantPartHolds
<1>7. FrameHolds(M, u, o, b, g)  BY <1>4, <1>5, <1>6 DEF FrameHolds, Naming, Composites
<1> QED  BY <1>7 DEF b, g

LEMMA BaseAdds ==
    ASSUME NEW M, NEW u, HasUnit(u), NEW n \in 1..Len(Es(u)), NEW o \in 1..n - 1, n \in BasesOf(u, o), NEW open,
           NEW f, FrameOK(f), f.kind = "InType", Es(u)[o].tag \in Scopes, FrameHolds(M, u, o, Seen(u, o, n, open), f),
           NEW r, IsRef(M, r, u, Es(u)[n].ty)
    PROVE  FrameHolds(M, u, o, Seen(u, o, n + 1, open), [f EXCEPT !.parents = Append(@, <<n, r>>)])
<1> DEFINE a == Seen(u, o, n, open)  b == Seen(u, o, n + 1, open)  g == [f EXCEPT !.parents = Append(@, <<n, r>>)]
<1>1. Es(u)[n].tag = "inheritance"  BY DEF BasesOf, Children
<1>2. n \notin MembersOf(u, o) /\ n \notin AliasesOf(u, o)  BY <1>1 DEF MembersOf, AliasesOf, Children
<1>3. After(n, a.bases) /\ b.bases = a.bases \cup {n} /\ b.members = a.members /\ b.aliases = a.aliases
      /\ b.parts = a.parts
  <2>1. /\ After(n, a.bases) /\ Adds(b.members, a.members, MembersOf(u, o), n) /\ Adds(b.bases, a.bases, BasesOf(u, o), n)
        /\ Adds(b.aliases, a.aliases, AliasesOf(u, o), n) /\ (Es(u)[n].tag # "variant_part" => b.parts = a.parts)
    BY SeenSteps
  <2> HIDE DEF a, b
  <2> QED  BY <2>1, <1>1, <1>2 DEF Adds
<1> HIDE DEF a, b
<1>4. Es(u)[o].tag \in Composites /\ CompositeHolds(M, u, o, a, f)  BY TagKinds DEF FrameHolds, a
<1>5. ParentsHold(M, u, b.bases, Append(f.parents, <<n, r>>))
  <2>1. Extends(M, M) /\ ParentsHold(M, u, a.bases, f.parents)  BY <1>4 DEF Extends, CompositeHolds
  <2> QED  BY <2>1, <1>3, ParentsAdd DEF After
<1>6. /\ g.parents = Append(f.parents, <<n, r>>) /\ g.kind = f.kind /\ g.name = f.name /\ g.ty = f.ty
      /\ g.is_union = f.is_union /\ g.fields = f.fields /\ g.sub_types = f.sub_types /\ g.enum_data = f.enum_data
  BY DEF FrameOK, FrameFields
<1> HIDE DEF g
<1>7. CompositeHolds(M, u, o, b, g)  BY <1>3, <1>4, <1>5, <1>6 DEF CompositeHolds
<1>8. Es(u)[o].tag \notin {"subprogram", "lexical_block", "variant_part", "variant"}  BY <1>4 DEF Composites
<1>9. FrameHolds(M, u, o, b, g)  BY <1>6, <1>7, <1>8 DEF FrameHolds
<1> QED  BY <1>9 DEF b, g

WithAlias(f, new, r) == [f EXCEPT !.sub_types = WithName(@, new, r)]
LEMMA AliasAdds ==
    ASSUME NEW M, NEW u, HasUnit(u), NEW n \in 1..Len(Es(u)), NEW o \in 1..n - 1, n \in AliasesOf(u, o), NEW open,
           NEW f, FrameOK(f), f.kind = "InType", Es(u)[o].tag \in Scopes, FrameHolds(M, u, o, Seen(u, o, n, open), f),
           NEW r, IsRef(M, r, u, n), NEW new, new = Es(u)[n].name
    PROVE  FrameHolds(M, u, o, Seen(u, o, n + 1, open), WithAlias(f, new, r))
<1> DEFINE a == Seen(u, o, n, open)  b == Seen(u, o, n + 1, open)
           names == WithName(f.sub_types, new, r)
           g == [f EXCEPT !.sub_types = names]
<1>0. g = WithAlias(f, new, r)  BY DEF WithAlias
<1>1. Es(u)[n].tag = "typedef"  BY DEF AliasesOf, Children
<1>2. n \notin MembersOf(u, o) /\ n \notin BasesOf(u, o)  BY <1>1 DEF MembersOf, BasesOf, Children
<1>3. After(n, a.aliases) /\ b.aliases = a.aliases \cup {n} /\ b.members = a.members /\ b.bases = a.bases
      /\ b.parts = a.parts
  <2>1. /\ After(n, a.aliases) /\ Adds(b.members, a.members, MembersOf(u, o), n) /\ Adds(b.bases, a.bases, BasesOf(u, o), n)
        /\ Adds(b.aliases, a.aliases, AliasesOf(u, o), n) /\ (Es(u)[n].tag # "variant_part" => b.parts = a.parts)
    BY SeenSteps
  <2> HIDE DEF a, b
  <2> QED  BY <2>1, <1>1, <1>2 DEF Adds
<1> HIDE DEF a, b
<1>4. Es(u)[o].tag \in Composites /\ CompositeHolds(M, u, o, a, f)  BY TagKinds DEF FrameHolds, a
<1>5. SubTypesHold(M, u, b.aliases, names)
  <2> DEFINE S == a.aliases  s == f.sub_types
  <2>1. Extends(M, M) /\ SubTypesHold(M, u, S, s)  BY <1>4 DEF Extends, CompositeHolds
  <2>2. FilePositions(S) /\ n \in Nat /\ \A j \in S : j < n  BY <1>3 DEF After
  <2> HIDE DEF S, s
  <2>3. SubTypesHold(M, u, S \cup {n}, WithName(s, new, r))
    BY <2>1, <2>2, SubTypesAdd
  <2> QED  BY <2>3, <1>3 DEF S, s
<1> HIDE DEF names
<1>6. /\ g.sub_types = names /\ g.kind = f.kind /\ g.name = f.name /\ g.ty = f.ty
      /\ g.is_union = f.is_union /\ g.fields = f.fields /\ g.parents = f.parents /\ g.enum_data = f.enum_data
  BY DEF FrameOK, FrameFields
<1> HIDE DEF g
<1>7. CompositeHolds(M, u, o, b, g)  BY <1>3, <1>4, <1>5, <1>6 DEF CompositeHolds
<1>8. Es(u)[o].tag \notin {"subprogram", "lexical_block", "variant_part", "variant"}  BY <1>4 DEF Composites
<1>9. FrameHolds(M, u, o, b, g)  BY <1>6, <1>7, <1>8 DEF FrameHolds
<1> QED  BY <1>0, <1>9 DEF b

LEMMA VariablesSet ==
    ASSUME NEW fr, NEW P, NEW B, fr = [pc_range |-> P, frame_base |-> B, variables |-> fr.variables], NEW W
    PROVE  LET g == [fr EXCEPT !.variables = W]
           IN  g = [pc_range |-> P, frame_base |-> B, variables |-> g.variables] /\ g.variables = W
<1>1. PICK v : fr = [pc_range |-> P, frame_base |-> B, variables |-> v]  OBVIOUS
<1>2. [[pc_range |-> P, frame_base |-> B, variables |-> v] EXCEPT !.variables = W]
        = [pc_range |-> P, frame_base |-> B, variables |-> W]
  OBVIOUS
<1> QED  BY <1>1, <1>2

LEMMA VariableAdds ==
    ASSUME NEW M, NEW u, HasUnit(u), NEW n \in 1..Len(Es(u)), NEW o \in 1..n - 1, NEW new \in Named,
           new = Es(u)[n].name, ~Nested(u, o) => n \in Declared(u, o, new), NEW open,
           NEW f, FrameOK(f), f.kind = "InFunction", Es(u)[o].tag \in Scopes, FrameHolds(M, u, o, Seen(u, o, n, open), f),
           NEW r, IsRef(M, r, u, Es(u)[n].ty), NEW range, range = [pc_range |-> PcOf(u, ParentOf(u, n)), position |-> n]
    PROVE  FrameHolds(M, u, o, Seen(u, o, n + 1, open), [f EXCEPT !.fr.variables = WithVariable(@, new, r, range)])
<1> DEFINE a == Seen(u, o, n, open)  b == Seen(u, o, n + 1, open)
           W == WithVariable(f.fr.variables, new, r, range)
           fr == [f.fr EXCEPT !.variables = W]  g == [f EXCEPT !.fr = fr]
<1>0. g = [f EXCEPT !.fr.variables = WithVariable(@, new, r, range)]  OBVIOUS
<1>1. Es(u)[o].tag = "subprogram" /\ FunctionHolds(M, u, o, a, f.fr)  BY TagKinds DEF FrameHolds
<1>2. \A name \in Named : name # new => n \notin Declared(u, o, name)  BY DEF Declared
<1>3. After(n, a.variables[new])
      /\ \A name \in Named : b.variables[name] = IF n \in Declared(u, o, name) THEN a.variables[name] \cup {n}
                                                 ELSE a.variables[name]
  <2>1. \A name \in Named : Adds(b.variables[name], a.variables[name], Declared(u, o, name), n)  BY SeenSteps
  <2>2. After(n, a.variables[new])  BY SeenSteps
  <2> HIDE DEF a, b
  <2> QED  BY <2>1, <2>2 DEF Adds
<1> HIDE DEF a, b, W
<1>4. ~Nested(u, o) => VariablesHold(M, u, b.variables, W)
  <2> SUFFICES ASSUME ~Nested(u, o) PROVE VariablesHold(M, u, b.variables, W)  OBVIOUS
  <2> DEFINE d == a.variables  e == b.variables  vs == f.fr.variables
  <2>1. \A name \in Named : e[name] = IF name = new THEN d[name] \cup {n} ELSE d[name]  BY <1>2, <1>3
  <2>2. Extends(M, M) /\ VariablesHold(M, u, d, vs)  BY <1>1 DEF Extends, FunctionHolds
  <2>3. n \in Nat /\ FilePositions(d[new]) /\ \A j \in d[new] : j < n  BY <1>3 DEF After
  <2>4. W = WithVariable(vs, new, r, range)  BY DEF W
  <2> HIDE DEF d, e, vs
  <2>5. VariablesHold(M, u, e, WithVariable(vs, new, r, [pc_range |-> PcOf(u, ParentOf(u, n)), position |-> n]))
    BY <2>1, <2>2, <2>3, VariablesAdd
  <2> QED  BY <2>4, <2>5 DEF e
<1>5. f.fr = [pc_range |-> PcOf(u, o), frame_base |-> BaseOf(u, o), variables |-> f.fr.variables]
  BY <1>1 DEF FunctionHolds
<1>6. fr = [pc_range |-> PcOf(u, o), frame_base |-> BaseOf(u, o), variables |-> fr.variables] /\ fr.variables = W
  BY <1>5, VariablesSet
<1> HIDE DEF fr
<1>7. FunctionHolds(M, u, o, b, fr)  BY <1>4, <1>6 DEF FunctionHolds
<1>8. g.fr = fr /\ g.kind = f.kind /\ g.name = f.name  BY DEF FrameOK, FrameFields
<1> HIDE DEF g
<1>9. FrameHolds(M, u, o, b, g)  BY <1>1, <1>7, <1>8 DEF FrameHolds, Composites
<1> QED  BY <1>0, <1>9 DEF b

-----------------------------------------------------------------------------
(* A variant, or the list of them, ends: the frame below takes it over.      *)
LEMMA ParentIsOpen ==
    ASSUME NEW u, HasUnit(u), NEW n \in 2..Len(Es(u)), NEW h \in Nat, Shape(u, n, h),
           NEW q \in OpenAt(u, n, h), Depth(u, q) = h - 1, q # 1
    PROVE  LET p == ParentOf(u, q)
           IN  /\ p \in OpenAt(u, n, h) \ {q} /\ Depth(u, p) + 1 = h - 1 /\ p \in 1..q - 1 /\ Es(u)[p].tag \in Scopes
               /\ \A o \in OpenAt(u, n, h) : o # p => Depth(u, o) + 1 # h - 1
               /\ q \in Children(u, p, Es(u)[q].tag)
               /\ \A tag : \A j \in Before(Children(u, p, tag), n) \ OpenAt(u, n, h) : j < q
<1> DEFINE p == ParentOf(u, q)
<1>1. /\ n \in 1..Len(Es(u)) /\ n \in 1..Len(Es(u)) + 1 /\ Len(Es(u)) \in Nat /\ DOMAIN Es(u) = 1..Len(Es(u))
      /\ \A j \in 1..Len(Es(u)) : Depth(u, j) \in Nat
  BY UnitFacts
<1>2. q \in 1..n - 1 /\ q \in 1..Len(Es(u)) /\ Unclosed(u, n, q)  BY <1>1, OpenFacts
<1>3. q \in 2..Len(Es(u))  BY <1>2
<1>4. p \in Ancestors(u, q) /\ p \in 1..q - 1 /\ Depth(u, p) = Depth(u, q) - 1  BY <1>3, ParentFacts
<1>5. p \in 1..Len(Es(u)) /\ Depth(u, p) \in Nat /\ Depth(u, p) + 1 = h - 1  BY <1>1, <1>2, <1>4
<1>6. \A k \in p + 1..q : Depth(u, k) > Depth(u, p)  BY <1>2, <1>4, AncestorFacts
<1> HIDE DEF p
<1>7. Unclosed(u, n, p)
  <2> SUFFICES ASSUME NEW m \in p + 1..n - 1 PROVE Depth(u, m) > Depth(u, p)  BY DEF Unclosed
  <2>1. CASE m \in p + 1..q  BY <2>1, <1>6
  <2>2. CASE m \in q + 1..n - 1
    <3>1. Depth(u, m) > Depth(u, q)  BY <2>2, <1>2 DEF Unclosed
    <3>2. m \in 1..Len(Es(u))  BY <2>2, <1>1, <1>2
    <3> QED  BY <3>1, <3>2, <1>1, <1>2, <1>4, <1>5
  <2> QED  BY <2>1, <2>2, <1>2, <1>4
<1>8. p \in OpenAt(u, n, h) \ {q}  BY <1>2, <1>4, <1>5, <1>7 DEF OpenAt
<1>9. Es(u)[p].tag \in Scopes  BY <1>8 DEF Shape, Opens
<1>10. \A o \in OpenAt(u, n, h) : o # p => Depth(u, o) + 1 # h - 1
  <2> SUFFICES ASSUME NEW o \in OpenAt(u, n, h), o # p PROVE Depth(u, o) + 1 # h - 1  OBVIOUS
  <2>1. Depth(u, o) \in Nat  BY <1>1, OpenFacts
  <2>2. Depth(u, o) # Depth(u, p)  BY <1>1, <1>8, OneOpen
  <2> QED  BY <2>1, <2>2, <1>5
<1>11. q \in Children(u, p, Es(u)[q].tag)  BY <1>1, <1>2, <1>4 DEF Children, p
<1>12. ASSUME NEW tag, NEW j \in Before(Children(u, p, tag), n) \ OpenAt(u, n, h) PROVE j < q
  <2>1. j < n /\ j \in 1..Len(Es(u)) /\ j > p /\ ParentOf(u, j) = p  BY <1>1 DEF Before, Children
  <2>2. j \in 2..Len(Es(u))
    <3>1. p \in Nat /\ p >= 1  BY <1>4
    <3>2. j \in Nat /\ j <= Len(Es(u)) /\ Len(Es(u)) \in Nat  BY <2>1, <1>1
    <3> QED  BY <3>1, <3>2, <2>1
  <2>3. Depth(u, j) = Depth(u, q)
    <3>1. Depth(u, p) = Depth(u, j) - 1  BY <2>1, <2>2, ParentFacts
    <3> QED  BY <3>1, <2>1, <1>1, <1>2, <1>4
  <2>4. j # q  OBVIOUS
  <2>5. ~(j > q)
    <3>1. j > q => j \in q + 1..n - 1  BY <2>1, <1>2, <1>1
    <3>2. j > q => Depth(u, j) > Depth(u, q)  BY <3>1, <1>2 DEF Unclosed
    <3> QED  BY <3>2, <2>3, <1>1, <1>2
  <2> QED  BY <2>1, <2>4, <2>5, <1>2
<1> QED  BY <1>4, <1>5, <1>8, <1>9, <1>10, <1>11, <1>12 DEF p

LastChild(q, C, open) == After(q, C \ open) /\ C \ (open \ {q}) = (C \ open) \cup {q}
LEMMA SeenWithLast ==
    ASSUME NEW u, HasUnit(u), NEW n \in 2..Len(Es(u)), NEW h \in Nat, Shape(u, n, h),
           NEW q \in OpenAt(u, n, h), Depth(u, q) = h - 1, q # 1, NEW tag, tag = Es(u)[q].tag
    PROVE  LastChild(q, Before(Children(u, ParentOf(u, q), tag), n), OpenAt(u, n, h))
<1> DEFINE p == ParentOf(u, q)  S == Before(Children(u, p, tag), n) \ OpenAt(u, n, h)
<1>1. n \in 1..Len(Es(u)) + 1 /\ Len(Es(u)) \in Nat  BY UnitFacts
<1>2. q \in 1..n - 1  BY <1>1, OpenFacts
<1>3. p \in 1..q - 1 /\ q \in Children(u, p, tag) /\ \A j \in S : j < q  BY ParentIsOpen
<1>4. p \in 1..Len(Es(u))  BY <1>1, <1>2, <1>3
<1>5. Children(u, p, tag) \in SUBSET (1..Len(Es(u)))
  <2>1. Children(u, p, tag) \in SUBSET (p + 1..Len(Es(u)))  BY <1>4, PartsFacts
  <2>2. \A j \in p + 1..Len(Es(u)) : j \in 1..Len(Es(u))  BY <1>1, <1>4
  <2> QED  BY <2>1, <2>2
<1>6. S \in SUBSET (1..Len(Es(u)))  BY <1>5 DEF Before
<1> HIDE DEF S
<1>7. FilePositions(S)  BY <1>1, <1>6, BeforeFacts
<1>8. q < n /\ q \in Nat  BY <1>1, <1>2
<1>9. After(q, S)  BY <1>3, <1>7, <1>8 DEF After
<1>10. Before(Children(u, p, tag), n) \ (OpenAt(u, n, h) \ {q}) = S \cup {q}  BY <1>3, <1>8 DEF S, Before
<1> QED  BY <1>9, <1>10 DEF S, LastChild

LEMMA VariantEnds ==
    ASSUME NEW L, NEW u, HasUnit(u), NEW n \in 2..Len(Es(u)), NEW h \in Nat, Shape(u, n, h),
           NEW q \in OpenAt(u, n, h), Depth(u, q) = h - 1, Es(u)[q].tag = "variant",
           NEW top, FrameHolds(L, u, q, All(u, q), top),
           NEW f, FrameOK(f), f.kind = "EnumVariants", FrameHolds(L, u, ParentOf(u, q), Seen(u, ParentOf(u, q), n, OpenAt(u, n, h)), f)
    PROVE  FrameHolds(L, u, ParentOf(u, q), Seen(u, ParentOf(u, q), n, OpenAt(u, n, h) \ {q}),
                      [f EXCEPT !.variants = Append(@, [of |-> top.of, fields |-> top.fields])])
<1> DEFINE p == ParentOf(u, q)  a == Seen(u, p, n, OpenAt(u, n, h))  b == Seen(u, p, n, OpenAt(u, n, h) \ {q})
           new == [of |-> top.of, fields |-> top.fields]
           g == [f EXCEPT !.variants = Append(@, new)]
<1>1. q # 1  BY UnitFacts
<1>2. Es(u)[p].tag \in Scopes  BY <1>1, ParentIsOpen
<1>3. Es(u)[p].tag = "variant_part" /\ VariantPartHolds(u, p, a, f)  BY <1>2, TagKinds DEF FrameHolds
<1>4. After(q, a.variants) /\ b.variants = a.variants \cup {q} /\ b.members = a.members
  <2> DEFINE C == Before(Children(u, p, "variant"), n)
  <2>1. LastChild(q, C, OpenAt(u, n, h))  BY <1>1, SeenWithLast
  <2>2. a.variants = C \ OpenAt(u, n, h) /\ b.variants = C \ (OpenAt(u, n, h) \ {q}) /\ b.members = a.members
    BY DEF Seen
  <2> HIDE DEF C, a, b
  <2> QED  BY <2>1, <2>2 DEF LastChild
<1>5. top.of = q /\ top.fields = Members(u, q)  BY DEF FrameHolds, VariantHolds, All, Members
<1>6. VariantsOf(u, b.variants) = Append(VariantsOf(u, a.variants), new)
  <2> DEFINE S == a.variants
  <2>1. FilePositions(S) /\ q \in Nat /\ \A j \in S : j < q  BY <1>4 DEF After
  <2>2. b.variants = S \cup {q} /\ new = [of |-> q, fields |-> Members(u, q)]  BY <1>4, <1>5
  <2> HIDE DEF S, new, b
  <2>3. VariantsOf(u, S \cup {q}) = Append(VariantsOf(u, S), [of |-> q, fields |-> Members(u, q)])
    BY <2>1, VariantsAdd
  <2> QED  BY <2>2, <2>3 DEF S
<1>7. g.variants = Append(f.variants, new) /\ g.kind = f.kind /\ g.discr = f.discr /\ g.top_fields = f.top_fields
  BY DEF FrameOK, FrameFields
<1> HIDE DEF g, a, b, new, p
<1>8. VariantPartHolds(u, p, b, g)  BY <1>3, <1>4, <1>6, <1>7 DEF VariantPartHolds
<1>9. FrameHolds(L, u, p, a, f)  BY DEF a, p
<1>10. FrameHolds(L, u, p, b, g)  BY <1>3, <1>7, <1>8, <1>9 DEF FrameHolds, Naming, Composites
<1> QED  BY <1>10 DEF g, b, new, p

LEMMA VariantsEnd ==
    ASSUME NEW L, NEW u, HasUnit(u), NEW n \in 2..Len(Es(u)), NEW h \in Nat, Shape(u, n, h),
           NEW q \in OpenAt(u, n, h), Depth(u, q) = h - 1, Es(u)[q].tag = "variant_part",
           NEW top, FrameHolds(L, u, q, All(u, q), top),
           NEW f, FrameOK(f), f.kind = "InType", FrameHolds(L, u, ParentOf(u, q), Seen(u, ParentOf(u, q), n, OpenAt(u, n, h)), f)
    PROVE  FrameHolds(L, u, ParentOf(u, q), Seen(u, ParentOf(u, q), n, OpenAt(u, n, h) \ {q}),
                      [f EXCEPT !.enum_data = [discr |-> top.discr, variants |-> top.variants, top_fields |-> top.top_fields]])
<1> DEFINE p == ParentOf(u, q)  a == Seen(u, p, n, OpenAt(u, n, h))  b == Seen(u, p, n, OpenAt(u, n, h) \ {q})
           new == [discr |-> top.discr, variants |-> top.variants, top_fields |-> top.top_fields]
           g == [f EXCEPT !.enum_data = new]
<1>1. q # 1  BY UnitFacts
<1>2. Es(u)[p].tag \in Scopes  BY <1>1, ParentIsOpen
<1>3. Es(u)[p].tag \in Composites /\ CompositeHolds(L, u, p, a, f)  BY <1>2, TagKinds DEF FrameHolds
<1>4. After(q, a.parts) /\ b.parts = a.parts \cup {q} /\ b.members = a.members /\ b.bases = a.bases /\ b.aliases = a.aliases
  <2> DEFINE C == Before(Children(u, p, "variant_part"), n)
  <2>1. LastChild(q, C, OpenAt(u, n, h))  BY <1>1, SeenWithLast
  <2>2. a.parts = C \ OpenAt(u, n, h) /\ b.parts = C \ (OpenAt(u, n, h) \ {q}) /\ b.members = a.members /\ b.bases = a.bases /\ b.aliases = a.aliases
    BY DEF Seen
  <2> HIDE DEF C, a, b
  <2> QED  BY <2>1, <2>2 DEF LastChild
<1>5. top.discr = Es(u)[q].discr /\ top.top_fields = Members(u, q) /\ top.variants = Variants(u, q)
  BY DEF FrameHolds, VariantPartHolds, All, Members, VariantsOf, Variants
<1>6. EnumData(u, b.parts) = new
  <2> DEFINE T == b.parts
  <2> DEFINE R == a.parts
  <2>1. T = R \cup {q} /\ R \in SUBSET Nat /\ q \in Nat /\ (\A j \in R : j < q)
    BY <1>4 DEF After, FilePositions
  <2> HIDE DEF T, R
  <2>2. \A j \in R : j \in Nat  BY <2>1
  <2>3. \A j \in T : j \in Nat /\ j <= q  BY <2>1, <2>2
  <2>4. T \in SUBSET Nat /\ q \in T /\ (\A m \in T : m <= q)  BY <2>1, <2>3
  <2>5. Max(T) = q /\ T # {}  BY <2>4, MaxIs
  <2>6. EnumData(u, T) = [discr |-> Es(u)[q].discr, variants |-> Variants(u, q), top_fields |-> Members(u, q)]
    BY <2>5 DEF EnumData
  <2> QED  BY <2>6, <1>5 DEF T
<1>7. /\ g.enum_data = new /\ g.kind = f.kind /\ g.name = f.name /\ g.ty = f.ty
      /\ g.is_union = f.is_union /\ g.fields = f.fields /\ g.parents = f.parents /\ g.sub_types = f.sub_types
  BY DEF FrameOK, FrameFields
<1> HIDE DEF g, a, b, new, p
<1>8. CompositeHolds(L, u, p, b, g)  BY <1>3, <1>4, <1>6, <1>7 DEF CompositeHolds
<1>9. FrameHolds(L, u, p, a, f)  BY DEF a, p
<1>10. Es(u)[p].tag \notin {"subprogram", "lexical_block", "variant_part", "variant"}  BY <1>3 DEF Composites
<1>11. FrameHolds(L, u, p, b, g)  BY <1>7, <1>8, <1>9, <1>10 DEF FrameHolds
<1> QED  BY <1>11 DEF g, b, new, p

-----------------------------------------------------------------------------
(* What has been found, step by step.                                        *)
LEMMA FoundPrimed ==
    ASSUME dwarf' = dwarf, Shape(unit', pos', Len(stack')), FramesHold(type_lookup', unit', pos', stack'),
           TypesHold(type_lookup', types', unit', pos', Len(stack')),
           FunctionsHold(type_lookup', functions', unit', pos', Len(stack')),
           Caused(unit', status'), AtEnd(unit', pos', status')
    PROVE  Found'
<1>1. Shape(unit, pos, Len(stack))'  BY SameTree
<1>2. FramesHold(type_lookup, unit, pos, stack)'  BY SameTree
<1>3. TypesHold(type_lookup, types, unit, pos, Len(stack))'  BY SameTree
<1>4. FunctionsHold(type_lookup, functions, unit, pos, Len(stack))'  BY SameTree
<1>5. Caused(unit, status)' /\ AtEnd(unit, pos, status)'  BY SameTree
<1> QED  BY <1>1, <1>2, <1>3, <1>4, <1>5 DEF Found

LEMMA NewFrame ==
    ASSUME NEW M, NEW u, NEW n, NEW f, f.kind = ScopeKind(Es(u)[n].tag),
           Es(u)[n].tag \in Naming => f.name = FullName(u, n),
           Es(u)[n].tag = "subprogram" => f.fr = [pc_range |-> PcOf(u, n), frame_base |-> BaseOf(u, n), variables |-> <<>>],
           Es(u)[n].tag = "lexical_block" => f.pc_range = PcOf(u, n),
           Es(u)[n].tag \in Composites =>
               /\ IsRef(M, f.ty, u, n) /\ f.is_union = (Es(u)[n].tag = "union_type")
               /\ f.fields = <<>> /\ f.parents = <<>> /\ f.sub_types = <<>> /\ f.enum_data = None,
           Es(u)[n].tag = "variant_part" => f.discr = Es(u)[n].discr /\ f.variants = <<>> /\ f.top_fields = <<>>,
           Es(u)[n].tag = "variant" => f.of = n /\ f.fields = <<>>
    PROVE  FrameHolds(M, u, n, Nothing, f)
<1>1. InFileOrder({}) = <<>> /\ DOMAIN InFileOrder({}) = {}  BY OrderEmpty
<1>2. ParentsHold(M, u, {}, <<>>)  BY <1>1 DEF ParentsHold
<1>3. SubTypesHold(M, u, {}, <<>>)  BY DEF SubTypesHold, NamesOf
<1>4. VariantsOf(u, {}) = <<>>  BY <1>1 DEF VariantsOf
<1>5. EnumData(u, {}) = None  BY DEF EnumData
<1>6. VariablesHold(M, u, Nothing.variables, <<>>)
  <2>1. \A name \in Named : Nothing.variables[name] = {}  BY DEF Nothing
  <2> DEFINE d == Nothing.variables
  <2> HIDE DEF d
  <2>2. {name \in Named : d[name] # {}} = {}  BY <2>1 DEF d
  <2>3. <<>> = [name \in {} |-> <<>>[name]]  OBVIOUS
  <2>4. VariablesHold(M, u, d, <<>>)  BY <2>1, <2>2, <2>3 DEF VariablesHold, d
  <2> QED  BY <2>4 DEF d
<1>7. Es(u)[n].tag = "subprogram" => FunctionHolds(M, u, n, Nothing, f.fr)  BY <1>6 DEF FunctionHolds
<1>8. Es(u)[n].tag \in Composites => CompositeHolds(M, u, n, Nothing, f)
  BY <1>1, <1>2, <1>3, <1>5 DEF CompositeHolds, Nothing
<1>9. Es(u)[n].tag = "variant_part" => VariantPartHolds(u, n, Nothing, f)  BY <1>1, <1>4 DEF VariantPartHolds, Nothing
<1>10. Es(u)[n].tag = "variant" => VariantHolds(n, Nothing, f)  BY <1>1 DEF VariantHolds, Nothing
<1> QED  BY <1>7, <1>8, <1>9, <1>10 DEF FrameHolds

LEMMA ReadingIs ==
    ASSUME IInv, Found, Reading
    PROVE  /\ HasUnit(unit) /\ Entries = Es(unit) /\ Here = Es(unit)[pos] /\ Here.depth = Depth(unit, pos)
           /\ pos \in 1..Len(Es(unit)) /\ pos \in Nat /\ unit \in Nat /\ Depth(unit, pos) \in Nat
           /\ Len(Es(unit)) \in Nat /\ Es(unit)[pos] \in Entry
           /\ Stack(stack) /\ Len(stack) \in Nat /\ DOMAIN stack = 1..Len(stack)
           /\ Table(type_lookup) /\ DOMAIN types = DOMAIN type_lookup /\ status = "running"
           /\ Shape(unit, pos, Len(stack)) /\ FramesHold(type_lookup, unit, pos, stack)
           /\ TypesHold(type_lookup, types, unit, pos, Len(stack))
           /\ FunctionsHold(type_lookup, functions, unit, pos, Len(stack))
<1>1. HasUnit(unit) /\ Entries = Es(unit)  BY DEF IInv, Place, HasUnit, Entries, Es
<1>2. Len(Es(unit)) \in Nat /\ unit \in Nat  BY <1>1, UnitFacts
<1>3. pos \in 1..Len(Es(unit)) /\ pos \in Nat  BY <1>1, <1>2 DEF IInv, Place, Reading
<1>4. Es(unit)[pos] \in Entry /\ Depth(unit, pos) \in Nat  BY <1>1, <1>3, UnitFacts
<1>5. Here = Es(unit)[pos] /\ Here.depth = Depth(unit, pos)  BY <1>1 DEF Here, Depth
<1>6. Stack(stack) /\ Len(stack) \in Nat /\ DOMAIN stack = 1..Len(stack)  BY StackFacts DEF IInv, Frames
<1> QED  BY <1>1, <1>2, <1>3, <1>4, <1>5, <1>6 DEF IInv, Tables, Found, Reading

\* dwarf_type_ref: at most the entry at hand is given another type.
TypesGrow ==
    /\ Table(type_lookup') /\ Extends(type_lookup', type_lookup)
    /\ \A r \in DOMAIN type_lookup : type_lookup'[r] # <<unit, pos>> => types'[r] = types[r]
    /\ \A r \in DOMAIN type_lookup' \ DOMAIN type_lookup : type_lookup'[r] # <<unit, pos>> => types'[r] = None

LEMMA SameTypesGrow == ASSUME IInv, UNCHANGED <<type_lookup, types>> PROVE TypesGrow
BY DEF TypesGrow, IInv, Tables, Extends

LEMMA ReferGrows ==
    ASSUME IInv, NEW M, Table(M), Extends(M, type_lookup), Refer(M)
    PROVE  /\ TypesGrow /\ type_lookup' = M
           /\ \A r \in DOMAIN M : types'[r] = IF r \in DOMAIN type_lookup THEN types[r] ELSE None
<1>1. DOMAIN types = DOMAIN type_lookup  BY DEF IInv, Tables
<1>2. type_lookup' = M /\ types' = Grown(M)  BY DEF Refer
<1>3. \A r \in DOMAIN M : Grown(M)[r] = IF r \in DOMAIN type_lookup THEN types[r] ELSE None  BY <1>1 DEF Grown
<1>4. DOMAIN type_lookup \subseteq DOMAIN M  BY DEF Extends
<1> QED  BY <1>2, <1>3, <1>4 DEF TypesGrow

LEMMA DefineGrows ==
    ASSUME IInv, NEW M, Table(M), Extends(M, type_lookup), \E r \in DOMAIN M : M[r] = <<unit, pos>>, NEW v, Define(M, v)
    PROVE  /\ TypesGrow /\ type_lookup' = M
           /\ \E r : IsRef(M, r, unit, pos) /\ types'[r] = v
<1> DEFINE R == Ref(M, pos)
<1>1. R \in DOMAIN M /\ M[R] = <<unit, pos>>  BY RefFound
<1>2. DOMAIN types = DOMAIN type_lookup  BY DEF IInv, Tables
<1>3. type_lookup' = M /\ types' = [Grown(M) EXCEPT ![R] = v]  BY DEF Define
<1>4. DOMAIN Grown(M) = DOMAIN M
      /\ \A r \in DOMAIN M : Grown(M)[r] = IF r \in DOMAIN type_lookup THEN types[r] ELSE None  BY <1>2 DEF Grown
<1> HIDE DEF R
<1>5. types'[R] = v /\ \A r \in DOMAIN M : M[r] # <<unit, pos>> => types'[r] = Grown(M)[r]  BY <1>1, <1>3, <1>4
<1>6. DOMAIN type_lookup \subseteq DOMAIN M  BY DEF Extends
<1> QED  BY <1>1, <1>3, <1>4, <1>5, <1>6 DEF TypesGrow, IsRef

LEMMA AdvanceFound ==
    ASSUME IInv, Found, Reading, pos # 1, Advance, Len(stack) <= Depth(unit, pos),
           Len(stack) = Depth(unit, pos) => ~Opens(unit, pos), TypesGrow, Len(stack') = Len(stack), functions' = functions,
           \A o \in OpenAt(unit, pos, Len(stack)) :
              \/ ~Touches(unit, o, pos) /\ stack'[Depth(unit, o) + 1] = stack[Depth(unit, o) + 1]
              \/ FrameHolds(type_lookup', unit, o, Seen(unit, o, pos + 1, OpenAt(unit, pos, Len(stack))),
                            stack'[Depth(unit, o) + 1]),
           IsType(unit, pos) => \E r : IsRef(type_lookup', r, unit, pos) /\ TypeHolds(type_lookup', unit, pos, types'[r])
    PROVE  Found'
<1> DEFINE u == unit  n == pos  h == Len(stack)  L == type_lookup  M == type_lookup'  T == types  T2 == types'
<1>1. /\ HasUnit(u) /\ n \in 2..Len(Es(u)) /\ n \in 1..Len(Es(u)) /\ n \in Nat /\ u \in Nat /\ Stack(stack) /\ h \in Nat
      /\ Shape(u, n, h) /\ FramesHold(L, u, n, stack) /\ TypesHold(L, T, u, n, h) /\ FunctionsHold(L, functions, u, n, h)
      /\ status = "running"
  BY ReadingIs
<1>2. Extends(M, L) /\ Table(M)
      /\ (\A r \in DOMAIN L : M[r] # <<u, n>> => T2[r] = T[r])
      /\ \A r \in DOMAIN M \ DOMAIN L : M[r] # <<u, n>> => T2[r] = None  BY DEF TypesGrow
<1>3. Shape(u, n + 1, h) /\ OpenAt(u, n + 1, h) = OpenAt(u, n, h)  BY <1>1, ShapeAdvances
<1>4. FramesHold(M, u, n + 1, stack')  BY <1>1, <1>2, FramesAdvance
<1>5. TypesHold(M, T2, u, n + 1, h)
  <2>1. OpenAt(u, n, h) \subseteq OpenAt(u, n + 1, h)  BY <1>3
  <2>2. IsType(u, n) => \E r : /\ IsRef(M, r, u, n)
                               /\ (Es(u)[n].tag \in Composites => HasEnded(u, n + 1, h, u, n)) => TypeHolds(M, u, n, T2[r])
    OBVIOUS
  <2> HIDE DEF u, n, h, L, M, T, T2
  <2> QED  BY <1>1, <1>2, <2>1, <2>2, TypesAdvance
<1>6. FunctionsHold(M, functions, u, n + 1, h)
  <2>1. ~IsFunction(u, n)
    <3>1. CASE h = Depth(u, n)  BY <3>1 DEF Opens, IsFunction, Scopes, Hosts
    <3>2. CASE h < Depth(u, n)  BY <3>2, <1>1, SkipShape DEF IsFunction
    <3> QED  BY <3>1, <3>2, <1>1, UnitFacts
  <2>2. \A j \in 1..n - 1 : j \in OpenAt(u, n + 1, h) <=> j \in OpenAt(u, n, h)  BY <1>3
  <2> HIDE DEF u, n, h, L, M
  <2> QED  BY <1>1, <1>2, <2>1, <2>2, FunctionsAdvance
<1>7. dwarf' = dwarf /\ unit' = u /\ pos' = n + 1 /\ status' = "running"  BY <1>1 DEF Advance
<1>8. Caused(unit', status') /\ AtEnd(unit', pos', status')  BY <1>7 DEF Caused, AtEnd
<1> QED  BY <1>3, <1>4, <1>5, <1>6, <1>7, <1>8, FoundPrimed

LEMMA PushFound ==
    ASSUME IInv, Found, Reading, Advance, Len(stack) = Depth(unit, pos), Opens(unit, pos), TypesGrow, functions' = functions,
           NEW f, stack' = Append(stack, f), FrameHolds(type_lookup', unit, pos, Nothing, f),
           Es(unit)[pos].tag \in Composites => \E r : IsRef(type_lookup', r, unit, pos)
    PROVE  Found'
<1> DEFINE u == unit  n == pos  h == Len(stack)  L == type_lookup  M == type_lookup'  T == types  T2 == types'
<1>1. /\ HasUnit(u) /\ n \in 1..Len(Es(u)) /\ n \in Nat /\ u \in Nat /\ Stack(stack) /\ h \in Nat
      /\ Shape(u, n, h) /\ FramesHold(L, u, n, stack) /\ TypesHold(L, T, u, n, h) /\ FunctionsHold(L, functions, u, n, h)
      /\ status = "running"
  BY ReadingIs
<1>2. Extends(M, L) /\ Table(M)
      /\ (\A r \in DOMAIN L : M[r] # <<u, n>> => T2[r] = T[r])
      /\ \A r \in DOMAIN M \ DOMAIN L : M[r] # <<u, n>> => T2[r] = None  BY DEF TypesGrow
<1>3. Shape(u, n + 1, h + 1) /\ OpenAt(u, n + 1, h + 1) = OpenAt(u, n, h) \cup {n}  BY <1>1, ShapePushes
<1>4. FramesHold(M, u, n + 1, stack')  BY <1>1, <1>2, FramesPushed
<1>5. TypesHold(M, T2, u, n + 1, h + 1)
  <2>1. OpenAt(u, n, h) \subseteq OpenAt(u, n + 1, h + 1) /\ n \in OpenAt(u, n + 1, h + 1)  BY <1>3
  <2>2. IsType(u, n) => Es(u)[n].tag \in Composites
    BY DEF IsType, Opens, Scopes, Types, Indirections
  <2>3. ~HasEnded(u, n + 1, h + 1, u, n)  BY <2>1, <1>1 DEF HasEnded
  <2>4. IsType(u, n) => \E r : /\ IsRef(M, r, u, n)
                               /\ (Es(u)[n].tag \in Composites => HasEnded(u, n + 1, h + 1, u, n)) => TypeHolds(M, u, n, T2[r])
    BY <2>2, <2>3
  <2> HIDE DEF u, n, h, L, M, T, T2
  <2> QED  BY <1>1, <1>2, <2>1, <2>4, TypesAdvance
<1>6. FunctionsHold(M, functions, u, n + 1, h + 1)
  <2>1. n \in OpenAt(u, n + 1, h + 1)  BY <1>3
  <2>2. \A j \in 1..n - 1 : j \in OpenAt(u, n + 1, h + 1) <=> j \in OpenAt(u, n, h)  BY <1>3, <1>1
  <2> HIDE DEF u, n, h, L, M
  <2> QED  BY <1>1, <1>2, <2>1, <2>2, FunctionsAdvance
<1>7. dwarf' = dwarf /\ unit' = u /\ pos' = n + 1 /\ status' = "running"  BY <1>1 DEF Advance
<1>8. Caused(unit', status') /\ AtEnd(unit', pos', status')  BY <1>7 DEF Caused, AtEnd
<1>9. Len(stack') = h + 1  BY <1>1, AppendFacts
<1> QED  BY <1>3, <1>4, <1>5, <1>6, <1>7, <1>8, <1>9, FoundPrimed

LEMMA PopFound ==
    ASSUME IInv, Found, Reading, Len(stack) > Depth(unit, pos), UNCHANGED <<dwarf, unit, pos, type_lookup, status>>,
           Len(stack') = Len(stack) - 1, FramesHold(type_lookup, unit, pos, stack'),
           TypesHold(type_lookup, types', unit, pos, Len(stack) - 1),
           FunctionsHold(type_lookup, functions', unit, pos, Len(stack) - 1)
    PROVE  Found'
<1>1. HasUnit(unit) /\ pos \in 1..Len(Es(unit)) /\ Len(stack) \in Nat /\ Shape(unit, pos, Len(stack)) /\ status = "running"
  BY ReadingIs
<1>2. Shape(unit, pos, Len(stack) - 1)  BY <1>1, ShapePops
<1>3. Caused(unit', status') /\ AtEnd(unit', pos', status')  BY <1>1 DEF Caused, AtEnd
<1> QED  BY <1>2, <1>3, FoundPrimed

LEMMA PanicFound ==
    ASSUME IInv, Found, Panic, NEW i \in 2..Len(Es(unit)), Visible(unit, i), Unsupported(unit, i) PROVE Found'
<1>1. status' = "panicked" /\ UNCHANGED <<dwarf, unit, pos, stack, type_lookup, types, functions>>  BY DEF Panic
<1>2. Caused(unit', status') /\ AtEnd(unit', pos', status')  BY <1>1 DEF Caused, AtEnd
<1> QED  BY <1>1, <1>2, FoundPrimed DEF Found

\* The entry at hand is looked at: its scope is that of the frame on top.
LEMMA AtIs ==
    ASSUME IInv, Found, NEW tags, At(tags)
    PROVE  /\ Reading /\ Len(stack) = Depth(unit, pos) /\ Es(unit)[pos].tag \in tags /\ Visible(unit, pos)
           /\ Here = Es(unit)[pos]
           /\ pos = 1 <=> Es(unit)[pos].tag = "compile_unit"
<1>1. Reading  BY DEF At
<1>2. /\ HasUnit(unit) /\ Here = Es(unit)[pos] /\ Here.depth = Depth(unit, pos) /\ pos \in 1..Len(Es(unit))
      /\ Len(stack) \in Nat /\ Shape(unit, pos, Len(stack)) /\ Len(Es(unit)) \in Nat
  BY <1>1, ReadingIs
<1>3. Visible(unit, pos)  BY <1>2, AtShape DEF At
<1>4. pos = 1 <=> Es(unit)[pos].tag = "compile_unit"
  <2>1. pos # 1 => pos \in 2..Len(Es(unit))  BY <1>2
  <2> QED  BY <2>1, <1>2, UnitFacts
<1> QED  BY <1>1, <1>2, <1>3, <1>4 DEF At

LEMMA TopFound ==
    ASSUME IInv, Found, NEW tags, At(tags), "compile_unit" \notin tags
    PROVE  LET q == ParentOf(unit, pos)
           IN  /\ pos \in 2..Len(Es(unit)) /\ q \in OpenAt(unit, pos, Len(stack)) /\ q \in 1..pos - 1
               /\ Depth(unit, q) + 1 = Len(stack) /\ Len(stack) \in DOMAIN stack /\ stack # <<>> /\ Top = stack[Len(stack)]
               /\ FrameHolds(type_lookup, unit, q, Seen(unit, q, pos, OpenAt(unit, pos, Len(stack))), Top)
               /\ Es(unit)[q].tag \in Scopes /\ Top.kind = ScopeKind(Es(unit)[q].tag)
               /\ \A o \in OpenAt(unit, pos, Len(stack)) : o # q => Depth(unit, o) + 1 # Len(stack)
<1>1. Reading /\ Len(stack) = Depth(unit, pos) /\ pos # 1  BY AtIs
<1>2. /\ HasUnit(unit) /\ pos \in 1..Len(Es(unit)) /\ Len(stack) \in Nat /\ Shape(unit, pos, Len(stack)) /\ Len(Es(unit)) \in Nat
      /\ FramesHold(type_lookup, unit, pos, stack) /\ Stack(stack) /\ DOMAIN stack = 1..Len(stack)
  BY <1>1, ReadingIs
<1>3. pos \in 2..Len(Es(unit))  BY <1>1, <1>2
<1>4. Len(stack) > 0  BY <1>1, <1>2, <1>3, UnitFacts
<1>5. stack # <<>> /\ Top = stack[Len(stack)]  BY <1>4 DEF Top
<1> QED  BY <1>1, <1>2, <1>3, <1>5, TopIs

\* An entry that the frames hold nothing of.
LEMMA KeepFound ==
    ASSUME IInv, Found, Reading, pos # 1, Advance, Len(stack) <= Depth(unit, pos),
           Len(stack) = Depth(unit, pos) => ~Opens(unit, pos), TypesGrow, UNCHANGED <<stack, functions>>,
           \A o \in OpenAt(unit, pos, Len(stack)) : ~Touches(unit, o, pos),
           IsType(unit, pos) => \E r : IsRef(type_lookup', r, unit, pos) /\ TypeHolds(type_lookup', unit, pos, types'[r])
    PROVE  Found'
BY AdvanceFound

\* An entry that the frame on top holds.
LEMMA TopKeeps ==
    ASSUME IInv, Found, NEW tags, At(tags), "compile_unit" \notin tags, Advance, ~Opens(unit, pos), TypesGrow, functions' = functions,
           NEW f, stack' = Below(f),
           FrameHolds(type_lookup', unit, ParentOf(unit, pos),
                      Seen(unit, ParentOf(unit, pos), pos + 1, OpenAt(unit, pos, Len(stack))), f),
           \A o \in OpenAt(unit, pos, Len(stack)) : o # ParentOf(unit, pos) => ~Touches(unit, o, pos),
           IsType(unit, pos) => \E r : IsRef(type_lookup', r, unit, pos) /\ TypeHolds(type_lookup', unit, pos, types'[r])
    PROVE  Found'
<1> DEFINE q == ParentOf(unit, pos)
<1>1. Reading /\ Len(stack) = Depth(unit, pos) /\ pos # 1  BY AtIs
<1>2. /\ Depth(unit, q) + 1 = Len(stack) /\ Len(stack) \in DOMAIN stack
      /\ \A o \in OpenAt(unit, pos, Len(stack)) : o # q => Depth(unit, o) + 1 # Len(stack)
  BY TopFound
<1>3. /\ HasUnit(unit) /\ pos \in 1..Len(Es(unit)) /\ Len(stack) \in Nat /\ Shape(unit, pos, Len(stack)) /\ Len(Es(unit)) \in Nat
      /\ FramesHold(type_lookup, unit, pos, stack) /\ Stack(stack) /\ DOMAIN stack = 1..Len(stack)
  BY <1>1, ReadingIs
<1>4. stack' = Replaced(stack, Len(stack), f)  BY DEF Below, Replaced
<1>5. Len(stack') = Len(stack) /\ stack'[Len(stack)] = f /\ \A k \in DOMAIN stack : k # Len(stack) => stack'[k] = stack[k]
  <2> DEFINE s == stack  k == Len(stack)  t == Replaced(s, k, f)
  <2>1. Stack(s) /\ k \in DOMAIN s  BY <1>2, <1>3
  <2> HIDE DEF s, k
  <2>2. Len(t) = Len(s) /\ t[k] = f /\ \A j \in DOMAIN s : j # k => t[j] = s[j]  BY <2>1, ReplaceFacts
  <2> QED  BY <2>2, <1>4 DEF s, k
<1>6. pos \in 2..Len(Es(unit)) + 1  BY <1>1, <1>3
<1>7. ASSUME NEW o \in OpenAt(unit, pos, Len(stack))
      PROVE  \/ ~Touches(unit, o, pos) /\ stack'[Depth(unit, o) + 1] = stack[Depth(unit, o) + 1]
             \/ FrameHolds(type_lookup', unit, o, Seen(unit, o, pos + 1, OpenAt(unit, pos, Len(stack))),
                           stack'[Depth(unit, o) + 1])
  <2>1. CASE o = q  BY <2>1, <1>2, <1>5
  <2>2. CASE o # q
    <3>1. Depth(unit, o) + 1 \in DOMAIN stack  BY <1>3, <1>6, FrameAt DEF FramesOf
    <3> QED  BY <3>1, <2>2, <1>2, <1>5
  <2> QED  BY <2>1, <2>2
<1> HIDE DEF q
<1> QED  BY <1>1, <1>5, <1>7, AdvanceFound

-----------------------------------------------------------------------------
(* Entries of any scope.                                                     *)
LEMMA FrameGrows ==
    ASSUME NEW L, NEW M, Extends(M, L), NEW u, NEW o, NEW a, NEW f, FrameHolds(L, u, o, a, f)
    PROVE  FrameHolds(M, u, o, a, f)
<1>1. SameFor(u, o, a, a)  BY DEF SameFor
<1> QED  BY <1>1, FrameDepends

LEMMA ParentTouched ==
    ASSUME NEW u, NEW n, NEW o, o # ParentOf(u, n), Es(u)[n].tag # "variable" PROVE ~Touches(u, o, n)
BY DEF Touches, MembersOf, BasesOf, AliasesOf, Children, Declared

LEMMA SkipFound == ASSUME IInv, Found, SkipEntry PROVE Found'
<1> DEFINE u == unit  n == pos  h == Len(stack)
<1>1. Reading /\ h < Here.depth /\ Advance /\ UNCHANGED <<stack, type_lookup, types, functions>>  BY DEF SkipEntry
<1>2. /\ HasUnit(u) /\ n \in 1..Len(Es(u)) /\ h \in Nat /\ Here.depth = Depth(u, n) /\ Depth(u, n) \in Nat
      /\ Shape(u, n, h) /\ Len(Es(u)) \in Nat
  BY <1>1, ReadingIs
<1>3. h < Depth(u, n)  BY <1>1, <1>2
<1>4. n # 1  BY <1>2, <1>3, UnitFacts
<1>5. ~Visible(u, n)  BY <1>2, <1>3, SkipShape
<1>6. ASSUME NEW o \in OpenAt(u, n, h) PROVE ~Touches(u, o, n)
  <2>1. Depth(u, o) < h /\ Depth(u, o) \in Nat  BY <1>2, OpenFacts
  <2>2. n \in 2..Len(Es(u))  BY <1>2, <1>4
  <2>3. Depth(u, ParentOf(u, n)) = Depth(u, n) - 1  BY <1>2, <2>2, ParentFacts
  <2>4. o # ParentOf(u, n)  BY <2>1, <2>3, <1>2, <1>3
  <2> QED  BY <2>4, <1>5 DEF Touches, MembersOf, BasesOf, AliasesOf, Children, Declared
<1>7. ~IsType(u, n)  BY <1>5 DEF IsType
<1>8. TypesGrow  BY <1>1, SameTypesGrow
<1>9. h <= Depth(u, n) /\ h # Depth(u, n)  BY <1>2, <1>3
<1> QED  BY <1>1, <1>4, <1>6, <1>7, <1>8, <1>9, KeepFound

LEMMA ScopedIs ==
    ASSUME IInv, Found, NEW tags, At(tags), "compile_unit" \notin tags, NEW class, class = ClassOf(Es(unit)[pos].tag)
    PROVE  ScopedName(class) = FullName(unit, pos)
<1>1. Reading /\ Len(stack) = Depth(unit, pos) /\ Here = Es(unit)[pos]  BY AtIs
<1>2. pos \in 2..Len(Es(unit))  BY TopFound
<1>3. HasUnit(unit) /\ Stack(stack) /\ Shape(unit, pos, Len(stack)) /\ FramesHold(type_lookup, unit, pos, stack)
  BY <1>1, ReadingIs
<1>4. Append(ParentName(stack), NameOf(unit, pos)) = FullName(unit, pos)  BY <1>1, <1>2, <1>3, ScopedNameIs
<1> QED  BY <1>1, <1>4 DEF ScopedName, NameOf

LEMMA NamespaceFound == ASSUME IInv, Found, DW_TAG_namespace PROVE Found'
<1> DEFINE f == [kind |-> "Namespace", name |-> ScopedName("ns")]
<1>1. At({"namespace"}) /\ stack' = Append(stack, f) /\ Advance /\ UNCHANGED <<type_lookup, types, functions>>
  BY DEF DW_TAG_namespace
<1>2. Reading /\ Len(stack) = Depth(unit, pos) /\ Es(unit)[pos].tag = "namespace"  BY <1>1, AtIs
<1>3. f.name = FullName(unit, pos)  BY <1>1, <1>2, ScopedIs DEF ClassOf, Composites
<1>4. f.kind = ScopeKind(Es(unit)[pos].tag)  BY <1>2 DEF ScopeKind, Composites
<1> HIDE DEF f
<1>5. FrameHolds(type_lookup', unit, pos, Nothing, f)  BY <1>2, <1>3, <1>4, NewFrame DEF Composites
<1>6. Opens(unit, pos)  BY <1>2 DEF Opens, Scopes, Hosts
<1> QED  BY <1>1, <1>2, <1>5, <1>6, SameTypesGrow, PushFound DEF Composites

LEMMA SubprogramFound == ASSUME IInv, Found, DW_TAG_subprogram PROVE Found'
<1> DEFINE f == [kind |-> "InFunction", name |-> ScopedName("fn"),
                 fr |-> [pc_range |-> PcRange(dwarf[unit].load_base, Here.pc),
                         frame_base |-> FrameBase(Here, pos), variables |-> <<>>]]
<1>1. /\ At({"subprogram"})
      /\ IF Here.frame_base = "other" THEN Panic
         ELSE stack' = Append(stack, f) /\ Advance /\ UNCHANGED <<type_lookup, types, functions>>
  BY DEF DW_TAG_subprogram
<1>2. /\ Reading /\ Len(stack) = Depth(unit, pos) /\ Es(unit)[pos].tag = "subprogram" /\ Here = Es(unit)[pos]
      /\ Visible(unit, pos) /\ pos \in 2..Len(Es(unit))
  BY <1>1, AtIs, TopFound
<1>3. f.name = FullName(unit, pos)  BY <1>1, <1>2, ScopedIs DEF ClassOf, Composites
<1>4. f.kind = ScopeKind(Es(unit)[pos].tag)  BY <1>2 DEF ScopeKind, Composites
<1>5. f.fr = [pc_range |-> PcOf(unit, pos), frame_base |-> BaseOf(unit, pos), variables |-> <<>>]
  BY <1>2 DEF PcOf, BaseOf
<1> HIDE DEF f
<1>6. FrameHolds(type_lookup', unit, pos, Nothing, f)  BY <1>2, <1>3, <1>4, <1>5, NewFrame DEF Composites
<1>7. Opens(unit, pos)  BY <1>2 DEF Opens, Scopes, Hosts
<1>8. CASE Here.frame_base = "other"
  <2>1. Unsupported(unit, pos)  BY <1>2, <1>8 DEF Unsupported
  <2> QED  BY <1>1, <1>2, <1>8, <2>1, PanicFound
<1>9. CASE Here.frame_base # "other"
  BY <1>1, <1>2, <1>6, <1>7, <1>9, SameTypesGrow, PushFound DEF Composites
<1> QED  BY <1>8, <1>9

\* The types that are not scopes.
LEMMA OwnRef ==
    ASSUME IInv, Found, Reading
    PROVE  LET L == WithRef(type_lookup, pos)  M == WithTarget(L)
           IN  /\ Table(L) /\ Extends(L, type_lookup) /\ (\E r \in DOMAIN L : L[r] = <<unit, pos>>)
               /\ Table(M) /\ Extends(M, type_lookup) /\ (\E r \in DOMAIN M : M[r] = <<unit, pos>>)
               /\ IsRef(M, Ref(M, pos), unit, pos) /\ IsRef(L, Ref(L, pos), unit, pos)
               /\ Here.ty # 0 => IsRef(M, Ref(M, Here.ty), unit, Here.ty)
<1> DEFINE L == WithRef(type_lookup, pos)  M == WithTarget(L)
<1>1. unit \in Nat /\ pos \in Nat /\ Es(unit)[pos] \in Entry /\ Here = Es(unit)[pos] /\ Table(type_lookup)  BY ReadingIs
<1>2. Here.ty \in Nat  BY <1>1 DEF Entry
<1>3. Table(L) /\ Extends(L, type_lookup) /\ (\E r \in DOMAIN L : L[r] = <<unit, pos>>)  BY <1>1, WithRefGrows
<1>4. M = IF Here.ty = 0 THEN L ELSE WithRef(L, Here.ty)  BY DEF WithTarget
<1> HIDE DEF L, M
<1>5. Table(M) /\ Extends(M, L) /\ (Here.ty # 0 => \E r \in DOMAIN M : M[r] = <<unit, Here.ty>>)
  <2>1. CASE Here.ty = 0  BY <2>1, <1>3, <1>4 DEF Extends
  <2>2. CASE Here.ty # 0  BY <2>2, <1>1, <1>2, <1>3, <1>4, WithRefGrows
  <2> QED  BY <2>1, <2>2
<1>6. Extends(M, type_lookup)  BY <1>3, <1>5, ExtendsTrans
<1>7. \E r \in DOMAIN M : M[r] = <<unit, pos>>  BY <1>3, <1>5 DEF Extends
<1>8. Ref(M, pos) \in DOMAIN M /\ M[Ref(M, pos)] = <<unit, pos>>  BY <1>7, RefFound
<1>9. Ref(L, pos) \in DOMAIN L /\ L[Ref(L, pos)] = <<unit, pos>>  BY <1>3, RefFound
<1>10. Here.ty # 0 => Ref(M, Here.ty) \in DOMAIN M /\ M[Ref(M, Here.ty)] = <<unit, Here.ty>>  BY <1>5, RefFound
<1> QED  BY <1>3, <1>5, <1>6, <1>7, <1>8, <1>9, <1>10 DEF IsRef, L, M

LEMMA NamedTypeFound == ASSUME IInv, Found, DW_TAG_base_type \/ DW_TAG_enumeration_type PROVE Found'
<1> DEFINE e == Es(unit)[pos]  M == WithRef(type_lookup, pos)
<1>1. PICK tag \in {"base_type", "enumeration_type"} :
         At({tag}) /\ Advance /\ UNCHANGED <<stack, functions>>
         /\ Define(M, [kind |-> IF tag = "base_type" THEN "Primitive" ELSE "Enum", name |-> ScopedName(ClassOf(tag))])
  BY DEF DW_TAG_base_type, DW_TAG_enumeration_type, ClassOf, Composites
<1> DEFINE v == [kind |-> IF tag = "base_type" THEN "Primitive" ELSE "Enum", name |-> ScopedName(ClassOf(tag))]
<1>2. Reading /\ Len(stack) = Depth(unit, pos) /\ e.tag = tag /\ pos # 1  BY <1>1, AtIs
<1>3. ScopedName(ClassOf(tag)) = FullName(unit, pos)  BY <1>1, <1>2, ScopedIs
<1>4. TypeHolds(M, unit, pos, v)
  BY <1>2, <1>3 DEF TypeHolds, Composites, Indirections
<1>5. Table(M) /\ Extends(M, type_lookup) /\ \E r \in DOMAIN M : M[r] = <<unit, pos>>  BY <1>2, OwnRef
<1>6. Define(M, v)  BY <1>1
<1> HIDE DEF v, M
<1>7. TypesGrow /\ type_lookup' = M /\ \E r : IsRef(M, r, unit, pos) /\ types'[r] = v  BY <1>5, <1>6, DefineGrows
<1>8. \A o : ~Touches(unit, o, pos)  BY <1>2, TouchedBy
<1>9. ~Opens(unit, pos)  BY <1>2 DEF Opens, Scopes, Composites
<1>10. Len(stack) <= Depth(unit, pos)  BY <1>2, ReadingIs
<1> QED  BY <1>1, <1>2, <1>4, <1>7, <1>8, <1>9, <1>10, KeepFound

\* A type that refers to no other stays unknown.
LEMMA StaysUnknown ==
    ASSUME IInv, Found, Reading, NEW M, Refer(M), Table(M), Extends(M, type_lookup), NEW r, IsRef(M, r, unit, pos)
    PROVE  types'[r] = None
<1>1. types'[r] = IF r \in DOMAIN type_lookup THEN types[r] ELSE None  BY ReferGrows DEF IsRef
<1>2. r \in DOMAIN type_lookup => type_lookup[r] = <<unit, pos>>  BY DEF IsRef, Extends
<1>3. TypesHold(type_lookup, types, unit, pos, Len(stack)) /\ unit \in Nat /\ pos \in Nat  BY ReadingIs
<1>4. r \in DOMAIN type_lookup => types[r] = None  BY <1>2, <1>3 DEF TypesHold
<1> QED  BY <1>1, <1>4

LEMMA IndirectionFound == ASSUME IInv, Found, Indirection PROVE Found'
<1> DEFINE e == Es(unit)[pos]  M == WithTarget(WithRef(type_lookup, pos))  q == ParentOf(unit, pos)
           v == [kind |-> KindOf[Here.tag], to |-> Ref(M, Here.ty)]
           Named1 == Here.tag = "typedef" /\ Top.kind = "InType" /\ Here.name # NoName
           f == [Top EXCEPT !.sub_types = [n \in DOMAIN @ \cup {Here.name} |-> IF n = Here.name THEN Ref(M, pos) ELSE @[n]]]
<1>1. /\ At(Indirections) /\ Advance /\ functions' = functions
      /\ IF Here.ty = 0 THEN Refer(M) ELSE Define(M, v)
      /\ stack' = IF Named1 THEN Below(f) ELSE stack
  BY DEF Indirection
<1>2. "compile_unit" \notin Indirections  BY DEF Indirections
<1>3. Reading /\ Len(stack) = Depth(unit, pos) /\ e.tag \in Indirections /\ pos # 1 /\ Here = e  BY <1>1, <1>2, AtIs DEF Indirections
<1>4. /\ Table(M) /\ Extends(M, type_lookup) /\ (\E r \in DOMAIN M : M[r] = <<unit, pos>>)
      /\ IsRef(M, Ref(M, pos), unit, pos)
      /\ Here.ty # 0 => IsRef(M, Ref(M, Here.ty), unit, Here.ty)
  BY <1>3, OwnRef
<1>5. HasUnit(unit) /\ Len(stack) <= Depth(unit, pos) /\ pos \in 1..Len(Es(unit))  BY <1>3, ReadingIs
<1>6. ~Opens(unit, pos)  BY <1>3 DEF Opens, Scopes, Composites, Indirections
<1>7. e.tag \notin Composites /\ e.tag # "array_type" /\ e.tag # "base_type" /\ e.tag # "enumeration_type" /\ e.tag # "variable"
  BY <1>3 DEF Composites, Indirections
<1> DEFINE W == \E r : IsRef(type_lookup', r, unit, pos) /\ TypeHolds(type_lookup', unit, pos, types'[r])
<1>8. TypesGrow /\ type_lookup' = M /\ W
  <2>1. CASE Here.ty = 0
    <3>1. Refer(M)  BY <2>1, <1>1
    <3> DEFINE R == Ref(M, pos)
    <3>2. IsRef(M, R, unit, pos)  BY <1>4
    <3> HIDE DEF M, R
    <3>3. TypesGrow /\ type_lookup' = M  BY <3>1, <1>4, ReferGrows
    <3>4. types'[R] = None  BY <3>1, <3>2, <1>3, <1>4, StaysUnknown
    <3>5. TypeHolds(M, unit, pos, types'[R])  BY <2>1, <3>4, <1>3, <1>7 DEF TypeHolds
    <3> QED  BY <3>2, <3>3, <3>5
  <2>2. CASE Here.ty # 0
    <3>1. Define(M, v)  BY <2>2, <1>1
    <3>2. IsRef(M, v.to, unit, e.ty) /\ v = [kind |-> KindOf[e.tag], to |-> v.to]  BY <2>2, <1>3, <1>4
    <3> HIDE DEF M, v
    <3>3. TypesGrow /\ type_lookup' = M /\ \E r : IsRef(M, r, unit, pos) /\ types'[r] = v  BY <3>1, <1>4, DefineGrows
    <3>4. TypeHolds(M, unit, pos, v)  BY <2>2, <3>2, <1>3, <1>7 DEF TypeHolds
    <3> QED  BY <3>3, <3>4
  <2> QED  BY <2>1, <2>2
<1>9. \A o : o # q => ~Touches(unit, o, pos)  BY <1>7, ParentTouched
<1>10. /\ pos \in 2..Len(Es(unit)) /\ q \in 1..pos - 1 /\ stack # <<>> /\ Es(unit)[q].tag \in Scopes
       /\ Top.kind = ScopeKind(Es(unit)[q].tag) /\ Top = stack[Len(stack)]
       /\ FrameHolds(type_lookup, unit, q, Seen(unit, q, pos, OpenAt(unit, pos, Len(stack))), Top)
  BY <1>1, <1>2, TopFound
<1>11. pos \in Children(unit, q, e.tag)  BY <1>5, <1>10, UnitFacts DEF Children
<1>12. CASE Named1
  <2>1. pos \in AliasesOf(unit, q) /\ Top.kind = "InType"  BY <1>3, <1>11, <1>12 DEF AliasesOf
  <2>2. FrameHolds(M, unit, q, Seen(unit, q, pos, OpenAt(unit, pos, Len(stack))), Top)  BY <1>4, <1>10, FrameGrows
  <2>3. FrameOK(Top)  BY <1>10, TopFacts
  <2>4. stack' = Below(f)  BY <1>1, <1>12
  <2> DEFINE r == Ref(M, pos)  new == Here.name
  <2>5. IsRef(M, r, unit, pos) /\ new = Es(unit)[pos].name  BY <1>3, <1>4
  <2>6. f = WithAlias(Top, new, r)  BY DEF WithAlias, WithName
  <2> HIDE DEF f, M, r, new, q, Named1, W
  <2>7. FrameHolds(M, unit, q, Seen(unit, q, pos + 1, OpenAt(unit, pos, Len(stack))), f)
    BY <1>5, <1>10, <2>1, <2>2, <2>3, <2>5, <2>6, AliasAdds
  <2> QED  BY <1>1, <1>2, <1>6, <1>8, <1>9, <2>4, <2>7, TopKeeps DEF q, W
<1>13. CASE ~Named1
  <2>1. ~Touches(unit, q, pos)
    <3>1. CASE Here.tag # "typedef"
      <4>1. e.tag \notin {"member", "inheritance", "typedef", "variable"}  BY <3>1, <1>3 DEF Indirections
      <4> QED  BY <4>1, TouchedBy
    <3>2. CASE Here.tag = "typedef"
      <4>1. Es(unit)[q].tag \notin Composites \/ e.name = NoName  BY <3>2, <1>3, <1>10, <1>13, KindIs
      <4> QED  BY <4>1, <3>2, <1>3 DEF Touches, MembersOf, BasesOf, AliasesOf, Children, Declared
    <3> QED  BY <3>1, <3>2
  <2>2. stack' = stack  BY <1>1, <1>13
  <2> HIDE DEF f, M, q, Named1, W
  <2>3. \A o : ~Touches(unit, o, pos)  BY <2>1, <1>9
  <2> QED  BY <1>1, <1>3, <1>5, <1>6, <1>8, <2>2, <2>3, KeepFound DEF W
<1> QED  BY <1>12, <1>13

LEMMA ArrayFound == ASSUME IInv, Found, DW_TAG_array_type PROVE Found'
<1> DEFINE e == Es(unit)[pos]  M == WithTarget(WithRef(type_lookup, pos))  q == ParentOf(unit, pos)
           v == [kind |-> "Array", to |-> Ref(M, Here.ty)]
<1>1. /\ At({"array_type"})
      /\ IF Here.ty = 0 \/ Top.kind \in InTypes THEN Panic ELSE Define(M, v) /\ Advance /\ UNCHANGED <<stack, functions>>
  BY DEF DW_TAG_array_type
<1>2. Reading /\ Len(stack) = Depth(unit, pos) /\ e.tag = "array_type" /\ pos # 1 /\ Here = e /\ Visible(unit, pos)
  BY <1>1, AtIs
<1>3. pos \in 2..Len(Es(unit)) /\ Top.kind = ScopeKind(Es(unit)[q].tag)  BY <1>1, TopFound
<1>4. CASE Here.ty = 0 \/ Top.kind \in InTypes
  <2>1. Unsupported(unit, pos)  BY <1>2, <1>3, <1>4 DEF Unsupported
  <2> QED  BY <1>1, <1>2, <1>3, <1>4, <2>1, PanicFound
<1>5. CASE ~(Here.ty = 0 \/ Top.kind \in InTypes)
  <2>1. Define(M, v) /\ Advance /\ UNCHANGED <<stack, functions>>  BY <1>1, <1>5
  <2>2. /\ Table(M) /\ Extends(M, type_lookup) /\ (\E r \in DOMAIN M : M[r] = <<unit, pos>>)
        /\ IsRef(M, v.to, unit, e.ty) /\ v = [kind |-> "Array", to |-> v.to]
    BY <1>2, <1>5, OwnRef
  <2> HIDE DEF M, v
  <2>3. TypesGrow /\ type_lookup' = M /\ \E r : IsRef(M, r, unit, pos) /\ types'[r] = v  BY <2>1, <2>2, DefineGrows
  <2>4. TypeHolds(M, unit, pos, v)  BY <2>2, <1>2, <1>5 DEF TypeHolds, Composites, Indirections
  <2>5. \A o : ~Touches(unit, o, pos)  BY <1>2, TouchedBy
  <2>6. ~Opens(unit, pos)  BY <1>2 DEF Opens, Scopes, Composites
  <2>7. Len(stack) <= Depth(unit, pos)  BY <1>2, ReadingIs
  <2> QED  BY <1>2, <2>1, <2>3, <2>4, <2>5, <2>6, <2>7, KeepFound
<1> QED  BY <1>4, <1>5

LEMMA CompositeFound == ASSUME IInv, Found, Composite PROVE Found'
<1> DEFINE e == Es(unit)[pos]  L == WithRef(type_lookup, pos)
           f == [kind |-> "InType", ty |-> Ref(L, pos),
                 name |-> ScopedName(IF Here.tag = "union_type" THEN "union" ELSE "struct"),
                 is_union |-> Here.tag = "union_type", fields |-> <<>>, parents |-> <<>>,
                 sub_types |-> <<>>, enum_data |-> None]
<1>1. /\ At(Composites)
      /\ IF Here.tag = "union_type" /\ ~Here.sized THEN Panic
         ELSE Refer(L) /\ stack' = Append(stack, f) /\ Advance /\ UNCHANGED functions
  BY DEF Composite
<1>2. "compile_unit" \notin Composites  BY DEF Composites
<1>3. Reading /\ Len(stack) = Depth(unit, pos) /\ e.tag \in Composites /\ Here = e /\ Visible(unit, pos)  BY <1>1, AtIs
<1>4. pos \in 2..Len(Es(unit))  BY <1>1, <1>2, TopFound
<1>5. CASE Here.tag = "union_type" /\ ~Here.sized
  <2>1. Unsupported(unit, pos)  BY <1>3, <1>5 DEF Unsupported
  <2> QED  BY <1>1, <1>3, <1>4, <1>5, <2>1, PanicFound
<1>6. CASE ~(Here.tag = "union_type" /\ ~Here.sized)
  <2>1. Refer(L) /\ stack' = Append(stack, f) /\ Advance /\ functions' = functions  BY <1>1, <1>6
  <2>2. Table(L) /\ Extends(L, type_lookup) /\ IsRef(L, Ref(L, pos), unit, pos)  BY <1>3, OwnRef
  <2>3. (IF Here.tag = "union_type" THEN "union" ELSE "struct") = ClassOf(e.tag)  BY <1>3 DEF ClassOf, Composites
  <2>4. ScopedName(IF Here.tag = "union_type" THEN "union" ELSE "struct") = FullName(unit, pos)
    BY <1>1, <1>2, <2>3, ScopedIs
  <2>5. /\ f.name = FullName(unit, pos) /\ f.kind = ScopeKind(e.tag) /\ IsRef(L, f.ty, unit, pos)
        /\ f.is_union = (e.tag = "union_type") /\ f.fields = <<>> /\ f.parents = <<>> /\ f.sub_types = <<>> /\ f.enum_data = None
    <3> DEFINE name == ScopedName(IF Here.tag = "union_type" THEN "union" ELSE "struct")  r == Ref(L, pos)
               is_union == Here.tag = "union_type"
    <3>1. name = FullName(unit, pos) /\ IsRef(L, r, unit, pos) /\ is_union = (e.tag = "union_type")  BY <2>2, <2>4, <1>3
    <3>2. ScopeKind(e.tag) = "InType"  BY <1>3, KindIs DEF Scopes
    <3>3. f = [kind |-> "InType", ty |-> r, name |-> name, is_union |-> is_union, fields |-> <<>>, parents |-> <<>>,
               sub_types |-> <<>>, enum_data |-> None]
      OBVIOUS
    <3> HIDE DEF name, r, is_union, f, L
    <3>4. /\ f.name = name /\ f.kind = "InType" /\ f.ty = r /\ f.is_union = is_union /\ f.fields = <<>> /\ f.parents = <<>>
          /\ f.sub_types = <<>> /\ f.enum_data = None
      BY <3>3
    <3> QED  BY <3>1, <3>2, <3>4
  <2>6. e.tag \notin {"subprogram", "lexical_block", "variant_part", "variant"}  BY <1>3 DEF Composites
  <2> HIDE DEF L, f
  <2>7. TypesGrow /\ type_lookup' = L  BY <2>1, <2>2, ReferGrows
  <2>8. FrameHolds(L, unit, pos, Nothing, f)  BY <2>5, <2>6, <1>3, NewFrame
  <2>9. Opens(unit, pos)  BY <1>3 DEF Opens, Scopes, Hosts, Composites
  <2> QED  BY <1>3, <2>1, <2>2, <2>7, <2>8, <2>9, PushFound
<1> QED  BY <1>5, <1>6

-----------------------------------------------------------------------------
(* Entries of the scope on top.                                              *)
LEMMA TargetRef ==
    ASSUME IInv, Found, Reading
    PROVE  LET M == WithTarget(type_lookup)
           IN  Table(M) /\ Extends(M, type_lookup) /\ (Here.ty # 0 => IsRef(M, Ref(M, Here.ty), unit, Here.ty))
<1> DEFINE M == WithTarget(type_lookup)
<1>1. unit \in Nat /\ Es(unit)[pos] \in Entry /\ Here = Es(unit)[pos] /\ Table(type_lookup)  BY ReadingIs
<1>2. Here.ty \in Nat  BY <1>1 DEF Entry
<1>3. M = IF Here.ty = 0 THEN type_lookup ELSE WithRef(type_lookup, Here.ty)  BY DEF WithTarget
<1> HIDE DEF M
<1>4. Table(M) /\ Extends(M, type_lookup) /\ (Here.ty # 0 => \E r \in DOMAIN M : M[r] = <<unit, Here.ty>>)
  <2>1. CASE Here.ty = 0  BY <2>1, <1>1, <1>3 DEF Extends
  <2>2. CASE Here.ty # 0  BY <2>2, <1>1, <1>2, <1>3, WithRefGrows
  <2> QED  BY <2>1, <2>2
<1>5. Here.ty # 0 => Ref(M, Here.ty) \in DOMAIN M /\ M[Ref(M, Here.ty)] = <<unit, Here.ty>>  BY <1>4, RefFound
<1> QED  BY <1>4, <1>5 DEF IsRef, M

LEMMA CompileUnitFound == ASSUME IInv, Found, DW_TAG_compile_unit PROVE Found'
<1>1. At({"compile_unit"}) /\ stack' = Append(stack, Root) /\ Advance /\ UNCHANGED <<type_lookup, types, functions>>
  BY DEF DW_TAG_compile_unit
<1>2. Reading /\ Len(stack) = Depth(unit, pos) /\ Es(unit)[pos].tag = "compile_unit"  BY <1>1, AtIs
<1>3. Root.kind = ScopeKind(Es(unit)[pos].tag)  BY <1>2 DEF ScopeKind, Composites, Root
<1>4. FrameHolds(type_lookup', unit, pos, Nothing, Root)  BY <1>2, <1>3, NewFrame DEF Composites, Naming
<1>5. Opens(unit, pos)  BY <1>2 DEF Opens, Scopes, Hosts
<1> QED  BY <1>1, <1>2, <1>4, <1>5, SameTypesGrow, PushFound DEF Composites

LEMMA LexicalBlockFound == ASSUME IInv, Found, DW_TAG_lexical_block PROVE Found'
<1> DEFINE f == [kind |-> "FcnScope", pc_range |-> PcRange(dwarf[unit].load_base, Here.pc)]  q == ParentOf(unit, pos)
<1>1. /\ At({"lexical_block"}) /\ Top.kind \in {"InFunction", "FcnScope"} /\ stack' = Append(stack, f) /\ Advance
      /\ UNCHANGED <<type_lookup, types, functions>>
  BY DEF DW_TAG_lexical_block
<1>2. Reading /\ Len(stack) = Depth(unit, pos) /\ Es(unit)[pos].tag = "lexical_block" /\ Here = Es(unit)[pos]  BY <1>1, AtIs
<1>3. Es(unit)[q].tag \in Scopes /\ Top.kind = ScopeKind(Es(unit)[q].tag)  BY <1>1, TopFound
<1>4. Es(unit)[q].tag \in {"subprogram", "lexical_block"}  BY <1>1, <1>3, KindIs
<1>5. f.kind = ScopeKind(Es(unit)[pos].tag) /\ f.pc_range = PcOf(unit, pos)  BY <1>2 DEF ScopeKind, Composites, PcOf
<1> HIDE DEF f
<1>6. FrameHolds(type_lookup', unit, pos, Nothing, f)  BY <1>2, <1>5, NewFrame DEF Composites, Naming
<1>7. Opens(unit, pos)  BY <1>2, <1>4 DEF Opens, Scopes, Hosts
<1> QED  BY <1>1, <1>2, <1>6, <1>7, SameTypesGrow, PushFound DEF Composites

LEMMA VariantPartFound == ASSUME IInv, Found, DW_TAG_variant_part PROVE Found'
<1> DEFINE f == [kind |-> "EnumVariants", discr |-> Here.discr, variants |-> <<>>, top_fields |-> <<>>]
           q == ParentOf(unit, pos)
<1>1. /\ At({"variant_part"}) /\ Top.kind = "InType" /\ stack' = Append(stack, f) /\ Advance
      /\ UNCHANGED <<type_lookup, types, functions>>
  BY DEF DW_TAG_variant_part
<1>2. Reading /\ Len(stack) = Depth(unit, pos) /\ Es(unit)[pos].tag = "variant_part" /\ Here = Es(unit)[pos]  BY <1>1, AtIs
<1>3. Es(unit)[q].tag \in Scopes /\ Top.kind = ScopeKind(Es(unit)[q].tag)  BY <1>1, TopFound
<1>4. Es(unit)[q].tag \in Composites  BY <1>1, <1>3, KindIs
<1>5. f.kind = ScopeKind(Es(unit)[pos].tag) /\ f.discr = Es(unit)[pos].discr /\ f.variants = <<>> /\ f.top_fields = <<>>
  BY <1>2 DEF ScopeKind, Composites
<1> HIDE DEF f
<1>6. FrameHolds(type_lookup', unit, pos, Nothing, f)  BY <1>2, <1>5, NewFrame DEF Composites, Naming
<1>7. Opens(unit, pos)  BY <1>2, <1>4 DEF Opens, Scopes, Hosts
<1> QED  BY <1>1, <1>2, <1>6, <1>7, SameTypesGrow, PushFound DEF Composites

LEMMA VariantFound == ASSUME IInv, Found, DW_TAG_variant PROVE Found'
<1> DEFINE f == [kind |-> "EnumVariant", of |-> pos, fields |-> <<>>]  q == ParentOf(unit, pos)
<1>1. /\ At({"variant"}) /\ Top.kind = "EnumVariants" /\ stack' = Append(stack, f) /\ Advance
      /\ UNCHANGED <<type_lookup, types, functions>>
  BY DEF DW_TAG_variant
<1>2. Reading /\ Len(stack) = Depth(unit, pos) /\ Es(unit)[pos].tag = "variant" /\ Here = Es(unit)[pos]  BY <1>1, AtIs
<1>3. Es(unit)[q].tag \in Scopes /\ Top.kind = ScopeKind(Es(unit)[q].tag)  BY <1>1, TopFound
<1>4. Es(unit)[q].tag = "variant_part"  BY <1>1, <1>3, KindIs
<1>5. f.kind = ScopeKind(Es(unit)[pos].tag) /\ f.of = pos /\ f.fields = <<>>  BY <1>2 DEF ScopeKind, Composites
<1> HIDE DEF f
<1>6. FrameHolds(type_lookup', unit, pos, Nothing, f)  BY <1>2, <1>5, NewFrame DEF Composites, Naming
<1>7. Opens(unit, pos)  BY <1>2, <1>4 DEF Opens, Scopes, Hosts
<1> QED  BY <1>1, <1>2, <1>6, <1>7, SameTypesGrow, PushFound DEF Composites

LEMMA InheritanceFound == ASSUME IInv, Found, DW_TAG_inheritance PROVE Found'
<1> DEFINE e == Es(unit)[pos]  M == WithTarget(type_lookup)  q == ParentOf(unit, pos)
           f == [Top EXCEPT !.parents = Append(@, <<pos, Ref(M, Here.ty)>>)]
<1>1. /\ At({"inheritance"}) /\ Top.kind = "InType"
      /\ IF Here.ty = 0 \/ Here.loc = "none" THEN Panic
         ELSE Refer(M) /\ (stack' = IF Here.loc = "expression" THEN stack ELSE Below(f)) /\ Advance /\ functions' = functions
  BY DEF DW_TAG_inheritance
<1>2. Reading /\ Len(stack) = Depth(unit, pos) /\ e.tag = "inheritance" /\ pos # 1 /\ Here = e /\ Visible(unit, pos)
  BY <1>1, AtIs
<1>3. /\ pos \in 2..Len(Es(unit)) /\ q \in 1..pos - 1 /\ stack # <<>> /\ Es(unit)[q].tag \in Scopes
      /\ Top.kind = ScopeKind(Es(unit)[q].tag)
      /\ FrameHolds(type_lookup, unit, q, Seen(unit, q, pos, OpenAt(unit, pos, Len(stack))), Top)
  BY <1>1, TopFound
<1>4. Es(unit)[q].tag \in Composites  BY <1>1, <1>3, KindIs
<1>5. CASE Here.ty = 0 \/ Here.loc = "none"
  <2>1. Unsupported(unit, pos)  BY <1>2, <1>4, <1>5 DEF Unsupported
  <2> QED  BY <1>1, <1>2, <1>3, <1>5, <2>1, PanicFound
<1>6. CASE ~(Here.ty = 0 \/ Here.loc = "none")
  <2>1. Refer(M) /\ (stack' = IF Here.loc = "expression" THEN stack ELSE Below(f)) /\ Advance /\ functions' = functions
    BY <1>1, <1>6
  <2>2. Table(M) /\ Extends(M, type_lookup) /\ IsRef(M, Ref(M, Here.ty), unit, e.ty)  BY <1>2, <1>6, TargetRef
  <2>3. /\ HasUnit(unit) /\ Len(stack) <= Depth(unit, pos) /\ pos \in 1..Len(Es(unit)) /\ e \in Entry
        /\ pos \in DOMAIN Es(unit)
    BY <1>2, ReadingIs, UnitFacts
  <2>4. TypesGrow /\ type_lookup' = M
    <3> HIDE DEF M
    <3> QED  BY <2>1, <2>2, ReferGrows
  <2>5. ~Opens(unit, pos) /\ ~IsType(unit, pos)
    BY <1>2 DEF Opens, Scopes, Composites, IsType, Types, Indirections
  <2>6. \A o : o # q => ~Touches(unit, o, pos)  BY <1>2, ParentTouched
  <2>7. CASE Here.loc = "expression"
    <3>1. ~Touches(unit, q, pos)  BY <2>7, <1>2 DEF Touches, MembersOf, BasesOf, AliasesOf, Children, Declared
    <3>2. \A o : ~Touches(unit, o, pos)  BY <3>1, <2>6
    <3>3. stack' = stack  BY <2>1, <2>7
    <3> HIDE DEF f, M, q
    <3> QED  BY <1>2, <2>1, <2>3, <2>4, <2>5, <3>2, <3>3, KeepFound
  <2>8. CASE Here.loc # "expression"
    <3>1. e.loc = "constant"  BY <2>3, <2>8, <1>2, <1>6 DEF Entry
    <3>2. pos \in BasesOf(unit, q)  BY <3>1, <2>3, <1>2, <1>3 DEF BasesOf, Children
    <3>3. FrameHolds(M, unit, q, Seen(unit, q, pos, OpenAt(unit, pos, Len(stack))), Top)  BY <1>3, <2>2, FrameGrows
    <3>4. FrameOK(Top)  BY <1>3, TopFacts
    <3>5. stack' = Below(f)  BY <2>1, <2>8
    <3> DEFINE r == Ref(M, Here.ty)
    <3>6. IsRef(M, r, unit, e.ty) /\ f = [Top EXCEPT !.parents = Append(@, <<pos, r>>)]  BY <2>2
    <3> HIDE DEF f, M, r, q
    <3>7. FrameHolds(M, unit, q, Seen(unit, q, pos + 1, OpenAt(unit, pos, Len(stack))), f)
      BY <1>1, <1>3, <2>3, <3>2, <3>3, <3>4, <3>6, BaseAdds
    <3> QED  BY <1>1, <2>1, <2>4, <2>5, <2>6, <3>5, <3>7, TopKeeps DEF q
  <2> QED  BY <2>7, <2>8
<1> QED  BY <1>5, <1>6

LEMMA MemberFound == ASSUME IInv, Found, DW_TAG_member PROVE Found'
<1> DEFINE e == Es(unit)[pos]  M == WithTarget(type_lookup)  q == ParentOf(unit, pos)  qt == Es(unit)[q].tag
           bad == \/ Here.loc = "none" /\ Top.kind # "InType"
                  \/ Here.loc = "expression" \/ Here.ty = 0
           f == IF Top.kind = "EnumVariants" THEN [Top EXCEPT !.top_fields = Append(@, pos)]
                ELSE [Top EXCEPT !.fields = Append(@, pos)]
<1>1. /\ At({"member"}) /\ Top.kind \in InTypes
      /\ IF IsBitField THEN Advance /\ UNCHANGED <<stack, type_lookup, types, functions>>
         ELSE IF bad THEN Panic ELSE Refer(M) /\ stack' = Below(f) /\ Advance /\ UNCHANGED functions
  BY DEF DW_TAG_member
<1>2. Reading /\ Len(stack) = Depth(unit, pos) /\ e.tag = "member" /\ pos # 1 /\ Here = e /\ Visible(unit, pos)
  BY <1>1, AtIs
<1>3. /\ pos \in 2..Len(Es(unit)) /\ q \in 1..pos - 1 /\ stack # <<>> /\ qt \in Scopes /\ Top.kind = ScopeKind(qt)
      /\ FrameHolds(type_lookup, unit, q, Seen(unit, q, pos, OpenAt(unit, pos, Len(stack))), Top)
  BY <1>1, TopFound
<1>4. qt \in Composites <=> Top.kind = "InType"  BY <1>3, KindIs
<1>5. qt \in Composites => Top.is_union = (qt = "union_type")  BY <1>3 DEF FrameHolds, CompositeHolds
<1>6. /\ HasUnit(unit) /\ Len(stack) <= Depth(unit, pos) /\ pos \in 1..Len(Es(unit)) /\ e \in Entry
      /\ pos \in DOMAIN Es(unit)
  BY <1>2, ReadingIs, UnitFacts
<1>7. ~Opens(unit, pos) /\ ~IsType(unit, pos)  BY <1>2 DEF Opens, Scopes, Composites, IsType, Types, Indirections
<1>8. \A o : o # q => ~Touches(unit, o, pos)  BY <1>2, ParentTouched
<1>9. IsBitField <=> e.loc = "none" /\ qt \in Composites /\ qt # "union_type"  BY <1>2, <1>4, <1>5 DEF IsBitField
<1>10. CASE IsBitField
  <2>1. ~Touches(unit, q, pos)  BY <1>2, <1>9, <1>10 DEF Touches, MembersOf, BasesOf, AliasesOf, Children, Declared
  <2>2. \A o : ~Touches(unit, o, pos)  BY <2>1, <1>8
  <2>3. Advance /\ UNCHANGED <<stack, type_lookup, types, functions>>  BY <1>1, <1>10
  <2> HIDE DEF f, M, q
  <2> QED  BY <1>2, <1>6, <1>7, <2>2, <2>3, SameTypesGrow, KeepFound
<1>11. CASE ~IsBitField /\ bad
  <2>1. ScopeKind(qt) \in InTypes  BY <1>1, <1>3
  <2>2. e.loc = "expression" \/ e.ty = 0 \/ (e.loc = "none" /\ qt \notin Composites)  BY <1>2, <1>4, <1>11
  <2>3. Unsupported(unit, pos)  BY <1>2, <1>9, <1>11, <2>1, <2>2 DEF Unsupported
  <2>4. Panic  BY <1>1, <1>11
  <2> QED  BY <1>2, <1>3, <2>3, <2>4, PanicFound
<1>12. CASE ~IsBitField /\ ~bad
  <2>1. Refer(M) /\ stack' = Below(f) /\ Advance /\ functions' = functions  BY <1>1, <1>12
  <2>2. Table(M) /\ Extends(M, type_lookup)  BY <1>2, TargetRef
  <2>3. TypesGrow /\ type_lookup' = M
    <3> HIDE DEF M
    <3> QED  BY <2>1, <2>2, ReferGrows
  <2>4. e.loc = "constant" \/ qt = "union_type"  BY <1>2, <1>4, <1>6, <1>9, <1>12 DEF Entry
  <2>5. pos \in MembersOf(unit, q)  BY <2>4, <1>2, <1>3, <1>6 DEF MembersOf, Children
  <2>6. FrameHolds(M, unit, q, Seen(unit, q, pos, OpenAt(unit, pos, Len(stack))), Top)  BY <1>3, <2>2, FrameGrows
  <2>7. FrameOK(Top)  BY <1>3, TopFacts
  <2>8. Top.kind \in {"InType", "EnumVariants", "EnumVariant"}  BY <1>1 DEF InTypes
  <2>9. FrameHolds(M, unit, q, Seen(unit, q, pos + 1, OpenAt(unit, pos, Len(stack))), f)
    <3>1. CASE Top.kind = "EnumVariants"
      <4>1. f = [Top EXCEPT !.top_fields = Append(@, pos)]  BY <3>1
      <4> HIDE DEF f, M, q
      <4>2. qt \in Scopes  BY <1>3
      <4> QED  BY <1>3, <1>6, <2>5, <2>6, <2>7, <3>1, <4>1, <4>2, TopFieldAdds
    <3>2. CASE Top.kind # "EnumVariants"
      <4>1. f = [Top EXCEPT !.fields = Append(@, pos)] /\ Top.kind \in {"InType", "EnumVariant"}  BY <2>8, <3>2
      <4> HIDE DEF f, M, q
      <4>2. qt \in Scopes  BY <1>3
      <4> QED  BY <1>3, <1>6, <2>5, <2>6, <2>7, <4>1, <4>2, FieldAdds
    <3> QED  BY <3>1, <3>2
  <2> HIDE DEF f, M, q
  <2> QED  BY <1>1, <1>7, <1>8, <2>1, <2>3, <2>9, TopKeeps DEF q
<1> QED  BY <1>10, <1>11, <1>12

LEMMA InnerFound ==
    ASSUME IInv, Found, At(Inner \ Arms[Top.kind])
    PROVE  At({Es(unit)[pos].tag}) /\ Es(unit)[pos].tag # "compile_unit" /\ Es(unit)[pos].tag \in Inner \ Arms[Top.kind]
<1>1. Reading /\ Len(stack) = Depth(unit, pos) /\ Es(unit)[pos].tag \in Inner \ Arms[Top.kind] /\ Here = Es(unit)[pos]
      /\ (pos = 1 <=> Es(unit)[pos].tag = "compile_unit")
  BY AtIs
<1>2. HasUnit(unit) /\ Stack(stack) /\ Len(stack) \in Nat  BY <1>1, ReadingIs
<1>3. pos = 1 => Top.kind = "Root"
  <2>1. pos = 1 => Len(stack) = 0  BY <1>1, <1>2, UnitFacts
  <2>2. Len(stack) = 0 => stack = <<>>  BY DEF IInv, Frames, Stack
  <2> QED  BY <2>1, <2>2 DEF Top, Root
<1>4. Arms["Root"] = {"compile_unit"}  BY DEF Arms
<1> QED  BY <1>1, <1>3, <1>4 DEF At

LEMMA IgnoreFound == ASSUME IInv, Found, IgnoreEntry PROVE Found'
<1> DEFINE e == Es(unit)[pos]  q == ParentOf(unit, pos)  qt == Es(unit)[q].tag
<1>1. /\ Advance /\ UNCHANGED <<stack, type_lookup, types, functions>>
      /\ \/ At(Inner \ Arms[Top.kind]) /\ Top.kind \notin InTypes
         \/ At({"template_type_parameter", "imported_declaration", "variable"}) /\ Top.kind = "InType"
  BY DEF IgnoreEntry
<1>2. \/ At({e.tag}) /\ e.tag # "compile_unit" /\ e.tag \in Inner \ Arms[Top.kind] /\ Top.kind \notin InTypes
      \/ At({e.tag}) /\ e.tag \in {"template_type_parameter", "imported_declaration", "variable"} /\ Top.kind = "InType"
  BY <1>1, InnerFound, AtIs DEF At
<1>3. Reading /\ Len(stack) = Depth(unit, pos) /\ pos # 1 /\ Here = e  BY <1>2, AtIs
<1>4. pos \in 2..Len(Es(unit)) /\ qt \in Scopes /\ Top.kind = ScopeKind(qt)  BY <1>2, TopFound
<1>5. Len(stack) <= Depth(unit, pos)  BY <1>3, ReadingIs
<1>6. CASE e.tag \in Inner \ Arms[Top.kind] /\ Top.kind \notin InTypes
  <2>1. Top.kind \in {"Root", "Namespace", "InFunction", "FcnScope"}  BY <1>4, <1>6, KindIs DEF InTypes
  <2>2. qt \in {"compile_unit", "namespace", "subprogram", "lexical_block"}  BY <2>1, <1>4, KindIs
  <2>3. e.tag \notin Types /\ e.tag # "namespace" /\ e.tag # "subprogram" /\ e.tag # "compile_unit"
    BY <1>2, <1>6 DEF Inner, InTypes
  <2>4. e.tag \in {"lexical_block", "variable"} => qt \in {"compile_unit", "namespace"}
    BY <1>4, <1>6, <2>1, <2>2, KindIs DEF Arms
  <2>5. ~Opens(unit, pos)
    BY <2>2, <2>3, <2>4 DEF Opens, Hosts, Scopes, Types, Composites
  <2>6. \A o : ~Touches(unit, o, pos)
    BY <2>2, <2>3, <2>4 DEF Touches, MembersOf, BasesOf, AliasesOf, Children, Declared, Types, Composites, Indirections
  <2>7. ~IsType(unit, pos)  BY <2>3 DEF IsType
  <2> QED  BY <1>1, <1>3, <1>5, <2>5, <2>6, <2>7, SameTypesGrow, KeepFound
<1>7. CASE e.tag \in {"template_type_parameter", "imported_declaration", "variable"} /\ Top.kind = "InType"
  <2>1. qt \in Composites  BY <1>4, <1>7, KindIs
  <2>2. ~Opens(unit, pos)  BY <1>7 DEF Opens, Scopes, Composites
  <2>3. \A o : ~Touches(unit, o, pos)
    BY <1>7, <2>1 DEF Touches, MembersOf, BasesOf, AliasesOf, Children, Declared, Composites
  <2>4. ~IsType(unit, pos)  BY <1>7 DEF IsType, Types, Composites, Indirections
  <2> QED  BY <1>1, <1>3, <1>5, <2>2, <2>3, <2>4, SameTypesGrow, KeepFound
<1> QED  BY <1>2, <1>6, <1>7

LEMMA UnexpectedFound == ASSUME IInv, Found, UnexpectedEntry PROVE Found'
<1> DEFINE e == Es(unit)[pos]  q == ParentOf(unit, pos)  qt == Es(unit)[q].tag
<1>1. At(Inner \ Arms[Top.kind]) /\ Top.kind \in InTypes /\ Panic  BY DEF UnexpectedEntry
<1>2. At({e.tag}) /\ e.tag # "compile_unit" /\ e.tag \in Inner \ Arms[Top.kind]  BY <1>1, InnerFound
<1>3. Visible(unit, pos)  BY <1>2, AtIs
<1>4. pos \in 2..Len(Es(unit)) /\ Top.kind = ScopeKind(qt)  BY <1>2, TopFound
<1>5. Unsupported(unit, pos)  BY <1>1, <1>2, <1>4 DEF Unsupported
<1> QED  BY <1>1, <1>3, <1>4, <1>5, PanicFound

\* Around a variable there is a function, and the first one is that of its frame.
LEMMA FirstFunction ==
    ASSUME IInv, stack # <<>>, Top.kind \in {"InFunction", "FcnScope"}
    PROVE  CurrentFunction \in DOMAIN stack /\ stack[CurrentFunction].kind = "InFunction"
<1>1. DOMAIN stack = 1..Len(stack) /\ Len(stack) \in Nat /\ Nesting(stack)  BY StackFacts DEF IInv, Frames
<1> DEFINE T == {k \in DOMAIN stack : stack[k].kind \in {"InFunction", "FcnScope"}}
           F == {k \in DOMAIN stack : stack[k].kind = "InFunction"}
<1>2. Len(stack) \in T  BY TopFacts
<1>3. T \in SUBSET Nat /\ T # {}  BY <1>1, <1>2
<1>4. PICK k \in T : \A m \in T : k <= m
  <2> HIDE DEF T
  <2> QED  BY <1>3, Least
<1>5. stack[k].kind = "InFunction"
  <2> SUFFICES ASSUME stack[k].kind = "FcnScope" PROVE FALSE  OBVIOUS
  <2>1. MayBeAbove("FcnScope") = {"InFunction", "FcnScope"}  BY DEF MayBeAbove
  <2>2. k # 1  BY <1>1, <2>1 DEF Nesting, FrameFields
  <2>3. stack[k - 1].kind \in {"InFunction", "FcnScope"}  BY <1>1, <2>1, <2>2 DEF Nesting
  <2>4. k - 1 \in DOMAIN stack  BY <1>1, <2>2
  <2>5. k - 1 \in T  BY <2>3, <2>4
  <2> QED  BY <2>5, <1>1, <1>4
<1>6. F \in SUBSET Nat /\ k \in F  BY <1>1, <1>5
<1>7. CurrentFunction = Min(F)  BY DEF CurrentFunction
<1>8. Min(F) \in F
  <2> HIDE DEF F
  <2>1. \E m \in F : \A j \in F : m <= j  BY <1>6, Least
  <2> QED  BY <2>1 DEF Min
<1> QED  BY <1>7, <1>8

\* get_pc_range finds a range exactly where there is code, and the real one
\* where it can tell it.
LEMMA PcFacts ==
    ASSUME NEW u, HasUnit(u), NEW i \in 1..Len(Es(u))
    PROVE  LET pc == Es(u)[i].pc
           IN  /\ dwarf[u].load_base \in Nat /\ pc.lo \in Nat \cup {None} /\ pc.hi \in Nat \cup {None}
               /\ pc.is_length \in BOOLEAN /\ DOMAIN pc.list \in SUBSET Nat
               /\ \A k \in DOMAIN pc.list : /\ pc.list[k].kind \in {"base", "offsets", "addresses", "length"}
                                            /\ pc.list[k].a \in Nat /\ pc.list[k].b \in Nat
<1> DEFINE R == [kind : {"base", "offsets", "addresses", "length"}, a : Nat, b : Nat]
<1>1. Es(u)[i] \in Entry  BY UnitFacts
<1>2. ASSUME NEW e \in Entry
      PROVE  e.pc.lo \in Nat \cup {None} /\ e.pc.hi \in Nat \cup {None} /\ e.pc.is_length \in BOOLEAN /\ e.pc.list \in Seq(R)
  BY DEF Entry
<1>3. ASSUME NEW s \in Seq(R)
      PROVE  DOMAIN s \in SUBSET Nat /\ \A k \in DOMAIN s : /\ s[k].kind \in {"base", "offsets", "addresses", "length"}
                                                         /\ s[k].a \in Nat /\ s[k].b \in Nat
  <2> HIDE DEF R
  <2>1. DOMAIN s = 1..Len(s) /\ \A k \in DOMAIN s : s[k] \in R  BY <1>3
  <2> QED  BY <2>1 DEF R
<1>4. dwarf[u].load_base \in Nat  BY DwarfsAssumption DEF HasUnit, IsUnit
<1> QED  BY <1>1, <1>2, <1>3, <1>4

LEMMA CodeIsRange ==
    ASSUME NEW u, HasUnit(u), NEW i \in 1..Len(Es(u)) PROVE PcOf(u, i) # {} <=> HasCode(u, i)
<1> DEFINE pc == Es(u)[i].pc
<1>1. pc.lo \in Nat \cup {None} /\ pc.hi \in Nat \cup {None}  BY PcFacts
<1>2. CASE pc.lo = None
  <2>1. PcOf(u, i) # {} <=> Pairs(pc.list) # {}  BY <1>2 DEF PcOf, PcRange, Pairs
  <2>2. Covered(u, pc) # {} <=> Pairs(pc.list) # {}  BY <1>2 DEF Covered
  <2> QED  BY <2>1, <2>2 DEF HasCode, RealRange
<1>3. CASE pc.lo # None
  <2>1. PcOf(u, i) # {}
    <3>1. CASE pc.hi = None  BY <1>3, <3>1 DEF PcOf, PcRange
    <3>2. CASE pc.hi # None /\ pc.lo <= pc.hi  BY <1>3, <3>2 DEF PcOf, PcRange
    <3>3. CASE pc.hi # None /\ pc.lo > pc.hi  BY <1>1, <1>3, <3>3 DEF PcOf, PcRange
    <3> QED  BY <1>1, <1>3, <3>1, <3>2, <3>3
  <2>2. Covered(u, pc) # {}  BY <1>3 DEF Covered
  <2> QED  BY <2>1, <2>2 DEF HasCode, RealRange
<1> QED  BY <1>2, <1>3

LEMMA VariableFound == ASSUME IInv, Found, DW_TAG_variable PROVE Found'
<1> DEFINE u == unit  n == pos  e == Es(u)[n]  M == WithTarget(type_lookup)  q == ParentOf(u, n)  qt == Es(u)[q].tag
           c == CurrentFunction  open == OpenAt(u, n, Len(stack))  range == [pc_range |-> ScopeRange, position |-> n]
           f == [stack[c] EXCEPT !.fr.variables = WithVariable(@, Here.name, Ref(M, Here.ty), range)]
<1>1. /\ At({"variable"}) /\ Top.kind \in {"InFunction", "FcnScope"}
      /\ IF Here.name = NoName \/ ScopeRange = {} THEN Refer(M) /\ Advance /\ UNCHANGED <<stack, functions>>
         ELSE IF Here.ty = 0 THEN Panic
         ELSE stack' = Replaced(stack, c, f) /\ Refer(M) /\ Advance /\ functions' = functions
  BY DEF DW_TAG_variable, Replaced
<1>2. Reading /\ Len(stack) = Depth(u, n) /\ e.tag = "variable" /\ n # 1 /\ Here = e /\ Visible(u, n)
  BY <1>1, AtIs
<1>3. /\ n \in 2..Len(Es(u)) /\ q \in 1..n - 1 /\ stack # <<>> /\ qt \in Scopes /\ Top.kind = ScopeKind(qt)
      /\ FrameHolds(type_lookup, u, q, Seen(u, q, n, open), Top)
  BY <1>1, TopFound
<1>4. qt \in {"subprogram", "lexical_block"} /\ (qt = "subprogram" <=> Top.kind = "InFunction")  BY <1>1, <1>3, KindIs
<1>5. ScopeRange = PcOf(u, q)  BY <1>3, <1>4 DEF FrameHolds, FunctionHolds, ScopeRange
<1>6. /\ HasUnit(u) /\ Len(stack) <= Depth(u, n) /\ n \in 1..Len(Es(u)) /\ e \in Entry /\ n \in DOMAIN Es(u)
      /\ Stack(stack) /\ Shape(u, n, Len(stack)) /\ FramesHold(type_lookup, u, n, stack) /\ Len(Es(u)) \in Nat /\ Len(stack) \in Nat
  BY <1>2, ReadingIs, UnitFacts
<1>7. ~Opens(u, n) /\ ~IsType(u, n)  BY <1>2 DEF Opens, Scopes, Composites, IsType, Types, Indirections
<1>8. Table(M) /\ Extends(M, type_lookup) /\ (Here.ty # 0 => IsRef(M, Ref(M, Here.ty), u, e.ty))  BY <1>2, TargetRef
<1>9. Refer(M) => TypesGrow /\ type_lookup' = M
  <2> HIDE DEF M
  <2> QED  BY <1>8, ReferGrows
<1>10. CASE Here.name = NoName \/ ScopeRange = {}
  <2>1. Refer(M) /\ Advance /\ UNCHANGED <<stack, functions>>  BY <1>1, <1>10
  <2>2. \A o : \A name \in Named : n \notin Declared(u, o, name)
    BY <1>2, <1>5, <1>10 DEF Declared, Named
  <2>3. \A o : ~Touches(u, o, n)
    BY <1>2, <2>2 DEF Touches, MembersOf, BasesOf, AliasesOf, Children
  <2> HIDE DEF f, M, q, open, c
  <2> QED  BY <1>2, <1>6, <1>7, <1>9, <2>1, <2>3, KeepFound
<1>11. CASE ~(Here.name = NoName \/ ScopeRange = {}) /\ Here.ty = 0
  <2>1. HasCode(u, q)
    <3>1. q \in 1..Len(Es(u))  BY <1>3, <1>6
    <3> QED  BY <3>1, <1>5, <1>6, <1>11, CodeIsRange
  <2>3. Unsupported(u, n)  BY <1>2, <1>4, <1>11, <2>1 DEF Unsupported
  <2>2. Panic  BY <1>1, <1>11
  <2> QED  BY <1>2, <1>3, <2>2, <2>3, PanicFound
<1>12. CASE ~(Here.name = NoName \/ ScopeRange = {}) /\ Here.ty # 0
  <2>1. stack' = Replaced(stack, c, f) /\ Refer(M) /\ Advance /\ functions' = functions  BY <1>1, <1>12
  <2> DEFINE new == Here.name  r == Ref(M, Here.ty)
  <2>2. new \in Named /\ new = e.name /\ IsRef(M, r, u, e.ty)  BY <1>2, <1>6, <1>8, <1>12 DEF Named, Entry
  <2>3. c \in DOMAIN stack /\ stack[c].kind = "InFunction" /\ FrameOK(stack[c])
    BY <1>1, <1>3, FirstFunction DEF IInv, Frames
  <2>4. n \in 2..Len(Es(u)) + 1 /\ n \in 1..Len(Es(u)) + 1  BY <1>3, <1>6
  <2>5. /\ \A o \in open : /\ Depth(u, o) + 1 \in DOMAIN stack /\ Depth(u, o) \in Nat /\ Es(u)[o].tag \in Scopes
                           /\ stack[Depth(u, o) + 1].kind = ScopeKind(Es(u)[o].tag)
                           /\ o \in 1..n - 1 /\ Visible(u, o) /\ o \in DOMAIN Es(u)
        /\ \A k \in DOMAIN stack : \E o \in open : k = Depth(u, o) + 1
    <3>1. \A o \in open : o \in 1..n - 1 /\ Visible(u, o)  BY <1>6 DEF OpenAt, Shape
    <3>2. \A o \in open : /\ Depth(u, o) + 1 \in DOMAIN stack /\ Depth(u, o) \in Nat /\ Es(u)[o].tag \in Scopes
                          /\ stack[Depth(u, o) + 1].kind = ScopeKind(Es(u)[o].tag)
      BY <1>6, <2>4, FrameAt DEF FramesOf
    <3>3. \A k \in DOMAIN stack : \E o \in open : k = Depth(u, o) + 1  BY <1>6, <2>4, FrameAt DEF FramesOf
    <3>4. \A o \in 1..n - 1 : o \in DOMAIN Es(u)  BY <1>6, UnitFacts
    <3> QED  BY <3>1, <3>2, <3>3, <3>4
  <2>6. open = Ancestors(u, n)  BY <1>2, <1>6, AtShape
  <2>7. PICK p \in open : c = Depth(u, p) + 1  BY <2>3, <2>5
  <2>8. Es(u)[p].tag = "subprogram" /\ IsFunction(u, p)  BY <2>3, <2>5, <2>7, KindIs DEF IsFunction
  <2>9. /\ FunctionOf(u, n) \in open /\ IsFunction(u, FunctionOf(u, n)) /\ p <= FunctionOf(u, n)
    <3>1. p \in Ancestors(u, n) /\ p \in 1..n - 1  BY <2>5, <2>6, <2>7
    <3>2. p <= FunctionOf(u, n) /\ FunctionOf(u, n) \in Nat
          /\ (FunctionOf(u, n) = 0 \/ (FunctionOf(u, n) \in Ancestors(u, n) /\ Es(u)[FunctionOf(u, n)].tag = "subprogram"))
      BY <1>6, <2>8, <3>1, FunctionOfFacts
    <3>3. FunctionOf(u, n) \in Ancestors(u, n) /\ Es(u)[FunctionOf(u, n)].tag = "subprogram"  BY <3>1, <3>2
    <3> QED  BY <3>2, <3>3, <2>5, <2>6 DEF IsFunction
  \* Two functions that are open are nested in each other.
  <2>10. p # FunctionOf(u, n) => Nested(u, p) /\ Nested(u, FunctionOf(u, n))
    <3> DEFINE g == FunctionOf(u, n)
    <3> SUFFICES ASSUME p # g PROVE Nested(u, p) /\ Nested(u, g)  OBVIOUS
    <3>1. p \in 1..n - 1 /\ g \in 1..n - 1 /\ g \in open /\ p <= g /\ p \in DOMAIN Es(u) /\ g \in DOMAIN Es(u)  BY <2>5, <2>9
    <3>2. p < g  BY <3>1
    <3> HIDE DEF g
    <3>3. p \in Ancestors(u, g)  BY <1>6, <2>4, <3>1, <3>2, OpenDepths
    <3> QED  BY <3>1, <3>3, <2>8, <2>9 DEF Nested, g
  <2>11. n \in Declared(u, FunctionOf(u, n), new)  BY <1>2, <1>4, <1>5, <1>6, <1>12 DEF Declared
  <2>12. Len(stack') = Len(stack) /\ stack'[c] = f /\ \A k \in DOMAIN stack : k # c => stack'[k] = stack[k]
    <3> DEFINE s == stack  t == Replaced(s, c, f)
    <3>1. Stack(s) /\ c \in DOMAIN s  BY <1>6, <2>3
    <3> HIDE DEF s, c, f
    <3>2. Len(t) = Len(s) /\ t[c] = f /\ \A j \in DOMAIN s : j # c => t[j] = s[j]  BY <3>1, ReplaceFacts
    <3> QED  BY <3>2, <2>1 DEF s
  <2>13. ASSUME NEW o \in open
         PROVE  \/ ~Touches(u, o, n) /\ stack'[Depth(u, o) + 1] = stack[Depth(u, o) + 1]
                \/ FrameHolds(M, u, o, Seen(u, o, n + 1, open), stack'[Depth(u, o) + 1])
    <3>1. CASE o = p
      <4> DEFINE s == stack[c]
      <4>1. FrameHolds(type_lookup, u, p, Seen(u, p, n, open), s)  BY <1>6, <2>7 DEF FramesHold
      <4>2. FrameHolds(M, u, p, Seen(u, p, n, open), s)  BY <1>8, <4>1, FrameGrows
      <4>3. ~Nested(u, p) => n \in Declared(u, p, new)  BY <2>10, <2>11
      <4>4. range = [pc_range |-> PcOf(u, q), position |-> n]  BY <1>5
      <4>5. f = [s EXCEPT !.fr.variables = WithVariable(@, new, r, range)]  OBVIOUS
      <4>6. p \in 1..n - 1 /\ Es(u)[p].tag \in Scopes /\ s.kind = "InFunction" /\ FrameOK(s)  BY <2>3, <2>5, <2>7
      <4> HIDE DEF s, f, r, new, range, M, c, q, open
      <4>7. FrameHolds(M, u, p, Seen(u, p, n + 1, open), [s EXCEPT !.fr.variables = WithVariable(@, new, r, range)])
        BY <1>6, <2>2, <4>2, <4>3, <4>4, <4>6, VariableAdds DEF q
      <4> QED  BY <3>1, <2>7, <2>12, <4>5, <4>7
    <3>2. CASE o # p
      <4>1. Depth(u, o) + 1 # c
        <5>1. Depth(u, o) = Depth(u, p) => o = p  BY <1>6, <2>4, <2>7, OneOpen
        <5> QED  BY <5>1, <3>2, <2>5, <2>7
      <4>2. stack'[Depth(u, o) + 1] = stack[Depth(u, o) + 1]  BY <4>1, <2>5, <2>12
      <4>3. ~Touches(u, o, n)
        <5>1. \A name \in Named : n \in Declared(u, o, name) => o = FunctionOf(u, n)  BY DEF Declared
        <5>2. ~Nested(u, o) => \A name \in Named : n \notin Declared(u, o, name)  BY <5>1, <3>2, <2>10
        <5> QED  BY <5>2, <1>2 DEF Touches, MembersOf, BasesOf, AliasesOf, Children
      <4> QED  BY <4>2, <4>3
    <3> QED  BY <3>1, <3>2
  <2>14. TypesGrow /\ type_lookup' = M  BY <1>9, <2>1
  <2> HIDE DEF f, M, c
  <2> QED  BY <1>2, <1>6, <1>7, <2>1, <2>12, <2>13, <2>14, AdvanceFound
<1> QED  BY <1>10, <1>11, <1>12

-----------------------------------------------------------------------------
(* Scopes that end.                                                          *)
Ends(q) ==
    /\ q \in OpenAt(unit, pos, Len(stack)) /\ Depth(unit, q) = Len(stack) - 1 /\ Depth(unit, q) \in Nat
    /\ q \in 1..pos - 1 /\ q \in 1..Len(Es(unit)) /\ pos \in 2..Len(Es(unit))
    /\ OpenAt(unit, pos, Len(stack) - 1) = OpenAt(unit, pos, Len(stack)) \ {q}
    /\ \A o \in OpenAt(unit, pos, Len(stack)) \ {q} : Depth(unit, o) + 1 \in 1..Len(stack) - 1
    /\ \A o \in OpenAt(unit, pos, Len(stack)) : Depth(unit, o) = Len(stack) - 1 => o = q
    /\ Opens(unit, q) /\ Visible(unit, q) /\ Es(unit)[q].tag \in Scopes /\ Top.kind = ScopeKind(Es(unit)[q].tag)
    /\ FrameHolds(type_lookup, unit, q, All(unit, q), Top)

LEMMA EndIs ==
    ASSUME IInv, Found, Reading, Len(stack) > Here.depth
    PROVE  /\ Len(stack) > Depth(unit, pos) /\ Len(stack) > 0 /\ stack # <<>> /\ Len(stack) \in DOMAIN stack
           /\ Top = stack[Len(stack)] /\ FrameOK(Top)
           /\ Stack(Popped) /\ Len(Popped) = Len(stack) - 1 /\ \A k \in 1..Len(stack) - 1 : Popped[k] = stack[k]
           /\ pos = 1 => Top = Root /\ \A k \in DOMAIN stack : stack[k] = Root
           /\ pos # 1 => \E q : Ends(q)
<1> DEFINE u == unit  n == pos  h == Len(stack)  open == OpenAt(u, n, h)
<1>1. /\ HasUnit(u) /\ n \in 1..Len(Es(u)) /\ h \in Nat /\ Here.depth = Depth(u, n) /\ Depth(u, n) \in Nat
      /\ Shape(u, n, h) /\ Len(Es(u)) \in Nat /\ Stack(stack) /\ DOMAIN stack = 1..Len(stack) /\ n \in Nat
      /\ FramesHold(type_lookup, u, n, stack)
  BY ReadingIs
<1>2. h > Depth(u, n) /\ h > 0  BY <1>1
<1>3. stack # <<>>  BY <1>2
<1>4. h \in DOMAIN stack /\ Top = stack[h] /\ FrameOK(Top)  BY <1>3, TopFacts
<1>5. Stack(Popped) /\ Len(Popped) = h - 1 /\ \A k \in 1..h - 1 : Popped[k] = stack[k]  BY <1>1, <1>2, PopFacts
<1>6. n = 1 => Top = Root /\ \A k \in DOMAIN stack : stack[k] = Root  BY <1>1, <1>4 DEF FramesHold
<1>7. ASSUME n # 1 PROVE \E q : Ends(q)
  <2>1. n \in 2..Len(Es(u)) + 1 /\ n \in 1..Len(Es(u)) + 1 /\ n \in 2..Len(Es(u))  BY <1>1, <1>7
  <2>2. PICK q \in open :
           /\ Depth(u, q) = h - 1 /\ \A o \in open : o <= q /\ (o # q => o \in Ancestors(u, q))
           /\ OpenAt(u, n, h - 1) = open \ {q}
    BY <1>1, <1>2, <2>1, LastOpen
  <2>3. q \in 1..n - 1 /\ q \in 1..Len(Es(u)) /\ Depth(u, q) \in Nat  BY <1>1, <2>1, OpenFacts
  <2>4. Opens(u, q) /\ Visible(u, q) /\ Es(u)[q].tag \in Scopes  BY <1>1 DEF Shape, Opens
  <2>5. FrameHolds(type_lookup, u, q, Seen(u, q, n, open), Top)
    <3>1. Depth(u, q) + 1 = h  BY <1>1, <2>2, <2>3
    <3> QED  BY <3>1, <1>1, <1>4 DEF FramesHold
  <2>6. SameFor(u, q, Seen(u, q, n, open), All(u, q))
    <3>1. Depth(u, n) <= Depth(u, q)  BY <1>1, <1>2, <2>2, <2>3
    <3> QED  BY <3>1, <1>1, <2>2, <2>3, SeenAll
  <2>7. Extends(type_lookup, type_lookup)  BY DEF Extends
  <2>8. FrameHolds(type_lookup, u, q, All(u, q), Top)  BY <2>5, <2>6, <2>7, FrameDepends
  <2>9. Top.kind = ScopeKind(Es(u)[q].tag)  BY <2>8 DEF FrameHolds
  <2>10. \A o \in open : Depth(u, o) = h - 1 => o = q  BY <1>1, <2>1, <2>2, OneOpen
  <2>11. ASSUME NEW o \in open \ {q} PROVE Depth(u, o) + 1 \in 1..h - 1
    <3>1. Depth(u, o) \in Nat /\ Depth(u, o) < h  BY <1>1, <2>1, OpenFacts
    <3>2. Depth(u, o) # h - 1  BY <2>10
    <3> QED  BY <3>1, <3>2, <1>1
  <2> QED  BY <2>1, <2>2, <2>3, <2>4, <2>8, <2>9, <2>10, <2>11 DEF Ends
<1> QED  BY <1>2, <1>3, <1>4, <1>5, <1>6, <1>7

\* A scope whose frame nothing takes over.
LEMMA EndFrames ==
    ASSUME IInv, Found, Reading, Len(stack) > Here.depth, NEW q, Ends(q), Es(unit)[q].tag \notin {"variant_part", "variant"}
    PROVE  FramesHold(type_lookup, unit, pos, Popped)
<1>1. /\ HasUnit(unit) /\ Stack(stack) /\ Shape(unit, pos, Len(stack)) /\ FramesHold(type_lookup, unit, pos, stack)
      /\ pos \in 1..Len(Es(unit))
  BY ReadingIs
<1>2. Stack(Popped) /\ Len(Popped) = Len(stack) - 1 /\ Len(stack) > 0 /\ \A k \in 1..Len(stack) - 1 : Popped[k] = stack[k]
  BY EndIs
<1>3. \A o : ~Completes(unit, o, q)  BY DEF Completes
<1>4. ASSUME NEW p \in OpenAt(unit, pos, Len(stack)), NEW o \in OpenAt(unit, pos, Len(stack)) \ {p}, Depth(unit, p) = Len(stack) - 1
      PROVE  ~Completes(unit, o, p) /\ Popped[Depth(unit, o) + 1] = stack[Depth(unit, o) + 1]
  <2>1. p = q  BY <1>4 DEF Ends
  <2>2. Depth(unit, o) + 1 \in 1..Len(stack) - 1  BY <1>4, <2>1 DEF Ends
  <2> QED  BY <1>2, <1>3, <2>1, <2>2
<1> QED  BY <1>1, <1>2, <1>4, FramesPopped

\* A scope that is no type.
LEMMA EndTypes ==
    ASSUME IInv, Found, Reading, NEW q, Ends(q), Es(unit)[q].tag \notin Types
    PROVE  TypesHold(type_lookup, types, unit, pos, Len(stack) - 1)
<1> DEFINE L == type_lookup  T == types  u == unit  n == pos  h == Len(stack)
<1>1. u \in Nat /\ n \in Nat /\ TypesHold(L, T, u, n, h)  BY ReadingIs
<1>2. q < n /\ OpenAt(u, n, h) \ {q} \subseteq OpenAt(u, n, h - 1)  BY <1>1 DEF Ends
<1>3. ~IsType(u, q)  BY DEF IsType
<1> HIDE DEF L, T, u, n, h
<1> QED  BY <1>1, <1>2, <1>3, TypesPopped DEF L, T, u, n, h

\* A scope that is no function.
LEMMA EndFunctions ==
    ASSUME IInv, Found, Reading, NEW q, Ends(q), Es(unit)[q].tag # "subprogram"
    PROVE  FunctionsHold(type_lookup, functions, unit, pos, Len(stack) - 1)
<1>1. FunctionsHold(type_lookup, functions, unit, pos, Len(stack))  BY ReadingIs
<1>2. ~IsFunction(unit, q) /\ OpenAt(unit, pos, Len(stack) - 1) = OpenAt(unit, pos, Len(stack)) \ {q}  BY DEF IsFunction, Ends
<1> QED  BY <1>1, <1>2, FunctionsKept

LEMMA EndFunctionFound == ASSUME IInv, Found, EndFunction PROVE Found'
<1>1. /\ Reading /\ Len(stack) > Here.depth /\ Top.kind = "InFunction" /\ stack' = Popped
      /\ UNCHANGED <<dwarf, unit, pos, type_lookup, types, status>>
      /\ functions' = WithFunction(functions, Top.name, Top.fr)
  BY DEF EndFunction, Ending, WithFunction
<1>2. Len(stack) > Depth(unit, pos) /\ pos # 1 /\ Len(Popped) = Len(stack) - 1  BY <1>1, EndIs DEF Root
<1>3. PICK q : Ends(q)  BY <1>1, <1>2, EndIs
<1>4. Es(unit)[q].tag = "subprogram"  BY <1>1, <1>3, KindIs DEF Ends
<1>5. FramesHold(type_lookup, unit, pos, stack')  BY <1>1, <1>3, <1>4, EndFrames
<1>6. TypesHold(type_lookup, types', unit, pos, Len(stack) - 1)
  BY <1>1, <1>3, <1>4, EndTypes DEF Types, Composites, Indirections
<1>7. FunctionsHold(type_lookup, functions', unit, pos, Len(stack) - 1)
  <2> DEFINE L == type_lookup  u == unit  n == pos  h == Len(stack)  fr == Top.fr  new == Top.name
  <2>1. FunctionHolds(L, u, q, All(u, q), fr) /\ new = FullName(u, q)  BY <1>3, <1>4 DEF Ends, FrameHolds, Naming
  <2>2. FunctionsHold(L, functions, u, n, h) /\ HasUnit(u) /\ n \in 1..Len(Es(u)) + 1  BY <1>1, ReadingIs
  <2>3. q \in OpenAt(u, n, h) /\ IsFunction(u, q) /\ OpenAt(u, n, h - 1) = OpenAt(u, n, h) \ {q}
    BY <1>3, <1>4 DEF Ends, IsFunction
  <2> HIDE DEF L, u, n, h, fr, new
  <2>4. FunctionsHold(L, WithFunction(functions, new, fr), u, n, h - 1)  BY <2>1, <2>2, <2>3, FunctionsPopped
  <2> QED  BY <2>4, <1>1 DEF L, u, n, h, fr, new
<1> QED  BY <1>1, <1>2, <1>5, <1>6, <1>7, PopFound

LEMMA EndTypeFound == ASSUME IInv, Found, EndType PROVE Found'
<1>1. /\ Reading /\ Len(stack) > Here.depth /\ Top.kind = "InType" /\ stack' = Popped
      /\ UNCHANGED <<dwarf, unit, pos, type_lookup, functions, status>>
      /\ types' = [types EXCEPT ![Top.ty] = TypeOf(Top)]
  BY DEF EndType, Ending
<1>2. Len(stack) > Depth(unit, pos) /\ pos # 1 /\ Len(Popped) = Len(stack) - 1  BY <1>1, EndIs DEF Root
<1>3. PICK q : Ends(q)  BY <1>1, <1>2, EndIs
<1>4. Es(unit)[q].tag \in Composites  BY <1>1, <1>3, KindIs DEF Ends
<1>5. FramesHold(type_lookup, unit, pos, stack')  BY <1>1, <1>3, <1>4, EndFrames DEF Composites
<1>6. FunctionsHold(type_lookup, functions', unit, pos, Len(stack) - 1)
  BY <1>1, <1>3, <1>4, EndFunctions DEF Composites
<1>7. TypesHold(type_lookup, types', unit, pos, Len(stack) - 1)
  <2> DEFINE L == type_lookup  T == types  T2 == types'  u == unit  n == pos  h == Len(stack)  R == Top.ty  t == TypeOf(Top)
  <2>1. FrameHolds(L, u, q, All(u, q), Top) /\ IsRef(L, R, u, q)  BY <1>3, <1>4 DEF Ends, FrameHolds, CompositeHolds
  <2>2. u \in Nat /\ n \in Nat /\ TypesHold(L, T, u, n, h) /\ DOMAIN T = DOMAIN L  BY <1>1, ReadingIs
  <2>3. T2 = [T EXCEPT ![R] = t]  BY <1>1
  <2>4. TypeHolds(L, u, q, t)
    <3>1. Es(u)[q].tag \notin Indirections \cup {"array_type", "base_type", "enumeration_type"}
      BY <1>4 DEF Composites, Indirections
    <3> QED  BY <2>1, <3>1 DEF TypeHolds
  <2>5. q < n /\ OpenAt(u, n, h) \ {q} \subseteq OpenAt(u, n, h - 1) /\ q \in OpenAt(u, n, h)  BY <1>3, <2>2 DEF Ends
  <2> HIDE DEF L, T, T2, u, n, h, R, t
  <2>6. T2[R] = t /\ \A r \in DOMAIN L : r # R => T2[r] = T[r]  BY <2>1, <2>2, <2>3 DEF IsRef
  <2>7. \A r \in DOMAIN L : L[r] # <<u, q>> => T2[r] = T[r]  BY <2>1, <2>6 DEF IsRef
  <2>8. \E r : IsRef(L, r, u, q) /\ TypeHolds(L, u, q, T2[r])  BY <2>1, <2>4, <2>6
  <2>9. TypesHold(L, T2, u, n, h - 1)  BY <2>2, <2>5, <2>7, <2>8, TypesPopped
  <2> QED  BY <2>9 DEF L, T2, u, n, h
<1> QED  BY <1>1, <1>2, <1>5, <1>6, <1>7, PopFound

LEMMA EndScopeFound == ASSUME IInv, Found, EndScope PROVE Found'
<1>1. /\ Reading /\ Len(stack) > Here.depth /\ Top.kind \in {"Root", "Namespace", "FcnScope"} /\ stack' = Popped
      /\ UNCHANGED <<dwarf, unit, pos, type_lookup, types, functions, status>>
  BY DEF EndScope, Ending
<1>2. Len(stack) > Depth(unit, pos) /\ Len(Popped) = Len(stack) - 1  BY <1>1, EndIs
<1>3. CASE pos # 1
  <2>1. PICK q : Ends(q)  BY <1>1, <1>3, EndIs
  <2>2. Es(unit)[q].tag \in {"compile_unit", "namespace", "lexical_block"}  BY <1>1, <2>1, KindIs DEF Ends
  <2>3. FramesHold(type_lookup, unit, pos, stack')  BY <1>1, <2>1, <2>2, EndFrames
  <2>4. FunctionsHold(type_lookup, functions', unit, pos, Len(stack) - 1)  BY <1>1, <2>1, <2>2, EndFunctions
  <2>5. TypesHold(type_lookup, types', unit, pos, Len(stack) - 1)
    BY <1>1, <2>1, <2>2, EndTypes DEF Types, Composites, Indirections
  <2> QED  BY <1>1, <1>2, <2>3, <2>4, <2>5, PopFound
<1>4. CASE pos = 1
  <2>1. HasUnit(unit) /\ unit \in Nat /\ pos \in Nat /\ Len(stack) \in Nat  BY <1>1, ReadingIs
  <2>2. \A h : OpenAt(unit, pos, h) = {}  BY <1>4, <2>1, ShapeFirst
  <2>3. FramesHold(type_lookup, unit, pos, stack')
    <3>1. \A k \in 1..Len(stack) - 1 : Popped[k] = Root
      <4>1. DOMAIN stack = 1..Len(stack) /\ \A k \in DOMAIN stack : stack[k] = Root  BY <1>1, <1>4, EndIs, ReadingIs
      <4>2. \A k \in 1..Len(stack) - 1 : Popped[k] = stack[k] /\ k \in 1..Len(stack)  BY <1>1, <2>1, EndIs
      <4> QED  BY <4>1, <4>2
    <3>2. DOMAIN Popped = 1..Len(stack) - 1  BY <1>1, EndIs, StackFacts
    <3> QED  BY <1>1, <2>2, <3>1, <3>2 DEF FramesHold
  <2>4. FunctionsHold(type_lookup, functions', unit, pos, Len(stack) - 1)
    <3>1. FunctionsHold(type_lookup, functions, unit, pos, Len(stack))  BY <1>1, ReadingIs
    <3>2. \A p \in AllEntries : IsFunction(p[1], p[2]) =>
             (HasEnded(unit, pos, Len(stack) - 1, p[1], p[2]) <=> HasEnded(unit, pos, Len(stack), p[1], p[2]))
      BY <2>2 DEF HasEnded
    <3>3. Extends(type_lookup, type_lookup)  BY DEF Extends
    <3> QED  BY <1>1, <3>1, <3>2, <3>3, FunctionsSame
  <2>5. TypesHold(type_lookup, types', unit, pos, Len(stack) - 1)
    <3> DEFINE L == type_lookup  T == types  u == unit  n == pos  h == Len(stack)  q == 0
    <3>1. u \in Nat /\ n \in Nat /\ TypesHold(L, T, u, n, h)  BY <1>1, ReadingIs
    <3>2. q < n /\ OpenAt(u, n, h) \ {q} \subseteq OpenAt(u, n, h - 1) /\ q \notin OpenAt(u, n, h)  BY <2>2, <1>4
    <3> HIDE DEF L, T, u, n, h, q
    <3>3. TypesHold(L, T, u, n, h - 1)  BY <3>1, <3>2, TypesPopped
    <3> QED  BY <3>3, <1>1 DEF L, T, u, n, h
  <2> QED  BY <1>1, <1>2, <2>3, <2>4, <2>5, PopFound
<1> QED  BY <1>3, <1>4

LEMMA EndTypeWithoutDiscrFound == ASSUME IInv, Found, EndTypeWithoutDiscr PROVE Found'
<1>1. /\ Reading /\ Len(stack) > Here.depth /\ Top.kind = "InType" /\ Top.enum_data # None /\ ~DiscrFound(Top) /\ Panic
  BY DEF EndTypeWithoutDiscr, Ending
<1>2. Len(stack) > Depth(unit, pos) /\ pos # 1 /\ Len(Popped) = Len(stack) - 1  BY <1>1, EndIs DEF Root
<1>3. PICK q : Ends(q)  BY <1>1, <1>2, EndIs
<1>4. Es(unit)[q].tag \in Composites  BY <1>1, <1>3, KindIs DEF Ends
<1>5. HasUnit(unit) /\ Len(Es(unit)) \in Nat  BY <1>1, ReadingIs
<1> DEFINE parts == Children(unit, q, "variant_part")  last == Max(parts)
<1>6. CompositeHolds(type_lookup, unit, q, All(unit, q), Top)  BY <1>3, <1>4 DEF Ends, FrameHolds
<1>7. Top.fields = InFileOrder(MembersOf(unit, q)) /\ Top.enum_data = EnumData(unit, parts)
  BY <1>6 DEF CompositeHolds, All
<1>8. parts # {} /\ Top.enum_data.discr = Es(unit)[last].discr /\ Top.enum_data.top_fields = InFileOrder(MembersOf(unit, last))
  BY <1>1, <1>7 DEF EnumData, Members
<1>9. q \in 1..Len(Es(unit))  BY <1>3 DEF Ends
<1>10. last \in 1..Len(Es(unit))
  <2>1. parts \in SUBSET (q + 1..Len(Es(unit)))  BY <1>5, <1>9, PartsFacts
  <2>2. \A j \in parts : j \in 1..Len(Es(unit))  BY <2>1, <1>5, <1>9
  <2>3. parts \in SUBSET Nat /\ \A j \in parts : j <= Len(Es(unit))  BY <2>2, <1>5
  <2> HIDE DEF parts
  <2>4. Max(parts) \in parts  BY <2>3, <1>5, <1>8, Greatest
  <2> QED  BY <2>2, <2>4
<1>11. ToSet(Top.fields) = MembersOf(unit, q) /\ ToSet(Top.enum_data.top_fields) = MembersOf(unit, last)
  <2> HIDE DEF last
  <2>1. \A o \in 1..Len(Es(unit)) : MembersOf(unit, o) \in SUBSET (1..Len(Es(unit)))
    <3> SUFFICES ASSUME NEW o \in 1..Len(Es(unit)) PROVE MembersOf(unit, o) \in SUBSET (1..Len(Es(unit)))  OBVIOUS
    <3>1. MembersOf(unit, o) \in SUBSET (o + 1..Len(Es(unit)))  BY <1>5, PartsFacts
    <3>2. \A j \in o + 1..Len(Es(unit)) : j \in 1..Len(Es(unit))  BY <1>5
    <3> QED  BY <3>1, <3>2
  <2>2. \A o \in 1..Len(Es(unit)) : ToSet(InFileOrder(MembersOf(unit, o))) = MembersOf(unit, o)  BY <2>1, <1>5, OrderSet
  <2> QED  BY <2>2, <1>7, <1>8, <1>9, <1>10
<1>12. Es(unit)[last].discr \notin {0} \cup MembersOf(unit, q) \cup MembersOf(unit, last)
  BY <1>1, <1>8, <1>11 DEF DiscrFound
<1>13. Unsupported(unit, q)  BY <1>4, <1>8, <1>12 DEF Unsupported
<1>14. q \in 2..Len(Es(unit)) /\ Visible(unit, q)
  <2>1. q # 1  BY <1>4, <1>5, UnitFacts DEF Composites
  <2> QED  BY <2>1, <1>3, <1>9 DEF Ends
<1> QED  BY <1>1, <1>13, <1>14, PanicFound

\* A scope that the frame below takes over: `g` is what that frame becomes.
LEMMA TakenOver ==
    ASSUME IInv, Found, Reading, Len(stack) > Here.depth, NEW q, Ends(q), Es(unit)[q].tag \in {"variant_part", "variant"},
           NEW g, stack' = Replaced(Popped, Len(Popped), g), UNCHANGED <<dwarf, unit, pos, type_lookup, types, functions, status>>,
           FrameHolds(type_lookup, unit, ParentOf(unit, q),
                      Seen(unit, ParentOf(unit, q), pos, OpenAt(unit, pos, Len(stack)) \ {q}), g)
    PROVE  Found'
<1> DEFINE u == unit  n == pos  h == Len(stack)  open == OpenAt(u, n, h)  p == ParentOf(u, q)
<1>1. /\ HasUnit(u) /\ Stack(stack) /\ Shape(u, n, h) /\ FramesHold(type_lookup, u, n, stack)
      /\ n \in 1..Len(Es(u)) /\ h \in Nat
  BY ReadingIs
<1>2. Stack(Popped) /\ Len(Popped) = h - 1 /\ h > 0 /\ (\A k \in 1..h - 1 : Popped[k] = stack[k]) /\ h > Depth(u, n)
  BY EndIs
<1>3. q # 1  BY <1>1, UnitFacts
<1>4. /\ p \in open \ {q} /\ Depth(u, p) + 1 = h - 1
      /\ \A o \in open : o # p => Depth(u, o) + 1 # h - 1
  BY <1>1, <1>3, ParentIsOpen DEF Ends
<1>5. \A o \in open \ {q} : Depth(u, o) + 1 \in 1..h - 1  BY DEF Ends
<1>6. Stack(stack') /\ Len(stack') = h - 1 /\ stack'[h - 1] = g /\ \A k \in 1..h - 1 : k # h - 1 => stack'[k] = stack[k]
  <2> DEFINE s == Popped  c == Len(Popped)  t == Replaced(s, c, g)
  <2>1. DOMAIN s = 1..h - 1 /\ c = h - 1  BY <1>2, StackFacts
  <2>2. Stack(s) /\ c \in DOMAIN s  BY <1>2, <1>4, <1>5, <2>1
  <2>3. \A k \in 1..h - 1 : s[k] = stack[k]  BY <1>2
  <2>4. stack' = t  OBVIOUS
  <2> HIDE DEF s, c, t
  <2>5. Stack(t) /\ Len(t) = Len(s) /\ t[c] = g /\ \A j \in DOMAIN s : j # c => t[j] = s[j]  BY <2>2, ReplaceFacts DEF t
  <2>6. Len(s) = h - 1  BY <2>1 DEF s, c
  <2> QED  BY <2>1, <2>3, <2>4, <2>5, <2>6
<1>7. \A o : o # p => ~Completes(u, o, q)  BY DEF Completes
<1>8. \A r \in open : \A o \in open \ {r} : Depth(u, r) = h - 1 =>
         \/ ~Completes(u, o, r) /\ stack'[Depth(u, o) + 1] = stack[Depth(u, o) + 1]
         \/ FrameHolds(type_lookup, u, o, Seen(u, o, n, open \ {r}), stack'[Depth(u, o) + 1])
  <2> SUFFICES ASSUME NEW o \in open \ {q}
               PROVE  \/ ~Completes(u, o, q) /\ stack'[Depth(u, o) + 1] = stack[Depth(u, o) + 1]
                      \/ FrameHolds(type_lookup, u, o, Seen(u, o, n, open \ {q}), stack'[Depth(u, o) + 1])
    BY DEF Ends
  <2>1. CASE o = p  BY <2>1, <1>4, <1>6
  <2>2. CASE o # p  BY <2>2, <1>4, <1>5, <1>6, <1>7
  <2> QED  BY <2>1, <2>2
<1>9. FramesHold(type_lookup, u, n, stack')
  <2>1. n # 1  BY DEF Ends
  <2> QED  BY <1>1, <1>2, <1>6, <1>8, <2>1, FramesPopped
<1>10. TypesHold(type_lookup, types', u, n, h - 1)  BY EndTypes DEF Types, Composites, Indirections
<1>11. FunctionsHold(type_lookup, functions', u, n, h - 1)  BY EndFunctions
<1> QED  BY <1>2, <1>6, <1>9, <1>10, <1>11, PopFound

LEMMA EndVariantsFound == ASSUME IInv, Found, EndVariants PROVE Found'
<1> DEFINE new == [discr |-> Top.discr, variants |-> Top.variants, top_fields |-> Top.top_fields]
           g == [Popped[Len(Popped)] EXCEPT !.enum_data = new]
<1>1. /\ Reading /\ Len(stack) > Here.depth /\ Top.kind = "EnumVariants"
      /\ stack' = [Popped EXCEPT ![Len(Popped)].enum_data = new]
      /\ UNCHANGED <<dwarf, unit, pos, type_lookup, types, functions, status>>
  BY DEF EndVariants, Ending
<1>2. Len(stack) > Depth(unit, pos) /\ pos # 1 /\ Len(Popped) = Len(stack) - 1  BY <1>1, EndIs DEF Root
<1>3. PICK q : Ends(q)  BY <1>1, <1>2, EndIs
<1>4. Es(unit)[q].tag = "variant_part"  BY <1>1, <1>3, KindIs DEF Ends
<1>5. stack' = Replaced(Popped, Len(Popped), g)  BY <1>1 DEF Replaced
<1> DEFINE u == unit  n == pos  h == Len(stack)  open == OpenAt(u, n, h)  p == ParentOf(u, q)  f == stack[h - 1]
<1>6. /\ HasUnit(u) /\ Stack(stack) /\ Shape(u, n, h) /\ FramesHold(type_lookup, u, n, stack) /\ h \in Nat
      /\ DOMAIN stack = 1..h
  BY <1>1, ReadingIs
<1>7. n \in 2..Len(Es(u)) /\ q \in open /\ Depth(u, q) = h - 1 /\ Opens(u, q)
      /\ FrameHolds(type_lookup, u, q, All(u, q), Top)
  BY <1>3 DEF Ends
<1>8. q # 1  BY <1>4, <1>6, UnitFacts
<1>9. p \in open \ {q} /\ Depth(u, p) + 1 = h - 1 /\ Es(u)[p].tag \in Scopes  BY <1>6, <1>7, <1>8, ParentIsOpen
<1>10. FrameHolds(type_lookup, u, p, Seen(u, p, n, open), f)  BY <1>6, <1>9 DEF FramesHold
<1>11. Es(u)[p].tag \in Composites  BY <1>4, <1>7 DEF Opens, Hosts
<1>12. f.kind = "InType"  BY <1>9, <1>10, <1>11, TagKinds
<1>13. h - 1 \in 1..h - 1 /\ h - 1 \in DOMAIN stack
  <2>1. Depth(u, p) + 1 \in 1..h - 1  BY <1>3, <1>9 DEF Ends
  <2> QED  BY <2>1, <1>6, <1>9
<1>14. FrameOK(f) /\ f = Popped[Len(Popped)]  BY <1>1, <1>2, <1>13, EndIs DEF IInv, Frames
<1>15. g = [f EXCEPT !.enum_data = [discr |-> Top.discr, variants |-> Top.variants, top_fields |-> Top.top_fields]]  BY <1>14
<1> DEFINE top == Top
<1>16. FrameHolds(type_lookup, u, q, All(u, q), top)  BY <1>7
<1>17. g = [f EXCEPT !.enum_data = [discr |-> top.discr, variants |-> top.variants, top_fields |-> top.top_fields]]  BY <1>15
<1> HIDE DEF f, g, top
<1>18. FrameHolds(type_lookup, u, p, Seen(u, p, n, open \ {q}),
                  [f EXCEPT !.enum_data = [discr |-> top.discr, variants |-> top.variants, top_fields |-> top.top_fields]])
  BY <1>4, <1>6, <1>7, <1>10, <1>12, <1>14, <1>16, VariantsEnd
<1>19. FrameHolds(type_lookup, u, p, Seen(u, p, n, open \ {q}), g)  BY <1>17, <1>18
<1> QED  BY <1>1, <1>3, <1>4, <1>5, <1>19, TakenOver

LEMMA EndVariantFound == ASSUME IInv, Found, EndVariant PROVE Found'
<1> DEFINE new == [of |-> Top.of, fields |-> Top.fields]
           g == [Popped[Len(Popped)] EXCEPT !.variants = Append(@, new)]
<1>1. /\ Reading /\ Len(stack) > Here.depth /\ Top.kind = "EnumVariant"
      /\ stack' = [Popped EXCEPT ![Len(Popped)].variants = Append(@, new)]
      /\ UNCHANGED <<dwarf, unit, pos, type_lookup, types, functions, status>>
  BY DEF EndVariant, Ending
<1>2. Len(stack) > Depth(unit, pos) /\ pos # 1 /\ Len(Popped) = Len(stack) - 1  BY <1>1, EndIs DEF Root
<1>3. PICK q : Ends(q)  BY <1>1, <1>2, EndIs
<1>4. Es(unit)[q].tag = "variant"  BY <1>1, <1>3, KindIs DEF Ends
<1>5. stack' = Replaced(Popped, Len(Popped), g)  BY <1>1 DEF Replaced
<1> DEFINE u == unit  n == pos  h == Len(stack)  open == OpenAt(u, n, h)  p == ParentOf(u, q)  f == stack[h - 1]
<1>6. /\ HasUnit(u) /\ Stack(stack) /\ Shape(u, n, h) /\ FramesHold(type_lookup, u, n, stack) /\ h \in Nat
      /\ DOMAIN stack = 1..h
  BY <1>1, ReadingIs
<1>7. n \in 2..Len(Es(u)) /\ q \in open /\ Depth(u, q) = h - 1 /\ Opens(u, q)
      /\ FrameHolds(type_lookup, u, q, All(u, q), Top)
  BY <1>3 DEF Ends
<1>8. q # 1  BY <1>4, <1>6, UnitFacts
<1>9. p \in open \ {q} /\ Depth(u, p) + 1 = h - 1 /\ Es(u)[p].tag \in Scopes  BY <1>6, <1>7, <1>8, ParentIsOpen
<1>10. FrameHolds(type_lookup, u, p, Seen(u, p, n, open), f)  BY <1>6, <1>9 DEF FramesHold
<1>11. Es(u)[p].tag = "variant_part"  BY <1>4, <1>7 DEF Opens, Hosts
<1>12. f.kind = "EnumVariants"  BY <1>9, <1>10, <1>11, TagKinds
<1>13. h - 1 \in 1..h - 1 /\ h - 1 \in DOMAIN stack
  <2>1. Depth(u, p) + 1 \in 1..h - 1  BY <1>3, <1>9 DEF Ends
  <2> QED  BY <2>1, <1>6, <1>9
<1>14. FrameOK(f) /\ f = Popped[Len(Popped)]  BY <1>1, <1>2, <1>13, EndIs DEF IInv, Frames
<1> DEFINE top == Top
<1>15. g = [f EXCEPT !.variants = Append(@, [of |-> top.of, fields |-> top.fields])]  BY <1>14
<1>16. FrameHolds(type_lookup, u, q, All(u, q), top)  BY <1>7
<1> HIDE DEF f, g, top
<1>17. FrameHolds(type_lookup, u, p, Seen(u, p, n, open \ {q}),
                  [f EXCEPT !.variants = Append(@, [of |-> top.of, fields |-> top.fields])])
  BY <1>4, <1>6, <1>7, <1>10, <1>12, <1>14, <1>16, VariantEnds
<1>18. FrameHolds(type_lookup, u, p, Seen(u, p, n, open \ {q}), g)  BY <1>15, <1>17
<1> QED  BY <1>1, <1>3, <1>4, <1>5, <1>18, TakenOver

-----------------------------------------------------------------------------
(* Units, and the whole.                                                     *)
LEMMA NextUnitFound == ASSUME IInv, Found, NextUnit PROVE Found'
<1>1. /\ status = "running" /\ pos > Len(Entries) /\ UNCHANGED <<dwarf, type_lookup, types, functions>>
      /\ IF unit < Len(dwarf) THEN unit' = unit + 1 /\ pos' = 1 /\ stack' = <<Root>> /\ status' = status
         ELSE status' = "done" /\ UNCHANGED <<unit, pos, stack>>
  BY DEF NextUnit
<1>2. HasUnit(unit) /\ Entries = Es(unit)  BY DEF IInv, Place, HasUnit, Entries, Es
<1>3. Len(Es(unit)) \in Nat /\ unit \in Nat  BY <1>2, UnitFacts
<1>4. pos = Len(Es(unit)) + 1  BY <1>1, <1>2, <1>3 DEF IInv, Place
<1>5. dwarf \in Seq({dwarf[u] : u \in DOMAIN dwarf})  BY <1>2, DwarfsAssumption DEF HasUnit
<1>6. Len(dwarf) \in Nat /\ DOMAIN dwarf = 1..Len(dwarf)  BY <1>5
<1>7. CASE unit < Len(dwarf)
  <2>1. unit' = unit + 1 /\ pos' = 1 /\ stack' = <<Root>> /\ status' = "running"  BY <1>1, <1>7
  <2>2. HasUnit(unit + 1)  BY <1>2, <1>3, <1>6, <1>7 DEF HasUnit
  <2>3. Shape(unit', pos', Len(stack')) /\ OpenAt(unit', pos', Len(stack')) = {}  BY <2>1, <2>2, ShapeFirst
  <2>4. FramesHold(type_lookup', unit', pos', stack')
    <3>1. \A k \in DOMAIN stack' : stack'[k] = Root  BY <2>1
    <3> QED  BY <2>3, <3>1 DEF FramesHold
  <2>5. TypesHold(type_lookup', types', unit', pos', Len(stack'))
    BY <1>1, <1>2, <1>4, <2>1, TypesNextUnit DEF Found, IInv, Tables
  <2>6. FunctionsHold(type_lookup', functions', unit', pos', Len(stack'))
    BY <1>1, <1>2, <1>4, <2>1, FunctionsNextUnit DEF Found
  <2>7. Caused(unit', status') /\ AtEnd(unit', pos', status')  BY <2>1 DEF Caused, AtEnd
  <2> QED  BY <1>1, <2>3, <2>4, <2>5, <2>6, <2>7, FoundPrimed
<1>8. CASE ~(unit < Len(dwarf))
  <2>1. status' = "done" /\ UNCHANGED <<unit, pos, stack>>  BY <1>1, <1>8
  <2>2. unit = Len(dwarf)  BY <1>2, <1>3, <1>6, <1>8 DEF HasUnit
  <2>3. Caused(unit', status') /\ AtEnd(unit', pos', status')  BY <1>4, <2>1, <2>2 DEF Caused, AtEnd
  <2> QED  BY <1>1, <2>1, <2>3, FoundPrimed DEF Found
<1> QED  BY <1>7, <1>8

LEMMA InitFound == ASSUME Init PROVE Found
<1>1. /\ dwarf \in Dwarfs /\ unit = 1 /\ pos = 1 /\ stack = <<Root>> /\ type_lookup = <<>> /\ types = <<>>
      /\ functions = <<>> /\ status = "running"
  BY DEF Init
<1>2. HasUnit(1)
  <2>1. Len(dwarf) > 0 /\ dwarf \in Seq({dwarf[u] : u \in DOMAIN dwarf})  BY <1>1, DwarfsAssumption
  <2> QED  BY <2>1, <1>1 DEF HasUnit
<1>3. Shape(unit, pos, Len(stack)) /\ \A h : OpenAt(unit, pos, h) = {}  BY <1>1, <1>2, ShapeFirst
<1>4. FramesHold(type_lookup, unit, pos, stack)
  <2>1. \A k \in DOMAIN stack : stack[k] = Root  BY <1>1
  <2> QED  BY <2>1, <1>3 DEF FramesHold
<1>5. TypesHold(type_lookup, types, unit, pos, Len(stack))
  <2>1. \A v \in 1..unit : \A i \in 1..Len(Es(v)) : ~(v < unit \/ i < pos)  BY <1>1
  <2>2. DOMAIN type_lookup = {}  BY <1>1
  <2> QED  BY <2>1, <2>2 DEF TypesHold
<1>6. FunctionsHold(type_lookup, functions, unit, pos, Len(stack))
  <2>1. \A p \in AllEntries : ~HasEnded(unit, pos, Len(stack), p[1], p[2])
    <3> SUFFICES ASSUME NEW p \in AllEntries PROVE ~HasEnded(unit, pos, Len(stack), p[1], p[2])  OBVIOUS
    <3>1. p[1] \in DOMAIN dwarf /\ p[2] \in DOMAIN Es(p[1])  BY EntriesAre
    <3>2. HasUnit(p[1])  BY <3>1, <1>1 DEF HasUnit
    <3>3. p[1] \in Nat /\ p[1] >= 1 /\ p[2] \in Nat /\ p[2] >= 1
      <4>1. dwarf \in Seq({dwarf[u] : u \in DOMAIN dwarf})  BY <1>1, DwarfsAssumption
      <4>2. DOMAIN Es(p[1]) = 1..Len(Es(p[1])) /\ Len(Es(p[1])) \in Nat  BY <3>2, UnitFacts
      <4> QED  BY <4>1, <4>2, <3>1
    <3> QED  BY <3>3, <1>1 DEF HasEnded
  <2>2. \A name : EndedAs(unit, pos, Len(stack), name) = {}  BY <2>1 DEF EndedAs
  <2>3. DOMAIN functions = {}  BY <1>1
  <2> QED  BY <2>2, <2>3 DEF FunctionsHold
<1>7. Caused(unit, status) /\ AtEnd(unit, pos, status)  BY <1>1 DEF Caused, AtEnd
<1> QED  BY <1>3, <1>4, <1>5, <1>6, <1>7 DEF Found

LEMMA NextFound == ASSUME IInv, Found, [Next]_vars PROVE Found'
<1>1. CASE End
  BY <1>1, EndFunctionFound, EndTypeFound, EndTypeWithoutDiscrFound, EndVariantsFound, EndVariantFound, EndScopeFound DEF End
<1>2. CASE AnyScope
  BY <1>2, NamespaceFound, SubprogramFound, NamedTypeFound, IndirectionFound, ArrayFound, CompositeFound DEF AnyScope
<1>3. CASE OwnScope
  BY <1>3, CompileUnitFound, LexicalBlockFound, VariableFound, InheritanceFound, MemberFound, VariantPartFound, VariantFound,
     IgnoreFound, UnexpectedFound DEF OwnScope
<1>4. CASE UNCHANGED vars
  <2>1. UNCHANGED <<dwarf, unit, pos, stack, type_lookup, types, functions, status>>  BY <1>4 DEF vars
  <2> QED  BY <2>1, FoundPrimed DEF Found
<1> QED  BY <1>1, <1>2, <1>3, <1>4, SkipFound, NextUnitFound DEF Next, Finished

LEMMA FoundInvariant == Spec => [](IInv /\ Found)
<1>1. Init => IInv /\ Found  BY InitHolds, InitFound
<1>2. IInv /\ Found /\ [Next]_vars => (IInv /\ Found)'  BY NextKeeps, NextFound
<1> QED  BY <1>1, <1>2, PTL DEF Spec

-----------------------------------------------------------------------------
(* What has been found is what the tree says.                                *)
LEMMA RefIs ==
    ASSUME Injective(type_lookup), NEW u, NEW i, NEW r, IsRef(type_lookup, r, u, i)
    PROVE  TypeRefOf(u, i) = r
<1>1. r \in DOMAIN type_lookup /\ type_lookup[r] = <<u, i>>  BY DEF IsRef
<1>2. TypeRefOf(u, i) \in DOMAIN type_lookup /\ type_lookup[TypeRefOf(u, i)] = <<u, i>>  BY <1>1 DEF TypeRefOf
<1> QED  BY <1>1, <1>2 DEF Injective

LEMMA OrderIsSeq ==
    ASSUME NEW N \in Nat, NEW S, S \in SUBSET (1..N)
    PROVE  InFileOrder(S) \in Seq(Nat) /\ \A k \in DOMAIN InFileOrder(S) : InFileOrder(S)[k] \in S
<1>1. FilePositions(S) /\ \A j \in S : j \in Nat /\ j < N + 1  BY BeforeFacts
<1>2. N + 1 \in Nat  OBVIOUS
<1>3. Cardinality(S) \in Nat /\ DOMAIN InFileOrder(S) = 1..Cardinality(S)  BY <1>1, OrderSize
<1>4. \A k \in 1..Cardinality(S) : InFileOrder(S)[k] \in S  BY <1>1, <1>2, OrderTypes
<1>5. InFileOrder(S) = [k \in 1..Cardinality(S) |-> InFileOrder(S)[k]]  BY OrderIsList
<1> DEFINE f == InFileOrder(S)  c == Cardinality(S)
<1>6. c \in Nat /\ f = [k \in 1..c |-> f[k]] /\ \A k \in 1..c : f[k] \in Nat  BY <1>1, <1>3, <1>4, <1>5
<1> HIDE DEF f, c
<1>7. f \in [1..c -> Nat]  BY <1>6
<1>8. f \in Seq(Nat)  BY <1>6, <1>7
<1> QED  BY <1>3, <1>4, <1>8 DEF f

LEMMA PartsInUnit ==
    ASSUME NEW u, HasUnit(u), NEW o \in 1..Len(Es(u))
    PROVE  MembersOf(u, o) \in SUBSET (1..Len(Es(u))) /\ \A tag : Children(u, o, tag) \in SUBSET (1..Len(Es(u)))
<1>1. Len(Es(u)) \in Nat  BY UnitFacts
<1>2. \A tag : Children(u, o, tag) \in SUBSET (o + 1..Len(Es(u)))  BY PartsFacts
<1>3. MembersOf(u, o) \in SUBSET (o + 1..Len(Es(u)))  BY PartsFacts
<1>4. \A j \in o + 1..Len(Es(u)) : j \in 1..Len(Es(u))  BY <1>1
<1> QED  BY <1>2, <1>3, <1>4

\* A type that has variants is told apart from one that has none.
LEMMA EnumDataIs ==
    ASSUME NEW u, HasUnit(u), NEW i \in 1..Len(Es(u)), NEW parts, parts = Children(u, i, "variant_part"), parts # {}
    PROVE  EnumData(u, parts) # None
           /\ EnumData(u, parts).discr = Es(u)[Max(parts)].discr /\ EnumData(u, parts).variants = Variants(u, Max(parts))
<1> DEFINE N == Len(Es(u))  last == Max(parts)
<1>1. N \in Nat  BY UnitFacts
<1>2. parts \in SUBSET (1..N)  BY PartsInUnit
<1>3. parts \in SUBSET Nat /\ \A j \in parts : j <= N  BY <1>1, <1>2
<1>4. last \in parts  BY <1>1, <1>3, Greatest
<1> HIDE DEF last
<1>5. last \in 1..N /\ Es(u)[last].discr \in Nat  BY <1>2, <1>4, UnitFacts DEF Entry
<1>6. \A o \in 1..N : Members(u, o) \in Seq(Nat)  BY <1>1, PartsInUnit, OrderIsSeq DEF Members
<1>7. Variants(u, last) \in Seq([of : Nat, fields : Seq(Nat)])
  <2> DEFINE C == Children(u, last, "variant")  vs == InFileOrder(C)
  <2>1. C \in SUBSET (1..N)  BY <1>5, PartsInUnit
  <2> HIDE DEF C
  <2>2. vs \in Seq(Nat) /\ \A k \in DOMAIN vs : vs[k] \in C  BY <1>1, <2>1, OrderIsSeq
  <2>3. \A k \in DOMAIN vs : vs[k] \in Nat /\ Members(u, vs[k]) \in Seq(Nat)  BY <1>1, <1>6, <2>1, <2>2
  <2>4. Variants(u, last) = [k \in DOMAIN vs |-> [of |-> vs[k], fields |-> Members(u, vs[k])]]  BY DEF Variants, C
  <2> HIDE DEF vs
  <2>5. Len(vs) \in Nat /\ DOMAIN vs = 1..Len(vs)  BY <2>2
  <2> DEFINE len == Len(vs)  w == Variants(u, last)  V == [of : Nat, fields : Seq(Nat)]
  <2>6. len \in Nat /\ w \in [1..len -> V]  BY <2>3, <2>4, <2>5
  <2> HIDE DEF len, w, V
  <2>7. w \in Seq(V)  BY <2>6
  <2> QED  BY <2>7 DEF w, V
<1>8. EnumData(u, parts) = [discr |-> Es(u)[last].discr, variants |-> Variants(u, last), top_fields |-> Members(u, last)]
  BY DEF EnumData, last
<1>9. EnumData(u, parts) \in [discr : Nat, variants : Seq([of : Nat, fields : Seq(Nat)]), top_fields : Seq(Nat)]
  BY <1>5, <1>6, <1>7, <1>8
<1>10. EnumData(u, parts) # None  BY <1>9, NoneAssumption
<1> QED  BY <1>8, <1>10 DEF last

LEMMA ParentsAre ==
    ASSUME Injective(type_lookup), NEW u, NEW S, NEW s, ParentsHold(type_lookup, u, S, s)
    PROVE  s = [k \in DOMAIN InFileOrder(S) |-> <<InFileOrder(S)[k], TypeRefOf(u, Es(u)[InFileOrder(S)[k]].ty)>>]
<1> DEFINE bases == InFileOrder(S)
<1>1. s = [k \in DOMAIN bases |-> <<bases[k], s[k][2]>>]  BY DEF ParentsHold
<1>2. \A k \in DOMAIN bases : s[k][2] = TypeRefOf(u, Es(u)[bases[k]].ty)  BY RefIs DEF ParentsHold
<1> HIDE DEF bases
<1>3. \A k \in DOMAIN bases : <<bases[k], s[k][2]>> = <<bases[k], TypeRefOf(u, Es(u)[bases[k]].ty)>>  BY <1>2
<1>4. [k \in DOMAIN bases |-> <<bases[k], s[k][2]>>] = [k \in DOMAIN bases |-> <<bases[k], TypeRefOf(u, Es(u)[bases[k]].ty)>>]
  BY <1>3
<1>5. s = [k \in DOMAIN bases |-> <<bases[k], TypeRefOf(u, Es(u)[bases[k]].ty)>>]  BY <1>1, <1>4, Zenon
<1> QED  BY <1>5 DEF bases

LEMMA SubTypesAre ==
    ASSUME Injective(type_lookup), NEW u, NEW S, NEW s, SubTypesHold(type_lookup, u, S, s)
    PROVE  s = [n \in {Es(u)[j].name : j \in S} |-> TypeRefOf(u, Max({j \in S : Es(u)[j].name = n}))]
<1> DEFINE names == NamesOf(u, S)
<1>1. s = [n \in names |-> s[n]]  BY DEF SubTypesHold
<1>2. \A n \in names : s[n] = TypeRefOf(u, LastNamed(u, S, n))  BY RefIs DEF SubTypesHold
<1> HIDE DEF names
<1>3. [n \in names |-> s[n]] = [n \in names |-> TypeRefOf(u, LastNamed(u, S, n))]  BY <1>2
<1>4. s = [n \in names |-> TypeRefOf(u, LastNamed(u, S, n))]  BY <1>1, <1>3, Zenon
<1> QED  BY <1>4, Zenon DEF names, NamesOf, LastNamed

LEMMA CompositeIs ==
    ASSUME Injective(type_lookup), NEW u, HasUnit(u), NEW i \in 1..Len(Es(u)), Es(u)[i].tag \in Composites,
           NEW f, FrameHolds(type_lookup, u, i, All(u, i), f)
    PROVE  TypeOf(f) = DescribedType(u, i)
<1>1. CompositeHolds(type_lookup, u, i, All(u, i), f) /\ f.name = FullName(u, i)  BY DEF FrameHolds, Naming
<1> DEFINE parts == Children(u, i, "variant_part")
<1>2. /\ f.fields = Members(u, i) /\ f.is_union = (Es(u)[i].tag = "union_type") /\ f.enum_data = EnumData(u, parts)
      /\ ParentsHold(type_lookup, u, BasesOf(u, i), f.parents) /\ SubTypesHold(type_lookup, u, AliasesOf(u, i), f.sub_types)
  BY <1>1 DEF CompositeHolds, All, Members
<1>3. CompositeType(f) = CompositeOf(u, i)
  <2> DEFINE P == [k \in DOMAIN InFileOrder(BasesOf(u, i)) |->
                      <<InFileOrder(BasesOf(u, i))[k], TypeRefOf(u, Es(u)[InFileOrder(BasesOf(u, i))[k]].ty)>>]
             N == [n \in {Es(u)[j].name : j \in AliasesOf(u, i)} |->
                      TypeRefOf(u, Max({j \in AliasesOf(u, i) : Es(u)[j].name = n}))]
  <2>1. f.parents = P  BY <1>2, ParentsAre
  <2>2. f.sub_types = N
    <3> DEFINE S == AliasesOf(u, i)  s == f.sub_types
    <3>1. SubTypesHold(type_lookup, u, S, s)  BY <1>2
    <3> HIDE DEF S, s
    <3>2. s = [n \in {Es(u)[j].name : j \in S} |-> TypeRefOf(u, Max({j \in S : Es(u)[j].name = n}))]
      BY <3>1, SubTypesAre, Zenon
    <3> QED  BY <3>2, Zenon DEF S, s
  <2>3. CompositeOf(u, i) = [name |-> FullName(u, i), fields |-> Members(u, i), parents |-> P, sub_types |-> N]
    BY Zenon DEF CompositeOf, BasesOf, AliasesOf
  <2> HIDE DEF P, N
  <2>4. CompositeType(f) = [name |-> f.name, fields |-> f.fields, parents |-> f.parents, sub_types |-> f.sub_types]
    BY DEF CompositeType
  <2> QED  BY <1>1, <1>2, <2>1, <2>2, <2>3, <2>4
<1>4. Es(u)[i].tag \notin Indirections \cup {"array_type", "base_type", "enumeration_type"}
  BY DEF Composites, Indirections
<1> HIDE DEF parts
<1>5. CASE parts = {}
  <2>1. f.enum_data = None  BY <1>2, <1>5 DEF EnumData
  <2>2. TypeOf(f) = [kind |-> IF f.is_union THEN "Union" ELSE "Struct", ct |-> CompositeType(f)]  BY <2>1 DEF TypeOf
  <2>3. DescribedType(u, i) = [kind |-> IF Es(u)[i].tag = "union_type" THEN "Union" ELSE "Struct", ct |-> CompositeOf(u, i)]
    BY <1>4, <1>5 DEF DescribedType, parts
  <2> QED  BY <1>2, <1>3, <2>2, <2>3
<1>6. CASE parts # {}
  <2>1. f.enum_data # None /\ f.enum_data.discr = Es(u)[Max(parts)].discr /\ f.enum_data.variants = Variants(u, Max(parts))
    BY <1>2, <1>6, EnumDataIs DEF parts
  <2>2. TypeOf(f) = [kind |-> "TaggedUnion", ct |-> CompositeType(f), discr |-> f.enum_data.discr,
                     variants |-> f.enum_data.variants]
    BY <2>1 DEF TypeOf
  <2>3. DescribedType(u, i) = [kind |-> "TaggedUnion", ct |-> CompositeOf(u, i), discr |-> Es(u)[Max(parts)].discr,
                               variants |-> Variants(u, Max(parts))]
    BY <1>4, <1>6 DEF DescribedType, parts
  <2> QED  BY <1>3, <2>1, <2>2, <2>3
<1> QED  BY <1>5, <1>6

LEMMA TypeIs ==
    ASSUME Injective(type_lookup), NEW u, HasUnit(u), NEW i \in 1..Len(Es(u)), Es(u)[i].tag \in Types,
           NEW t, TypeHolds(type_lookup, u, i, t)
    PROVE  t = DescribedType(u, i)
<1> DEFINE e == Es(u)[i]
<1>1. CASE e.tag \in Composites  BY <1>1, CompositeIs DEF TypeHolds
<1>2. CASE e.tag \in Indirections \cup {"array_type"} /\ e.ty = 0
  <2>1. e.tag \notin Composites \cup {"base_type", "enumeration_type"}  BY <1>2 DEF Composites, Indirections
  <2>2. DescribedType(u, i) = None  BY <1>2, <2>1 DEF DescribedType
  <2> QED  BY <1>2, <2>2 DEF TypeHolds
<1>3. CASE e.tag \in Indirections /\ e.ty # 0
  <2>1. e.tag \notin Composites \cup {"array_type", "base_type", "enumeration_type"}  BY <1>3 DEF Composites, Indirections
  <2>2. t = [kind |-> KindOf[e.tag], to |-> t.to] /\ t.to = TypeRefOf(u, e.ty)  BY <1>3, <2>1, RefIs DEF TypeHolds
  <2>3. DescribedType(u, i) = [kind |-> KindOf[e.tag], to |-> TypeRefOf(u, e.ty)]  BY <1>3, <2>1 DEF DescribedType
  <2> QED  BY <2>2, <2>3
<1>4. CASE e.tag = "array_type" /\ e.ty # 0
  <2>1. e.tag \notin Composites /\ e.tag \notin Indirections  BY <1>4 DEF Composites, Indirections
  <2>2. t = [kind |-> "Array", to |-> t.to] /\ t.to = TypeRefOf(u, e.ty)  BY <1>4, <2>1, RefIs DEF TypeHolds
  <2>3. DescribedType(u, i) = [kind |-> "Array", to |-> TypeRefOf(u, e.ty)]  BY <1>4, <2>1 DEF DescribedType
  <2> QED  BY <2>2, <2>3
<1>5. CASE e.tag \in {"base_type", "enumeration_type"}
  <2>1. e.tag \notin Composites /\ e.tag \notin Indirections /\ e.tag # "array_type"  BY <1>5 DEF Composites, Indirections
  <2>2. DescribedType(u, i) = [kind |-> IF e.tag = "base_type" THEN "Primitive" ELSE "Enum", name |-> FullName(u, i)]
    BY <1>5, <2>1 DEF DescribedType
  <2> QED  BY <1>5, <2>2 DEF TypeHolds
<1> QED  BY <1>1, <1>2, <1>3, <1>4, <1>5 DEF Types

ReadVariables(u, i) ==
    [n \in {n \in Named : Declared(u, i, n) # {}} |->
        [ty |-> TypeRefOf(u, Es(u)[InFileOrder(Declared(u, i, n))[1]].ty), ranges |-> RangesOf(u, Declared(u, i, n))]]
ReadFunction(u, i) == [pc_range |-> PcOf(u, i), frame_base |-> BaseOf(u, i), variables |-> ReadVariables(u, i)]

LEMMA VariablesAre ==
    ASSUME Injective(type_lookup), NEW u, NEW i, NEW vs, VariablesHold(type_lookup, u, All(u, i).variables, vs)
    PROVE  vs = ReadVariables(u, i)
<1> DEFINE d == All(u, i).variables  N == {name \in Named : d[name] # {}}
           V(name) == [ty |-> TypeRefOf(u, Es(u)[InFileOrder(Declared(u, i, name))[1]].ty), ranges |-> RangesOf(u, Declared(u, i, name))]
<1>1. \A name \in Named : d[name] = Declared(u, i, name)  BY DEF All
<1>2. vs = [name \in N |-> vs[name]] /\ \A name \in N : VariableHolds(type_lookup, u, d[name], vs[name])
  BY DEF VariablesHold
<1>3. \A name \in N : vs[name] = V(name)
  <2> SUFFICES ASSUME NEW name \in N PROVE vs[name] = V(name)  OBVIOUS
  <2> DEFINE S == Declared(u, i, name)  v == vs[name]
  <2>1. VariableHolds(type_lookup, u, S, v)  BY <1>1, <1>2
  <2> HIDE DEF S, v
  <2>2. v = [ty |-> v.ty, ranges |-> RangesOf(u, S)] /\ v.ty = TypeRefOf(u, Es(u)[InFileOrder(S)[1]].ty)
    BY <2>1, RefIs DEF VariableHolds
  <2> QED  BY <2>2 DEF S, v
<1>4. N = {n \in Named : Declared(u, i, n) # {}}  BY <1>1
<1> HIDE DEF d, N
<1>5. ReadVariables(u, i) = [name \in N |-> V(name)]
  BY <1>4, Zenon DEF ReadVariables
<1> HIDE DEF V
<1>6. [name \in N |-> vs[name]] = [name \in N |-> V(name)]  BY <1>3
<1> QED  BY <1>2, <1>5, <1>6, Zenon

LEMMA FunctionIs ==
    ASSUME Injective(type_lookup), NEW u, NEW i, ~Nested(u, i), NEW fr, FunctionHolds(type_lookup, u, i, All(u, i), fr)
    PROVE  fr = ReadFunction(u, i)
<1>1. fr = [pc_range |-> PcOf(u, i), frame_base |-> BaseOf(u, i), variables |-> fr.variables]
      /\ fr.variables = ReadVariables(u, i)
  BY VariablesAre DEF FunctionHolds
<1> QED  BY <1>1 DEF ReadFunction

LEMMA FoundTypes == ASSUME IInv, Found PROVE RecordedTypes
<1> SUFFICES ASSUME status = "done", NEW v \in DOMAIN dwarf, NEW i \in DOMAIN Es(v), IsType(v, i),
                    Es(v)[i].tag \in Composites => Closed(v, i)
             PROVE  types[TypeRefOf(v, i)] = DescribedType(v, i)
  BY DEF RecordedTypes
<1> DEFINE n == Len(Es(unit)) + 1  h == Len(stack)
<1>1. HasUnit(v) /\ HasUnit(unit) /\ unit = Len(dwarf) /\ pos = n
  BY DEF IInv, Place, HasUnit, Found, AtEnd
<1>2. dwarf \in Seq({dwarf[u] : u \in DOMAIN dwarf})  BY <1>1, DwarfsAssumption DEF HasUnit
<1>3. v \in 1..unit /\ unit \in Nat /\ Len(Es(unit)) \in Nat /\ i \in 1..Len(Es(v))  BY <1>1, <1>2, UnitFacts
<1>4. v < unit \/ i < n  BY <1>3
<1>5. TypesHold(type_lookup, types, unit, n, h) /\ Injective(type_lookup)  BY <1>1 DEF Found, IInv, Tables, Table
<1>6. Closed(v, i) => HasEnded(unit, n, h, v, i)
  <2>1. CASE v < unit  BY <2>1 DEF HasEnded
  <2>2. CASE v = unit
    <3>1. Closed(v, i) => i \notin OpenAt(unit, n, h)  BY <2>2, <1>1, <1>3, ClosedEnds
    <3> QED  BY <2>2, <3>1, <1>3 DEF HasEnded
  <2> QED  BY <2>1, <2>2, <1>3
<1>7. PICK r : IsRef(type_lookup, r, v, i) /\ TypeHolds(type_lookup, v, i, types[r])
  BY <1>3, <1>4, <1>5, <1>6 DEF TypesHold
<1>8. types[r] = DescribedType(v, i)  BY <1>1, <1>3, <1>5, <1>7, TypeIs DEF IsType
<1> QED  BY <1>5, <1>7, <1>8, RefIs

\* What ends of a name is recorded, as the parser reads the last of it.
EndedCalls(name) == {p \in Called(name) : Closed(p[1], p[2])}
LEMMA FunctionsRead ==
    ASSUME IInv, Found, status = "done", NEW name, NEW ended, ended = EndedCalls(name)
    PROVE  /\ ended = {} <=> name \notin DOMAIN functions
           /\ ended # {} /\ (\A p \in ended : ~Nested(p[1], p[2])) =>
                 functions[name] = ReadFunction(LastOf(ended)[1], LastOf(ended)[2])
<1> DEFINE n == Len(Es(unit)) + 1  h == Len(stack)
<1>1. HasUnit(unit) /\ unit = Len(dwarf) /\ pos = n
  BY DEF IInv, Place, HasUnit, Found, AtEnd
<1>2. dwarf \in Seq({dwarf[u] : u \in DOMAIN dwarf}) /\ dwarf \in Dwarfs  BY <1>1, DwarfsAssumption DEF HasUnit
<1>3. unit \in Nat /\ Len(Es(unit)) \in Nat /\ DOMAIN dwarf = 1..unit  BY <1>1, <1>2, UnitFacts
<1>4. FunctionsHold(type_lookup, functions, unit, n, h) /\ Injective(type_lookup) /\ Shape(unit, n, h)
  BY <1>1 DEF Found, IInv, Tables, Table
<1>5. ASSUME NEW p \in AllEntries, IsFunction(p[1], p[2])
      PROVE  HasEnded(unit, n, h, p[1], p[2]) <=> Closed(p[1], p[2])
  <2> DEFINE v == p[1]  i == p[2]
  <2>1. v \in 1..unit /\ i \in DOMAIN Es(v)  BY <1>3, EntriesAre
  <2>2. HasUnit(v)  BY <2>1, <1>2, <1>3 DEF HasUnit
  <2>3. i \in 1..Len(Es(v))  BY <2>1, <2>2, UnitFacts
  <2>4. CASE v < unit  BY <2>4 DEF HasEnded
  <2>5. CASE v = unit
    <3>1. Closed(v, i) => i \notin OpenAt(unit, n, h)  BY <2>2, <2>3, <2>5, <1>1, ClosedEnds
    <3>2. ~Closed(v, i) => i \in OpenAt(unit, n, h)
      <4>1. ~Closed(v, i) => Unclosed(unit, n, i)
        <5> SUFFICES ASSUME ~Closed(v, i), NEW m \in i + 1..n - 1 PROVE Depth(unit, m) > Depth(unit, i)  BY DEF Unclosed
        <5>1. m \in i + 1..Len(Es(unit))  BY <1>3, <2>3, <2>5
        <5>2. ~(Depth(unit, m) <= Depth(unit, i))  BY <5>1, <2>5 DEF Closed, Depth
        <5>3. Depth(unit, m) \in Nat /\ Depth(unit, i) \in Nat
          <6>1. m \in 1..Len(Es(unit)) /\ i \in 1..Len(Es(unit))  BY <5>1, <1>3, <2>3, <2>5
          <6> QED  BY <6>1, <1>1, UnitFacts
        <5> QED  BY <5>2, <5>3
      <4>2. i \in 1..n - 1 /\ ~(n <= Len(Es(unit)))  BY <1>3, <2>3, <2>5
      <4>3. Opens(unit, i) /\ Visible(unit, i)  BY <2>5, <1>5 DEF IsFunction, Opens, Scopes, Hosts
      <4> QED  BY <4>1, <4>2, <4>3, <1>4 DEF Shape
    <3> QED  BY <3>1, <3>2, <2>3, <2>5, <1>3 DEF HasEnded
  <2> QED  BY <2>1, <2>4, <2>5, <1>3
<1>6. EndedAs(unit, n, h, name) = ended
  BY <1>5 DEF EndedAs, Called, EndedCalls
<1>7. ended = {} <=> name \notin DOMAIN functions  BY <1>4, <1>6 DEF FunctionsHold
<1>8. ASSUME ended # {}, \A p \in ended : ~Nested(p[1], p[2])
      PROVE  functions[name] = ReadFunction(LastOf(ended)[1], LastOf(ended)[2])
  <2>1. PICK p : IsLast(p, ended) /\ FunctionHolds(type_lookup, p[1], p[2], All(p[1], p[2]), functions[name])
    BY <1>4, <1>6, <1>8 DEF FunctionsHold
  <2>2. \A q \in ended : q[1] \in Nat /\ q[2] \in Nat /\ q = <<q[1], q[2]>>
    <3> SUFFICES ASSUME NEW q \in ended PROVE q[1] \in Nat /\ q[2] \in Nat /\ q = <<q[1], q[2]>>  OBVIOUS
    <3>1. q \in AllEntries  BY DEF EndedCalls, Called
    <3>2. q[1] \in 1..unit /\ q[2] \in DOMAIN Es(q[1]) /\ q = <<q[1], q[2]>>  BY <3>1, <1>3, EntriesAre
    <3>3. HasUnit(q[1])  BY <3>2, <1>2, <1>3 DEF HasUnit
    <3>4. q[2] \in 1..Len(Es(q[1]))  BY <3>2, <3>3, UnitFacts
    <3> QED  BY <3>2, <3>4, <1>3
  <2> DEFINE l == LastOf(ended)
  <2>3. IsLast(l, ended)  BY <2>1 DEF LastOf, IsLast
  <2> HIDE DEF l
  <2>4. l = p
    <3>1. l \in ended /\ p \in ended  BY <2>1, <2>3 DEF IsLast
    <3>2. p[1] < l[1] \/ (p[1] = l[1] /\ p[2] <= l[2])  BY <2>3, <3>1 DEF IsLast
    <3>3. l[1] < p[1] \/ (l[1] = p[1] /\ l[2] <= p[2])  BY <2>1, <3>1 DEF IsLast
    <3>4. l[1] \in Nat /\ l[2] \in Nat /\ p[1] \in Nat /\ p[2] \in Nat  BY <2>2, <3>1
    <3>5. l[1] = p[1] /\ l[2] = p[2]  BY <3>2, <3>3, <3>4
    <3> QED  BY <2>2, <3>1, <3>5
  <2>5. ~Nested(p[1], p[2])  BY <1>8, <2>1 DEF IsLast
  <2>6. functions[name] = ReadFunction(p[1], p[2])  BY <1>4, <2>1, <2>5, FunctionIs
  <2> QED  BY <1>8, <2>4, <2>6 DEF l
<1> QED  BY <1>7, <1>8

\* What the parser reads of a function is what the tree describes, where that
\* can be recorded.
LEMMA TellableRange ==
    ASSUME NEW u, HasUnit(u), NEW i \in 1..Len(Es(u)), Tellable(u, Es(u)[i].pc) PROVE PcOf(u, i) = RealRange(u, i)
<1> DEFINE pc == Es(u)[i].pc  base == dwarf[u].load_base  L == pc.list
<1>1. /\ base \in Nat /\ pc.lo \in Nat \cup {None} /\ pc.hi \in Nat \cup {None} /\ pc.is_length \in BOOLEAN
      /\ DOMAIN L \in SUBSET Nat
      /\ \A k \in DOMAIN L : L[k].kind \in {"base", "offsets", "addresses", "length"} /\ L[k].a \in Nat /\ L[k].b \in Nat
  BY PcFacts
<1>2. CASE pc.lo = None
  <2>1. ASSUME NEW k \in Pairs(L)
        PROVE  RangeOf(BaseAt(base, L, k), base, L[k]) = <<base + Listed(u, L, k)[1], base + Listed(u, L, k)[2]>>
    <3>1. k \in DOMAIN L /\ k \in Nat /\ L[k].kind \in {"offsets", "addresses", "length"} /\ L[k].a \in Nat /\ L[k].b \in Nat
      BY <1>1 DEF Pairs
    <3>2. CASE L[k].kind = "offsets" /\ Bases(L, k) = {}
      <4>1. UnitBase(u) = 0  BY <1>2, <3>1, <3>2 DEF Tellable
      <4>2. BaseAt(base, L, k) = base  BY <3>2 DEF BaseAt, Bases
      <4>3. Listed(u, L, k) = <<UnitBase(u) + L[k].a, UnitBase(u) + L[k].b>>  BY <3>2 DEF Listed
      <4>4. RangeOf(base, base, L[k]) = <<base + L[k].a, base + L[k].b>>  BY <3>2 DEF RangeOf
      <4> HIDE DEF pc, base, L
      <4> QED  BY <1>1, <3>1, <4>1, <4>2, <4>3, <4>4
    <3>3. CASE L[k].kind = "offsets" /\ Bases(L, k) # {}
      <4> DEFINE m == Max(Bases(L, k))  c == L[m].a
      <4>1. Bases(L, k) \in SUBSET Nat /\ \A x \in Bases(L, k) : x <= k  BY <3>1 DEF Bases
      <4>2. m \in Bases(L, k)  BY <3>1, <3>3, <4>1, Greatest
      <4>3. m \in DOMAIN L
        <5>1. m \in 1..k  BY <4>2 DEF Bases
        <5>2. L \in Seq([kind : {"base", "offsets", "addresses", "length"}, a : Nat, b : Nat])
          <6>1. Es(u)[i] \in Entry  BY UnitFacts
          <6>2. ASSUME NEW e \in Entry PROVE e.pc.list \in Seq([kind : {"base", "offsets", "addresses", "length"}, a : Nat, b : Nat])
            BY DEF Entry
          <6> QED  BY <6>1, <6>2
        <5>3. DOMAIN L = 1..Len(L) /\ Len(L) \in Nat  BY <5>2
        <5> QED  BY <3>1, <5>1, <5>3
      <4>4. c \in Nat  BY <1>1, <4>3
      <4>5. BaseAt(base, L, k) = base + c  BY <3>3 DEF BaseAt, Bases
      <4>6. Listed(u, L, k) = <<c + L[k].a, c + L[k].b>>  BY <3>3 DEF Listed
      <4>7. RangeOf(base + c, base, L[k]) = <<base + c + L[k].a, base + c + L[k].b>>  BY <3>3 DEF RangeOf
      <4> HIDE DEF c, pc, base, L
      <4> QED  BY <1>1, <3>1, <4>4, <4>5, <4>6, <4>7
    <3>4. CASE L[k].kind = "addresses"
      <4>1. Listed(u, L, k) = <<L[k].a, L[k].b>>  BY <3>4 DEF Listed
      <4>2. RangeOf(BaseAt(base, L, k), base, L[k]) = <<base + L[k].a, base + L[k].b>>  BY <3>4 DEF RangeOf
      <4> QED  BY <4>1, <4>2
    <3>5. CASE L[k].kind = "length"
      <4>1. Listed(u, L, k) = <<L[k].a, L[k].a + L[k].b>>  BY <3>5 DEF Listed
      <4>2. RangeOf(BaseAt(base, L, k), base, L[k]) = <<base + L[k].a, base + L[k].a + L[k].b>>  BY <3>5 DEF RangeOf
      <4> HIDE DEF pc, base, L
      <4> QED  BY <1>1, <3>1, <4>1, <4>2
    <3> QED  BY <3>1, <3>2, <3>3, <3>4, <3>5
  <2>2. PcOf(u, i) = {RangeOf(BaseAt(base, L, k), base, L[k]) : k \in Pairs(L)}  BY <1>2 DEF PcOf, PcRange, Pairs
  <2>3. Covered(u, pc) = {Listed(u, L, k) : k \in Pairs(L)}  BY <1>2 DEF Covered
  <2>4. RealRange(u, i) = {<<base + r[1], base + r[2]>> : r \in Covered(u, pc)}  BY DEF RealRange
  <2> HIDE DEF pc, base, L
  <2> QED  BY <2>1, <2>2, <2>3, <2>4
<1>3. CASE pc.lo # None
  <2> DEFINE lo == pc.lo  hi == pc.hi
  <2>1. lo \in Nat /\ hi \in Nat /\ hi # None /\ (pc.is_length <=> hi < lo)  BY <1>1, <1>3 DEF Tellable
  <2>2. PcOf(u, i) = {<<base + lo, IF lo <= hi THEN base + hi ELSE base + lo + hi>>}
    <3>1. CASE lo <= hi  BY <1>3, <2>1, <3>1 DEF PcOf, PcRange
    <3>2. CASE lo > hi
      <4>1. ~(lo <= hi)  BY <2>1, <3>2
      <4>2. PcOf(u, i) = {<<base + lo, base + lo + hi>>}  BY <1>3, <2>1, <3>2, <4>1 DEF PcOf, PcRange
      <4> QED  BY <4>1, <4>2
    <3> QED  BY <2>1, <3>1, <3>2
  <2>3. Covered(u, pc) = {<<lo, IF pc.is_length THEN lo + hi ELSE hi>>}  BY <1>3, <2>1 DEF Covered
  <2>4. RealRange(u, i) = {<<base + lo, base + (IF pc.is_length THEN lo + hi ELSE hi)>>}  BY <2>3 DEF RealRange
  <2>5. (IF lo <= hi THEN base + hi ELSE base + lo + hi) = base + (IF pc.is_length THEN lo + hi ELSE hi)
    BY <1>1, <2>1
  <2> HIDE DEF pc, base, lo, hi
  <2> QED  BY <2>2, <2>4, <2>5
<1> QED  BY <1>2, <1>3

LEMMA VariablesOfIs ==
    ASSUME NEW u, HasUnit(u), NEW i
    PROVE  /\ \A j \in VariablesOf(u, i) : /\ j \in 2..Len(Es(u)) /\ ParentOf(u, j) \in 1..Len(Es(u))
                                         /\ Es(u)[j].name \in Named /\ j \in Declared(u, i, Es(u)[j].name)
           /\ \A n \in Named : CalledIn(u, i, n) = Declared(u, i, n)
<1>1. DOMAIN Es(u) = 1..Len(Es(u)) /\ Len(Es(u)) \in Nat /\ Es(u)[1].tag = "compile_unit"
      /\ \A j \in 1..Len(Es(u)) : Es(u)[j] \in Entry
  BY UnitFacts
<1>2. ASSUME NEW j \in DOMAIN Es(u), Es(u)[j].tag = "variable"
      PROVE  /\ j \in 2..Len(Es(u)) /\ ParentOf(u, j) \in 1..Len(Es(u))
             /\ HasCode(u, ParentOf(u, j)) <=> PcOf(u, ParentOf(u, j)) # {}
             /\ Es(u)[j].name \in Names \cup {NoName}
  <2>1. j \in 2..Len(Es(u))  BY <1>1, <1>2
  <2>2. ParentOf(u, j) \in 1..j - 1  BY <2>1, ParentFacts
  <2>3. ParentOf(u, j) \in 1..Len(Es(u))  BY <1>1, <2>1, <2>2
  <2>4. Es(u)[j].name \in Names \cup {NoName}
    <3>1. ASSUME NEW e \in Entry PROVE e.name \in Names \cup {NoName}  BY DEF Entry
    <3> QED  BY <1>1, <3>1
  <2> QED  BY <2>1, <2>3, <2>4, CodeIsRange
<1>3. ASSUME NEW j \in VariablesOf(u, i)
      PROVE  /\ j \in 2..Len(Es(u)) /\ ParentOf(u, j) \in 1..Len(Es(u))
             /\ Es(u)[j].name \in Named /\ j \in Declared(u, i, Es(u)[j].name)
  BY <1>2 DEF VariablesOf, Declared, Named
<1>4. ASSUME NEW n \in Named PROVE CalledIn(u, i, n) = Declared(u, i, n)
  <2>1. \A j \in CalledIn(u, i, n) : j \in Declared(u, i, n)  BY <1>3 DEF CalledIn
  <2>2. \A j \in Declared(u, i, n) : j \in VariablesOf(u, i) /\ Es(u)[j].name = n
    BY <1>2, <1>4 DEF VariablesOf, Declared, Named
  <2> QED  BY <2>1, <2>2 DEF CalledIn
<1> QED  BY <1>3, <1>4

LEMMA ReadIsDescribed ==
    ASSUME NEW u, HasUnit(u), NEW i \in 1..Len(Es(u)), Recordable(u, i) PROVE ReadFunction(u, i) = DescribedFunction(u, i)
<1>1. PcOf(u, i) = RealRange(u, i)  BY TellableRange DEF Recordable
<1> DEFINE N == {n \in Named : Declared(u, i, n) # {}}
           V(n) == [ty |-> TypeRefOf(u, Es(u)[InFileOrder(Declared(u, i, n))[1]].ty), ranges |-> RangesOf(u, Declared(u, i, n))]
<1>2. {Es(u)[j].name : j \in VariablesOf(u, i)} = N
  <2>1. \A j \in VariablesOf(u, i) : Es(u)[j].name \in N  BY VariablesOfIs
  <2>2. \A n \in N : \E j \in VariablesOf(u, i) : Es(u)[j].name = n  BY VariablesOfIs DEF CalledIn
  <2> HIDE DEF N
  <2> QED  BY <2>1, <2>2
<1>3. ASSUME NEW n \in N PROVE DescribedVariable(u, i, n) = V(n)
  <2> DEFINE S == Declared(u, i, n)  js == InFileOrder(S)
  <2>1. S = CalledIn(u, i, n) /\ S # {} /\ \A j \in S : j \in VariablesOf(u, i) /\ Es(u)[j].name = n
    BY VariablesOfIs DEF CalledIn
  <2>2. /\ DOMAIN js = 1..Cardinality(S) /\ Cardinality(S) \in Nat \ {0}
        /\ \A k \in DOMAIN js : js[k] \in S
    <3>1. S \in SUBSET (1..Len(Es(u))) /\ Len(Es(u)) \in Nat  BY UnitFacts DEF Declared
    <3> HIDE DEF S
    <3>2. FilePositions(S)
      <4>1. IsFiniteSet(1..Len(Es(u)))  BY <3>1, FS_Interval
      <4>2. IsFiniteSet(S)  BY <3>1, <4>1, FS_Subset
      <4>3. S \in SUBSET Nat  BY <3>1
      <4> QED  BY <4>2, <4>3 DEF FilePositions
    <3>3. \A j \in S : j < Len(Es(u)) + 1  BY <3>1
    <3>4. \A k \in 1..Cardinality(S) : InFileOrder(S)[k] \in S
      <4>1. Len(Es(u)) + 1 \in Nat  BY <3>1
      <4> QED  BY <3>2, <3>3, <4>1, OrderTypes
    <3>5. Cardinality(S) # 0  BY <2>1, <3>2, FS_EmptySet DEF FilePositions
    <3> QED  BY <3>2, <3>4, <3>5, OrderSize
  <2> HIDE DEF S, js
  <2> DEFINE T == {Es(u)[j].ty : j \in S}
  <2>3. (CHOOSE ty \in T : TRUE) = Es(u)[js[1]].ty
    <3>1. js[1] \in S  BY <2>2
    <3>2. \A j \in S : Es(u)[j].ty = Es(u)[js[1]].ty  BY <2>1, <3>1 DEF Recordable
    <3>3. T = {Es(u)[js[1]].ty}  BY <3>1, <3>2
    <3> QED  BY <3>3
  <2>4. ASSUME NEW k \in DOMAIN js PROVE RealRange(u, ParentOf(u, js[k])) = PcOf(u, ParentOf(u, js[k]))
    <3>1. js[k] \in VariablesOf(u, i)  BY <2>1, <2>2
    <3>2. ParentOf(u, js[k]) \in 1..Len(Es(u)) /\ Tellable(u, Es(u)[ParentOf(u, js[k])].pc)
      BY <3>1, VariablesOfIs DEF Recordable
    <3> QED  BY <3>2, TellableRange
  <2>5. [k \in DOMAIN js |-> [pc_range |-> RealRange(u, ParentOf(u, js[k])), position |-> js[k]]]
          = [k \in DOMAIN js |-> [pc_range |-> PcOf(u, ParentOf(u, js[k])), position |-> js[k]]]
    BY <2>4
  <2>6. RangesOf(u, S) = [k \in DOMAIN js |-> [pc_range |-> PcOf(u, ParentOf(u, js[k])), position |-> js[k]]]
    BY Zenon DEF RangesOf, js
  <2>7. DescribedVariable(u, i, n)
          = [ty |-> TypeRefOf(u, CHOOSE ty \in T : TRUE),
             ranges |-> [k \in DOMAIN js |-> [pc_range |-> RealRange(u, ParentOf(u, js[k])), position |-> js[k]]]]
    BY <2>1, Zenon DEF DescribedVariable, js
  <2>8. V(n) = [ty |-> TypeRefOf(u, Es(u)[js[1]].ty), ranges |-> RangesOf(u, S)]  BY DEF S, js
  <2> HIDE DEF V, T
  <2> QED  BY <2>3, <2>5, <2>6, <2>7, <2>8
<1>4. ReadVariables(u, i) = [n \in N |-> V(n)]  BY Zenon DEF ReadVariables
<1> DEFINE D == [n \in {Es(u)[j].name : j \in VariablesOf(u, i)} |-> DescribedVariable(u, i, n)]
<1>5. D = [n \in N |-> DescribedVariable(u, i, n)]  BY <1>2
<1>6. DescribedFunction(u, i) = [pc_range |-> RealRange(u, i), frame_base |-> BaseOf(u, i), variables |-> D]
  BY Zenon DEF DescribedFunction, BaseOf
<1> HIDE DEF N, V, D
<1>7. ReadVariables(u, i) = D  BY <1>3, <1>4, <1>5
<1> QED  BY <1>1, <1>6, <1>7 DEF ReadFunction

LEMMA FoundFunctions == ASSUME IInv, Found PROVE RecordedFunctions
<1> SUFFICES ASSUME status = "done", NEW p \in AllEntries, IsFunction(p[1], p[2])
             PROVE  LET u == p[1]  i == p[2]  name == FullName(u, i)  ended == EndedCalls(name)
                    IN  IF ended = {} THEN name \notin DOMAIN functions
                        ELSE p = LastOf(ended) /\ HasCode(u, i) /\ Recordable(u, i)
                               /\ (\A q \in ended : ~Nested(q[1], q[2]))
                             => name \in DOMAIN functions /\ functions[name] = DescribedFunction(u, i)
  BY Zenon DEF RecordedFunctions, EndedCalls
<1> DEFINE u == p[1]  i == p[2]  name == FullName(u, i)  ended == EndedCalls(name)
<1>1. /\ ended = {} <=> name \notin DOMAIN functions
      /\ ended # {} /\ (\A q \in ended : ~Nested(q[1], q[2])) =>
            functions[name] = ReadFunction(LastOf(ended)[1], LastOf(ended)[2])
  BY FunctionsRead
<1>2. HasUnit(u) /\ i \in 1..Len(Es(u))
  <2>1. HasUnit(unit) /\ unit = Len(dwarf)  BY DEF IInv, Place, HasUnit, Found, AtEnd
  <2>2. dwarf \in Seq({dwarf[v] : v \in DOMAIN dwarf}) /\ dwarf \in Dwarfs  BY <2>1, DwarfsAssumption DEF HasUnit
  <2>3. DOMAIN dwarf = 1..unit /\ unit \in Nat  BY <2>1, <2>2, UnitFacts
  <2>4. u \in 1..unit /\ i \in DOMAIN Es(u)  BY <2>3, EntriesAre
  <2>5. HasUnit(u)  BY <2>2, <2>3, <2>4 DEF HasUnit
  <2> QED  BY <2>4, <2>5, UnitFacts
<1>3. Recordable(u, i) => ReadFunction(u, i) = DescribedFunction(u, i)  BY <1>2, ReadIsDescribed
<1> HIDE DEF u, i, name, ended
<1>4. CASE ended = {}  BY <1>1, <1>4 DEF u, i, name, ended
<1>5. CASE ended # {}
  <2>1. p = LastOf(ended) => LastOf(ended)[1] = u /\ LastOf(ended)[2] = i  BY DEF u, i
  <2>2. p = LastOf(ended) /\ Recordable(u, i) /\ (\A q \in ended : ~Nested(q[1], q[2]))
          => name \in DOMAIN functions /\ functions[name] = DescribedFunction(u, i)
    BY <1>1, <1>3, <1>5, <2>1
  <2> QED  BY <1>5, <2>2 DEF u, i, name, ended
<1> QED  BY <1>4, <1>5

LEMMA FoundCause == ASSUME IInv, Found PROVE PanicsOnlyWithCause
<1>1. Entries = Es(unit)  BY DEF Entries, Es
<1> QED  BY <1>1 DEF Found, Caused, PanicsOnlyWithCause

\* Whatever the debug information, every type whose scope ends in its unit is
\* recorded with its full name, its members, its bases and its variants.
THEOREM ParserRecordsTypes == Spec => []RecordedTypes
<1>1. IInv /\ Found => RecordedTypes  BY FoundTypes
<1> QED  BY FoundInvariant, <1>1, PTL

\* Whatever the debug information, a function is recorded with the PC values, the
\* frame base and the variables, in order, that the tree gives it, where it is the
\* last of its name that ends, its ranges can be told, its variables of a name are
\* of one type and it is in no function and none is in it.
THEOREM ParserRecordsFunctions == Spec => []RecordedFunctions
<1>1. IInv /\ Found => RecordedFunctions  BY FoundFunctions
<1> QED  BY FoundInvariant, <1>1, PTL

\* Whatever the debug information, the parser panics only over an entry that it
\* looks at and that is of a form it does not support.
THEOREM ParserPanicsOnlyWithCause == Spec => []PanicsOnlyWithCause
<1>1. IInv /\ Found => PanicsOnlyWithCause  BY FoundCause
<1> QED  BY FoundInvariant, <1>1, PTL
=============================================================================
