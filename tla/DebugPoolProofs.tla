-------------------------- MODULE DebugPoolProofs ---------------------------
(***************************************************************************)
(* What DebugPool tells the walk, for any files and any stack: types of    *)
(* one name have one definition, which is complete if any of them is, the  *)
(* dynamic type of an object is that of its vtable, and the loop over the  *)
(* frames finds each variable where its activation has it.                 *)
(***************************************************************************)
EXTENDS DebugIndex, StackWalk, WellFoundedInduction, SequenceTheorems, TLAPS

(* The names hold the types that were read; those whose turn has come lead  *)
(* to the first type of their name, and only those were remapped.           *)
NamesOfRead ==
    \A r \in 1..next - 1 : types[r] # None => fmt_type[r] \in DOMAIN type_name_map
ReadOfNames ==
    \A n \in DOMAIN type_name_map : \A r :
        r \in type_name_map[n] <=> r \in 1..next - 1 /\ types[r] # None /\ fmt_type[r] = n
Canonical ==
    \A n \in DOMAIN type_name_map \ todo : \A r \in type_name_map[n] : Remap(r) = First(type_name_map[n])
OnlyDone ==
    \A r \in DOMAIN type_remap :
        r \in Populated /\ \A n \in todo : r \notin type_name_map[n]
Order ==
    /\ symtab # <<>> \/ next <= Len(types) => todo = DOMAIN type_name_map /\ DOMAIN type_remap = {}
    /\ status # "indexing" => symtab = <<>> /\ next = Len(types) + 1 /\ todo = {}

Inv == TypeOK /\ NamesOfRead /\ ReadOfNames /\ Canonical /\ OnlyDone /\ Order

-----------------------------------------------------------------------------
LEMMA Smallest ==
    ASSUME NEW I, I \subseteq Nat, I # {}
    PROVE  \E i \in I : \A j \in I : i <= j
<1>1. PICK i \in I : \A j \in I : ~ (<<j, i>> \in OpToRel(<, Nat))
  BY NatLessThanWellFounded, WFMin
<1>2. \A j \in I : ~ (j < i)
  BY <1>1 DEF OpToRel
<1> QED
  BY <1>2

(* Some type of a name comes before all others, and it is complete if any   *)
(* of them is.                                                              *)
LEMMA FirstIsFirst ==
    ASSUME NEW S, S \subseteq Nat, S # {}
    PROVE  First(S) \in S /\ \A s \in S : First(S) = s \/ Before(First(S), s)
<1> DEFINE C == {r \in S : is_complete(r)}
<1>1. \E r \in S : \A s \in S : r = s \/ Before(r, s)
  <2>1. CASE C # {}
    <3>1. PICK r \in C : \A s \in C : r <= s  BY <2>1, Smallest
    <3>2. \A s \in S : r = s \/ Before(r, s)  BY <3>1 DEF Before
    <3> QED  BY <3>1, <3>2
  <2>2. CASE C = {}
    <3>1. PICK r \in S : \A s \in S : r <= s  BY Smallest
    <3>2. \A s \in S : ~is_complete(s)  BY <2>2
    <3>3. \A s \in S : r = s \/ Before(r, s)  BY <3>1, <3>2 DEF Before
    <3> QED  BY <3>3
  <2> QED  BY <2>1, <2>2
<1> QED  BY <1>1 DEF First

LEMMA FirstIsComplete ==
    ASSUME NEW S, S \subseteq Nat, NEW s \in S, is_complete(s)
    PROVE  is_complete(First(S))
BY FirstIsFirst DEF Before

-----------------------------------------------------------------------------
LEMMA InitInv == Init => Inv
<1> SUFFICES ASSUME Init PROVE Inv
  OBVIOUS
<1>1. PICK i \in Inputs : files = i.files /\ symtab = i.symtab /\ types = i.types  BY DEF Init
<1>2. files \in Seq(File) /\ types \in Seq(Type \cup {None}) /\ symtab \in Seq(Symbol)
  BY <1>1, InputsAssumption
<1>3. \A k \in DOMAIN symtab : symtab[k].file \in DOMAIN files  BY <1>1, InputsAssumption
<1>4. TypeOK  BY <1>2, <1>3 DEF Init, TypeOK
<1> QED  BY <1>2, <1>4 DEF Init, Inv, NamesOfRead, ReadOfNames, Canonical, OnlyDone, Order

LEMMA AddSymbolInv == Inv /\ AddSymbol => Inv'
<1> SUFFICES ASSUME Inv, AddSymbol PROVE Inv'
  OBVIOUS
<1> USE DEF Inv
<1>0. UNCHANGED <<files, types, next, type_name_map, todo, type_remap, reply, status>>  BY DEF AddSymbol, indexvars
<1> DEFINE s == Head(symtab)
<1>1. s \in Symbol /\ s.file \in DOMAIN files /\ symtab' \in Seq(Symbol)
      /\ \A k \in DOMAIN symtab' : symtab'[k].file \in DOMAIN files
  BY HeadTailProperties DEF AddSymbol, TypeOK
<1>2. Address(s) \in Nat
  <2>1. files[s.file] \in File  BY <1>1 DEF TypeOK
  <2>2. files[s.file].base \in Nat /\ s.value \in Nat  BY <1>1, <2>1 DEF Symbol, File
  <2> QED  BY <2>2 DEF Address
<1>3. DOMAIN symbols' \subseteq Nat /\ \A a \in DOMAIN symbols' : symbols'[a] \in Seq(Symbol) \ {<<>>}
  <2>1. CASE s.undefined  BY <2>1 DEF AddSymbol, TypeOK
  <2>2. CASE ~s.undefined
    <3>1. <<s>> \in Seq(Symbol) \ {<<>>}  BY <1>1
    <3>2. \A q \in Seq(Symbol) : Append(q, s) \in Seq(Symbol) \ {<<>>}  BY <1>1, AppendProperties, EmptySeq
    <3> QED  BY <1>2, <2>2, <3>1, <3>2 DEF AddSymbol, TypeOK
  <2> QED  BY <2>1, <2>2
<1>4. TypeOK'  BY <1>0, <1>1, <1>3 DEF TypeOK, Refs
<1>5. NamesOfRead' /\ ReadOfNames' /\ Canonical' /\ OnlyDone' /\ Order'
  BY <1>0 DEF NamesOfRead, ReadOfNames, Canonical, OnlyDone, Order, AddSymbol, fmt_type, Remap, First,
              Before, is_complete, Populated, Refs
<1> QED  BY <1>4, <1>5

LEMMA IndexTypeInv == Inv /\ IndexType => Inv'
<1> SUFFICES ASSUME Inv, IndexType PROVE Inv'
  OBVIOUS
<1> USE DEF Inv
<1>0. UNCHANGED <<files, symtab, symbols, types, type_remap, status>> /\ next \in 1..Len(types) /\ next' = next + 1
      /\ DOMAIN type_remap = {} /\ todo' = DOMAIN type_name_map' /\ Len(types) \in Nat /\ status = "indexing"
      /\ symtab = <<>> /\ next \in Refs
  BY DEF IndexType, loadvars, TypeOK, Order, Refs
<1>1. fmt_type' = fmt_type  BY <1>0 DEF fmt_type
<1>2. CASE types[next] = None
  <2>1. type_name_map' = type_name_map  BY <1>2 DEF IndexType
  <2>2. TypeOK'  BY <1>0, <2>1 DEF TypeOK, Refs
  <2>3. NamesOfRead' /\ ReadOfNames'  BY <1>0, <1>1, <1>2, <2>1 DEF NamesOfRead, ReadOfNames
  <2> QED  BY <1>0, <2>1, <2>2, <2>3 DEF Canonical, OnlyDone, Order
<1>3. CASE types[next] # None
  <2> DEFINE n == fmt_type[next]
  <2>1. type_name_map' = WithType(type_name_map, n, next)  BY <1>3 DEF IndexType
  <2>2. /\ DOMAIN type_name_map' = DOMAIN type_name_map \cup {n}
        /\ \A m \in DOMAIN type_name_map : m # n => type_name_map'[m] = type_name_map[m]
        /\ type_name_map'[n] = IF n \in DOMAIN type_name_map THEN type_name_map[n] \cup {next} ELSE {next}
    BY <2>1 DEF WithType
  <2>3. TypeOK'
    <3>1. \A m \in DOMAIN type_name_map' : type_name_map'[m] \in (SUBSET Refs) \ {{}}
      BY <1>0, <2>2 DEF TypeOK
    <3>2. next' \in 1..Len(types') + 1  BY <1>0
    <3> QED  BY <1>0, <3>1, <3>2 DEF TypeOK, Refs
  <2>4. NamesOfRead'  BY <1>0, <1>1, <2>2 DEF NamesOfRead
  <2>5. ReadOfNames'
    <3> SUFFICES ASSUME NEW m \in DOMAIN type_name_map', NEW r
                 PROVE  r \in type_name_map'[m] <=> r \in 1..next /\ types[r] # None /\ fmt_type[r] = m
      BY <1>0, <1>1 DEF ReadOfNames
    <3>1. CASE m # n  BY <1>0, <2>2, <3>1 DEF ReadOfNames
    <3>2. CASE m = n /\ n \in DOMAIN type_name_map  BY <1>0, <1>3, <2>2, <3>2 DEF ReadOfNames
    <3>3. CASE m = n /\ n \notin DOMAIN type_name_map  BY <1>0, <1>3, <2>2, <3>3 DEF NamesOfRead
    <3> QED  BY <2>2, <3>1, <3>2, <3>3
  <2> QED  BY <1>0, <2>3, <2>4, <2>5 DEF Canonical, OnlyDone, Order
<1> QED  BY <1>2, <1>3

LEMMA ChooseCanonicalInv == Inv /\ ChooseCanonical => Inv'
<1> SUFFICES ASSUME Inv, ChooseCanonical PROVE Inv'
  OBVIOUS
<1> USE DEF Inv
<1>1. PICK n \in todo :
        /\ type_remap' = [r \in DOMAIN type_remap \cup Replaced(type_name_map[n]) |->
                            IF r \in Replaced(type_name_map[n]) THEN First(type_name_map[n]) ELSE type_remap[r]]
        /\ todo' = todo \ {n}
  BY DEF ChooseCanonical
<1> DEFINE tys == type_name_map[n]  target == First(tys)
<1>0. UNCHANGED <<files, symtab, symbols, types, next, type_name_map, status>> /\ status = "indexing"
      /\ symtab = <<>> /\ next > Len(types)
  BY DEF ChooseCanonical, loadvars
<1>2. n \in DOMAIN type_name_map /\ tys \subseteq Refs /\ tys # {} /\ tys \subseteq Nat
  BY <1>1 DEF TypeOK, Refs
<1>3. target \in tys  BY <1>2, FirstIsFirst
<1>4. \A S : First(S)' = First(S)  BY <1>0 DEF First, Before, is_complete
<1>5. fmt_type' = fmt_type /\ Refs' = Refs  BY <1>0 DEF fmt_type, Refs
<1>6. /\ DOMAIN type_remap' = DOMAIN type_remap \cup (tys \ {target})
      /\ \A r \in DOMAIN type_remap' : type_remap'[r] = IF r \in tys \ {target} THEN target ELSE type_remap[r]
  BY <1>1 DEF Replaced
<1>7. \A m \in DOMAIN type_name_map, r \in tys : r \in type_name_map[m] => m = n
  BY <1>2 DEF ReadOfNames
<1>8. TypeOK'
  <2>1. DOMAIN type_remap' \subseteq Refs /\ \A r \in DOMAIN type_remap' : type_remap'[r] \in Refs
    BY <1>2, <1>3, <1>6 DEF TypeOK
  <2> QED  BY <1>0, <1>1, <1>5, <2>1 DEF TypeOK
<1>9. Canonical'
  <2> SUFFICES ASSUME NEW m \in DOMAIN type_name_map \ todo', NEW r \in type_name_map[m]
               PROVE  Remap(r)' = First(type_name_map[m])
    BY <1>0, <1>4 DEF Canonical
  <2>1. CASE m = n
    <3>1. r \notin DOMAIN type_remap  BY <1>1, <2>1 DEF OnlyDone
    <3> QED  BY <1>6, <2>1, <3>1 DEF Remap
  <2>2. CASE m # n
    <3>1. r \notin tys  BY <1>7, <2>2
    <3>2. Remap(r)' = Remap(r)  BY <1>6, <3>1 DEF Remap
    <3> QED  BY <1>1, <2>2, <3>2 DEF Canonical
  <2> QED  BY <2>1, <2>2
<1>10. OnlyDone'
  <2> SUFFICES ASSUME NEW r \in DOMAIN type_remap'
               PROVE  r \in Populated /\ \A m \in todo' : r \notin type_name_map[m]
    BY <1>0 DEF OnlyDone, Populated, Refs
  <2>1. CASE r \in tys
    <3>1. r \in Populated  BY <1>2, <2>1 DEF ReadOfNames, Populated
    <3>2. \A m \in todo' : m \in DOMAIN type_name_map /\ m # n  BY <1>1 DEF TypeOK
    <3> QED  BY <1>7, <2>1, <3>1, <3>2
  <2>2. CASE r \notin tys  BY <1>1, <1>6, <2>2 DEF OnlyDone
  <2> QED  BY <2>1, <2>2
<1>11. NamesOfRead' /\ ReadOfNames'  BY <1>0, <1>5 DEF NamesOfRead, ReadOfNames
<1>12. Len(types) \in Nat /\ next \in 1..Len(types) + 1  BY DEF TypeOK
<1>13. Order'  BY <1>0, <1>12 DEF Order
<1> QED  BY <1>8, <1>9, <1>10, <1>11, <1>13

LEMMA IndexedInv == Inv /\ Indexed => Inv'
<1> SUFFICES ASSUME Inv, Indexed PROVE Inv'
  OBVIOUS
<1> USE DEF Inv
<1>1. UNCHANGED <<files, symtab, symbols, types, next, type_name_map, todo, type_remap>> /\ status' = "ready"
      /\ symtab = <<>> /\ next = Len(types) + 1 /\ todo = {}
  BY DEF Indexed, loadvars, indexvars, TypeOK
<1> QED
  BY <1>1 DEF TypeOK, NamesOfRead, ReadOfNames, Canonical, OnlyDone, Order, fmt_type, Remap, First,
              Before, is_complete, Populated, Refs

(* Lookups change nothing but the reply, and whether the program is alive.  *)
LEMMA Asks ==
    ASSUME Lookup
    PROVE  UNCHANGED <<loadvars, indexvars>> /\ status = "ready" /\ status' \in {"ready", "panicked"}
<1>1. ASSUME NEW op, NEW what, NEW result, Returns(op, what, result)
      PROVE  UNCHANGED <<loadvars, indexvars>> /\ status = "ready" /\ status' = "ready"
  BY <1>1 DEF Returns
<1>2. ASSUME NEW addr, find_type_by_vtable(addr)
      PROVE  UNCHANGED <<loadvars, indexvars>> /\ status = "ready" /\ status' \in {"ready", "panicked"}
  BY <1>1, <1>2 DEF find_type_by_vtable
<1> QED
  BY <1>1, <1>2 DEF Lookup, get_type, size_of, find_type_by_name, get_symbol, resolve_symbol

LEMMA LookupInv == Inv /\ Lookup => Inv'
<1> SUFFICES ASSUME Inv, Lookup PROVE Inv'
  OBVIOUS
<1> USE DEF Inv
<1>1. UNCHANGED <<files, symtab, symbols, types, next, type_name_map, todo, type_remap>>
      /\ status = "ready" /\ status' \in {"ready", "panicked"}
  BY Asks DEF loadvars, indexvars
<1> QED
  BY <1>1 DEF TypeOK, NamesOfRead, ReadOfNames, Canonical, OnlyDone, Order, fmt_type, Remap, First,
              Before, is_complete, Populated, Refs

LEMMA Invariance == Spec => []Inv
<1>1. Inv /\ UNCHANGED vars => Inv'
  BY DEF Inv, vars, TypeOK, NamesOfRead, ReadOfNames, Canonical, OnlyDone, Order, fmt_type, Remap, First,
         Before, is_complete, Populated, Refs
<1>2. Inv /\ [Next]_vars => Inv'
  BY <1>1, AddSymbolInv, IndexTypeInv, ChooseCanonicalInv, IndexedInv, LookupInv DEF Next
<1> QED
  BY <1>2, InitInv, PTL DEF Spec

-----------------------------------------------------------------------------
(* The symbols and the index keep their types, whatever the files hold      *)
(* (dwarf.rs:122-168).                                                      *)
THEOREM IndexTypeOK == Spec => []TypeOK
<1>1. Inv => TypeOK  BY DEF Inv
<1> QED  BY <1>1, Invariance, PTL

LEMMA CanonicalIsFirst ==
    ASSUME Inv, status = "ready", NEW r \in Populated
    PROVE  /\ fmt_type[r] \in DOMAIN type_name_map
           /\ Alike(r) = type_name_map[fmt_type[r]]
           /\ Remap(r) = First(type_name_map[fmt_type[r]])
<1>1. r \in 1..next - 1 /\ types[r] # None /\ 1..next - 1 = Refs /\ todo = {}
  BY DEF Inv, Order, Populated, Refs, TypeOK
<1>2. fmt_type[r] \in DOMAIN type_name_map /\ r \in type_name_map[fmt_type[r]]
  BY <1>1 DEF Inv, NamesOfRead, ReadOfNames
<1> QED
  BY <1>1, <1>2 DEF Inv, ReadOfNames, Canonical, Alike, Populated

(* All types of a name lead to the same one (dwarf.rs:159-168).             *)
THEOREM IndexOneTypePerName == Spec => []OneTypePerName
<1>1. Inv => OneTypePerName
  <2> SUFFICES ASSUME Inv, status = "ready", NEW r \in Populated, NEW s \in Alike(r)
               PROVE  Remap(s) = Remap(r)
    BY DEF OneTypePerName
  <2>1. s \in Populated /\ fmt_type[s] = fmt_type[r]  BY DEF Alike
  <2> QED  BY <2>1, CanonicalIsFirst
<1> QED  BY <1>1, Invariance, PTL

(* A type is seen complete if any unit has it complete (dwarf.rs:60-63).    *)
THEOREM IndexFullyDefined == Spec => []FullyDefined
<1>1. Inv => FullyDefined
  <2> SUFFICES ASSUME Inv, status = "ready", NEW r \in Populated, NEW s \in Alike(r), is_complete(s)
               PROVE  is_complete(Remap(r))
    BY DEF FullyDefined
  <2>1. Alike(r) \subseteq Nat  BY DEF Inv, TypeOK, Alike, Populated, Refs
  <2> QED  BY <2>1, CanonicalIsFirst, FirstIsComplete
<1> QED  BY <1>1, Invariance, PTL

-----------------------------------------------------------------------------
(* Lookups by address.  The symbol nearest to an address is one there is.   *)
LEMMA NearestIsThere ==
    ASSUME TypeOK, NEW addr \in Nat, DOMAIN symbols # {}
    PROVE  Nearest(addr) \in DOMAIN symbols
<1> DEFINE D == {Distance(a, addr) : a \in DOMAIN symbols}
<1>1. \A a \in DOMAIN symbols : a \in Nat /\ Distance(a, addr) \in Nat  BY DEF TypeOK, Distance
<1>2. PICK d \in D : \A e \in D : d <= e
  <2>1. D \subseteq Nat /\ D # {}  BY <1>1
  <2> QED  BY <2>1, Smallest
<1> DEFINE S == {a \in DOMAIN symbols : Distance(a, addr) = d}
<1>3. PICK a \in S : \A b \in S : a <= b
  <2>1. S \subseteq Nat /\ S # {}  BY <1>1, <1>2
  <2> QED  BY <2>1, Smallest
<1>4. ASSUME NEW b \in DOMAIN symbols
      PROVE  \/ Distance(a, addr) < Distance(b, addr)
             \/ Distance(a, addr) = Distance(b, addr) /\ a <= b
  <2>1. d <= Distance(b, addr) /\ d \in Nat /\ Distance(b, addr) \in Nat  BY <1>1, <1>2
  <2>2. Distance(a, addr) = d  BY <1>3
  <2> QED  BY <1>3, <2>1, <2>2
<1> QED  BY <1>3, <1>4 DEF Nearest

LEMMA VtableHolds ==
    ASSUME TypeOK, NEW a \in DOMAIN symbols, NEW addr, IsVtable(a, addr)
    PROVE  \E k \in DOMAIN symbols[a] :
              Holds(a, symbols[a][k], addr) /\ symbols[a][k].vtable_of = VtableAt(a, addr)
<1>1. DOMAIN symbols[a] \subseteq Nat /\ Vtables(a, addr) \subseteq DOMAIN symbols[a] /\ Vtables(a, addr) # {}
  BY DEF TypeOK, IsVtable, Vtables
<1>2. \E k \in Vtables(a, addr) : \A l \in Vtables(a, addr) : k <= l  BY <1>1, Smallest
<1>3. Lowest(Vtables(a, addr)) \in Vtables(a, addr)  BY <1>2 DEF Lowest
<1> QED  BY <1>3 DEF Vtables, VtableAt, FirstOf

(* A name of the index leads to the first type of that name.                *)
LEMMA NamedIsCanonical ==
    ASSUME Inv, status = "ready", NEW n \in DOMAIN type_name_map
    PROVE  ByName(n) \in Populated /\ fmt_type[ByName(n)] = n /\ ByName(n) = Remap(ByName(n))
<1> DEFINE f == First(type_name_map[n])
<1>1. type_name_map[n] \subseteq Nat /\ type_name_map[n] # {} /\ type_name_map[n] \subseteq Refs
  BY DEF Inv, TypeOK, Refs
<1>2. f \in type_name_map[n]  BY <1>1, FirstIsFirst
<1>3. Remap(f) = f  BY <1>2 DEF Inv, Order, Canonical
<1> HIDE DEF f
<1> QED  BY <1>1, <1>2, <1>3 DEF ByName, f, Inv, ReadOfNames, Populated

NoReplyYet == status = "indexing" => reply = None

LEMMA InitVtable == Init => NoReplyYet /\ VtableIsDynamicType
BY DEF Init, NoReplyYet, VtableIsDynamicType, Asked

LEMMA VtableStep ==
    ASSUME Inv, NEW addr \in Addrs, find_type_by_vtable(addr)
    PROVE  VtableIsDynamicType'
<1>1. UNCHANGED <<loadvars, indexvars>> /\ status = "ready"  BY Asks DEF Lookup
<1>2. SUFFICES ASSUME status' = "ready", reply' # None, reply'.op = "find_type_by_vtable", reply'.result # None
               PROVE  \E a \in DOMAIN symbols : \E k \in DOMAIN symbols[a] :
                        /\ a <= reply'.arg /\ reply'.arg < a + symbols[a][k].size
                        /\ reply'.result \in Populated /\ fmt_type[reply'.result] = Plain(symbols[a][k].vtable_of)
                        /\ reply'.result = Remap(reply'.result)
  BY <1>1 DEF VtableIsDynamicType, Asked, loadvars, indexvars, Populated, Refs, fmt_type, Remap
<1> DEFINE a == Nearest(addr)  n == Plain(VtableAt(a, addr))
<1>3. /\ DOMAIN symbols # {} /\ IsVtable(a, addr) /\ n \in DOMAIN type_name_map
      /\ reply'.arg = addr /\ reply'.result = ByName(n)
  <2>1. \A result : Returns("find_type_by_vtable", addr, result) => reply'.arg = addr /\ reply'.result = result
    BY DEF Returns
  <2>2. DOMAIN symbols # {} /\ IsVtable(a, addr)  BY <1>2, <2>1 DEF find_type_by_vtable
  <2>3. IF n \in DOMAIN type_name_map THEN Returns("find_type_by_vtable", addr, ByName(n)) ELSE status' = "panicked"
    BY <2>2 DEF find_type_by_vtable
  <2>4. n \in DOMAIN type_name_map /\ Returns("find_type_by_vtable", addr, ByName(n))  BY <1>2, <2>3
  <2> QED  BY <2>1, <2>2, <2>4
<1>4. a \in DOMAIN symbols  BY <1>3, NearestIsThere, AddrsAssumption DEF Inv
<1>5. PICK k \in DOMAIN symbols[a] : Holds(a, symbols[a][k], addr) /\ Plain(symbols[a][k].vtable_of) = n
  BY <1>3, <1>4, VtableHolds DEF Inv
<1>6. reply'.result \in Populated /\ fmt_type[reply'.result] = n /\ reply'.result = Remap(reply'.result)
  BY <1>1, <1>3, NamedIsCanonical
<1> QED  BY <1>3, <1>4, <1>5, <1>6 DEF Holds

(* Every other step leaves the answer of such a lookup, or replaces it.     *)
LEMMA OtherSteps ==
    ASSUME Inv, NoReplyYet, VtableIsDynamicType, [Next]_vars
    PROVE  NoReplyYet' /\ VtableIsDynamicType'
<1>1. CASE AddSymbol \/ IndexType \/ ChooseCanonical \/ Indexed
  <2>1. reply' = reply /\ (status = "ready" => FALSE) /\ (status' = "indexing" => status = "indexing")
    BY <1>1 DEF AddSymbol, IndexType, ChooseCanonical, Indexed, Inv, Order, TypeOK
  <2>2. status # "panicked"
    BY <1>1 DEF AddSymbol, IndexType, ChooseCanonical, Indexed, Inv, Order, TypeOK
  <2>3. reply' = None  BY <2>1, <2>2 DEF NoReplyYet, Inv, TypeOK
  <2> QED  BY <2>3 DEF NoReplyYet, VtableIsDynamicType, Asked
<1>2. CASE Lookup
  <2>1. UNCHANGED <<loadvars, indexvars>> /\ status = "ready" /\ status' \in {"ready", "panicked"}
    BY <1>2, Asks
  <2>2. ASSUME NEW op, NEW what, NEW result, Returns(op, what, result), op # "find_type_by_vtable"
        PROVE  VtableIsDynamicType'
    BY <2>2 DEF Returns, VtableIsDynamicType, Asked
  <2>3. CASE \E addr \in Addrs : find_type_by_vtable(addr)
    BY <2>1, <2>3, VtableStep DEF NoReplyYet
  <2>4. CASE ~\E addr \in Addrs : find_type_by_vtable(addr)
    BY <1>2, <2>1, <2>2, <2>4
       DEF Lookup, get_type, size_of, find_type_by_name, get_symbol, resolve_symbol, NoReplyYet
  <2> QED  BY <2>3, <2>4
<1>3. CASE UNCHANGED vars
  BY <1>3 DEF vars, NoReplyYet, VtableIsDynamicType, Asked, Populated, Refs, fmt_type, Remap
<1> QED  BY <1>1, <1>2, <1>3 DEF Next

(* The type a vtable leads to is the canonical one of the symbol the        *)
(* address is in (dwarf.rs:189-208), whatever other symbols are around it.  *)
THEOREM IndexVtableIsDynamicType == Spec => []VtableIsDynamicType
<1>1. Inv /\ NoReplyYet /\ VtableIsDynamicType /\ [Next]_vars => NoReplyYet' /\ VtableIsDynamicType'
  BY OtherSteps
<1> QED  BY <1>1, InitVtable, Invariance, PTL DEF Spec

-----------------------------------------------------------------------------
(* How types are written: each by its name, or by how its target is.  As    *)
(* declarations end, there is exactly one way to write all of them.         *)
Via(ts, r) == ts[r] # None /\ Unnamed(ts[r])
Linking(ts) == \A r \in DOMAIN ts : Via(ts, r) => ts[r].to \in DOMAIN ts
Closed(ts, D) == D \subseteq DOMAIN ts /\ \A r \in D : Via(ts, r) => ts[r].to \in D
Solves(ts, D, f) == \A r \in D : f[r] = Written(ts, f, r)

LEMMA WrittenByTarget ==
    ASSUME NEW ts, NEW f, NEW g, NEW r, Via(ts, r) => f[ts[r].to] = g[ts[r].to]
    PROVE  Written(ts, f, r) = Written(ts, g, r)
BY DEF Written, Via

LEMMA OneWay ==
    ASSUME NEW ts, DeclarationsEnd(ts), NEW D, NEW E, NEW f, NEW g,
           Closed(ts, D), Closed(ts, E), Solves(ts, D, f), Solves(ts, E, g)
    PROVE  \A r \in D \cap E : f[r] = g[r]
<1> DEFINE S == {r \in D \cap E : f[r] # g[r]}
<1> SUFFICES ASSUME S # {} PROVE FALSE
  OBVIOUS
<1>1. S \in (SUBSET DOMAIN ts) \ {{}}  BY DEF Closed
<1>2. PICK r \in S : Via(ts, r) => ts[r].to \notin S  BY <1>1 DEF DeclarationsEnd, Via
<1>3. Via(ts, r) => f[ts[r].to] = g[ts[r].to]  BY <1>2 DEF Closed
<1>4. Written(ts, f, r) = Written(ts, g, r)  BY <1>3, WrittenByTarget
<1> QED  BY <1>2, <1>4 DEF Solves

LEMMA SomeWay ==
    ASSUME NEW ts, DeclarationsEnd(ts), Linking(ts)
    PROVE  \E f : f = [r \in DOMAIN ts |-> Written(ts, f, r)]
<1> DEFINE Way(D, f, r) == Closed(ts, D) /\ Solves(ts, D, f) /\ r \in D
           F == [r \in DOMAIN ts |-> CHOOSE v : \E D, f : Way(D, f, r) /\ v = f[r]]
           U == {r \in DOMAIN ts : \E D, f : Way(D, f, r)}
<1>1. ASSUME NEW D, NEW f, NEW r, Way(D, f, r)
      PROVE  r \in DOMAIN ts /\ F[r] = f[r]
  <2>1. r \in DOMAIN ts  BY <1>1 DEF Closed
  <2>2. \E v : \E E, g : Way(E, g, r) /\ v = g[r]  BY <1>1
  <2>3. PICK E, g : Way(E, g, r) /\ F[r] = g[r]  BY <2>1, <2>2
  <2>4. r \in D \cap E /\ Closed(ts, D) /\ Closed(ts, E) /\ Solves(ts, D, f) /\ Solves(ts, E, g)
    BY <1>1, <2>3
  <2>5. f[r] = g[r]  BY <2>4, OneWay
  <2> QED  BY <2>1, <2>3, <2>5
<1>2. U = DOMAIN ts
  <2> SUFFICES ASSUME DOMAIN ts \ U # {} PROVE FALSE
    OBVIOUS
  <2>1. PICK r \in DOMAIN ts \ U : Via(ts, r) => ts[r].to \notin DOMAIN ts \ U
    <3>1. DOMAIN ts \ U \in (SUBSET DOMAIN ts) \ {{}}  OBVIOUS
    <3> HIDE DEF U
    <3> QED  BY <3>1 DEF DeclarationsEnd, Via
  <2>2. PICK D, f : Closed(ts, D) /\ Solves(ts, D, f) /\ r \notin D /\ (Via(ts, r) => ts[r].to \in D)
    <3>1. CASE Via(ts, r)
      <4>1. ts[r].to \in U  BY <2>1, <3>1 DEF Linking
      <4>2. PICK D, f : Way(D, f, ts[r].to)  BY <4>1
      <4>3. r \notin D  BY <2>1, <4>2
      <4> QED  BY <4>2, <4>3
    <3>2. CASE ~Via(ts, r)
      <4>1. \A f : Closed(ts, {}) /\ Solves(ts, {}, f)  BY DEF Closed, Solves
      <4> QED  BY <3>2, <4>1
    <3> QED  BY <3>1, <3>2
  <2> DEFINE E == D \cup {r}
             g == [q \in E |-> IF q \in D THEN f[q] ELSE Written(ts, f, q)]
  <2>3. Closed(ts, E)  BY <2>1, <2>2 DEF Closed
  <2>4. ASSUME NEW q \in E PROVE g[q] = Written(ts, g, q)
    <3>1. Via(ts, q) => ts[q].to \in D  BY <2>2 DEF Closed
    <3>2. \A d \in D : g[d] = f[d]  OBVIOUS
    <3>3. Written(ts, f, q) = Written(ts, g, q)  BY <3>1, <3>2, WrittenByTarget
    <3>4. g[q] = Written(ts, f, q)  BY <2>2 DEF Solves
    <3> QED  BY <3>3, <3>4
  <2>5. Way(E, g, r)  BY <2>3, <2>4 DEF Solves
  <2> HIDE DEF E, g
  <2> QED  BY <2>1, <2>5
<1>3. ASSUME NEW r \in DOMAIN ts PROVE F[r] = Written(ts, F, r)
  <2>1. PICK D, f : Way(D, f, r)  BY <1>2
  <2>2. F[r] = f[r] /\ f[r] = Written(ts, f, r)  BY <1>1, <2>1 DEF Solves
  <2>3. Via(ts, r) => Way(D, f, ts[r].to)  BY <2>1 DEF Closed
  <2> HIDE DEF F, Way
  <2>4. Via(ts, r) => F[ts[r].to] = f[ts[r].to]  BY <1>1, <2>3
  <2>5. Written(ts, f, r) = Written(ts, F, r)  BY <2>4, WrittenByTarget
  <2> QED  BY <2>2, <2>5
<1>4. F = [r \in DOMAIN ts |-> F[r]]  OBVIOUS
<1> HIDE DEF F
<1>5. F = [r \in DOMAIN ts |-> Written(ts, F, r)]  BY <1>3, <1>4
<1> QED  BY <1>5

LEMMA FormattedIsWritten ==
    ASSUME NEW ts, DeclarationsEnd(ts), Linking(ts), NEW r \in DOMAIN ts
    PROVE  Formatted(ts)[r] = Written(ts, Formatted(ts), r)
<1>1. Formatted(ts) = CHOOSE f : f = [q \in DOMAIN ts |-> Written(ts, f, q)]  BY DEF Formatted
<1>2. Formatted(ts) = [q \in DOMAIN ts |-> Written(ts, Formatted(ts), q)]  BY <1>1, SomeWay
<1> QED  BY <1>2

FromInput == \E i \in Inputs : types = i.types
LEMMA TypesStay == Spec => []FromInput
<1>1. Init => FromInput  BY DEF Init, FromInput
<1>2. FromInput /\ [Next]_vars => FromInput'
  <2>1. [Next]_vars => types' = types
    BY Asks DEF Next, vars, AddSymbol, IndexType, ChooseCanonical, Indexed, indexvars
  <2> QED  BY <2>1 DEF FromInput
<1> QED  BY <1>1, <1>2, PTL DEF Spec

LEMMA WaysOfTypes ==
    ASSUME TypeOK, FromInput
    PROVE  /\ Linking(types) /\ NamedByTarget(types)
           /\ \A r \in Refs : fmt_type[r] = Written(types, fmt_type, r)
           /\ \A r \in Refs : types[r] # None /\ types[r].kind \in Linked => types[r].to \in Refs
<1>1. /\ DeclarationsEnd(types) /\ NamedByTarget(types)
      /\ \A r \in Refs : types[r] # None /\ types[r].kind \in Linked => types[r].to \in Refs
  BY InputsAssumption DEF FromInput, Refs
<1>2. Linking(types)  BY <1>1 DEF Linking, Via, Unnamed, Refs
<1> QED  BY <1>1, <1>2, FormattedIsWritten DEF fmt_type, Refs

(* Types written alike have one canonical type, populated or not.           *)
LEMMA AlikeLeadsToOne ==
    ASSUME Inv, FromInput, status = "ready", NEW q \in Refs, NEW r \in Refs, fmt_type[q] = fmt_type[r]
    PROVE  Remap(q) = Remap(r)
<1>1. /\ fmt_type[q] = Written(types, fmt_type, q) /\ fmt_type[r] = Written(types, fmt_type, r)
      /\ \A s \in Refs : types[s] # None => types[s] \in Type
  BY WaysOfTypes DEF Inv, TypeOK, Refs
<1>2. ASSUME NEW s \in Refs, types[s] # None PROVE Written(types, fmt_type, s)[1] # "?"
  <2>1. types[s] \in Type  BY <1>1, <1>2
  <2> QED  BY <1>2, <2>1 DEF Written, IsNamed, Plain, Prefix, Unnamed, Linked, Pointers
<1>3. ASSUME NEW s \in Refs, types[s] = None PROVE Written(types, fmt_type, s) = <<"?", s>>
  BY <1>3 DEF Written, IsNamed
<1>4. CASE types[q] = None \/ types[r] = None
  <2> DEFINE W(s) == Written(types, fmt_type, s)
  <2>0. W(q) = W(r) /\ \A s \in Refs : types[s] = None => W(s)[1] = "?"
    <3>1. \A s : <<"?", s>>[1] = "?"  OBVIOUS
    <3> QED  BY <1>1, <1>3, <3>1
  <2>1. types[q] = None /\ types[r] = None
    <3>1. \A s \in Refs : types[s] # None => W(s)[1] # "?"  BY <1>2
    <3> HIDE DEF W
    <3> QED  BY <1>4, <2>0, <3>1
  <2>2. <<"?", q>> = <<"?", r>>  BY <1>1, <1>3, <2>1
  <2> QED  BY <2>2
<1>5. CASE types[q] # None /\ types[r] # None
  BY <1>5, CanonicalIsFirst DEF Populated
<1> QED  BY <1>4, <1>5

(* What a canonical pointer, alias or array leads to is what each that it   *)
(* replaces leads to (dwarf.rs:159-168, 395-432).                           *)
THEOREM IndexTargetsAgree == Spec => []TargetsAgree
<1>1. Inv /\ FromInput => TargetsAgree
  <2> SUFFICES ASSUME Inv, FromInput, status = "ready", NEW r \in Populated, types[r].kind \in Linked
               PROVE  /\ types[Remap(r)].kind = types[r].kind
                      /\ Remap(types[Remap(r)].to) = Remap(types[r].to)
    BY DEF TargetsAgree
  <2> DEFINE c == Remap(r)
  <2>1. c \in Populated /\ fmt_type[c] = fmt_type[r]
    <3>1. type_name_map[fmt_type[r]] \in (SUBSET Refs) \ {{}} /\ Refs \subseteq Nat
      BY CanonicalIsFirst DEF Inv, TypeOK, Refs
    <3>2. c \in Alike(r)  BY <3>1, CanonicalIsFirst, FirstIsFirst
    <3> QED  BY <3>2 DEF Alike
  <2>2. /\ r \in Refs /\ types[r] # None /\ types[r] \in Type
        /\ c \in Refs /\ types[c] # None /\ types[c] \in Type
    BY <2>1 DEF Populated, Refs, Inv, TypeOK
  <2> HIDE DEF c
  <2>3. Written(types, fmt_type, c) = Written(types, fmt_type, r)  BY <2>1, <2>2, WaysOfTypes DEF Inv
  <2>4. types[c].kind = types[r].kind /\ fmt_type[types[c].to] = fmt_type[types[r].to]
    <3>1. CASE Unnamed(types[r])
      <4>1. Written(types, fmt_type, r) = <<types[r].kind, fmt_type[types[r].to]>>
        BY <2>2, <3>1 DEF Written, Prefix, Unnamed, Linked, Pointers, IsNamed
      <4>2. Unnamed(types[c])
        BY <2>2, <2>3, <3>1, <4>1 DEF Written, Plain, Unnamed, Linked, Pointers, IsNamed
      <4>3. Written(types, fmt_type, c) = <<types[c].kind, fmt_type[types[c].to]>>
        BY <2>2, <4>2 DEF Written, Prefix, Unnamed, Linked, Pointers, IsNamed
      <4> QED  BY <2>3, <4>1, <4>3
    <3>2. CASE ~Unnamed(types[r])
      <4>1. IsNamed(types[r]) /\ types[r].kind \in Pointers
        BY <2>2, <3>2 DEF IsNamed, Unnamed, Linked, Pointers
      <4>2. Written(types, fmt_type, r) = Plain(types[r].name)
        BY <2>2, <4>1 DEF Written, IsNamed, Pointers
      <4>3. IsNamed(types[c]) /\ types[c].name = types[r].name
        BY <2>2, <2>3, <4>2 DEF Written, Prefix, Plain, IsNamed, Unnamed, Linked, Pointers
      <4>4. NamedByTarget(types)  BY WaysOfTypes DEF Inv
      <4> QED  BY <2>2, <4>1, <4>3, <4>4 DEF NamedByTarget, Refs, fmt_type
    <3> QED  BY <3>1, <3>2
  <2>5. types[c].to \in Refs /\ types[r].to \in Refs  BY <2>2, <2>4, WaysOfTypes DEF Inv
  <2> QED  BY <2>4, <2>5, AlikeLeadsToOne DEF c
<1> QED  BY <1>1, Invariance, TypesStay, PTL

-----------------------------------------------------------------------------
(* The loop over the frames (StackWalk), for any program: the activation    *)
(* reached, and which of its variables have been visited.                   *)
Last == Len(Dump.chain)
Reached == IF frame > Last THEN Last ELSE frame
WantedAt(k, i) == Dump.args[i].fcn = Dump.chain[k].symbol
VisitedAt(k, i) == \E v \in located : v[1] = k /\ v[2] = i
VisitsSoFar ==
    /\ \A v \in located : v[1] <= Reached
    /\ \A i \in DOMAIN Dump.args :
          VisitedAt(Reached, i) <=> WantedAt(Reached, i) /\ (frame <= Last => i < arg)
StackInv == process \in DOMAIN Processes /\ StackTypeOK /\ FramesAreCallers /\ VisitsSoFar

-----------------------------------------------------------------------------
(* What WellCompiled says, in parts.                                        *)
LEMMA ProcessFacts ==
    ASSUME NEW name \in DOMAIN Processes, NEW p, p = Processes[name]
    PROVE  /\ p.memory \in [DOMAIN p.memory -> Int]
           /\ Len(p.chain) \in Nat \ {0} /\ DOMAIN p.chain = 1..Len(p.chain)
           /\ p.chain[1].regs = p.regs
           /\ Len(p.args) \in Nat /\ DOMAIN p.args = 1..Len(p.args)
           /\ \A i \in DOMAIN p.args : p.args[i].fcn # NoSymbol
           /\ \A k \in 1..Len(p.chain) :
                 p.chain[k].regs \in State /\ p.chain[k].symbol = SymbolAt(p.chain[k].regs[PC])
<1>1. WellCompiled(p)  BY ProcessesAssumption
<1>2. IsSequence(p.chain) /\ IsSequence(p.args) /\ p.chain # <<>>  BY <1>1 DEF WellCompiled
<1>3. Len(p.chain) \in Nat \ {0} /\ DOMAIN p.chain = 1..Len(p.chain)  BY <1>2 DEF IsSequence
<1>4. Len(p.args) \in Nat /\ DOMAIN p.args = 1..Len(p.args)  BY <1>2 DEF IsSequence
<1> QED  BY <1>1, <1>3, <1>4 DEF WellCompiled

(* The unwind tables have rows where they have a first one.                 *)
LEMMA RowIsTyped ==
    ASSUME NEW pc, HasRow(pc)
    PROVE  UnwindRow(Row(pc))
<1>1. Rows(pc) \subseteq Nat /\ Rows(pc) # {}
  BY TablesAssumption DEF Rows, HasRow, IsSequence
<1>2. \E k \in Rows(pc) : \A j \in Rows(pc) : k <= j  BY <1>1, Smallest
<1>3. PICK k \in Rows(pc) : Row(pc) = Unwind[k][pc]  BY <1>2 DEF Row
<1> QED  BY <1>3, TablesAssumption DEF Rows

(* get_caller keeps its types.                                              *)
LEMMA CallerIsTyped ==
    ASSUME NEW s \in State, NEW memory, memory \in [DOMAIN memory -> Int],
           HasRow(s[PC]), ~Unreadable(s, memory)
    PROVE  Caller(s, memory) \in State
<1> DEFINE row == Row(s[PC])
<1>1. UnwindRow(row)  BY RowIsTyped
<1>2. Cfa(s) \in Int  BY <1>1 DEF UnwindRow, Cfa, State
<1>3. ASSUME NEW r \in Registers, r \in DOMAIN row.rules
      PROVE  Restored(s, memory, row.rules[r], r) \in Int
  <2> DEFINE rule == row.rules[r]
  <2>1. rule \in Rule /\ (rule.kind = "Register" => rule.n \in Registers)  BY <1>1, <1>3 DEF UnwindRow
  <2>2. rule.kind = "Offset" => Cfa(s) + rule.n \in DOMAIN memory
    BY <1>3 DEF Unreadable, Readable
  <2> QED  BY <1>2, <2>1, <2>2 DEF Rule, State, Restored
<1> QED  BY <1>2, <1>3 DEF Caller, State

(* get_caller finds the registers of the caller, wherever the tables say    *)
(* they are.                                                                *)
LEMMA CallerIsRight ==
    ASSUME NEW s \in State, NEW c \in State, NEW memory,
           HasRow(s[PC]), ~Unreadable(s, memory), ReturnsTo(c, s, memory)
    PROVE  Caller(s, memory) = c
<1> DEFINE rules == Row(s[PC]).rules
<1>1. c[RSP] = Cfa(s)  BY DEF ReturnsTo
<1>2. ASSUME NEW r \in Registers \ {RSP}, r \in DOMAIN rules
      PROVE  Restored(s, memory, rules[r], r) = c[r]
  <2>1. Means(s, memory, rules[r], r, c[r])  BY <1>2 DEF ReturnsTo
  <2>2. rules[r].kind = "Offset" => Readable(memory, Cfa(s) + rules[r].n)  BY <1>2 DEF Unreadable
  <2> QED  BY <2>1, <2>2 DEF Means, Restored
<1>3. ASSUME NEW r \in Registers \ {RSP}, r \notin DOMAIN rules
      PROVE  c[r] = s[r]
  BY <1>3 DEF ReturnsTo
<1>4. \A r \in Registers : Caller(s, memory)[r] = c[r]  BY <1>1, <1>2, <1>3 DEF Caller
<1> QED  BY <1>4 DEF Caller, State

(* The search of the scopes finds the first range that holds the pc.        *)
LEMMA ScopeIsFirst ==
    ASSUME NEW s, NEW ranges, NEW k
    PROVE  k \in {i \in InScope(s, ranges) : \A j \in InScope(s, ranges) : i <= j} <=> FirstHolds(k, ranges, s[PC])
<1>1. \A j : j \in InScope(s, ranges) <=> j \in DOMAIN ranges /\ InRanges(ranges[j].pc_range, s[PC])
  BY DEF InScope
<1> QED  BY <1>1, Zenon DEF FirstHolds

(* get_variable finds a variable where the activation has it; it fails for  *)
(* one that has a place only if something is missing from the dump.         *)
LEMMA VariableIsRight ==
    ASSUME NEW f, NEW a, NEW p, NEW var, Describes(f, a, p, var),
           NEW loc \in get_variable(a.regs, p.memory, f, var), loc.kind = "Memory"
    PROVE  var \in DOMAIN a.locals /\ loc.at = a.locals[var]
<1> DEFINE ranges == f.variables[var].ranges
<1>1. var \in DOMAIN f.variables  BY DEF get_variable
<1>2. PICK k : /\ k \in {i \in InScope(a.regs, ranges) : \A j \in InScope(a.regs, ranges) : i <= j}
               /\ loc \in evaluate_position(a.regs, p.memory, ranges[k].position, f)
  BY <1>1 DEF get_variable
<1>3. FirstHolds(k, ranges, a.regs[PC])  BY <1>2, ScopeIsFirst
<1>4. k \in DOMAIN ranges  BY <1>3 DEF FirstHolds
<1> QED  BY <1>1, <1>2, <1>3, <1>4 DEF Describes

LEMMA VariableIsFound ==
    ASSUME NEW f, NEW a, NEW p, NEW var, Describes(f, a, p, var), p.complete, var \in DOMAIN a.locals
    PROVE  \E loc \in get_variable(a.regs, p.memory, f, var) : loc.kind = "Memory"
<1> DEFINE ranges == f.variables[var].ranges
<1>1. var \in DOMAIN f.variables  BY DEF Describes
<1>2. PICK k \in DOMAIN ranges : FirstHolds(k, ranges, a.regs[PC])
                   /\ \E loc \in evaluate_position(a.regs, p.memory, ranges[k].position, f) : loc.kind = "Memory"
  BY DEF Describes
<1>3. k \in {i \in InScope(a.regs, ranges) : \A j \in InScope(a.regs, ranges) : i <= j}
  <2> HIDE DEF ranges
  <2> QED  BY <1>2, ScopeIsFirst, Zenon
<1> QED  BY <1>1, <1>2, <1>3 DEF get_variable

-----------------------------------------------------------------------------
LEMMA StackInitInv == StackInit => StackInv
<1> SUFFICES ASSUME StackInit PROVE StackInv
  OBVIOUS
<1>1. /\ process \in DOMAIN Processes /\ state = Dump.regs
      /\ frame = 1 /\ arg = 1 /\ visited = {} /\ located = {} /\ loop = "running"
  BY DEF StackInit
<1>2. /\ Last \in Nat \ {0} /\ Dump.chain[1].regs = Dump.regs /\ Dump.chain[1].regs \in State
      /\ Len(Dump.args) \in Nat
  BY <1>1, ProcessFacts DEF Dump, Last
<1>3. StackTypeOK  BY <1>1, <1>2 DEF StackTypeOK
<1>4. FramesAreCallers  BY <1>1, <1>2 DEF FramesAreCallers, Last
<1>5. VisitsSoFar  BY <1>1, <1>2, ProcessFacts DEF VisitsSoFar, VisitedAt, Dump
<1> QED  BY <1>1, <1>3, <1>4, <1>5 DEF StackInv

(* What holds while the loop runs.                                          *)
LEMMA RunningFacts ==
    ASSUME StackInv
    PROVE  /\ Last \in Nat \ {0} /\ DOMAIN Dump.chain = 1..Last
           /\ Len(Dump.args) \in Nat /\ DOMAIN Dump.args = 1..Len(Dump.args)
           /\ \A i \in DOMAIN Dump.args : Dump.args[i].fcn # NoSymbol
           /\ Reached \in 1..Last /\ frame \in 1..Last + 1
           /\ frame <= Last => Reached = frame /\ state = Dump.chain[frame].regs /\ Here = Dump.chain[frame].symbol
           /\ frame > Last => Here = NoSymbol /\ ~HasRow(state[PC])
<1>1. /\ Last \in Nat \ {0} /\ DOMAIN Dump.chain = 1..Last
      /\ Len(Dump.args) \in Nat /\ DOMAIN Dump.args = 1..Len(Dump.args)
      /\ \A i \in DOMAIN Dump.args : Dump.args[i].fcn # NoSymbol
      /\ \A k \in 1..Last : Dump.chain[k].regs \in State /\ Dump.chain[k].symbol = SymbolAt(Dump.chain[k].regs[PC])
  BY ProcessFacts DEF StackInv, Dump, Last
<1>2. frame \in Nat \ {0} /\ FramesAreCallers  BY DEF StackInv, StackTypeOK
<1>3. frame <= Last => Reached = frame /\ state = Dump.chain[frame].regs /\ Here = Dump.chain[frame].symbol
  BY <1>1, <1>2 DEF FramesAreCallers, Last, Reached, Here
<1>4. frame > Last => frame = Last + 1 /\ Reached = Last /\ Here = NoSymbol /\ ~HasRow(state[PC])
  BY <1>1, <1>2 DEF FramesAreCallers, Last, Reached
<1> QED  BY <1>1, <1>2, <1>3, <1>4

(* A variable is visited in a frame of its function, where the activation   *)
(* of that frame has it.                                                    *)
LEMMA VisitFacts ==
    ASSUME StackInv, ArgsLeft, Wanted
    PROVE  /\ frame \in 1..Last /\ arg \in DOMAIN Dump.args /\ WantedAt(frame, arg) /\ ~VisitedAt(frame, arg)
           /\ state = Dump.chain[frame].regs /\ Dump.chain[frame].locals \in [DOMAIN Dump.chain[frame].locals -> Int]
           /\ \A f \in FunctionsAt(state[PC]) : Describes(f, Dump.chain[frame], Dump, Dump.args[arg].var)
           /\ Dump.complete /\ Dump.args[arg].var \in DOMAIN Dump.chain[frame].locals => FunctionsAt(state[PC]) # {}
<1>1. Here # NoSymbol /\ arg <= Len(Dump.args) /\ Dump.args[arg].fcn = Here  BY DEF ArgsLeft, Wanted
<1>2. arg \in DOMAIN Dump.args  BY <1>1, RunningFacts DEF StackInv, StackTypeOK
<1>3. frame \in 1..Last /\ Reached = frame /\ WantedAt(frame, arg)  BY <1>1, RunningFacts DEF WantedAt
<1>4. ~VisitedAt(frame, arg)
  <2>1. VisitedAt(frame, arg) => arg < arg  BY <1>2, <1>3, RunningFacts DEF StackInv, VisitsSoFar
  <2> QED  BY <2>1, <1>2, RunningFacts
<1>5. state = Dump.chain[frame].regs  BY <1>3, RunningFacts
<1>6. WellCompiled(Dump)  BY ProcessesAssumption DEF StackInv, Dump
<1>7. arg \in {i \in DOMAIN Dump.args : Dump.args[i].fcn = Dump.chain[frame].symbol}  BY <1>2, <1>3 DEF WantedAt
<1>8. /\ Dump.chain[frame].locals \in [DOMAIN Dump.chain[frame].locals -> Int]
      /\ \A f \in FunctionsAt(Dump.chain[frame].regs[PC]) : Describes(f, Dump.chain[frame], Dump, Dump.args[arg].var)
      /\ Dump.complete /\ Dump.args[arg].var \in DOMAIN Dump.chain[frame].locals => FunctionsAt(Dump.chain[frame].regs[PC]) # {}
  BY <1>3, <1>6, <1>7 DEF WellCompiled, Last
<1> QED  BY <1>2, <1>3, <1>4, <1>5, <1>8

LEMMA VisitStep ==
    ASSUME StackInv, VisitVariable
    PROVE  /\ StackInv'
           /\ arg \in DOMAIN Dump.args /\ frame \in 1..Last /\ loop = "running"
           /\ WantedAt(frame, arg) /\ ~VisitedAt(frame, arg) /\ UNCHANGED <<process, frame, loop>>
           /\ Dump.args[arg].var \in DOMAIN Dump.chain[frame].locals
           /\ located' = located \cup {<<frame, arg, Dump.chain[frame].locals[Dump.args[arg].var]>>}
<1>1. /\ ArgsLeft /\ Wanted /\ visited' = visited \cup {arg} /\ arg' = arg + 1
      /\ UNCHANGED <<process, state, frame, loop>>
  BY DEF VisitVariable
<1>0. PICK f \in FunctionsAt(state[PC]) : \E loc \in get_variable(state, Dump.memory, f, Dump.args[arg].var) :
         loc.kind = "Memory" /\ located' = located \cup {<<frame, arg, loc.at>>}
  BY DEF VisitVariable
<1>2. PICK loc \in get_variable(state, Dump.memory, f, Dump.args[arg].var) :
         loc.kind = "Memory" /\ located' = located \cup {<<frame, arg, loc.at>>}
  BY <1>0

<1> DEFINE at == Dump.chain[frame].locals[Dump.args[arg].var]
           visit == <<frame, arg, at>>
<1>3. /\ frame \in 1..Last /\ arg \in DOMAIN Dump.args /\ WantedAt(frame, arg) /\ ~VisitedAt(frame, arg)
      /\ Dump.chain[frame].locals \in [DOMAIN Dump.chain[frame].locals -> Int]
      /\ loop = "running"
  BY <1>1, VisitFacts DEF ArgsLeft
<1>4. Dump.args[arg].var \in DOMAIN Dump.chain[frame].locals /\ loc.at = at
  <2>1. /\ Describes(f, Dump.chain[frame], Dump, Dump.args[arg].var)
        /\ loc \in get_variable(Dump.chain[frame].regs, Dump.memory, f, Dump.args[arg].var) /\ loc.kind = "Memory"
    BY <1>1, <1>2, VisitFacts
  <2> QED  BY <2>1, VariableIsRight
<1>5. at \in Int  BY <1>3, <1>4
<1>6. located' = located \cup {<<frame, arg, at>>}  BY <1>2, <1>4
<1> HIDE DEF at
<1>7. Dump' = Dump /\ Last' = Last /\ Here' = Here /\ Reached' = Reached /\ Reached = frame
  BY <1>1, <1>3, RunningFacts DEF Dump, Last, Here, Reached
<1>8. StackTypeOK'
  <2>1. {a[2] : a \in located'} = {a[2] : a \in located} \cup {arg}
    <3>1. located' = located \cup {visit} /\ visit[2] = arg  BY <1>6
    <3> HIDE DEF visit
    <3> QED  BY <3>1
  <2>2. arg + 1 \in 1..Len(Dump.args) + 1  BY <1>3, RunningFacts
  <2>3. located' \subseteq Nat \X (DOMAIN Dump.args) \X Int  BY <1>3, <1>5, <1>6 DEF StackInv, StackTypeOK
  <2> QED  BY <1>1, <1>3, <1>7, <2>1, <2>2, <2>3 DEF StackInv, StackTypeOK
<1>9. FramesAreCallers'  BY <1>1, <1>7 DEF StackInv, FramesAreCallers, Last
<1>10. VisitsSoFar'
  <2>1. \A v \in located' : v[1] <= frame  BY <1>3, <1>6, <1>7 DEF StackInv, VisitsSoFar
  <2>2. ASSUME NEW i \in DOMAIN Dump.args
        PROVE  VisitedAt(frame, i)' <=> WantedAt(frame, i) /\ i < arg + 1
    <3>1. VisitedAt(frame, i)' <=> VisitedAt(frame, i) \/ i = arg
      <4>1. located' = located \cup {visit} /\ visit[1] = frame /\ visit[2] = arg  BY <1>6
      <4> HIDE DEF visit
      <4> QED  BY <1>1, <4>1 DEF VisitedAt
    <3>2. VisitedAt(frame, i) <=> WantedAt(frame, i) /\ i < arg  BY <1>3, <1>7 DEF StackInv, VisitsSoFar
    <3>3. i < arg + 1 <=> i < arg \/ i = arg  BY <1>3, RunningFacts
    <3> QED  BY <1>3, <3>1, <3>2, <3>3
  <2>3. \A i \in DOMAIN Dump.args : WantedAt(frame, i)' <=> WantedAt(frame, i)  BY <1>1, <1>7 DEF WantedAt
  <2>4. frame' = frame /\ frame <= Last  BY <1>1, <1>3, RunningFacts
  <2>5. \A i \in DOMAIN Dump'.args :
           VisitedAt(Reached, i)' <=> WantedAt(Reached, i)' /\ (frame' <= Last' => i < arg')
    <3>1. \A i : VisitedAt(Reached, i)' <=> VisitedAt(frame, i)'  BY <1>7, <2>4 DEF VisitedAt
    <3>2. \A i : WantedAt(Reached, i)' <=> WantedAt(frame, i)'  BY <1>7, <2>4 DEF WantedAt
    <3> QED  BY <1>1, <1>7, <2>2, <2>3, <2>4, <3>1, <3>2
  <2> QED  BY <1>7, <2>1, <2>5 DEF VisitsSoFar
<1> QED  BY <1>1, <1>3, <1>4, <1>6, <1>7, <1>8, <1>9, <1>10 DEF StackInv, at

(* The program gives up on a variable only if it has no place, or if        *)
(* something is missing from the dump.                                      *)
LEMMA NoPlaceFacts ==
    ASSUME StackInv, NoPlace
    PROVE  /\ frame \in 1..Last /\ arg \in DOMAIN Dump.args /\ WantedAt(frame, arg)
           /\ loop = "running" /\ UNCHANGED <<process, state, frame, arg, visited, located>> /\ loop' = "panicked"
           /\ ~Dump.complete \/ Dump.args[arg].var \notin DOMAIN Dump.chain[frame].locals
<1>1. ArgsLeft /\ Wanted /\ loop = "running" /\ loop' = "panicked"
      /\ UNCHANGED <<process, state, frame, arg, visited, located>>
  BY DEF NoPlace, Panic, ArgsLeft
<1>2. SUFFICES ASSUME Dump.complete, Dump.args[arg].var \in DOMAIN Dump.chain[frame].locals PROVE FALSE
  BY <1>1, VisitFacts
<1>3. FunctionsAt(state[PC]) # {}  BY <1>1, <1>2, VisitFacts
<1>4. PICK f \in FunctionsAt(state[PC]) :
         \A loc \in get_variable(state, Dump.memory, f, Dump.args[arg].var) : loc.kind # "Memory"
  BY <1>3 DEF NoPlace
<1>5. /\ Describes(f, Dump.chain[frame], Dump, Dump.args[arg].var) /\ state = Dump.chain[frame].regs
  BY <1>1, VisitFacts
<1> QED  BY <1>2, <1>4, <1>5, VariableIsFound

(* A step that leaves the frame and the visits alone.                       *)
LEMMA SameFrame ==
    ASSUME StackInv, UNCHANGED <<process, state, frame, arg, visited, located>>,
           loop' \in {"running", "done", "panicked"}
    PROVE  StackInv'
<1>1. Dump' = Dump /\ Last' = Last /\ Here' = Here /\ Reached' = Reached  BY DEF Dump, Last, Here, Reached
<1>2. StackTypeOK'  BY <1>1 DEF StackInv, StackTypeOK
<1>3. FramesAreCallers'  BY <1>1 DEF StackInv, FramesAreCallers, Last
<1>4. VisitsSoFar'  BY <1>1 DEF StackInv, VisitsSoFar, VisitedAt, WantedAt
<1> QED  BY <1>2, <1>3, <1>4 DEF StackInv

LEMMA SkipStep == ASSUME StackInv, SkipVariable PROVE StackInv'
<1>1. /\ ArgsLeft /\ ~Wanted /\ arg' = arg + 1 /\ loop = "running"
      /\ UNCHANGED <<process, state, frame, visited, located, loop>>
  BY DEF SkipVariable, ArgsLeft
<1>2. Dump' = Dump /\ Last' = Last /\ Here' = Here /\ Reached' = Reached  BY <1>1 DEF Dump, Last, Here, Reached
<1>3. /\ arg \in 1..Len(Dump.args) /\ Len(Dump.args) \in Nat /\ frame \in 1..Last /\ Reached = frame
      /\ Here = Dump.chain[frame].symbol /\ DOMAIN Dump.args = 1..Len(Dump.args)
  BY <1>1, RunningFacts DEF ArgsLeft, StackInv, StackTypeOK
<1>4. StackTypeOK'  BY <1>1, <1>2, <1>3 DEF StackInv, StackTypeOK
<1>5. FramesAreCallers'  BY <1>1, <1>2 DEF StackInv, FramesAreCallers, Last
<1>6. VisitsSoFar'
  <2>1. ~WantedAt(Reached, arg)  BY <1>1, <1>3 DEF Wanted, WantedAt
  <2>2. \A i \in DOMAIN Dump.args : i < arg + 1 <=> i < arg \/ i = arg  BY <1>3
  <2>3. \A i \in DOMAIN Dump.args : (frame <= Last => i < arg + 1) <=> (frame <= Last => i < arg) \/ i = arg
    BY <1>3, <2>2
  <2> QED  BY <1>1, <1>2, <1>3, <2>1, <2>3 DEF StackInv, VisitsSoFar, VisitedAt, WantedAt
<1> QED  BY <1>1, <1>4, <1>5, <1>6 DEF StackInv

(* When the arguments are done, those of the function were visited.         *)
LEMMA AllVisitedHere ==
    ASSUME StackInv, ArgsDone
    PROVE  \A i \in DOMAIN Dump.args : VisitedAt(Reached, i) <=> WantedAt(Reached, i)
<1> SUFFICES ASSUME NEW i \in DOMAIN Dump.args, WantedAt(Reached, i), frame <= Last PROVE i < arg
  BY DEF StackInv, VisitsSoFar
<1>1. Here = Dump.args[i].fcn /\ Here # NoSymbol  BY RunningFacts DEF WantedAt
<1>2. arg > Len(Dump.args)  BY <1>1 DEF ArgsDone
<1>3. arg \in Nat  BY RunningFacts DEF StackInv, StackTypeOK
<1> QED  BY <1>2, <1>3, RunningFacts

LEMMA NextFrameStep ==
    ASSUME StackInv, NextFrame, ~Unreadable(state, Dump.memory)
    PROVE  /\ StackInv'
           /\ frame \in 1..Last /\ frame' = frame + 1 /\ UNCHANGED <<process, located, loop>>
<1>1. /\ ArgsDone /\ HasRow(state[PC]) /\ state' = Caller(state, Dump.memory) /\ arg' = 1
      /\ UNCHANGED <<process, visited, located, loop>>
      /\ frame' = IF frame > Last THEN frame ELSE frame + 1
  BY DEF NextFrame, Last
<1>2. /\ frame \in 1..Last /\ state = Dump.chain[frame].regs /\ frame' = frame + 1 /\ Last \in Nat \ {0}
      /\ Reached = frame
  BY <1>1, RunningFacts
<1>3. Dump' = Dump /\ Last' = Last  BY <1>1 DEF Dump, Last
<1>4. WellCompiled(Dump) /\ Dump.memory \in [DOMAIN Dump.memory -> Int]
  BY ProcessesAssumption DEF StackInv, Dump, WellCompiled
<1>5. state \in State  BY DEF StackInv, StackTypeOK
<1>6. state' \in State  BY <1>1, <1>4, <1>5, CallerIsTyped
<1>7. StackTypeOK'
  <2>1. Len(Dump.args) \in Nat  BY RunningFacts
  <2> QED  BY <1>1, <1>2, <1>3, <1>6, <2>1 DEF StackInv, StackTypeOK
<1>8. FramesAreCallers'
  <2>1. CASE frame < Last
    <3>1. frame \in 1..Last - 1 /\ frame + 1 \in 1..Last  BY <1>2, <2>1
    <3>2. ReturnsTo(Dump.chain[frame + 1].regs, state, Dump.memory)
      BY <1>1, <1>2, <1>4, <3>1 DEF WellCompiled, Last
    <3>3. Dump.chain[frame + 1].regs \in State
      BY <3>1, ProcessFacts DEF StackInv, Dump, Last
    <3>4. state' = Dump.chain[frame + 1].regs  BY <1>1, <1>5, <3>2, <3>3, CallerIsRight
    <3> QED  BY <1>2, <1>3, <3>1, <3>4 DEF FramesAreCallers, Last
  <2>2. CASE frame = Last
    <3>1. Outermost(state)  BY <1>1, <1>2, <1>4, <2>2 DEF WellCompiled, Last
    <3>2. state'[PC] = 0
      BY <1>1, <3>1, RegistersAssumption DEF Caller, Outermost, Restored, PC, RSP
    <3> QED  BY <1>2, <1>3, <2>2, <3>2, TablesAssumption DEF FramesAreCallers, Last, Here
  <2> QED  BY <1>2, <2>1, <2>2
<1>9. VisitsSoFar'
  <2>1. \A v \in located : v[1] <= frame  BY <1>2 DEF StackInv, VisitsSoFar
  <2>2. \A v \in located : v[1] \in Nat  BY DEF StackInv, StackTypeOK
  <2>3. CASE frame < Last
    <3>1. Reached' = frame + 1 /\ frame' <= Last  BY <1>2, <1>3, <2>3 DEF Reached
    <3>2. \A v \in located : v[1] <= frame + 1 /\ v[1] # frame + 1  BY <1>2, <2>1, <2>2
    <3>3. \A i \in DOMAIN Dump.args : ~ VisitedAt(Reached, i)'  BY <1>1, <3>1, <3>2 DEF VisitedAt
    <3>4. \A i \in DOMAIN Dump.args : ~ (i < 1)  BY RunningFacts
    <3> QED  BY <1>1, <1>2, <1>3, <3>1, <3>2, <3>3, <3>4 DEF VisitsSoFar
  <2>4. CASE frame = Last
    <3>1. Reached' = frame /\ ~ (frame' <= Last)  BY <1>2, <1>3, <2>4 DEF Reached
    <3>2. \A i \in DOMAIN Dump.args : VisitedAt(frame, i) <=> WantedAt(frame, i)
      BY <1>1, <1>2, AllVisitedHere
    <3> QED  BY <1>1, <1>3, <2>1, <3>1, <3>2 DEF VisitsSoFar, VisitedAt, WantedAt
  <2> QED  BY <1>2, <2>3, <2>4
<1> QED  BY <1>1, <1>2, <1>7, <1>8, <1>9 DEF StackInv

LEMMA StackStep == StackInv /\ [StackNext]_stackvars => StackInv'
<1> SUFFICES ASSUME StackInv, [StackNext]_stackvars PROVE StackInv'
  OBVIOUS
<1>1. CASE VisitVariable  BY <1>1, VisitStep
<1>2. CASE NoPlace  BY <1>2, NoPlaceFacts, SameFrame
<1>3. CASE SkipVariable  BY <1>3, SkipStep
<1>4. CASE NextFrame /\ Unreadable(state, Dump.memory)  BY <1>4, SameFrame DEF NextFrame, Panic
<1>5. CASE NextFrame /\ ~Unreadable(state, Dump.memory)  BY <1>5, NextFrameStep
<1>6. CASE Break  BY <1>6, SameFrame DEF Break
<1>7. CASE UNCHANGED stackvars
  BY <1>7, SameFrame DEF stackvars, StackInv, StackTypeOK
<1> QED  BY <1>1, <1>2, <1>3, <1>4, <1>5, <1>6, <1>7 DEF StackNext

LEMMA StackInvariance == StackSpec => []StackInv
BY StackInitInv, StackStep, PTL DEF StackSpec

(* The loop over the frames keeps its types, for any program and any stack. *)
THEOREM StackWalkTypeOK == StackSpec => []StackTypeOK
<1>1. StackInv => StackTypeOK  BY DEF StackInv
<1> QED  BY <1>1, StackInvariance, PTL

(* The registers of every frame are those its activation had (get_caller,   *)
(* dwarf.rs:247-281), for any unwind tables that say where they are.        *)
THEOREM StackFramesAreCallers == StackSpec => []FramesAreCallers
<1>1. StackInv => FramesAreCallers  BY DEF StackInv
<1> QED  BY <1>1, StackInvariance, PTL

-----------------------------------------------------------------------------
(* The loop implements Backtrace.                                           *)
LEMMA StackInitMaps == StackInit => Abstract!Init
<1> SUFFICES ASSUME StackInit PROVE Abstract!Init
  OBVIOUS
<1>1. Last \in Nat \ {0}  BY ProcessFacts DEF StackInit, Dump, Last
<1> QED  BY <1>1 DEF StackInit, Abstract!Init, Last

(* What Backtrace sees of a frame.                                          *)
LEMMA AbstractFacts ==
    ASSUME StackInv
    PROVE  /\ Abstract!Args = Dump.args /\ Abstract!Chain = Dump.chain
           /\ \A i : i \in Abstract!Asked <=> i \in DOMAIN Dump.args /\ WantedAt(Reached, i)
           /\ \A i : i \in Abstract!LocatedHere <=> i \in DOMAIN Dump.args /\ VisitedAt(Reached, i)
           /\ Abstract!AllLocated <=> visited = DOMAIN Dump.args
           /\ \A i : Abstract!HasPlace(i) <=> Dump.args[i].var \in DOMAIN Dump.chain[Reached].locals
<1>1. Abstract!Args = Dump.args /\ Abstract!Chain = Dump.chain  BY DEF Abstract!Args, Abstract!Chain, Dump
<1>2. visited = {a[2] : a \in located} /\ visited \subseteq DOMAIN Dump.args  BY DEF StackInv, StackTypeOK
<1>3. Abstract!AllLocated <=> visited = DOMAIN Dump.args
  <2>1. Abstract!AllLocated <=> \A i \in DOMAIN Dump.args : i \in visited  BY <1>1, <1>2 DEF Abstract!AllLocated
  <2> QED  BY <1>2, <2>1
<1> QED
  BY <1>1, <1>3 DEF Abstract!Asked, Abstract!LocatedHere, Abstract!HasPlace, WantedAt, VisitedAt, Reached, Last

LEMMA GivesUp ==
    ASSUME StackInv, loop = "running", loop' # "running", UNCHANGED <<process, frame, located>>,
           \/ ~Dump.complete
           \/ \E i \in DOMAIN Dump.args : WantedAt(Reached, i) /\ Dump.args[i].var \notin DOMAIN Dump.chain[Reached].locals
    PROVE  Abstract!GiveUp
<1>1. (\E i \in Abstract!Asked : ~Abstract!HasPlace(i)) \/ ~Processes[process].complete
  BY AbstractFacts DEF Dump
<1> QED  BY <1>1 DEF Abstract!GiveUp, Dump

LEMMA VisitMaps == ASSUME StackInv, VisitVariable PROVE Abstract!Locate
<1> DEFINE at == Dump.chain[frame].locals[Dump.args[arg].var]
<1>1. /\ arg \in DOMAIN Dump.args /\ frame \in 1..Last /\ loop = "running"
      /\ WantedAt(frame, arg) /\ ~VisitedAt(frame, arg) /\ UNCHANGED <<process, frame, loop>>
      /\ Dump.args[arg].var \in DOMAIN Dump.chain[frame].locals
      /\ located' = located \cup {<<frame, arg, at>>}
  BY VisitStep
<1>2. Reached = frame /\ Reached = (IF frame > Len(Dump.chain) THEN Len(Dump.chain) ELSE frame)
  BY <1>1, RunningFacts DEF Reached, Last
<1>3. arg \in Abstract!Asked \ Abstract!LocatedHere /\ Abstract!HasPlace(arg)  BY <1>1, <1>2, AbstractFacts
<1>4. Abstract!Chain[frame].locals[Abstract!Args[arg].var] = at  BY AbstractFacts
<1>5. Dump' = Dump  BY <1>1 DEF Dump
<1> HIDE DEF at
<1> QED  BY <1>1, <1>2, <1>3, <1>4, <1>5 DEF Abstract!Locate

LEMMA NextFrameMaps ==
    ASSUME StackInv, NextFrame
    PROVE  Abstract!Next \/ UNCHANGED Abstract!vars
<1>1. ArgsDone /\ ~Enough /\ HasRow(state[PC]) /\ loop = "running"  BY DEF NextFrame, ArgsDone
<1>2. CASE Unreadable(state, Dump.memory)
  <2>1. frame \in 1..Last /\ state = Dump.chain[frame].regs  BY <1>1, RunningFacts
  <2>2. ~Dump.complete
    <3>1. WellCompiled(Dump)  BY ProcessesAssumption DEF StackInv, Dump
    <3> QED  BY <1>1, <1>2, <2>1, <3>1 DEF WellCompiled, Last
  <2> QED  BY <1>1, <1>2, <2>2, GivesUp DEF NextFrame, Panic, Abstract!Next
<1>3. CASE ~Unreadable(state, Dump.memory)
  <2>1. frame \in 1..Last /\ frame' = frame + 1 /\ UNCHANGED <<process, located, loop>>
    BY <1>3, NextFrameStep
  <2>2. Dump' = Dump /\ Len(Dump.chain) = Last /\ Last \in Nat \ {0} /\ Reached = frame
        /\ Reached = (IF frame > Len(Dump.chain) THEN Len(Dump.chain) ELSE frame)
    BY <2>1, RunningFacts DEF Dump, Last, Reached
  <2>3. CASE frame = Last
    BY <2>1, <2>2, <2>3 DEF Abstract!vars
  <2>4. CASE frame < Last
    <3>1. Abstract!LocatedHere = Abstract!Asked
      <4>1. \A i : i \in Abstract!LocatedHere <=> i \in Abstract!Asked  BY <1>1, AllVisitedHere, AbstractFacts
      <4> QED  BY <4>1 DEF Abstract!LocatedHere, Abstract!Asked
    <3>2. ~Abstract!AllLocated \/ Abstract!Chain[frame].symbol = NoSymbol
      BY <1>1, <2>1, RunningFacts, AbstractFacts DEF Enough
    <3>3. Len(Abstract!Chain) = Last  BY <2>2, AbstractFacts
    <3> QED  BY <1>1, <2>1, <2>2, <2>4, <3>1, <3>2, <3>3 DEF Abstract!ToCaller, Abstract!Next
  <2> QED  BY <2>1, <2>2, <2>3, <2>4
<1> QED  BY <1>2, <1>3

LEMMA BreakMaps == ASSUME StackInv, Break PROVE Abstract!Stop \/ Abstract!GiveUp
<1>1. /\ ArgsDone /\ loop = "running" /\ loop' = "done" /\ UNCHANGED <<process, state, frame, arg, visited, located>>
      /\ Enough \/ ~HasRow(state[PC])
  BY DEF Break, ArgsDone
<1>2. Abstract!LocatedHere = Abstract!Asked
  <2>1. \A i : i \in Abstract!LocatedHere <=> i \in Abstract!Asked  BY <1>1, AllVisitedHere, AbstractFacts
  <2> QED  BY <2>1 DEF Abstract!LocatedHere, Abstract!Asked
<1>3. Dump' = Dump /\ Len(Dump.chain) = Last /\ Last \in Nat \ {0} /\ Len(Abstract!Chain) = Last
      /\ Reached = (IF frame > Len(Dump.chain) THEN Len(Dump.chain) ELSE frame)
  BY <1>1, RunningFacts, AbstractFacts DEF Dump, Last, Reached
<1>4. CASE Abstract!AllLocated \/ Reached = Last
  BY <1>1, <1>2, <1>3, <1>4 DEF Abstract!Stop
<1>5. CASE ~(Abstract!AllLocated \/ Reached = Last)
  <2>1. ~HasRow(state[PC])  BY <1>1, <1>5, AbstractFacts DEF Enough
  <2>2. frame \in 1..Last - 1 /\ state = Dump.chain[frame].regs
    <3>1. frame <= Last  BY <1>3, <1>5, RunningFacts DEF Reached
    <3> QED  BY <1>3, <1>5, <3>1, RunningFacts
  <2>3. WellCompiled(Dump)  BY ProcessesAssumption DEF StackInv, Dump
  <2>4. ~Dump.complete  BY <2>1, <2>2, <2>3 DEF WellCompiled, Last
  <2> QED  BY <1>1, <2>4, GivesUp
<1> QED  BY <1>4, <1>5

LEMMA StackMaps == StackInv /\ [StackNext]_stackvars => [Abstract!Next]_(Abstract!vars)
<1> SUFFICES ASSUME StackInv, [StackNext]_stackvars PROVE Abstract!Next \/ UNCHANGED Abstract!vars
  OBVIOUS
<1>1. CASE VisitVariable  BY <1>1, VisitMaps DEF Abstract!Next
<1>2. CASE NoPlace
  <2>1. Reached = frame  BY <1>2, NoPlaceFacts, RunningFacts
  <2>2. Abstract!GiveUp  BY <1>2, <2>1, NoPlaceFacts, GivesUp
  <2> QED  BY <2>2 DEF Abstract!Next
<1>3. CASE SkipVariable
  BY <1>3 DEF SkipVariable, Abstract!vars, Dump
<1>4. CASE NextFrame  BY <1>4, NextFrameMaps
<1>5. CASE Break  BY <1>5, BreakMaps DEF Abstract!Next
<1>6. CASE UNCHANGED stackvars
  BY <1>6 DEF stackvars, Abstract!vars, Dump
<1> QED  BY <1>1, <1>2, <1>3, <1>4, <1>5, <1>6 DEF StackNext

(* Each requested variable is visited in every frame of its function, where *)
(* the activation of that frame has it, and the loop stops before the end   *)
(* of the stack only when all were visited or something is missing from the *)
(* dump (main.rs:110-146): every step of the loop is one of Backtrace, or   *)
(* none.                                                                    *)
THEOREM StackImplementsBacktrace == StackSpec => ImplementsBacktrace
<1>1. StackInit => Abstract!Init  BY StackInitMaps
<1> QED
  BY <1>1, StackMaps, StackInvariance, PTL DEF StackSpec, ImplementsBacktrace, Abstract!Spec
=============================================================================
