------------------------------ MODULE DieParser ------------------------------
(***************************************************************************)
(* The parser of DWARF (src/src/debug_info/dwarf/dwarf_parse.rs).  It sees *)
(* the entries of a unit in the order of the file, each with its depth,    *)
(* and keeps the scopes it is in on a stack; what a scope describes is     *)
(* recorded when the scope is popped.                                      *)
(*                                                                         *)
(* An entry is named by its position in its unit, which stands for its     *)
(* offset.  A full name is the sequence of the names joined by "::"; a     *)
(* field, a variant and a location are the positions of their entries.     *)
(***************************************************************************)
EXTENDS Integers, Sequences, SequencesExt

CONSTANTS
    Dwarfs,         \* the debug information of the files that may be loaded
    Names, NoName,  \* values of DW_AT_name, and its absence
    None            \* no value

VARIABLES
    dwarf, unit, pos,  \* the units of all files, the one read, the next entry
    stack,          \* the open scopes
    type_lookup,    \* type_lookup[r] is the unit and the entry TypeRef r is for
    types,          \* types[r] is what is known of it
    functions,      \* full name -> FunctionRecord
    status          \* "running", "done" or "panicked"

vars == <<dwarf, unit, pos, stack, type_lookup, types, functions, status>>

-----------------------------------------------------------------------------
(* Debug information: units, each a tree of entries in depth-first order.   *)
(* ty and discr refer to entries (0: no such attribute), loc is the form of *)
(* DW_AT_data_member_location and frame_base of the attribute of its name,  *)
(* sized says there is a DW_AT_byte_size, and pc holds low_pc, high_pc (an  *)
(* address or a length) and ranges.                                         *)
Composites == {"structure_type", "class_type", "union_type"}
Indirections == {"typedef", "const_type", "pointer_type", "reference_type", "rvalue_reference_type"}
Types == Composites \cup Indirections \cup {"base_type", "enumeration_type", "array_type"}
Tags == Types \cup {"compile_unit", "namespace", "subprogram", "lexical_block", "variable",
                    "inheritance", "member", "variant_part", "variant",
                    "template_type_parameter", "imported_declaration", "other"}

Entry == [depth : Nat, tag : Tags, name : Names \cup {NoName}, ty : Nat, discr : Nat,
          loc : {"none", "constant", "expression"}, sized : BOOLEAN,
          frame_base : {"none", "expression", "other"},
          pc : [lo : Nat \cup {None}, hi : Nat \cup {None}, is_length : BOOLEAN,
                list : Seq([kind : {"base", "offsets", "addresses", "length"}, a : Nat, b : Nat])]]

IsUnit(u) ==
    /\ u.load_base \in Nat
    /\ u.entries \in Seq(Entry)
    /\ Len(u.entries) > 0
    /\ u.entries[1].depth = 0 /\ u.entries[1].tag = "compile_unit"
    /\ \A i \in 2..Len(u.entries) :
          /\ u.entries[i].depth \in 1..(u.entries[i - 1].depth + 1)
          /\ u.entries[i].tag # "compile_unit"

ASSUME DwarfsAssumption ==
    \A d \in Dwarfs : Len(d) > 0 /\ d \in Seq({d[u] : u \in DOMAIN d}) /\ \A u \in DOMAIN d : IsUnit(d[u])

ASSUME NoneAssumption ==
    None \notin [discr : Nat, variants : Seq([of : Nat, fields : Seq(Nat)]), top_fields : Seq(Nat)]

-----------------------------------------------------------------------------
(* get_pc_range: the PC values of a function or a block.  Whether high_pc   *)
(* is a length is not looked at, only whether it is below low_pc.           *)
RangeOf(base, load_base, r) ==
    CASE r.kind = "offsets"   -> <<base + r.a, base + r.b>>
      [] r.kind = "addresses" -> <<load_base + r.a, load_base + r.b>>
      [] r.kind = "length"    -> <<load_base + r.a, load_base + r.a + r.b>>

BaseAt(load_base, list, i) ==
    LET bases == {k \in 1..i : list[k].kind = "base"}
    IN  IF bases = {} THEN load_base ELSE load_base + list[Max(bases)].a

PcRange(load_base, pc) ==
    LET low == load_base + pc.lo
    IN  CASE pc.lo = None -> {RangeOf(BaseAt(load_base, pc.list, i), load_base, pc.list[i]) :
                                 i \in {i \in DOMAIN pc.list : pc.list[i].kind # "base"}}
          [] pc.lo # None /\ pc.hi = None -> {<<low, low>>}
          [] pc.lo # None /\ pc.hi # None /\ pc.lo <= pc.hi -> {<<low, load_base + pc.hi>>}
          [] pc.lo # None /\ pc.hi # None /\ pc.lo > pc.hi -> {<<low, low + pc.hi>>}

-----------------------------------------------------------------------------
(* The entry at hand and the stack.                                         *)
Entries == dwarf[unit].entries
Here == Entries[pos]
Root == [kind |-> "Root"]
Top == IF stack = <<>> THEN Root ELSE stack[Len(stack)]
Below(frame) == [stack EXCEPT ![Len(stack)] = frame]
Reading == status = "running" /\ pos <= Len(Entries)
At(tags) == Reading /\ Len(stack) = Here.depth /\ Here.tag \in tags
Advance == pos' = pos + 1 /\ UNCHANGED <<dwarf, unit, status>>
Panic == status' = "panicked" /\ UNCHANGED <<dwarf, unit, pos, stack, type_lookup, types, functions>>

Mutant_ParentNameOfSpaces(frames) ==
    LET named == {k \in DOMAIN frames : frames[k].kind \in {"Namespace", "InFunction"}}
    IN  IF named = {} THEN <<>> ELSE frames[Max(named)].name
ParentName(frames) ==
    LET named == {k \in DOMAIN frames : frames[k].kind \in {"Namespace", "InFunction", "InType"}}
    IN  IF named = {} THEN <<>> ELSE frames[Max(named)].name
OwnName(class, e, i) == IF e.name = NoName THEN <<class, i>> ELSE e.name
ScopedName(class) == Append(ParentName(stack), OwnName(class, Here, pos))

(* dwarf_type_ref: the TypeRef of entry i of this unit, made on first use.  *)
WithRef(lookup, i) ==
    IF \E r \in DOMAIN lookup : lookup[r] = <<unit, i>> THEN lookup ELSE Append(lookup, <<unit, i>>)
WithTarget(lookup) == IF Here.ty = 0 THEN lookup ELSE WithRef(lookup, Here.ty)
Mutant_RefOfOffset(lookup, i) == CHOOSE r \in DOMAIN lookup : lookup[r][2] = i
Ref(lookup, i) == CHOOSE r \in DOMAIN lookup : lookup[r] = <<unit, i>>
Grown(lookup) == [r \in DOMAIN lookup |-> IF r \in DOMAIN types THEN types[r] ELSE None]
Refer(lookup) == type_lookup' = lookup /\ types' = Grown(lookup)
Define(lookup, value) ==
    type_lookup' = lookup /\ types' = [Grown(lookup) EXCEPT ![Ref(lookup, pos)] = value]

-----------------------------------------------------------------------------
(* Scopes that end: the frame on top is popped while the stack is deeper    *)
(* than the entry at hand.                                                  *)
Mutant_DiscrInFields(td) == td.enum_data.discr \in {0} \cup ToSet(td.fields)
DiscrFound(td) ==
    td.enum_data.discr \in {0} \cup ToSet(td.fields) \cup ToSet(td.enum_data.top_fields)
CompositeType(td) == [name |-> td.name, fields |-> td.fields, parents |-> td.parents, sub_types |-> td.sub_types]
TypeOf(td) ==
    IF td.enum_data # None
    THEN [kind |-> "TaggedUnion", ct |-> CompositeType(td),
          discr |-> td.enum_data.discr, variants |-> td.enum_data.variants]
    ELSE [kind |-> IF td.is_union THEN "Union" ELSE "Struct", ct |-> CompositeType(td)]

Ending(kind) == Reading /\ Len(stack) > Here.depth /\ Top.kind = kind
Popped == SubSeq(stack, 1, Len(stack) - 1)

EndFunction ==
    /\ Ending("InFunction")
    /\ functions' = [n \in DOMAIN functions \cup {Top.name} |-> IF n = Top.name THEN Top.fr ELSE functions[n]]
    /\ stack' = Popped
    /\ UNCHANGED <<dwarf, unit, pos, type_lookup, types, status>>

EndType ==
    /\ Ending("InType")
    /\ Top.enum_data # None => DiscrFound(Top)
    /\ types' = [types EXCEPT ![Top.ty] = TypeOf(Top)]
    /\ stack' = Popped
    /\ UNCHANGED <<dwarf, unit, pos, type_lookup, functions, status>>

EndTypeWithoutDiscr ==
    /\ Ending("InType")
    /\ Top.enum_data # None /\ ~DiscrFound(Top)
    /\ Panic

EndVariants ==
    /\ Ending("EnumVariants")
    /\ stack' = [Popped EXCEPT ![Len(Popped)].enum_data = [discr |-> Top.discr,
                    variants |-> Top.variants, top_fields |-> Top.top_fields]]
    /\ UNCHANGED <<dwarf, unit, pos, type_lookup, types, functions, status>>

EndVariant ==
    /\ Ending("EnumVariant")
    /\ stack' = [Popped EXCEPT ![Len(Popped)].variants = Append(@, [of |-> Top.of, fields |-> Top.fields])]
    /\ UNCHANGED <<dwarf, unit, pos, type_lookup, types, functions, status>>

EndScope ==
    /\ \E kind \in {"Root", "Namespace", "FcnScope"} : Ending(kind)
    /\ stack' = Popped
    /\ UNCHANGED <<dwarf, unit, pos, type_lookup, types, functions, status>>

-----------------------------------------------------------------------------
(* Entries of any scope.                                                    *)

\* Below an entry that opened no scope.
SkipEntry ==
    /\ Reading /\ Len(stack) < Here.depth
    /\ Advance /\ UNCHANGED <<stack, type_lookup, types, functions>>

DW_TAG_namespace ==
    /\ At({"namespace"})
    /\ stack' = Append(stack, [kind |-> "Namespace", name |-> ScopedName("ns")])
    /\ Advance /\ UNCHANGED <<type_lookup, types, functions>>

FrameBase(e, i) == IF e.frame_base = "expression" THEN i ELSE None
DW_TAG_subprogram ==
    /\ At({"subprogram"})
    /\ IF Here.frame_base = "other" THEN Panic
       ELSE /\ stack' = Append(stack, [kind |-> "InFunction", name |-> ScopedName("fn"),
                  fr |-> [pc_range |-> PcRange(dwarf[unit].load_base, Here.pc),
                          frame_base |-> FrameBase(Here, pos), variables |-> <<>>]])
            /\ Advance /\ UNCHANGED <<type_lookup, types, functions>>

DW_TAG_base_type ==
    /\ At({"base_type"})
    /\ Define(WithRef(type_lookup, pos), [kind |-> "Primitive", name |-> ScopedName("prim")])
    /\ Advance /\ UNCHANGED <<stack, functions>>

DW_TAG_enumeration_type ==
    /\ At({"enumeration_type"})
    /\ Define(WithRef(type_lookup, pos), [kind |-> "Enum", name |-> ScopedName("enum")])
    /\ Advance /\ UNCHANGED <<stack, functions>>

KindOf == [typedef |-> "Alias", const_type |-> "Alias", pointer_type |-> "Pointer",
           reference_type |-> "Reference", rvalue_reference_type |-> "RValueReference"]
Indirection ==
    /\ At(Indirections)
    /\ LET lookup == WithTarget(WithRef(type_lookup, pos))
       IN  /\ IF Here.ty = 0 THEN Refer(lookup)
              ELSE Define(lookup, [kind |-> KindOf[Here.tag], to |-> Ref(lookup, Here.ty)])
           /\ stack' = IF Here.tag = "typedef" /\ Top.kind = "InType" /\ Here.name # NoName
                       THEN Below([Top EXCEPT !.sub_types = [n \in DOMAIN @ \cup {Here.name} |->
                                     IF n = Here.name THEN Ref(lookup, pos) ELSE @[n]]])
                       ELSE stack
    /\ Advance /\ UNCHANGED functions

InTypes == {"InType", "EnumVariants", "EnumVariant"}
DW_TAG_array_type ==
    /\ At({"array_type"})
    /\ IF Here.ty = 0 \/ Top.kind \in InTypes THEN Panic
       ELSE LET lookup == WithTarget(WithRef(type_lookup, pos))
            IN  /\ Define(lookup, [kind |-> "Array", to |-> Ref(lookup, Here.ty)])
                /\ Advance /\ UNCHANGED <<stack, functions>>

\* Structures, classes and unions.
Composite ==
    /\ At(Composites)
    /\ IF Here.tag = "union_type" /\ ~Here.sized THEN Panic
       ELSE LET lookup == WithRef(type_lookup, pos)
            IN  /\ Refer(lookup)
                /\ stack' = Append(stack, [kind |-> "InType", ty |-> Ref(lookup, pos),
                     name |-> ScopedName(IF Here.tag = "union_type" THEN "union" ELSE "struct"),
                     is_union |-> Here.tag = "union_type", fields |-> <<>>, parents |-> <<>>,
                     sub_types |-> <<>>, enum_data |-> None])
                /\ Advance /\ UNCHANGED functions

-----------------------------------------------------------------------------
(* Entries of the scope on top.                                             *)
DW_TAG_compile_unit ==
    /\ At({"compile_unit"}) /\ Top.kind = "Root"
    /\ stack' = Append(stack, Root)
    /\ Advance /\ UNCHANGED <<type_lookup, types, functions>>

DW_TAG_lexical_block ==
    /\ At({"lexical_block"}) /\ Top.kind \in {"InFunction", "FcnScope"}
    /\ stack' = Append(stack, [kind |-> "FcnScope", pc_range |-> PcRange(dwarf[unit].load_base, Here.pc)])
    /\ Advance /\ UNCHANGED <<type_lookup, types, functions>>

Mutant_RangesOfLast(variables, name, ty, range) ==
    [n \in DOMAIN variables \cup {name} |->
        IF n # name THEN variables[n] ELSE [ty |-> ty, ranges |-> <<range>>]]
WithVariable(variables, name, ty, range) ==
    [n \in DOMAIN variables \cup {name} |->
        IF n # name THEN variables[n]
        ELSE IF n \in DOMAIN variables THEN [variables[n] EXCEPT !.ranges = Append(@, range)]
        ELSE [ty |-> ty, ranges |-> <<range>>]]
ScopeRange == IF Top.kind = "InFunction" THEN Top.fr.pc_range ELSE Top.pc_range
CurrentFunction == Min({k \in DOMAIN stack : stack[k].kind = "InFunction"})

\* A variable is of the first function of the stack, with the range of the
\* block on top of it.
DW_TAG_variable ==
    /\ At({"variable"}) /\ Top.kind \in {"InFunction", "FcnScope"}
    /\ LET lookup == WithTarget(type_lookup)
       IN  IF Here.name = NoName \/ ScopeRange = {}
           THEN Refer(lookup) /\ Advance /\ UNCHANGED <<stack, functions>>
           ELSE IF Here.ty = 0 THEN Panic
           ELSE /\ stack' = [stack EXCEPT ![CurrentFunction].fr.variables =
                      WithVariable(@, Here.name, Ref(lookup, Here.ty), [pc_range |-> ScopeRange, position |-> pos])]
                /\ Refer(lookup) /\ Advance /\ UNCHANGED functions

\* A base class; a virtual one, whose place is an expression, is left out.
DW_TAG_inheritance ==
    /\ At({"inheritance"}) /\ Top.kind = "InType"
    /\ IF Here.ty = 0 \/ Here.loc = "none" THEN Panic
       ELSE LET lookup == WithTarget(type_lookup)
            IN  /\ Refer(lookup)
                /\ stack' = IF Here.loc = "expression" THEN stack
                            ELSE Below([Top EXCEPT !.parents = Append(@, <<pos, Ref(lookup, Here.ty)>>)])
                /\ Advance /\ UNCHANGED functions

\* A field of a type, of its enum as a whole or of one variant.  Bit-fields
\* have no location and are left out, before their type is referred to.
IsBitField == Top.kind = "InType" /\ Here.loc = "none" /\ ~Top.is_union
DW_TAG_member ==
    /\ At({"member"}) /\ Top.kind \in InTypes
    /\ IF IsBitField THEN Advance /\ UNCHANGED <<stack, type_lookup, types, functions>>
       ELSE IF \/ Here.loc = "none" /\ Top.kind # "InType"
               \/ Here.loc = "expression" \/ Here.ty = 0 THEN Panic
       ELSE /\ Refer(WithTarget(type_lookup))
            /\ stack' = IF Top.kind = "EnumVariants" THEN Below([Top EXCEPT !.top_fields = Append(@, pos)])
                        ELSE Below([Top EXCEPT !.fields = Append(@, pos)])
            /\ Advance /\ UNCHANGED functions

DW_TAG_variant_part ==
    /\ At({"variant_part"}) /\ Top.kind = "InType"
    /\ stack' = Append(stack, [kind |-> "EnumVariants", discr |-> Here.discr, variants |-> <<>>, top_fields |-> <<>>])
    /\ Advance /\ UNCHANGED <<type_lookup, types, functions>>

DW_TAG_variant ==
    /\ At({"variant"}) /\ Top.kind = "EnumVariants"
    /\ stack' = Append(stack, [kind |-> "EnumVariant", of |-> pos, fields |-> <<>>])
    /\ Advance /\ UNCHANGED <<type_lookup, types, functions>>

\* The entries each kind of scope has an arm for, and what it does with others.
Arms == [Root |-> {"compile_unit"}, Namespace |-> {}, InFunction |-> {"lexical_block", "variable"},
         FcnScope |-> {"lexical_block", "variable"}, EnumVariants |-> {"variant", "member"}, EnumVariant |-> {"member"},
         InType |-> {"inheritance", "member", "variant_part", "template_type_parameter",
                     "imported_declaration", "variable"}]
Inner == Tags \ (Types \cup {"namespace", "subprogram"})

IgnoreEntry ==
    /\ \/ At(Inner \ Arms[Top.kind]) /\ Top.kind \notin InTypes
       \/ At({"template_type_parameter", "imported_declaration", "variable"}) /\ Top.kind = "InType"
    /\ Advance /\ UNCHANGED <<stack, type_lookup, types, functions>>

UnexpectedEntry ==
    /\ At(Inner \ Arms[Top.kind]) /\ Top.kind \in InTypes
    /\ Panic

-----------------------------------------------------------------------------
(* What is open at the end of a unit is dropped with the stack.             *)
NextUnit ==
    /\ status = "running" /\ pos > Len(Entries)
    /\ IF unit < Len(dwarf)
       THEN unit' = unit + 1 /\ pos' = 1 /\ stack' = <<Root>> /\ status' = status
       ELSE status' = "done" /\ UNCHANGED <<unit, pos, stack>>
    /\ UNCHANGED <<dwarf, type_lookup, types, functions>>

Finished == status # "running" /\ UNCHANGED vars

Init ==
    /\ dwarf \in Dwarfs
    /\ unit = 1 /\ pos = 1 /\ stack = <<Root>>
    /\ type_lookup = <<>> /\ types = <<>> /\ functions = <<>>
    /\ status = "running"

End == EndFunction \/ EndType \/ EndTypeWithoutDiscr \/ EndVariants \/ EndVariant \/ EndScope
AnyScope == DW_TAG_namespace \/ DW_TAG_subprogram \/ DW_TAG_base_type \/ DW_TAG_enumeration_type
            \/ Indirection \/ DW_TAG_array_type \/ Composite
OwnScope == DW_TAG_compile_unit \/ DW_TAG_lexical_block \/ DW_TAG_variable \/ DW_TAG_inheritance
            \/ DW_TAG_member \/ DW_TAG_variant_part \/ DW_TAG_variant \/ IgnoreEntry \/ UnexpectedEntry
Next == End \/ SkipEntry \/ AnyScope \/ OwnScope \/ NextUnit \/ Finished
Spec == Init /\ [][Next]_vars

-----------------------------------------------------------------------------
(* What the parser must find, read off the tree itself.                     *)
Es(u) == dwarf[u].entries
Ancestors(u, i) == {j \in 1..i - 1 : \A k \in j + 1..i : Es(u)[k].depth > Es(u)[j].depth}
ParentOf(u, i) == Max(Ancestors(u, i))
Scopes == Composites \cup {"compile_unit", "namespace", "subprogram", "lexical_block", "variant_part", "variant"}
\* A scope with an arm of its own is read where its parent has that arm.
Hosts == [lexical_block |-> {"subprogram", "lexical_block"}, variant_part |-> Composites, variant |-> {"variant_part"}]
Opens(u, j) ==
    /\ Es(u)[j].tag \in Scopes
    /\ Es(u)[j].tag \in DOMAIN Hosts => Es(u)[ParentOf(u, j)].tag \in Hosts[Es(u)[j].tag]
Visible(u, i) == \A j \in Ancestors(u, i) : Opens(u, j)
Closed(u, i) == \E k \in i + 1..Len(Es(u)) : Es(u)[k].depth <= Es(u)[i].depth
Children(u, i, tag) == {j \in DOMAIN Es(u) : j > i /\ ParentOf(u, j) = i /\ Es(u)[j].tag = tag}
\* The members of a set of positions, in the order of the file.
InFileOrder(S) == [k \in 1..Cardinality(S) |-> CHOOSE j \in S : Cardinality({i \in S : i <= j}) = k]
ClassOf(tag) ==
    CASE tag \in {"structure_type", "class_type"} -> "struct" [] tag = "union_type" -> "union"
      [] tag = "namespace" -> "ns" [] tag = "subprogram" -> "fn"
      [] tag = "base_type" -> "prim" [] tag = "enumeration_type" -> "enum"
FullName(u, i) ==
    LET around == {j \in Ancestors(u, i) : Es(u)[j].tag \in Composites \cup {"namespace", "subprogram"}}
        path == InFileOrder(around \cup {i})
    IN  [k \in DOMAIN path |-> OwnName(ClassOf(Es(u)[path[k]].tag), Es(u)[path[k]], path[k])]
TypeRefOf(u, i) == CHOOSE r \in DOMAIN type_lookup : type_lookup[r] = <<u, i>>

MembersOf(u, i) == {j \in Children(u, i, "member") : Es(u)[j].loc = "constant" \/ Es(u)[i].tag = "union_type"}
Members(u, i) == InFileOrder(MembersOf(u, i))
Variants(u, i) ==
    LET vs == InFileOrder(Children(u, i, "variant"))
    IN  [k \in DOMAIN vs |-> [of |-> vs[k], fields |-> Members(u, vs[k])]]
CompositeOf(u, i) ==
    LET bases == InFileOrder({j \in Children(u, i, "inheritance") : Es(u)[j].loc = "constant"})
        named == {j \in Children(u, i, "typedef") : Es(u)[j].name # NoName}
    IN  [name |-> FullName(u, i), fields |-> Members(u, i),
         parents |-> [k \in DOMAIN bases |-> <<bases[k], TypeRefOf(u, Es(u)[bases[k]].ty)>>],
         sub_types |-> [n \in {Es(u)[j].name : j \in named} |-> TypeRefOf(u, Max({j \in named : Es(u)[j].name = n}))]]
DescribedType(u, i) ==
    LET e == Es(u)[i]  parts == Children(u, i, "variant_part")
    IN  CASE e.tag \in Composites /\ parts # {} ->
               [kind |-> "TaggedUnion", ct |-> CompositeOf(u, i), discr |-> Es(u)[Max(parts)].discr,
                variants |-> Variants(u, Max(parts))]
          [] e.tag \in Composites /\ parts = {} ->
               [kind |-> IF e.tag = "union_type" THEN "Union" ELSE "Struct", ct |-> CompositeOf(u, i)]
          [] e.tag \in Indirections \cup {"array_type"} /\ e.ty = 0 -> None
          [] e.tag \in Indirections /\ e.ty # 0 -> [kind |-> KindOf[e.tag], to |-> TypeRefOf(u, e.ty)]
          [] e.tag = "array_type" /\ e.ty # 0 -> [kind |-> "Array", to |-> TypeRefOf(u, e.ty)]
          [] e.tag = "base_type" -> [kind |-> "Primitive", name |-> FullName(u, i)]
          [] e.tag = "enumeration_type" -> [kind |-> "Enum", name |-> FullName(u, i)]

IsType(u, i) == Es(u)[i].tag \in Types /\ Visible(u, i)
IsFunction(u, i) == Es(u)[i].tag = "subprogram" /\ Visible(u, i)
FunctionOf(u, j) == Max({0} \cup {i \in Ancestors(u, j) : Es(u)[i].tag = "subprogram"})
\* The PC values an entry covers: high_pc is an address or a length, as its
\* form says, and an offset counts from the base before it in the list, the
\* low_pc of the unit at first; one low_pc alone is one address.
UnitBase(u) == IF Es(u)[1].pc.lo = None THEN 0 ELSE Es(u)[1].pc.lo
Bases(list, i) == {k \in 1..i : list[k].kind = "base"}
Listed(u, list, i) ==
    LET base == IF Bases(list, i) = {} THEN UnitBase(u) ELSE list[Max(Bases(list, i))].a
    IN  CASE list[i].kind = "offsets"   -> <<base + list[i].a, base + list[i].b>>
          [] list[i].kind = "addresses" -> <<list[i].a, list[i].b>>
          [] list[i].kind = "length"    -> <<list[i].a, list[i].a + list[i].b>>
Pairs(list) == {i \in DOMAIN list : list[i].kind # "base"}
Covered(u, pc) ==
    IF pc.lo = None THEN {Listed(u, pc.list, i) : i \in Pairs(pc.list)}
    ELSE {<<pc.lo, IF pc.hi = None THEN pc.lo + 1 ELSE IF pc.is_length THEN pc.lo + pc.hi ELSE pc.hi>>}
RealRange(u, i) ==
    {<<dwarf[u].load_base + r[1], dwarf[u].load_base + r[2]>> : r \in Covered(u, Es(u)[i].pc)}
HasCode(u, i) == RealRange(u, i) # {}

\* The ranges get_pc_range can tell: low_pc has a high_pc, which is a length
\* exactly when it is below it, and offsets count from a base of their list
\* unless the low_pc of the unit is 0.
Tellable(u, pc) ==
    /\ pc.lo # None => pc.hi # None /\ (pc.is_length <=> pc.hi < pc.lo)
    /\ pc.lo = None => \A i \in DOMAIN pc.list :
          pc.list[i].kind = "offsets" /\ Bases(pc.list, i) = {} => UnitBase(u) = 0

\* What a function's variable called n is recorded as: its places, with the
\* range of the block each is declared in, and its type.
VariablesOf(u, i) ==
    {j \in DOMAIN Es(u) :
        /\ Es(u)[j].tag = "variable" /\ Es(u)[j].name # NoName
        /\ Visible(u, j) /\ FunctionOf(u, j) = i
        /\ Es(u)[ParentOf(u, j)].tag \in {"subprogram", "lexical_block"} /\ HasCode(u, ParentOf(u, j))}
CalledIn(u, i, n) == {j \in VariablesOf(u, i) : Es(u)[j].name = n}
DescribedVariable(u, i, n) ==
    LET js == InFileOrder(CalledIn(u, i, n))
        ty == CHOOSE ty \in {Es(u)[j].ty : j \in CalledIn(u, i, n)} : TRUE
    IN  [ty |-> TypeRefOf(u, ty),
         ranges |-> [k \in DOMAIN js |-> [pc_range |-> RealRange(u, ParentOf(u, js[k])), position |-> js[k]]]]
DescribedFunction(u, i) ==
    [pc_range |-> RealRange(u, i), frame_base |-> FrameBase(Es(u)[i], i),
     variables |-> [n \in {Es(u)[j].name : j \in VariablesOf(u, i)} |-> DescribedVariable(u, i, n)]]

\* The functions that can be recorded as they are: the ranges of their blocks
\* can be told, and variables of one name are of one type.
Recordable(u, i) ==
    /\ Tellable(u, Es(u)[i].pc)
    /\ \A j \in VariablesOf(u, i) : Tellable(u, Es(u)[ParentOf(u, j)].pc)
    /\ \A j, k \in VariablesOf(u, i) : Es(u)[j].name = Es(u)[k].name => Es(u)[j].ty = Es(u)[k].ty
Nested(u, i) == \E j \in DOMAIN Es(u) : IsFunction(u, j) /\ (i \in Ancestors(u, j) \/ j \in Ancestors(u, i))
AllEntries == UNION {{u} \X DOMAIN Es(u) : u \in DOMAIN dwarf}
Called(name) ==
    {p \in AllEntries : IsFunction(p[1], p[2]) /\ FullName(p[1], p[2]) = name}
LastOf(S) == CHOOSE p \in S : \A q \in S : q[1] < p[1] \/ (q[1] = p[1] /\ q[2] <= p[2])

ScopeKind(tag) ==
    CASE tag \in Composites -> "InType" [] tag = "namespace" -> "Namespace" [] tag = "compile_unit" -> "Root"
      [] tag = "subprogram" -> "InFunction" [] tag = "lexical_block" -> "FcnScope"
      [] tag = "variant_part" -> "EnumVariants" [] tag = "variant" -> "EnumVariant"
Unsupported(u, i) ==
    LET e == Es(u)[i]  parent == Es(u)[ParentOf(u, i)]
        parts == Children(u, i, "variant_part")
        is_bit_field == e.loc = "none" /\ parent.tag \in Composites \ {"union_type"}
    IN  \/ e.tag = "union_type" /\ ~e.sized
        \/ e.tag = "subprogram" /\ e.frame_base = "other"
        \/ e.tag = "array_type" /\ (e.ty = 0 \/ ScopeKind(parent.tag) \in InTypes)
        \/ /\ e.tag = "variable" /\ e.name # NoName /\ e.ty = 0
           /\ parent.tag \in {"subprogram", "lexical_block"} /\ HasCode(u, ParentOf(u, i))
        \/ e.tag = "inheritance" /\ parent.tag \in Composites /\ (e.ty = 0 \/ e.loc = "none")
        \/ /\ e.tag = "member" /\ ScopeKind(parent.tag) \in InTypes /\ ~is_bit_field
           /\ e.loc = "expression" \/ e.ty = 0 \/ (e.loc = "none" /\ parent.tag \notin Composites)
        \/ /\ e.tag \in Composites /\ parts # {}
           /\ Es(u)[Max(parts)].discr \notin {0} \cup MembersOf(u, i) \cup MembersOf(u, Max(parts))
        \/ ScopeKind(parent.tag) \in InTypes /\ e.tag \in Inner \ Arms[ScopeKind(parent.tag)]

-----------------------------------------------------------------------------
FrameFields ==
    [Root |-> {"kind"}, Namespace |-> {"kind", "name"}, InFunction |-> {"kind", "name", "fr"},
     FcnScope |-> {"kind", "pc_range"}, EnumVariant |-> {"kind", "of", "fields"},
     EnumVariants |-> {"kind", "discr", "variants", "top_fields"},
     InType |-> {"kind", "name", "ty", "is_union", "fields", "parents", "sub_types", "enum_data"}]
\* What must be below a frame: EndVariants and EndVariant write into it.
MayBeAbove(kind) ==
    CASE kind = "EnumVariants" -> {"InType"} [] kind = "EnumVariant" -> {"EnumVariants"}
      [] kind = "FcnScope" -> {"InFunction", "FcnScope"} [] OTHER -> DOMAIN FrameFields

TypeOK ==
    /\ unit \in DOMAIN dwarf /\ pos \in 1..Len(Entries) + 1
    /\ status \in {"running", "done", "panicked"}
    /\ Len(stack) \in 0..(IF pos = 1 THEN 1 ELSE Entries[pos - 1].depth + 1) /\ DOMAIN stack = 1..Len(stack)
    /\ \A k \in DOMAIN stack :
          /\ stack[k].kind \in DOMAIN FrameFields /\ DOMAIN stack[k] = FrameFields[stack[k].kind]
          /\ IF k = 1 THEN MayBeAbove(stack[k].kind) = DOMAIN FrameFields
             ELSE stack[k - 1].kind \in MayBeAbove(stack[k].kind)
    /\ type_lookup \in Seq(Nat \X Nat) /\ DOMAIN types = DOMAIN type_lookup

(* A TypeRef is for one entry of one unit, and what it is given comes from  *)
(* that entry: a field, a pointer or a variable that asked for the type     *)
(* before or after it was read meets the type it meant (dwarf_type_ref).    *)
KindsFor(tag) ==
    CASE tag \in {"structure_type", "class_type"} -> {"Struct", "TaggedUnion"}
      [] tag = "union_type" -> {"Union", "TaggedUnion"}
      [] tag \in Indirections -> {KindOf[tag]}
      [] tag = "array_type" -> {"Array"}
      [] tag = "base_type" -> {"Primitive"}
      [] tag = "enumeration_type" -> {"Enum"}
      [] OTHER -> {}
TagOf(key) == Es(key[1])[key[2]].tag
TypesAreTheirs ==
    /\ \A r, s \in DOMAIN type_lookup : type_lookup[r] = type_lookup[s] => r = s
    /\ \A r \in DOMAIN types : types[r] # None => types[r].kind \in KindsFor(TagOf(type_lookup[r]))

(* Every type whose scope ends within its unit has its full name, its own   *)
(* members in order, its bases and its variants, whatever is nested in it   *)
(* or around it and whichever of them refer to each other.                  *)
RecordedTypes ==
    status = "done" => \A u \in DOMAIN dwarf : \A i \in DOMAIN Es(u) :
        IsType(u, i) /\ (Es(u)[i].tag \in Composites => Closed(u, i)) =>
            types[TypeRefOf(u, i)] = DescribedType(u, i)

(* Every function with code whose scope ends has the PC values, the frame  *)
(* base and the variables the tree gives it, each variable in every block   *)
(* that declares it, whatever blocks and functions are around it.  Not so   *)
(* where the ranges cannot be told (dwarf_parse.rs:201, 214), variables of  *)
(* one name differ in type (464), an entry of the same name ends later, a   *)
(* declaration included (117), or functions lie in functions (459); and one *)
(* no scope of which ends has nothing (117).                                *)
RecordedFunctions ==
    status = "done" => \A p \in {p \in AllEntries : IsFunction(p[1], p[2])} :
        LET u == p[1]  i == p[2]  name == FullName(u, i)
            ended == {q \in Called(name) : Closed(q[1], q[2])}
        IN  IF ended = {} THEN name \notin DOMAIN functions
            ELSE p = LastOf(ended) /\ HasCode(u, i) /\ Recordable(u, i)
                   /\ (\A q \in ended : ~Nested(q[1], q[2]))
                 => name \in DOMAIN functions /\ functions[name] = DescribedFunction(u, i)

(* The parser stops only at what it does not support: no order of members, *)
(* variants, forward and backward references and nested scopes that a       *)
(* compiler may write makes it panic (dwarf_parse.rs:148, 245, 288, 317,    *)
(* 464, 484, 523, 540).                                                     *)
PanicsOnlyWithCause ==
    status = "panicked" => \E i \in 2..Len(Entries) : Visible(unit, i) /\ Unsupported(unit, i)

(* A variable is recorded in the function whose scope declares it ("Get the *)
(* current function (look up the stack)", dwarf_parse.rs:455).              *)
VariablesOfCurrentFunction ==
    status = "done" => \A u \in DOMAIN dwarf : \A i \in DOMAIN Es(u) :
        /\ IsFunction(u, i) /\ Closed(u, i) /\ Called(FullName(u, i)) = {<<u, i>>}
        /\ HasCode(u, i) /\ Recordable(u, i) =>
            functions[FullName(u, i)] = DescribedFunction(u, i)
=============================================================================
