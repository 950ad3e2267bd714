---------------------------- MODULE MCDieParser -----------------------------
(***************************************************************************)
(* DieParser for every unit of a bounded number of entries in each of      *)
(* three families, read after a file with the same names and offsets, and  *)
(* for units that it does not support.                                     *)
(***************************************************************************)
EXTENDS DieParser

CONSTANTS MaxScopes, MaxTypes, MaxEnums, x, y

-----------------------------------------------------------------------------
NoPc == [lo |-> None, hi |-> None, is_length |-> FALSE, list |-> <<>>]
Pc(lo, hi) == [NoPc EXCEPT !.lo = lo, !.hi = hi]
Split == [NoPc EXCEPT !.list = <<[kind |-> "offsets", a |-> 1, b |-> 2], [kind |-> "base", a |-> 5, b |-> 0],
                                 [kind |-> "offsets", a |-> 1, b |-> 2], [kind |-> "length", a |-> 8, b |-> 1],
                                 [kind |-> "addresses", a |-> 8, b |-> 9]>>]

E(tag) == [depth |-> 1, tag |-> tag, name |-> NoName, ty |-> 0, discr |-> 0, loc |-> "constant",
           sized |-> TRUE, frame_base |-> "none", pc |-> NoPc]
Named(tag) == [E(tag) EXCEPT !.name = x]
To(tag, i) == [Named(tag) EXCEPT !.ty = i]
CU == [E("compile_unit") EXCEPT !.depth = 0]

(* The children compilers write for each scope, in three families: scopes   *)
(* and their variables, types that refer to each other, and enums.          *)
Spaces == {Named("namespace"), E("subprogram"), Named("structure_type"),
           [Named("subprogram") EXCEPT !.pc = Pc(3, 5), !.frame_base = "expression"]}
Code == {[E("lexical_block") EXCEPT !.pc = Split], E("lexical_block"), To("variable", 2), To("variable", 3)}
ScopeKids(tag) ==
    CASE tag \in {"compile_unit", "namespace"} -> Spaces
      [] tag \in {"subprogram", "lexical_block"} -> Code \cup {Named("structure_type")}
      [] tag = "structure_type" -> {[Named("subprogram") EXCEPT !.pc = [Pc(5, 3) EXCEPT !.is_length = TRUE]], Named("structure_type")}
      [] OTHER -> {}

Refs == {To(tag, i) : tag \in {"typedef", "pointer_type"}, i \in {0, 3, 4}} \cup {To("array_type", 2)}
TypeKids(tag) ==
    CASE tag = "compile_unit" -> Refs \cup {To("variable", 2), Named("structure_type"), E("union_type"), E("enumeration_type"),
                                            To("const_type", 3), To("reference_type", 3), To("rvalue_reference_type", 4)}
      [] tag \in Composites -> {To("typedef", 2), To("typedef", 3), To("member", 2), E("template_type_parameter"),
                                To("inheritance", 3), [To("inheritance", 3) EXCEPT !.loc = "expression"],
                                [To("member", 3) EXCEPT !.loc = "none"], E("union_type"), Named("variable")}
      [] tag = "enumeration_type" -> {Named("other")}
      [] OTHER -> {}

EnumKids(tag) ==
    CASE tag = "structure_type" -> {To("member", 2)} \cup {[E("variant_part") EXCEPT !.discr = d] : d \in {0, 4, 5, 6}}
      [] tag = "variant_part" -> {E("variant"), To("member", 2)}
      [] tag = "variant" -> {To("member", 2)}
      [] OTHER -> {}

-----------------------------------------------------------------------------
(* A unit grows by an entry below any of those on the path to the last one. *)
Path(es) == {j \in DOMAIN es : \A k \in j + 1..Len(es) : es[k].depth > es[j].depth}
Parts(es, j) == {k \in j + 1..Len(es) : es[k].tag = "variant_part" /\ es[k].depth = es[j].depth + 1}
Longer(es, Kids(_)) ==
    UNION {{Append(es, [e EXCEPT !.depth = es[j].depth + 1]) :
              e \in {e \in Kids(es[j].tag) : e.tag = "variant_part" => Parts(es, j) = {}}} : j \in Path(es)}
RECURSIVE Grow(_, _, _)
Grow(S, Kids(_), n) == IF n = 0 THEN S ELSE S \cup Grow(UNION {Longer(es, Kids) : es \in S}, Kids, n - 1)

\* References are to types, and a discriminant is a field of its enum.
Sound(es) ==
    \A i \in DOMAIN es :
        /\ es[i].ty # 0 => es[i].ty \in DOMAIN es /\ es[es[i].ty].tag \in Types /\ es[i].ty # i
        /\ es[i].discr # 0 => es[i].discr \in DOMAIN es /\ es[es[i].discr].tag = "member"
                              /\ es[es[i].discr].depth \in {es[i].depth, es[i].depth + 1}
Start == <<CU, Named("base_type")>>
Family(start, Kids(_), n) == {es \in Grow({start}, Kids, n) : Sound(es)}
Compiled ==
    Family(Append(Start, Named("base_type")), ScopeKids, MaxScopes) \cup Family(Start, TypeKids, MaxTypes)
    \cup Family(Append(Start, Named("structure_type")), EnumKids, MaxEnums)

\* The last scope of a unit is lost, so one entry more ends those of interest;
\* the file before it leaves one open.
Ended(es) == Append(es, E("base_type"))
Other == <<CU, [Named("subprogram") EXCEPT !.pc = Pc(1, 2)], [To("variable", 4) EXCEPT !.depth = 2],
           Named("base_type"), Named("structure_type"), [To("member", 4) EXCEPT !.depth = 2]>>

(* A function, declared first, and a block in it, each with every form of   *)
(* range, in units at several places.                                       *)
Length(lo, n) == [Pc(lo, n) EXCEPT !.is_length = TRUE]
Based == [Split EXCEPT !.list = Tail(@)]
Forms == {NoPc, Pc(3, 5), Pc(5, 3), Length(5, 3), Length(3, 5), [NoPc EXCEPT !.lo = 3], Split, Based}
Ranged(lo, pc, inner) ==
    <<[CU EXCEPT !.pc.lo = lo], Named("base_type"), Named("subprogram"),
      [Named("subprogram") EXCEPT !.pc = pc, !.frame_base = "expression"],
      [To("variable", 2) EXCEPT !.depth = 2], [E("lexical_block") EXCEPT !.depth = 2, !.pc = inner],
      [To("variable", 2) EXCEPT !.depth = 3]>>
AllRanged == {Ranged(lo, pc, inner) : lo \in {None, 0, 4}, pc \in Forms, inner \in Forms}

(* Entries that stop the parser, below a structure with an enum.            *)
At3(e) == [e EXCEPT !.depth = 3]
Odd == {<<CU, [E("union_type") EXCEPT !.sized = FALSE]>>,
        <<CU, Named("namespace"), [E("array_type") EXCEPT !.depth = 2]>>,
        <<CU, Named("namespace"), [E("subprogram") EXCEPT !.depth = 2, !.frame_base = "other"]>>,
        <<CU, Named("structure_type"), [To("array_type", 2) EXCEPT !.depth = 2]>>,
        <<CU, Named("structure_type"), [E("other") EXCEPT !.depth = 2]>>,
        <<CU, Named("structure_type"), [E("inheritance") EXCEPT !.depth = 2]>>,
        <<CU, [Named("subprogram") EXCEPT !.pc = Pc(1, 2)], [Named("variable") EXCEPT !.depth = 2]>>}
       \cup {<<CU, Named("structure_type"), [E("variant_part") EXCEPT !.depth = 2, !.discr = d], At3(e), Named("typedef")>> :
                d \in {0, 2}, e \in {E("variant"), E("other"), To("member", 2), [To("member", 2) EXCEPT !.loc = "none"]}}

File(load_base, es) == [load_base |-> load_base, entries |-> es]
MCDwarfs == {<<File(20, Other), File(40, Ended(es))>> : es \in Compiled \cup AllRanged} \cup {<<File(0, es)>> : es \in Odd}

(* A method of a structure in a function: a unit for the run that shows     *)
(* where its variables go.                                                  *)
NestedMethod == <<CU, Named("base_type"), [Named("subprogram") EXCEPT !.pc = Pc(3, 9)],
                  [Named("structure_type") EXCEPT !.depth = 2],
                  [Named("subprogram") EXCEPT !.depth = 3, !.pc = Pc(10, 12)],
                  [To("variable", 2) EXCEPT !.depth = 4], Named("typedef")>>
NestedCases == {<<File(0, NestedMethod)>>}
=============================================================================
