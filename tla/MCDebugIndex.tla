---------------------------- MODULE MCDebugIndex ----------------------------
(***************************************************************************)
(* DebugIndex for every small pool of types that refer to each other in    *)
(* any order, and for every small set of symbols.                          *)
(***************************************************************************)
EXTENDS DebugIndex

CONSTANTS MaxTypes, MaxSymbols, x, y, p

-----------------------------------------------------------------------------
(* Types.  x and y are structures, p is always the name of a pointer to x.  *)
T(kind, name) == [kind |-> kind, name |-> name, to |-> 0, members |-> 1, size |-> 3]
Declared(n) == [T("Struct", n) EXCEPT !.members = 0, !.size = 0]
To(kind, name, r) == [T(kind, name) EXCEPT !.to = r]
Kinds(n) == {T("Struct", x), Declared(x), Declared(y), None}
            \cup {To(kind, NoName, r) : kind \in {"Alias", "Pointer"}, r \in 1..n}
            \cup {To("Pointer", p, r) : r \in 1..n}

Pools ==
    {ts \in UNION {[1..n -> Kinds(n)] : n \in 1..MaxTypes} :
        DeclarationsEnd(ts) /\ NamedByTarget(ts)}
Others == {<<T("Union", x), To("Array", NoName, 1), T("Enum", y), To("Reference", NoName, 3), T("Primitive", p)>>,
           <<[T("TaggedUnion", x) EXCEPT !.members = 0], T("TaggedUnion", x), To("RValueReference", NoName, 2)>>}

-----------------------------------------------------------------------------
(* Symbols of a file at 1: functions and vtables of any size at any place.  *)
Sym(value, size, name, vtable_of) ==
    [file |-> 1, value |-> value, size |-> size, name |-> name, undefined |-> FALSE, vtable_of |-> vtable_of]
SomeSymbols ==
    {Sym(v, n, x, NoName) : v \in {0, 2}, n \in {0, 2}} \cup {Sym(v, n, p, x) : v \in 0..3, n \in 1..2}
    \cup {[Sym(1, 1, y, y) EXCEPT !.undefined = u] : u \in BOOLEAN}
DeclaredFirst == <<Declared(x), T("Struct", x)>>
AtOne == <<[base |-> 1]>>
Input(f, ts, ss) == [files |-> f, types |-> ts, symtab |-> ss]
MCInputs ==
    {Input(AtOne, ts, <<>>) : ts \in Pools \cup Others}
    \cup {Input(AtOne, DeclaredFirst, ss) : ss \in UNION {[1..n -> SomeSymbols] : n \in 1..MaxSymbols}}
=============================================================================
