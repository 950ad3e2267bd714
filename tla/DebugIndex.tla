----------------------------- MODULE DebugIndex -----------------------------
(***************************************************************************)
(* The index of the debug information (src/src/debug_info/dwarf.rs): the   *)
(* symbols of every file, then the types of every file by their formatted  *)
(* name, each of which gets one canonical definition, and the lookups that *)
(* the walk makes through them.                                            *)
(*                                                                         *)
(* A formatted name is a value that says how it is put together; the list  *)
(* of the types of one name is the set of them, whose order is `First`.    *)
(***************************************************************************)
EXTENDS Integers, Sequences

CONSTANTS
    Inputs,     \* what the files may hold
    Names,      \* names of types and of symbols
    NoName,     \* a pointer type without a name, a symbol that is no vtable
    Addrs,      \* addresses that are looked up
    None        \* no value

VARIABLES
    files,          \* where each file is
    symtab,         \* the entries of symbol tables still to be read
    symbols,        \* address -> the symbols there
    types,          \* as the parser left them
    next,           \* the type the first loop of index_types has reached
    type_name_map,  \* formatted name -> types
    todo,           \* the names its second loop has not reached
    type_remap,     \* type -> the canonical type of its name
    reply,          \* the last lookup and what it returned
    status          \* "indexing", "ready" or "panicked"

vars == <<files, symtab, symbols, types, next, type_name_map, todo, type_remap, reply, status>>
loadvars == <<files, symtab, symbols>>
indexvars == <<types, next, type_name_map, todo, type_remap>>

-----------------------------------------------------------------------------
(* What the parser and the symbol tables hold.  A composite has members if  *)
(* it has any field, parent or variant; `to` is the target of the others.   *)
Composites == {"Struct", "Union", "TaggedUnion"}
Pointers == {"Pointer", "Reference", "RValueReference"}
Linked == Pointers \cup {"Alias", "Array"}
Type == [kind : Composites \cup Linked \cup {"Enum", "Primitive"}, name : Names \cup {NoName},
         to : Nat, members : Nat, size : Nat]
Symbol == [file : Nat, value : Nat, size : Nat, name : Names, undefined : BOOLEAN,
           vtable_of : Names \cup {NoName}]
File == [base : Nat]   \* its address in memory

(* fmt_type and fmt_type_ref: a type is written by its name or its target.  *)
Mutant_NoStar(t) == "Alias"
Prefix(t) == t.kind
Plain(name) == <<"name", name>>
Unnamed(t) == t.kind \in Linked /\ (t.kind \notin Pointers \/ t.name = NoName)
IsNamed(t) == t # None /\ t.kind # "Primitive" /\ ~Unnamed(t)

Written(ts, fmt, r) ==
    LET t == ts[r]
    IN  CASE t = None -> <<"?", r>>
          [] t # None /\ t.kind = "Primitive" -> <<"bits", t.name, t.size>>
          [] t # None /\ Unnamed(t) -> <<Prefix(t), fmt[t.to]>>
          [] IsNamed(t) -> Plain(t.name)
Formatted(ts) == LET fmt[r \in DOMAIN ts] == Written(ts, fmt, r) IN fmt

(* What compilers emit: no type is declared by itself, so among any types   *)
(* there is one that is not written by another of them; and a pointer has   *)
(* its target in its name, so pointers of one name lead to types of one.    *)
DeclarationsEnd(ts) ==
    \A S \in (SUBSET DOMAIN ts) \ {{}} :
        \E r \in S : ts[r] # None /\ Unnamed(ts[r]) => ts[r].to \notin S
NamedByTarget(ts) ==
    \A r, s \in {q \in DOMAIN ts : IsNamed(ts[q])} :
        ts[r].kind \in Pointers /\ ts[s].name = ts[r].name =>
            ts[s].kind = ts[r].kind /\ Formatted(ts)[ts[s].to] = Formatted(ts)[ts[r].to]

ASSUME InputsAssumption ==
    \A i \in Inputs :
        /\ i.files \in Seq(File) /\ i.types \in Seq(Type \cup {None}) /\ i.symtab \in Seq(Symbol)
        /\ \A s \in DOMAIN i.symtab : i.symtab[s].file \in DOMAIN i.files
        /\ \A r \in DOMAIN i.types :
             i.types[r] # None /\ i.types[r].kind \in Linked => i.types[r].to \in DOMAIN i.types
        /\ DeclarationsEnd(i.types) /\ NamedByTarget(i.types)
ASSUME NoneAssumption == None \notin Type
ASSUME AddrsAssumption == Addrs \subseteq Nat

-----------------------------------------------------------------------------
Refs == DOMAIN types

fmt_type == Formatted(types)

is_complete(r) == types[r].kind \in Composites => types[r].members > 0

(* The order of the types of a name: complete ones first, then by TypeRef.  *)
Mutant_Before(r, s) == IF is_complete(r) <=> is_complete(s) THEN r < s ELSE is_complete(s)
Before(r, s) == IF is_complete(r) <=> is_complete(s) THEN r < s ELSE is_complete(r)
First(S) == CHOOSE r \in S : \A s \in S : r = s \/ Before(r, s)
Mutant_OnlyDeclarations(S) == {r \in S : ~is_complete(r)}
Replaced(S) == S \ {First(S)}

Remap(r) == IF r \in DOMAIN type_remap THEN type_remap[r] ELSE r

-----------------------------------------------------------------------------
(* add_from_symtab, one entry.                                              *)
Address(s) == files[s.file].base + s.value
AddSymbol ==
    /\ symtab # <<>>
    /\ LET s == Head(symtab)  a == Address(s)
       IN  symbols' = IF s.undefined THEN symbols
                      ELSE [b \in DOMAIN symbols \cup {a} |->
                               IF b # a THEN symbols[b]
                               ELSE IF a \in DOMAIN symbols THEN Append(symbols[a], s) ELSE <<s>>]
    /\ symtab' = Tail(symtab)
    /\ UNCHANGED <<files, indexvars, reply, status>>

(* index_types: its first loop ...                                          *)
WithType(map, name, r) ==
    [n \in DOMAIN map \cup {name} |->
        IF n # name THEN map[n] ELSE IF n \in DOMAIN map THEN map[n] \cup {r} ELSE {r}]
IndexType ==
    /\ symtab = <<>> /\ next <= Len(types)
    /\ type_name_map' = IF types[next] = None THEN type_name_map
                        ELSE WithType(type_name_map, fmt_type[next], next)
    /\ todo' = DOMAIN type_name_map'
    /\ next' = next + 1
    /\ UNCHANGED <<loadvars, types, type_remap, reply, status>>

(* ... and its second, over the names in any order.                         *)
ChooseCanonical ==
    /\ symtab = <<>> /\ next > Len(types) /\ status = "indexing"
    /\ \E n \in todo :
          LET tys == type_name_map[n]
          IN  /\ type_remap' = [r \in DOMAIN type_remap \cup Replaced(tys) |->
                                   IF r \in Replaced(tys) THEN First(tys) ELSE type_remap[r]]
              /\ todo' = todo \ {n}
    /\ UNCHANGED <<loadvars, types, next, type_name_map, reply, status>>

Indexed ==
    /\ symtab = <<>> /\ next > Len(types) /\ todo = {} /\ status = "indexing"
    /\ status' = "ready"
    /\ UNCHANGED <<loadvars, indexvars, reply>>

-----------------------------------------------------------------------------
(* Lookups.  A type that was never populated is an empty one.               *)
Returns(op, arg, result) ==
    /\ status = "ready"
    /\ reply' = [op |-> op, arg |-> arg, result |-> result]
    /\ UNCHANGED <<loadvars, indexvars, status>>

get_type(r) == Returns("get_type", r, IF types[Remap(r)] = None THEN None ELSE Remap(r))

(* The size of a type; arrays have no length (dwarf_parse.rs:290).          *)
size_of_ref[r \in Refs] ==
    LET t == types[Remap(r)]
    IN  CASE t = None -> 0
          [] t # None /\ t.kind \in Composites \cup {"Primitive"} -> t.size
          [] t # None /\ t.kind = "Enum" -> 4
          [] t # None /\ t.kind \in Pointers -> 8
          [] t # None /\ t.kind = "Array" -> 0
          [] t # None /\ t.kind = "Alias" -> size_of_ref[t.to]
size_of(r) == Returns("size_of", r, size_of_ref[r])

ByName(n) == IF n \in DOMAIN type_name_map THEN Remap(First(type_name_map[n])) ELSE None
find_type_by_name(n) == Returns("find_type_by_name", n, ByName(Plain(n)))

Mutant_HoldsEnd(a, s, addr) == a <= addr /\ addr <= a + s.size
Holds(a, s, addr) == a <= addr /\ addr < a + s.size
Lowest(S) == CHOOSE a \in S : \A b \in S : a <= b
FirstOf(syms, matching) == syms[Lowest(matching)]

(* The lowest address with a symbol of the name, and its length.            *)
get_symbol(n) ==
    LET Named(a) == {k \in DOMAIN symbols[a] : symbols[a][k].name = n}
        at == {a \in DOMAIN symbols : Named(a) # {}}
    IN  Returns("get_symbol", n, IF at = {} THEN None
                                 ELSE <<Lowest(at), FirstOf(symbols[Lowest(at)], Named(Lowest(at))).size>>)

resolve_symbol(addr) ==
    LET Around(a) == {k \in DOMAIN symbols[a] : Holds(a, symbols[a][k], addr)}
        at == {a \in DOMAIN symbols : Around(a) # {}}
    IN  Returns("resolve_symbol", addr, IF at = {} THEN None
                                        ELSE <<FirstOf(symbols[Lowest(at)], Around(Lowest(at))).name, addr - Lowest(at)>>)

(* The symbol nearest to the address; the lower of two.                     *)
Distance(a, b) == IF a < b THEN b - a ELSE a - b
Nearest(addr) ==
    CHOOSE a \in DOMAIN symbols :
        \A b \in DOMAIN symbols : \/ Distance(a, addr) < Distance(b, addr)
                                  \/ Distance(a, addr) = Distance(b, addr) /\ a <= b
Vtables(a, addr) == {k \in DOMAIN symbols[a] : Holds(a, symbols[a][k], addr) /\ symbols[a][k].vtable_of # NoName}
IsVtable(a, addr) == Vtables(a, addr) # {}
VtableAt(a, addr) == FirstOf(symbols[a], Vtables(a, addr)).vtable_of
find_type_by_vtable(addr) ==
    IF DOMAIN symbols = {} \/ ~IsVtable(Nearest(addr), addr) THEN Returns("find_type_by_vtable", addr, None)
    ELSE /\ status = "ready"
         /\ LET n == Plain(VtableAt(Nearest(addr), addr))
            IN  IF n \in DOMAIN type_name_map THEN Returns("find_type_by_vtable", addr, ByName(n))
                ELSE status' = "panicked" /\ UNCHANGED <<loadvars, indexvars, reply>>

-----------------------------------------------------------------------------
Init ==
    /\ \E i \in Inputs : files = i.files /\ symtab = i.symtab /\ types = i.types
    /\ symbols = <<>> /\ next = 1 /\ type_name_map = <<>> /\ todo = {} /\ type_remap = <<>>
    /\ reply = None /\ status = "indexing"

Lookup ==
    \/ \E r \in Refs : get_type(r) \/ size_of(r)
    \/ \E n \in Names : find_type_by_name(n) \/ get_symbol(n)
    \/ \E addr \in Addrs : resolve_symbol(addr) \/ find_type_by_vtable(addr)
Next == AddSymbol \/ IndexType \/ ChooseCanonical \/ Indexed \/ Lookup
Spec == Init /\ [][Next]_vars

-----------------------------------------------------------------------------
TypeOK ==
    /\ files \in Seq(File) /\ types \in Seq(Type \cup {None}) /\ symtab \in Seq(Symbol)
    /\ \A k \in DOMAIN symtab : symtab[k].file \in DOMAIN files
    /\ DOMAIN symbols \subseteq Nat
    /\ \A a \in DOMAIN symbols : symbols[a] \in Seq(Symbol) \ {<<>>}
    /\ next \in 1..Len(types) + 1
    /\ \A n \in DOMAIN type_name_map : type_name_map[n] \in (SUBSET Refs) \ {{}}
    /\ todo \subseteq DOMAIN type_name_map
    /\ DOMAIN type_remap \subseteq Refs /\ \A r \in DOMAIN type_remap : type_remap[r] \in Refs
    /\ status \in {"indexing", "ready", "panicked"}

Populated == {r \in Refs : types[r] # None}
Alike(r) == {s \in Populated : fmt_type[s] = fmt_type[r]}

(* The map "to get fully-defined types for forward-declared/empty types"    *)
(* (dwarf.rs:62): a type of which any unit has the definition is never seen *)
(* as its declaration, whatever the order of the units.                     *)
FullyDefined ==
    status = "ready" => \A r \in Populated :
        (\E s \in Alike(r) : is_complete(s)) => is_complete(Remap(r))

(* All types of one name are one type: what is counted by name, as in       *)
(* enum_variant_counts, is measured by a single definition.                 *)
OneTypePerName ==
    status = "ready" => \A r \in Populated : \A s \in Alike(r) : Remap(s) = Remap(r)

(* A canonical pointer, alias or array leads where each that it replaces    *)
(* would have led, so a walk does not depend on the unit it came through.   *)
TargetsAgree ==
    status = "ready" => \A r \in Populated :
        LET t == types[r]  c == types[Remap(r)]
        IN  t.kind \in Linked => c.kind = t.kind /\ Remap(c.to) = Remap(t.to)

(* A type found by a vtable is the canonical one of the vtable that holds   *)
(* the address, so an object is never seen as another class.                *)
Asked(op) == status = "ready" /\ reply # None /\ reply.op = op
VtableIsDynamicType ==
    Asked("find_type_by_vtable") /\ reply.result # None =>
        \E a \in DOMAIN symbols : \E k \in DOMAIN symbols[a] :
            LET s == symbols[a][k]
            IN  /\ a <= reply.arg /\ reply.arg < a + s.size
                /\ reply.result \in Populated /\ fmt_type[reply.result] = Plain(s.vtable_of)
                /\ reply.result = Remap(reply.result)
=============================================================================
