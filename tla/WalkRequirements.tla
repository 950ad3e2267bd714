-------------------------- MODULE WalkRequirements --------------------------
(***************************************************************************)
(* What the walk of a dump is for, stated on the dump itself and apart     *)
(* from the handlers: which objects the requested variables keep alive,    *)
(* what the report should say of them, and when the program may stop       *)
(* short of it.                                                            *)
(***************************************************************************)
EXTENDS Walk, FiniteSetsExt

-----------------------------------------------------------------------------
(* What a reader expects of a walk.                                         *)

InRange(s) == {s[i] : i \in DOMAIN s}
Seen(c) == Info(c).view
SizeOf(c) == Info(Seen(c)).size
BufOf(c) == Info(Seen(c)).buf

(* What a visit of `c` follows, and which of it is claimed as an object.    *)
ItemKinds == {"CppVector", "CppMap", "CppUnorderedMap", "AllocVec", "HashbrownMap"}
PartCells(c) == {p.cell : p \in InRange(PartsOf(Seen(c)))}
Targets(c) == IF Info(Seen(c)).kind \in Owners \cup {"CppSharedPtr", "rc_ptr"}
                THEN {Info(Seen(c)).target, Info(Seen(c)).count} \ {Null} ELSE {}
Follows(c) == PartCells(c) \cup Targets(c)
Objects(c) == Targets(c) \cup (IF Info(Seen(c)).kind \in ItemKinds THEN PartCells(c) ELSE {})

\* The requested variables of the frames <<f, i>> : function f, request i.
Requested == {fi \in (DOMAIN dump.frames) \X (DOMAIN dump.args) :
                 dump.frames[fi[1]].sym = dump.args[fi[2]].fcn_name}
Local(fi) == dump.frames[fi[1]].local[dump.args[fi[2]].var_name]
Roots == {Local(fi) : fi \in Requested} \ {Null}

ASSUME CellsAssumption == IsFiniteSet(Cells)

\* As many rounds as there are cells reach all that can be reached.
ReachedFrom(S, next) ==
    LET grow[n \in Nat] ==
            IF n = 0 THEN S
            ELSE LET before == grow[n - 1]
                 IN before \cup UNION {next[c] : c \in before}
    IN grow[Cardinality(Cells)]
Reached == ReachedFrom(Roots, [c \in Cells |-> Follows(c)])

\* No read a visit of `c` makes ends like this.
NeverEnds(c, outcome) ==
    /\ Info(c).vptr => Info(c).readable # outcome
    /\ Info(Seen(c)).kind \notin {"prim", "struct"} => Info(Seen(c)).readable # outcome
    /\ Info(Seen(c)).buf.readable # outcome
    /\ \A p \in InRange(PartsOf(Seen(c))) : p.link # outcome
Readable(c) == NeverEnds(c, "err")

\* What a cell that cannot stop the program is like: no array; its type as
\* the handler expects it, with the item type, or the class its vtable names,
\* in the debug information and items that have a size; its words in order
\* and of no size that overflows; its nodes as many as it says; no read that
\* starts in an area and ends outside.
ByName == {"AllocVec", "HashbrownMap"}
BySize == {"CppVector", "AllocVec", "ThinVector"}
WellFormed(c) ==
    LET seen == Info(Seen(c))
    IN /\ seen.kind # "array"
       /\ seen.sound
       /\ seen.kind \in ByName => seen.named
       /\ Info(c).vptr => Info(c).named
       /\ seen.kind \in BySize => seen.sized
       /\ seen.sane /\ ~seen.overflows
       /\ seen.kind \in {"CppMap", "CppUnorderedMap"} => seen.len = Len(PartsOf(Seen(c)))
       /\ NeverEnds(c, "panic")

(* A tidy dump: everything can be read, each cell has one owner or only     *)
(* shared pointers to it, each requested variable is in one live frame and  *)
(* a cell of its own, an item held by value is of the type it is held as,   *)
(* and what is only followed once has an address of its own.                *)
\* The places <<d, i>> that own `c`: the i-th part of `d`, or (0) its pointer.
OwningPlaces(c, reached) ==
    {di \in UNION {{d} \X DOMAIN PartsOf(Seen(d)) : d \in reached} :
        PartsOf(Seen(di[1]))[di[2]].cell = c}
    \cup ({d \in reached : c \in Targets(d) /\ Info(Seen(d)).kind \in Owners} \X {0})
Sharers(c, reached) ==
    {d \in reached : c \in Targets(d) /\ Info(Seen(d)).kind \notin Owners}
SingleOwner(c, reached) ==
    LET owning == OwningPlaces(c, reached)
    IN owning # {} => /\ Sharers(c, reached) = {}
                      /\ \A p, q \in owning : p = q
\* What shared pointers lead to, and what only shares its address.
SharedKinds == {"CppSharedPtr", "rc_ptr"}
SharedTargets(reached) ==
    UNION {Targets(d) : d \in {d \in reached : Info(Seen(d)).kind \in SharedKinds}}
SeparateOnce(reached) ==
    LET objects == SharedTargets(reached)
        strings == {c \in reached : Info(Seen(c)).kind = "RcString"}
    IN /\ \A c, d \in objects : AddrOf(c) = AddrOf(d) => c = d
       /\ \A c \in objects, s \in strings : AddrOf(c) # BufOf(s).addr
       /\ \A s, t \in strings : BufOf(s).addr = BufOf(t).addr =>
             SizeOf(s) + BufOf(s).len = SizeOf(t) + BufOf(t).len
Tidy ==
    LET reached == Reached
        roots   == Roots
    IN
    /\ \A c \in reached : Readable(c) /\ WellFormed(c) /\ SingleOwner(c, reached)
    /\ roots \cap UNION {Follows(c) : c \in reached} = {}
    /\ \A f, g \in DOMAIN dump.frames :
          f # g /\ dump.frames[f].sym # Null => dump.frames[f].sym # dump.frames[g].sym
    /\ \A p, q \in Requested : p # q /\ Local(p) # Null => Local(p) # Local(q)
    /\ \A c \in reached : Info(Seen(c)).kind \in ItemKinds =>
          \A p \in PartCells(c) : Seen(p) = p
    /\ SeparateOnce(reached)

ExpectedObjects == UNION {Objects(c) : c \in Reached}

(* A walk that meets no error claims every object it should exactly once:   *)
(* what a pointer that is followed leads to and what a container holds, all *)
(* that can be reached from the requested variables, and nothing else       *)
(* (main.rs:474-478, 547, 559, 572, 597, 606).                              *)
EveryObjectOnce ==
    status = "reported" /\ Tidy =>
        LET expected == ExpectedObjects
        IN \A c \in Cells : claims[c] = IF c \in expected THEN 1 ELSE 0

(* The total of the report is the sum of the sizes of these objects, at     *)
(* their most derived type, and of the buffers of the strings reached; the  *)
(* bitmap is the union of their areas and of the unassociated ones          *)
(* (main.rs:217, 245-248).                                                  *)
StringKinds == {"CppString", "AllocString"}
LooseKinds == {"ThinVector", "RcString"}
HasBuffer(c) == /\ Info(Seen(c)).kind \in StringKinds
                /\ IF Info(Seen(c)).kind = "CppString" THEN BufOf(c).cap # 0
                                                      ELSE BufOf(c).addr # 0
LenOf(c) == BufOf(c).len
LooseArea(c) ==
    IF Info(Seen(c)).kind = "ThinVector" THEN Out!Atoms(BufOf(c).addr, BufOf(c).cap)
    ELSE IF BufOf(c).addr = 0 THEN {}
    ELSE Out!Atoms(BufOf(c).addr, SizeOf(c) + BufOf(c).len)
TotalIsSumOfObjects ==
    status = "reported" /\ Tidy =>
        LET reached == Reached
            objects == ExpectedObjects
            strings == {c \in reached : HasBuffer(c)}
            loose   == {c \in reached : Info(Seen(c)).kind \in LooseKinds}
        IN /\ usage[<<>>] = MapThenSumSet(SizeOf, objects) + MapThenSumSet(LenOf, strings)
           /\ used_memory =
                UNION ({Out!Atoms(AddrOf(c), SizeOf(c)) : c \in objects}
                       \cup {Out!Atoms(BufOf(c).addr, LenOf(c)) : c \in strings}
                       \cup {LooseArea(c) : c \in loose})

(* "enum counts" (main.rs:156-187): each union reached counts once, for the *)
(* variant it holds.                                                        *)
EnumKinds == {"MrTaggedUnion", "TaggedUnion"}
IsVariant(c, enm, variant) ==
    /\ Info(Seen(c)).kind \in EnumKinds
    /\ Info(Seen(c)).ty = enm /\ Info(Seen(c)).variant = variant
EnumCountsExact ==
    status = "reported" /\ Tidy =>
        LET reached == Reached
        IN \A enm \in Types, variant \in FieldNames :
              Out!Entry(enum_variant_counts, <<enm, Field(variant)>>)
                = Cardinality({c \in reached : IsVariant(c, enm, variant)})

(* The recursion of a walk never enters a cell that it has not left, so its *)
(* depth is bounded by the dump although shared pointers may form cycles.   *)
NoReentry ==
    (\E i, j \in DOMAIN stack : i # j /\ stack[i].cell = stack[j].cell) => ~Tidy

(* The walk comes to an end and the report is written, or the program has   *)
(* given up, whatever cycles the pointers run in that are followed once.    *)
(* Not so for a cycle of pointers that are followed every time: an Rc that  *)
(* leads back to its own object (main.rs:613) is followed until the native  *)
(* stack is full, so the objects must not own each other in a cycle.        *)
(* (What an iterator finds is a sequence here: that each of them ends is    *)
(* VisitEnds of module Containers.)                                         *)
OwnedBy(c) == PartCells(c) \cup (IF Info(Seen(c)).kind \in Owners THEN Targets(c) ELSE {})
OwnersAcyclic ==
    LET owned == [c \in Cells |-> OwnedBy(c)]
        \* Where chains of `n` owners end: nowhere, if they cannot be so long.
        chain[n \in Nat] == IF n = 0 THEN Cells ELSE UNION {owned[c] : c \in chain[n - 1]}
    IN chain[Cardinality(Cells)] = {}
Terminates == OwnersAcyclic => <>(status \in {"reported", "panicked"})

(* The walk panics only for a cell that can be reached and is not well      *)
(* formed - an array, a type its handler cannot use, items of an unknown    *)
(* type or of no size, words out of order or too large, a count the nodes   *)
(* do not match, a read across the end of an area - or a variable that      *)
(* cannot be found, and the report only because nothing at all was claimed. *)
(* (The arithmetic of the claims wraps, as in Output; a full native stack   *)
(* is not a panic.)                                                         *)
PanicsOnlyWithCause ==
    status = "panicked" =>
        \/ stack = <<>> /\ DOMAIN usage = {}
        \/ \E c \in Reached : ~WellFormed(c)
        \/ \E f \in DOMAIN dump.frames : \E i \in DOMAIN dump.args :
              /\ dump.frames[f].sym = dump.args[i].fcn_name
              /\ dump.frames[f].local[dump.args[i].var_name] = Null

-----------------------------------------------------------------------------
(* What comments in the source say and the code does not do.                *)

(* main.rs:515, 522: "this might be invalid - ignore errors".  If only      *)
(* targets of smart pointers cannot be read, everything that can be reached *)
(* without going through such a target is still claimed.                    *)
UnreadableTarget(c) ==
    /\ ~Readable(c)
    /\ \A d \in Reached : c \in Follows(d) =>
          Info(Seen(d)).kind \in {"CppUniquePtr", "CppSharedPtr"}
FollowsIgnoring(c) == {d \in Follows(c) : Readable(d)}
IgnoredErrorsLoseNothing ==
    status = "done" /\ (\A c \in Reached : Readable(c) \/ UnreadableTarget(c)) =>
        \A c \in ReachedFrom(Roots, [d \in Cells |-> FollowsIgnoring(d)]) :
            \A o \in Objects(c) : Readable(o) => claims[o] >= 1

(* main.rs:371: "any sort of shared pointer, not just `std::shared_ptr`".   *)
(* An object that only shared pointers of any sort lead to, Rc included, is *)
(* claimed at most once.                                                    *)
AnySharedPointerOnce ==
    \A c \in Cells :
        (\A d \in Reached : c \in Follows(d) =>
             Info(Seen(d)).kind \in {"CppSharedPtr", "rc_ptr", "AllocRc"})
          => claims[c] <= 1
=============================================================================
