-------------------------------- MODULE Walk --------------------------------
(***************************************************************************)
(* The walk of a dump: the loop over the call frames in `main` and the     *)
(* recursive `visit_type` with its type handlers (src/src/main.rs,         *)
(* src/src/type_handlers).  The native call stack is the variable `stack`; *)
(* a frame holds what its handler has left to do.  Each step of the module *)
(* is one read of the dump, one claim, one recursive call or one return,   *)
(* and an Err leaves the frames one by one, as `?` does.                   *)
(*                                                                         *)
(* A dump is abstracted to its cells: a cell is a typed place in memory,   *)
(* with what the debug information says of its type (size, parts) and what *)
(* a handler reads there (pointers, lengths, tags).                        *)
(***************************************************************************)
EXTENDS Naturals, Sequences, FiniteSets, Functions

CONSTANTS
    Cells,             \* typed places
    Null,              \* the null pointer, and "no variant"
    FieldNames,        \* names of fields, variables, functions and variants
    Types,             \* formatted type names
    Dumps,             \* the dumps (and command lines) considered
    COVERAGE_PER_BIT, PREFIX_LEVELS, U64   \* as in Output

VARIABLES
    dump,              \* the cells, the call frames and the command line
    stack,             \* the visit_type calls in progress, innermost last
    unwinding,         \* an Err is on its way up
    fr,                \* the call frame the loop of main has reached
    arg,               \* the requested variable its inner loop has reached
    visited,           \* the requested variables marked visited
    status,            \* "walking", "done", "reported" or "panicked"
    claims,            \* history: how often each cell was claimed
    entered,           \* history: the cells a handler was entered for
    usage, used_memory, shared_pointers, root_type_counts,
    enum_variant_counts, visited_bytes     \* the Output value

-----------------------------------------------------------------------------
(* PathNode                                                                 *)
Field(n) == <<"Field", n>>
Index(i) == <<"Index", i>>
Deref    == <<"Deref", 0>>
Node == ({"Field"} \X FieldNames) \cup ({"Index", "Parent"} \X Nat) \cup {Deref}
Path == Seq(Node) \ {<<>>}

is_root_or_deref(path) == path = <<>> \/ path[Len(path)] = Deref

Out == INSTANCE Output WITH Paths <- Path, Addrs <- Nat, Sizes <- Nat

outvars  == <<usage, used_memory, shared_pointers, root_type_counts,
              enum_variant_counts, visited_bytes>>
mainvars == <<dump, fr, arg, visited>>
vars     == <<dump, stack, unwinding, fr, arg, visited, status,
             claims, entered, outvars>>

-----------------------------------------------------------------------------
(* What a visit may find at a cell.                                         *)
Kinds == {"prim", "struct", "array", "pointer", "box",
          "CppString", "CppUniquePtr", "CppSharedPtr", "CppVector", "CppMap",
          "CppUnorderedMap", "AllocString", "AllocVec", "HashbrownMap", "AllocRc",
          "MrTaggedUnion", "ThinVector", "RcString", "rc_ptr", "unique_ptr",
          "TaggedUnion"}

(* How a read of the dump ends: the bytes, a ReadError where nothing is      *)
(* mapped, or the assertion that it stays in the area it starts in          *)
(* (elf.rs:162, 171, mrustc.rs:167 of core_dump).                           *)
Outcomes == {"ok", "err", "panic"}

Part   == [path : Seq(Node), cell : Cells,
           link : Outcomes]           \* how the handler gets to (or past) the part
Buffer == [addr : Nat, len : Nat, cap : Nat, readable : Outcomes]
CellInfo ==
    [kind : Kinds, addr : Nat, size : Nat, ty : Types,
     readable : Outcomes,             \* what the handler reads here
     sound    : BOOLEAN,              \* the fields, pointers and discriminants its
                                      \*   handler looks up are as it expects them
     named    : BOOLEAN,              \* the item type, or the class of the vtable, is
                                      \*   found by its name
     sized    : BOOLEAN,              \* the items have a size
     overflows : BOOLEAN,             \* the arithmetic on what was read overflows, in
                                      \*   a build that checks it
     vptr     : BOOLEAN,              \* the first field is a vtable pointer
     view     : Cells,                \* the cell seen at its most derived type
     parts    : Seq(Part),            \* fields, items, or the parts of a variant
     target   : Cells \cup {Null},    \* where a pointer points
     count    : Cells \cup {Null},    \* the control block of a shared_ptr
     len      : Nat,                  \* element count a map keeps
     sane     : BOOLEAN,              \* begin <= end <= alloc_end, len <= capacity
     buf      : Buffer,               \* the buffer of a string or ThinVector
     variant  : FieldNames \cup {Null},
     outer    : Nat]                  \* leading parts outside the variants

Info(c)   == dump.cells[c]
PartsOf(c) == Info(c).parts
AddrOf(c) == Info(c).addr

Call == [sym : FieldNames \cup {Null},              \* resolve_symbol(pc)
         local : [FieldNames -> Cells \cup {Null}]]  \* get_variable
Arg  == [fcn_name : FieldNames, var_name : FieldNames]
Dump == [cells : [Cells -> CellInfo], frames : Seq(Call), args : Seq(Arg)]

(* What the debug information and the handlers leave of a cell: only some   *)
(* kinds have parts, the path of a part ends in a field, an enum without a  *)
(* variant has its outer fields only, a control block is not what it counts,*)
(* and no read leads to a field (a parent that is not a struct, or the      *)
(* address of a field that overflows, panics: main.rs:724, 725, 742).       *)
FieldKinds == {"struct", "MrTaggedUnion", "TaggedUnion"}
PartKinds  == FieldKinds \cup {"CppVector", "CppMap", "CppUnorderedMap", "AllocVec",
                               "HashbrownMap", "ThinVector"}
Encoded(i) ==
    /\ i.outer <= Len(i.parts)
    /\ i.kind = "TaggedUnion" /\ i.variant = Null => i.outer = Len(i.parts)
    /\ i.parts # <<>> => i.kind \in PartKinds
    /\ i.kind \in FieldKinds =>
          \A k \in DOMAIN i.parts : ~is_root_or_deref(i.parts[k].path)
    /\ i.kind = "AllocRc" => i.target # Null
    /\ i.count # Null => i.kind = "CppSharedPtr" /\ i.count # i.target
    /\ i.kind \in FieldKinds =>
          \A k \in DOMAIN i.parts : i.parts[k].link \in {"ok", "panic"}

ASSUME WalkAssumption ==
    /\ Dumps \subseteq Dump
    /\ \A d \in Dumps :
          /\ d.frames # <<>>
          /\ \A c \in Cells : Encoded(d.cells[c])
    /\ Null \notin FieldNames \cup Cells
    /\ {"data", "refcount"} \subseteq FieldNames
    /\ COVERAGE_PER_BIT \in Nat \ {0}
    /\ PREFIX_LEVELS \in Nat \ {0}
    /\ U64 \in Nat \ {0}

(* One thing a handler does, in the order of its code.                      *)
Read(ok)                     == [op |-> "read", ok |-> ok]
ClaimItem(path, c)           == [op |-> "claim", path |-> path, cell |-> c]
Visit(path, c)               == [op |-> "visit", path |-> path, cell |-> c]
VisitOnce(path, c)           == [op |-> "once", path |-> path, cell |-> c]
Raw(path, addr, size, assoc) == [op |-> "raw", path |-> path, addr |-> addr,
                                 size |-> size, assoc |-> assoc]
RawOnce(path, addr, size)    == [op |-> "rawonce", path |-> path, addr |-> addr, size |-> size]
Count(enm, variant)          == [op |-> "count", enm |-> enm, variant |-> variant]
Panic                        == [op |-> "panic"]

When(cond, steps) == IF cond THEN steps ELSE <<>>

(* Visit some of the parts of a cell, each at its own path.                 *)
VisitPart(part, path) ==
    IF part.link = "panic" THEN Panic ELSE Visit(path \o part.path, part.cell)
VisitParts(c, path, first, last) ==
    [k \in 1 .. (IF first <= last THEN last - first + 1 ELSE 0) |->
        VisitPart(PartsOf(c)[first + k - 1], path)]

(* Containers of values: claim the item, then visit it (claim is explicit,  *)
(* for the path of an item does not end in a deref).                        *)
ItemPath(path, i) == Append(path, Index(i - 1))
Items(c, path) ==
    [k \in 1 .. 2 * Len(PartsOf(c)) |->
        LET i == (k + 1) \div 2
        IN IF k % 2 = 1 THEN ClaimItem(ItemPath(path, i), PartsOf(c)[i].cell)
                        ELSE Visit(ItemPath(path, i), PartsOf(c)[i].cell)]

(* Linked containers: the links of a node are read after its item.          *)
LinkedItems(c, path, n) ==
    [k \in 1 .. 3 * n |->
        LET i == (k + 2) \div 3
        IN IF k % 3 = 1 THEN ClaimItem(ItemPath(path, i), PartsOf(c)[i].cell)
           ELSE IF k % 3 = 2 THEN Visit(ItemPath(path, i), PartsOf(c)[i].cell)
           ELSE Read(PartsOf(c)[i].link)]

-----------------------------------------------------------------------------
(* The handlers.  Each opens with the `opt_read` of its type, which reads    *)
(* the words it needs and panics where a lookup fails or the sizes cannot   *)
(* be computed (rust.rs:88-95, 132-139, main.rs:538, 544, 596,              *)
(* mrustc.rs:108, visit_helpers.rs:112, 118).                               *)
NoSuchItems(i) ==
    \/ i.kind = "AllocVec" /\ ~(i.named /\ i.sized)
    \/ i.kind = "CppVector" /\ i.sane /\ ~i.sized
    \/ i.kind = "ThinVector" /\ i.buf.addr # 0 /\ ~i.sized
Panics(i) ==
    \/ ~i.sound
    \/ i.kind = "HashbrownMap" /\ ~i.named
    \/ i.readable = "ok" /\ (i.overflows \/ NoSuchItems(i))
Opening(c) == IF Panics(Info(c)) THEN "panic" ELSE Info(c).readable

(* std::string: an inline buffer was claimed with the string itself.        *)
CppStringSteps(c, path) ==
    <<Read(Opening(c))>>
    \o When(~Info(c).sane, <<Panic>>)
    \o When(Info(c).buf.addr # 0, <<Read(Info(c).buf.readable)>>)
    \o When(Info(c).buf.cap # 0,
            <<Raw(Append(path, Deref), Info(c).buf.addr, Info(c).buf.len, TRUE)>>)

(* std::unique_ptr, mrustc's unique_ptr types and Box: visit the target,    *)
(* and let its Err through.                                                 *)
OwnerSteps(c, path) ==
    <<Read(Opening(c))>>
    \o When(Info(c).target # Null, <<Visit(Append(path, Deref), Info(c).target)>>)
CppUniquePtrSteps(c, path) == OwnerSteps(c, path)
unique_ptrSteps(c, path) == OwnerSteps(c, path)
PointerSteps(c, path) ==
    IF Info(c).kind = "box" THEN OwnerSteps(c, path) ELSE <<Read(Opening(c))>>

(* std::shared_ptr: the target and the control block, each followed once.   *)
CppSharedPtrSteps(c, path) ==
    <<Read(Opening(c))>>
    \o When(Info(c).target # Null,
            <<VisitOnce(path \o <<Field("data"), Deref>>, Info(c).target)>>)
    \o When(Info(c).count # Null,
            <<VisitOnce(path \o <<Field("refcount"), Deref>>, Info(c).count)>>)

(* mrustc's reference-counted pointers.                                     *)
Mutant_rc_ptrNotOnce(c, path) == OwnerSteps(c, path)
rc_ptrSteps(c, path) ==
    <<Read(Opening(c))>>
    \o When(Info(c).target # Null, <<VisitOnce(Append(path, Deref), Info(c).target)>>)

(* Rc: never null, and followed every time.                                 *)
AllocRcSteps(c, path) ==
    <<Read(Opening(c)), Visit(Append(path, Deref), Info(c).target)>>

CppVectorSteps(c, path) ==
    <<Read(Opening(c))>> \o When(Info(c).sane, Items(c, path))
AllocVecSteps(c, path) ==
    <<Read(Opening(c))>> \o (IF Info(c).sane THEN Items(c, path) ELSE <<Panic>>)

(* std::map: node_count steps along the tree, which may end early.          *)
CppMapSteps(c, path) ==
    LET found == Len(PartsOf(c))
    IN <<Read(Opening(c))>>
       \o (IF Info(c).len <= found
             THEN LinkedItems(c, path, Info(c).len)
             ELSE LinkedItems(c, path, found) \o <<Panic>>)

(* std::unordered_map: along the list to its end; the progress tracker      *)
(* asserts that the index does not pass element_count.                      *)
Mutant_ProgressTooStrict(c, path) ==
    LET found == Len(PartsOf(c))
    IN <<Read(Opening(c))>>
       \o (IF found < Info(c).len
             THEN LinkedItems(c, path, found)
             ELSE LinkedItems(c, path, found) \o <<Panic>>)
CppUnorderedMapSteps(c, path) ==
    LET found == Len(PartsOf(c))
    IN <<Read(Opening(c))>>
       \o (IF found <= Info(c).len + 1
             THEN LinkedItems(c, path, found)
             ELSE LinkedItems(c, path, Info(c).len + 1) \o <<Panic>>)

(* hashbrown: the parts are the populated buckets; `link` tells how the     *)
(* control bytes up to the bucket's own are read, and `buf` how those after *)
(* the last.                                                                *)
HashbrownMapSteps(c, path) ==
    <<Read(Opening(c))>>
    \o [k \in 1 .. 3 * Len(PartsOf(c)) |->
          LET i == (k + 2) \div 3
          IN IF k % 3 = 1 THEN Read(PartsOf(c)[i].link)
             ELSE IF k % 3 = 2 THEN ClaimItem(ItemPath(path, i), PartsOf(c)[i].cell)
             ELSE Visit(ItemPath(path, i), PartsOf(c)[i].cell)]
    \o <<Read(Info(c).buf.readable)>>

AllocStringSteps(c, path) ==
    <<Read(Opening(c))>>
    \o When(Info(c).buf.addr # 0,
            <<Read(Info(c).buf.readable),
              Raw(Append(path, Deref), Info(c).buf.addr, Info(c).buf.len, TRUE)>>)

(* ThinVector: the metadata before the items is read, the whole allocation  *)
(* is claimed, unassociated, and the items are only visited.                *)
ThinVectorSteps(c, path) ==
    <<Read(Opening(c))>>
    \o When(Info(c).buf.addr # 0, <<Read(Info(c).buf.readable)>>)
    \o <<Raw(path, Info(c).buf.addr, Info(c).buf.cap, FALSE)>>
    \o [i \in 1 .. Len(PartsOf(c)) |-> Visit(ItemPath(path, i), PartsOf(c)[i].cell)]

(* RcString: header and characters, unassociated and once; `buf` tells how  *)
(* is_valid and the reads of the size and of the characters end.            *)
RcStringSteps(c, path) ==
    <<Read(Opening(c))>>
    \o When(Info(c).buf.addr # 0,
            <<Read(Info(c).buf.readable),
              RawOnce(path, Info(c).buf.addr, Info(c).size + Info(c).buf.len)>>)

(* mrustc TAGGED_UNION: the current variant is the first part, if any.      *)
MrTaggedUnionSteps(c, path) ==
    <<Read(Opening(c))>>
    \o When(Info(c).variant # Null, <<Count(Info(c).ty, Field(Info(c).variant))>>)
    \o VisitParts(c, path, 1, Len(PartsOf(c)))

(* Rust enum: outer fields, then the discriminant, then the variant.        *)
Mutant_VariantCountedTwice(c, path) ==
    VisitParts(c, path, 1, Info(c).outer)
    \o <<Read(Opening(c))>>
    \o When(Info(c).variant # Null,
            <<Count(Info(c).ty, Field(Info(c).variant)), Count(Info(c).ty, Field(Info(c).variant))>>
            \o VisitParts(c, path, Info(c).outer + 1, Len(PartsOf(c))))
TaggedUnionSteps(c, path) ==
    VisitParts(c, path, 1, Info(c).outer)
    \o <<Read(Opening(c))>>
    \o When(Info(c).variant # Null,
            <<Count(Info(c).ty, Field(Info(c).variant))>>
            \o VisitParts(c, path, Info(c).outer + 1, Len(PartsOf(c))))

(* The fallback: the fields of the parents and of the type itself, in order *)
(* and without vtable pointers (visit_ct_inner).                            *)
StructSteps(c, path) == VisitParts(c, path, 1, Len(PartsOf(c)))

Steps(c, path) ==
    CASE Info(c).kind = "CppString"       -> CppStringSteps(c, path)
      [] Info(c).kind = "CppUniquePtr"    -> CppUniquePtrSteps(c, path)
      [] Info(c).kind = "CppSharedPtr"    -> CppSharedPtrSteps(c, path)
      [] Info(c).kind = "CppVector"       -> CppVectorSteps(c, path)
      [] Info(c).kind = "CppMap"          -> CppMapSteps(c, path)
      [] Info(c).kind = "CppUnorderedMap" -> CppUnorderedMapSteps(c, path)
      [] Info(c).kind = "AllocString"     -> AllocStringSteps(c, path)
      [] Info(c).kind = "AllocVec"        -> AllocVecSteps(c, path)
      [] Info(c).kind = "HashbrownMap"    -> HashbrownMapSteps(c, path)
      [] Info(c).kind = "AllocRc"         -> AllocRcSteps(c, path)
      [] Info(c).kind = "MrTaggedUnion"   -> MrTaggedUnionSteps(c, path)
      [] Info(c).kind = "ThinVector"      -> ThinVectorSteps(c, path)
      [] Info(c).kind = "RcString"        -> RcStringSteps(c, path)
      [] Info(c).kind = "rc_ptr"          -> rc_ptrSteps(c, path)
      [] Info(c).kind = "unique_ptr"      -> unique_ptrSteps(c, path)
      [] Info(c).kind = "struct"          -> StructSteps(c, path)
      [] Info(c).kind = "TaggedUnion"     -> TaggedUnionSteps(c, path)
      [] Info(c).kind \in {"pointer", "box"} -> PointerSteps(c, path)
      [] Info(c).kind = "array"           -> <<Panic>>
      [] OTHER                            -> <<>>

-----------------------------------------------------------------------------
(* Calls, returns and errors.                                               *)

Top  == stack[Len(stack)]
Pop  == SubSeq(stack, 1, Len(stack) - 1)
Rest == [stack EXCEPT ![Len(stack)].todo = Tail(@)]
Push(calls, c, path) ==
    Append(calls, [cell |-> c, todo |-> Steps(Info(c).view, path)])

At(op) ==
    /\ status = "walking" /\ ~unwinding /\ stack # <<>>
    /\ Top.todo # <<>> /\ Head(Top.todo).op = op
Step == Head(Top.todo)

(* The type of a virtual object cannot be told: read_ptr(..)? fails, or     *)
(* find_type_by_vtable panics (no class of the name of the vtable, a name   *)
(* that cannot be demangled), before anything is claimed.                   *)
VtableOutcome(c) == IF Info(c).readable = "ok" /\ ~Info(c).named THEN "panic"
                    ELSE Info(c).readable
NoVtable(c) == Info(c).vptr /\ VtableOutcome(c) # "ok"

(* Going on after a read: with an Err up the calls, or not at all.          *)
After(outcome, calls) ==
    /\ unwinding' = (outcome = "err" /\ calls # <<>>)
    /\ status' = IF outcome = "panic" THEN "panicked" ELSE status

Claimed(c) == [claims EXCEPT ![c] = @ + 1]

(* visit_type up to its `match`: find the dynamic type, and claim the whole *)
(* of it when it was reached through a pointer.                             *)
Mutant_ClaimWhateverThePath(calls, path, c) ==
    /\ After("ok", calls)
    /\ stack' = Push(calls, c, path)
    /\ entered' = entered \cup {c}
    /\ Out!Claim(path, AddrOf(c), Info(Info(c).view).ty, Info(Info(c).view).size)
    /\ claims' = Claimed(c)
Mutant_ClaimStaticType(calls, path, c) ==
    /\ After("ok", calls)
    /\ stack' = Push(calls, c, path)
    /\ entered' = entered \cup {c}
    /\ IF is_root_or_deref(path)
         THEN /\ Out!Claim(path, AddrOf(c), Info(c).ty, Info(c).size)
              /\ claims' = Claimed(c)
         ELSE UNCHANGED <<outvars, claims>>
visit_type(calls, path, c) ==
    IF NoVtable(c)
      THEN /\ stack' = calls
           /\ After(VtableOutcome(c), calls)
           /\ UNCHANGED <<outvars, claims, entered>>
      ELSE /\ stack' = Push(calls, c, path)
           /\ After("ok", calls)
           /\ entered' = entered \cup {c}
           /\ IF is_root_or_deref(path)
                THEN /\ Out!Claim(path, AddrOf(c), Info(Info(c).view).ty, Info(Info(c).view).size)
                     /\ claims' = Claimed(c)
                ELSE UNCHANGED <<outvars, claims>>

(* The same behind `shared_pointers.insert(..)`.                            *)
Mutant_NotRemembered(calls, path, c) ==
    /\ stack' = Push(calls, c, path)
    /\ After("ok", calls)
    /\ entered' = entered \cup {c}
    /\ Out!Claim(path, AddrOf(c), Info(Info(c).view).ty, Info(Info(c).view).size)
    /\ claims' = Claimed(c)
visit_shared(calls, path, c) ==
    IF NoVtable(c)
      THEN /\ stack' = calls
           /\ After(VtableOutcome(c), calls)
           /\ Out!InsertShared(AddrOf(c))
           /\ UNCHANGED <<claims, entered>>
      ELSE /\ stack' = Push(calls, c, path)
           /\ After("ok", calls)
           /\ entered' = entered \cup {c}
           /\ Out!InsertAndClaim(path, AddrOf(c), Info(Info(c).view).ty, Info(Info(c).view).size)
           /\ claims' = Claimed(c)

-----------------------------------------------------------------------------
(* One step of the handler on top of the stack.                             *)

ReadStep ==
    /\ At("read")
    /\ stack' = Rest
    /\ After(Step.ok, Rest)
    /\ UNCHANGED <<mainvars, claims, entered, outvars>>

ClaimStep ==
    /\ At("claim")
    /\ stack' = Rest
    /\ Out!Claim(Step.path, AddrOf(Step.cell), Info(Step.cell).ty, Info(Step.cell).size)
    /\ claims' = Claimed(Step.cell)
    /\ UNCHANGED <<mainvars, status, unwinding, entered>>

RawStep ==
    /\ At("raw")
    /\ stack' = Rest
    /\ Out!ClaimRaw(Step.path, Step.addr, Step.size, Step.assoc)
    /\ UNCHANGED <<mainvars, status, unwinding, claims, entered>>

RawOnceStep ==
    /\ At("rawonce")
    /\ stack' = Rest
    /\ IF Step.addr \in shared_pointers
         THEN UNCHANGED outvars
         ELSE Out!InsertAndClaimRaw(Step.path, Step.addr, Step.size)
    /\ UNCHANGED <<mainvars, status, unwinding, claims, entered>>

CountStep ==
    /\ At("count")
    /\ stack' = Rest
    /\ Out!CountVariant(Step.enm, Step.variant)
    /\ UNCHANGED <<mainvars, status, unwinding, claims, entered>>

VisitStep ==
    /\ At("visit")
    /\ visit_type(Rest, Step.path, Step.cell)
    /\ UNCHANGED mainvars

(* A shared pointer that was seen before is skipped.                        *)
VisitOnceStep ==
    /\ At("once")
    /\ IF AddrOf(Step.cell) \in shared_pointers
         THEN stack' = Rest /\ UNCHANGED <<unwinding, status, claims, entered, outvars>>
         ELSE visit_shared(Rest, Step.path, Step.cell)
    /\ UNCHANGED mainvars

PanicStep ==
    /\ At("panic")
    /\ status' = "panicked"
    /\ UNCHANGED <<mainvars, stack, unwinding, claims, entered, outvars>>

(* A handler is through: back to its caller.                                *)
Return ==
    /\ status = "walking" /\ ~unwinding /\ stack # <<>> /\ Top.todo = <<>>
    /\ stack' = Pop
    /\ UNCHANGED <<mainvars, status, unwinding, claims, entered, outvars>>

(* `?` in the caller: the rest of its handler is given up as well, up to    *)
(* main, which drops the Err.                                               *)
Propagate ==
    /\ status = "walking" /\ unwinding
    /\ stack' = Pop
    /\ unwinding' = (Len(stack) > 1)
    /\ UNCHANGED <<mainvars, status, claims, entered, outvars>>

-----------------------------------------------------------------------------
(* The loops of main.                                                       *)

InMain == status = "walking" /\ ~unwinding /\ stack = <<>>
Frame  == dump.frames[fr]
Wanted == dump.args[arg]
AllVisited == visited = DOMAIN dump.args
ArgsLeft == Frame.sym # Null /\ arg <= Len(dump.args)

(* The function of this frame has a requested variable: visit it.           *)
VisitVariable ==
    /\ InMain /\ ArgsLeft
    /\ Wanted.fcn_name = Frame.sym
    /\ Frame.local[Wanted.var_name] # Null
    /\ visit_type(<<>>, <<Field(Wanted.var_name)>>, Frame.local[Wanted.var_name])
    /\ visited' = visited \cup {arg}
    /\ arg' = arg + 1
    /\ UNCHANGED <<dump, fr>>

(* get_variable panics when the function has no such variable or no place   *)
(* in memory for it.                                                        *)
NoSuchVariable ==
    /\ InMain /\ ArgsLeft
    /\ Wanted.fcn_name = Frame.sym
    /\ Frame.local[Wanted.var_name] = Null
    /\ status' = "panicked"
    /\ UNCHANGED <<mainvars, stack, unwinding, claims, entered, outvars>>

SkipVariable ==
    /\ InMain /\ ArgsLeft
    /\ Wanted.fcn_name # Frame.sym
    /\ arg' = arg + 1
    /\ UNCHANGED <<dump, fr, visited, stack, unwinding, status, claims, entered, outvars>>

(* On to the caller, unless everything was found or there is no caller.     *)
Mutant_StayInFrame ==
    /\ InMain /\ ~ArgsLeft
    /\ IF (Frame.sym # Null /\ AllVisited) \/ fr = Len(dump.frames)
         THEN status' = "done" /\ UNCHANGED <<fr, arg>>
         ELSE fr' = fr /\ arg' = 1 /\ UNCHANGED status
    /\ UNCHANGED <<dump, visited, stack, unwinding, claims, entered, outvars>>
NextFrame ==
    /\ InMain /\ ~ArgsLeft
    /\ IF (Frame.sym # Null /\ AllVisited) \/ fr = Len(dump.frames)
         THEN status' = "done" /\ UNCHANGED <<fr, arg>>
         ELSE fr' = fr + 1 /\ arg' = 1 /\ UNCHANGED status
    /\ UNCHANGED <<dump, visited, stack, unwinding, claims, entered, outvars>>

(* write_output indexes the usage of the empty path.                        *)
Report ==
    /\ status = "done"
    /\ status' = IF <<>> \in DOMAIN usage THEN "reported" ELSE "panicked"
    /\ UNCHANGED <<mainvars, stack, unwinding, claims, entered, outvars>>

-----------------------------------------------------------------------------
Init ==
    /\ dump \in Dumps
    /\ stack = <<>> /\ unwinding = FALSE
    /\ fr = 1 /\ arg = 1 /\ visited = {} /\ status = "walking"
    /\ claims = [c \in Cells |-> 0] /\ entered = {}
    /\ Out!Init

Handler == ReadStep \/ ClaimStep \/ RawStep \/ RawOnceStep \/ CountStep
             \/ VisitStep \/ VisitOnceStep \/ PanicStep \/ Return \/ Propagate
Main == VisitVariable \/ NoSuchVariable \/ SkipVariable \/ NextFrame \/ Report

Next == Handler \/ Main

Spec == Init /\ [][Next]_vars

(* The program is one thread that runs whenever it can.                     *)
FairSpec == Spec /\ WF_vars(Next)

-----------------------------------------------------------------------------
StepType ==
    [op : {"read"}, ok : Outcomes]
    \cup [op : {"claim", "visit", "once"}, path : Path, cell : Cells]
    \cup [op : {"raw"}, path : Path, addr : Nat, size : Nat, assoc : BOOLEAN]
    \cup [op : {"rawonce"}, path : Path, addr : Nat, size : Nat]
    \cup [op : {"count"}, enm : Types, variant : Node]
    \cup [op : {"panic"}]

(* Types of the walk's own state (main.rs:115-146, 450).                    *)
TypeOK ==
    /\ stack \in Seq([cell : Cells, todo : Seq(StepType)])
    /\ unwinding \in BOOLEAN
    /\ fr \in DOMAIN dump.frames
    /\ arg \in 1 .. Len(dump.args) + 1
    /\ visited \subseteq DOMAIN dump.args
    /\ status \in {"walking", "done", "reported", "panicked"}
    /\ claims \in [Cells -> Nat]
    /\ entered \subseteq Cells
    /\ shared_pointers \subseteq Nat

(* The cells nothing leads to but pointers that are followed once: not a    *)
(* part of another cell, not a local, and not the target of an owner.       *)
Owners == {"CppUniquePtr", "unique_ptr", "box", "AllocRc"}
OnlyShared(c) ==
    /\ \A f \in DOMAIN dump.frames : \A n \in FieldNames : dump.frames[f].local[n] # c
    /\ \A d \in Cells : Info(d).kind \in Owners => Info(d).target # c
    /\ \A d \in Cells : \A i \in DOMAIN PartsOf(d) : PartsOf(d)[i].cell # c
SharedOnly == {c \in Cells : OnlyShared(c)}

(* An object that only shared pointers lead to is claimed at most once,     *)
(* however many of them there are, in whatever cycles they run, in however  *)
(* many frames and variables the walk meets them, and whatever reads fail   *)
(* on the way (main.rs:371, 523, 526, 677).                                 *)
SharedClaimedOnce ==
    \A c \in Cells : claims[c] # 0 /\ OnlyShared(c) =>
        claims[c] = 1 /\ AddrOf(c) \in shared_pointers
=============================================================================
