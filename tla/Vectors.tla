------------------------------- MODULE Vectors -------------------------------
(***************************************************************************)
(* The contiguous containers in memory, and the handlers that visit or     *)
(* claim their items: std::vector and std::string of C++                   *)
(* (src/src/type_handlers/gnu_std_cxx.rs, 73-139), Vec and String of Rust  *)
(* (rust.rs, 33-105), ThinVector of mrustc (mrustc.rs, 89-126), and their  *)
(* loops in src/src/main.rs.  The program moves the items to another block *)
(* by writing one word after the other, and the dump may be taken between  *)
(* two of them.                                                            *)
(***************************************************************************)
EXTENDS Integers, Sequences, Functions

CONSTANTS
    ItemSizes,      \* the size_of(item_ty) a container of each kind may have
    Blocks,         \* addresses of blocks on the heap
    Capacities,     \* how many items a block may have been allocated for
    TornKinds,      \* the kinds whose dump may be taken inside an operation
    Texts,          \* what the first characters of a short std::string are as a word
    Inline,         \* the characters a std::string keeps in itself
    Limit,          \* 16 MiB
    OverflowChecks  \* the build panics on overflow

VARIABLES
    kind, size,
    known,              \* what the debug information knows of the items' type, see inner_size
    block, len, cap,    \* the program's items: where, how many, room for how many
    words, todo,        \* memory, and the words the program has yet to write
    begin, end, alloc_end, cursor,  \* the handler: the words it read, `a` of its loop
    lost,               \* the items that are not in the dump
    claims,             \* the areas claimed
    given, phase        \* as in Iteration, and "read", "failing", "failed", "panicked"

vars == <<kind, size, known, block, len, cap, words, todo, begin, end, alloc_end, cursor, lost, claims, given, phase>>
program == <<kind, size, known, block, len, cap, words, todo>>
handler == <<begin, end, alloc_end, cursor>>

Null == 0
Self == 8       \* where the container is
Chars == Self + 16

VectorsAssumption ==
    /\ DOMAIN ItemSizes \subseteq {"std::vector", "Vec", "ThinVector", "String", "std::string"}
    /\ \A k \in DOMAIN ItemSizes : ItemSizes[k] \subseteq Nat
    /\ Blocks \subseteq Nat /\ Capacities \subseteq Nat \ {0} /\ Texts \subseteq Nat
    /\ TornKinds \subseteq DOMAIN ItemSizes /\ {Inline, Limit} \subseteq Nat /\ OverflowChecks \in BOOLEAN
    \* the objects of C++ have a size, and characters have size 1,
    /\ \A k \in DOMAIN ItemSizes : 0 \in ItemSizes[k] => k = "Vec"
    /\ \A k \in DOMAIN ItemSizes : k \in {"String", "std::string"} => ItemSizes[k] = {1}
    \* and the heap is apart from the container.
    /\ \A k \in DOMAIN ItemSizes : \A s \in ItemSizes[k], b \in Blocks : b > Chars + 8 + 16 + s

-----------------------------------------------------------------------------
(* The program (external).                                                  *)
Dangling == 1
Nowhere(k) == CASE k \in {"Vec", "String"} -> Dangling
                [] k = "std::string" -> Chars
                [] OTHER -> Null
Room(k) == IF k = "std::string" THEN Inline ELSE 0
Items == {block + i * size : i \in 0..len - 1}

\* ThinVector: two words at the start of its allocation, before the items.
Metadata(b) == b - size * (CHOOSE n \in 1..16 : n * size >= 16 /\ (n - 1) * size < 16)

\* The words of a container, and the one at a.
Slots(k, b) ==
    {Self} \cup (IF k # "ThinVector" THEN {Self + 8, Self + 16}
                ELSE IF b = Null THEN {} ELSE {Metadata(b), Metadata(b) + 8})
Word(k, b, l, c, text, a) ==
    IF a = Self THEN b ELSE
    CASE k = "std::vector" -> IF a = Self + 8 THEN b + l * size ELSE b + c * size
      [] k \in {"Vec", "String"} -> IF a = Self + 8 THEN c ELSE l
      [] k = "std::string" -> IF a = Self + 8 THEN l ELSE IF b = Chars THEN text ELSE c
      [] k = "ThinVector" -> IF a = Metadata(b) THEN l ELSE c

\* The words at A are written.
Written(A, b, l, c, text) ==
    [a \in DOMAIN words \cup A |-> IF a \in A THEN Word(kind, b, l, c, text, a) ELSE words[a]]

\* The words an operation leaves for later; it has written the others.
Later(k) == CASE k = "std::vector" -> <<Self + 8, Self + 16>>
              [] k \in {"Vec", "String"} -> <<Self + 8>>
              [] k = "std::string" -> <<Chars>>
              [] OTHER -> <<>>

\* To a larger or smaller block, or to none.
Move ==
    /\ phase = "running" /\ todo = <<>>
    /\ \/ block' \in Blocks \ {block} /\ cap' \in {c \in Capacities : c > Room(kind)} /\ len <= cap'
       \/ len <= Room(kind) /\ block' = Nowhere(kind) /\ cap' = Room(kind)
    /\ todo' = IF block' \in Blocks THEN Later(kind) ELSE <<>>
    /\ \E text \in Texts : words' = Written(Slots(kind, block') \ Range(todo'), block', len, cap', text)
    /\ UNCHANGED <<kind, size, known, len, handler, lost, claims, given, phase>>

Push(l) ==
    /\ phase = "running" /\ todo = <<>>
    /\ l \in 0..cap /\ l \in {len + 1, len - 1}
    /\ len' = l
    /\ \E text \in Texts : words' = Written(Slots(kind, block), block, l, cap, text)
    /\ UNCHANGED <<kind, size, known, block, cap, todo, handler, lost, claims, given, phase>>

Write ==
    /\ phase = "running" /\ todo # <<>>
    /\ words' = Written({Head(todo)}, block, len, cap, 0)
    /\ todo' = Tail(todo)
    /\ UNCHANGED <<kind, size, known, block, len, cap, handler, lost, claims, given, phase>>

Program == Move \/ (\E l \in 0..cap : Push(l)) \/ Write

-----------------------------------------------------------------------------
(* The handlers: opt_read of each kind.                                     *)

\* An item, or the metadata of a ThinVector, may be missing.
Parts == (Items \ {Chars}) \cup (IF kind = "ThinVector" /\ block # Null THEN {Metadata(block)} ELSE {})
Dump ==
    /\ phase = "running" /\ (todo = <<>> \/ kind \in TornKinds)
    /\ \E l \in {{}} \cup {{a} : a \in Parts} : lost' = l

\* size_of(item_ty) is 0 for a class that is declared but defined in no unit.
inner_size == IF known THEN size ELSE 0

CppVector ==
    /\ kind = "std::vector"
    /\ begin' = words[Self] /\ end' = words[Self + 8] /\ alloc_end' = words[Self + 16]
    /\ phase' = "read"

\* find_type_by_name, of the name in the marker, panics when it finds nothing.
AllocVec ==
    /\ kind = "Vec"
    /\ phase' = IF known THEN "read" ELSE "panicked"
    /\ begin' = words[Self]
    /\ end' = words[Self] + words[Self + 16] * size
    /\ alloc_end' = words[Self] + words[Self + 8] * size

Read(a) == IF a \in DOMAIN words THEN words[a] ELSE 0    \* memory is zero where nothing was written
Mutant_RoundedDown == words[Self] - (16 \div size) * size
meta_addr == words[Self] - ((16 + (size - 1)) \div size) * size
ThinVector ==
    /\ kind = "ThinVector"
    /\ begin' = words[Self]
    /\ CASE words[Self] = Null -> phase' = "read" /\ end' = Null /\ alloc_end' = Null
         [] words[Self] # Null /\ inner_size = 0 -> phase' = "panicked" /\ UNCHANGED <<end, alloc_end>>
         [] words[Self] # Null /\ inner_size # 0 /\ meta_addr \in lost' ->
              phase' = "failing" /\ UNCHANGED <<end, alloc_end>>
         [] OTHER ->
              /\ phase' = "read"
              /\ end' = words[Self] + Read(meta_addr) * size /\ alloc_end' = words[Self] + Read(meta_addr + 8) * size

Mutant_PtrAfterCap ==
    /\ kind = "String"
    /\ begin' = words[Self + 8] /\ end' = words[Self] + words[Self + 16] /\ alloc_end' = words[Self] + words[Self + 8]
    /\ phase' = "read"
AllocString ==
    /\ kind = "String"
    /\ begin' = words[Self] /\ end' = words[Self] + words[Self + 16] /\ alloc_end' = words[Self] + words[Self + 8]
    /\ phase' = "read"
\* A capacity of zero stands for an inline string.
Mutant_AlwaysHeap == words[Chars]
capacity == IF words[Self] = Chars THEN 0 ELSE words[Chars]
CppString ==
    /\ kind = "std::string"
    /\ begin' = words[Self] /\ end' = words[Self] + words[Self + 8] /\ alloc_end' = words[Self] + capacity
    /\ phase' = "read"

opt_read ==
    /\ Dump
    /\ CppVector \/ AllocVec \/ ThinVector \/ AllocString \/ CppString
    /\ cursor' = begin'
    /\ UNCHANGED <<program, claims, given>>

-----------------------------------------------------------------------------
(* visit_type from there on.                                                *)
Ordered == begin <= end /\ end <= alloc_end
Overflows == OverflowChecks /\ (end < begin \/ alloc_end < begin)
Goto(p) == phase' = p /\ UNCHANGED <<program, handler, lost, claims, given>>

VisitVector ==
    /\ phase = "read" /\ kind = "std::vector"
    /\ Goto(CASE Overflows -> "panicked"
              [] ~Overflows /\ ~Ordered -> "over"
              [] OTHER -> IF inner_size = 0 THEN "panicked" ELSE "dumped")     \* the division by inner_size

Accepted == Ordered /\ size # 0     \* the assertion, and that of step_by
VisitVec ==
    /\ phase = "read" /\ kind = "Vec"
    /\ Goto(IF Accepted THEN "dumped" ELSE "panicked")

\* Its memory is claimed as one.
VisitThin ==
    /\ phase = "read" /\ kind = "ThinVector"
    /\ claims' = <<<<begin, alloc_end - begin>>>>
    /\ phase' = "dumped"
    /\ UNCHANGED <<program, handler, lost, given>>

\* The string is read, whatever its length, to be printed.
Mapped(a) == a = Chars \/ (a \in Blocks /\ lost = {})
Failing(a) == a # Null /\ ~Mapped(a)
Checked == alloc_end # begin => end <= alloc_end /\ alloc_end - begin < Limit
VisitString ==
    /\ phase = "read" /\ kind \in {"String", "std::string"}
    /\ \/ kind = "std::string" /\ ~Checked /\ Goto("panicked")
       \/ (kind = "std::string" => Checked) /\ Failing(begin) /\ Goto("failed")
       \/ /\ (kind = "std::string" => Checked) /\ ~Failing(begin)
          /\ claims' = IF kind = "String" \/ alloc_end # begin THEN Append(claims, <<begin, end - begin>>) ELSE claims
          /\ phase' = "over"
          /\ UNCHANGED <<program, handler, lost, given>>

More == cursor < end

\* One turn of the loop: the claim, unless the whole was claimed, and the visit.
Visit ==
    /\ phase = "dumped" /\ More
    /\ claims' = IF kind = "ThinVector" THEN claims ELSE Append(claims, <<cursor, size>>)
    /\ given' = Append(given, cursor)
    /\ cursor' = cursor + size
    /\ phase' \in IF cursor \in lost THEN {"failing"} ELSE IF cursor \in Items THEN {phase} ELSE {phase, "failing"}
    /\ UNCHANGED <<program, begin, end, alloc_end, lost>>

Err == phase = "failing" /\ Goto("failed")
Finish == phase = "dumped" /\ ~More /\ Goto("over")

Init ==
    /\ kind \in DOMAIN ItemSizes /\ size \in ItemSizes[kind]
    /\ block = Nowhere(kind) /\ len = 0 /\ cap = Room(kind) /\ todo = <<>>
    /\ words = [a \in Slots(kind, block) |-> Word(kind, block, 0, cap, 0, a)]
    /\ begin = 0 /\ end = 0 /\ alloc_end = 0 /\ cursor = 0
    /\ known \in BOOLEAN /\ lost = {} /\ claims = <<>> /\ given = <<>> /\ phase = "running"
Handler == VisitVector \/ VisitVec \/ VisitThin \/ VisitString \/ Visit \/ Err \/ Finish

-----------------------------------------------------------------------------
Whole == todo = <<>> /\ lost = {}

TypeOK ==
    /\ kind \in DOMAIN ItemSizes /\ size \in ItemSizes[kind] /\ known \in BOOLEAN
    /\ block \in Blocks \cup {Nowhere(kind)} /\ len \in 0..cap
    /\ words \in [DOMAIN words -> Nat] /\ todo \in Seq(Nat)
    /\ {begin, end, alloc_end} \subseteq Nat /\ (phase = "dumped" => cursor \in begin..alloc_end + size)
    /\ lost \subseteq Parts /\ claims \in Seq(Nat \X Nat) /\ given \in Seq(Nat)
    /\ phase \in {"running", "read", "dumped", "over", "failing", "failed", "panicked"}

(* The claims cover the bytes the container owns on the heap, each byte     *)
(* once: nothing for an inline string, whose bytes the claim of its owner   *)
(* covers, and of a ThinVector also the room it does not use.  A Vec or a   *)
(* String need not be between two operations: the word it has yet to write  *)
(* is its capacity, which no claim is made from.  Of a std::vector that is  *)
(* being moved other bytes are claimed, and of a std::string none.          *)
Bytes(a, n) == {a + k : k \in 0..n - 1}
Owned ==
    CASE block = Chars -> {}
      [] kind = "ThinVector" -> Bytes(block, cap * size)
      [] OTHER -> Bytes(block, len * size)
Settled == todo = <<>> \/ kind \in {"Vec", "String"}
EveryByteOnce ==
    phase = "over" /\ lost = {} /\ Settled =>
        /\ UNION {Bytes(claims[k][1], claims[k][2]) : k \in DOMAIN claims} = Owned
        /\ \A j, k \in DOMAIN claims :
              j < k => Bytes(claims[j][1], claims[j][2]) \cap Bytes(claims[k][1], claims[k][2]) = {}

(* What Iteration says of it.  The words of a std::vector that is being     *)
(* moved may belong to two blocks: whatever lies between is visited.        *)
Elements == IF kind \in {"String", "std::string"} THEN {} ELSE Items
Mixed == kind = "std::vector" /\ todo # <<>> /\ phase # "running"
Given == IF Mixed THEN <<>> ELSE given
Stage == CASE phase \in {"read", "failing", "panicked"} -> "dumped" [] phase = "failed" -> "over" [] OTHER -> phase

(* An unreadable part apart, and what lies between the blocks of a vector   *)
(* that is being moved, only a String without memory fails: its pointer is  *)
(* dangling, and reading no bytes there is an error.                        *)
FailsOnlyWithCause ==
    phase = "failed" => lost # {} \/ Mixed \/ (kind = "String" /\ block = Dangling)

(* The assertions hold in any dump, also of a Vec that is being moved, but  *)
(* for items of no size, for a std::string of 16 MiB, and for one that has  *)
(* just left its inline buffer; the differences that are printed overflow   *)
(* for a std::vector that is being moved.  And the items' type is looked    *)
(* up: one of a Vec that no entry has the name of, as no primitive type     *)
(* has, is a panic, and so is a division by the size of a class that is     *)
(* only declared (rust.rs:91, main.rs:544, mrustc.rs:108).  The lookups of  *)
(* the fields of the container itself are not modelled here but in Walk.    *)
PanicsOnlyWithCause ==
    phase = "panicked" =>
        \/ kind = "Vec" /\ (size = 0 \/ ~known)
        \/ kind = "std::vector" /\ ~known
        \/ kind = "ThinVector" /\ block # Null /\ ~known
        \/ kind = "std::string" /\ (cap >= Limit \/ todo # <<>>)
        \/ Mixed /\ OverflowChecks
=============================================================================
