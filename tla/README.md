# Verification of memory-analyser

memory-analyser takes the memory dump of a stopped process, finds some variables of
its call frames, and walks the memory they lead to, type by type, to say how much
memory belongs to what. This directory holds TLA+ models of that program, TLC
configurations that check them on small instances, and theorems checked by TLAPS.
Paths below are relative to `src/src/`.

## 1. Inventory

| Part | Source | State | Operations |
|---|---|---|---|
| Output | `main.rs:309-448` | `usage`, `used_memory`, `shared_pointers`, `root_type_counts`, `enum_variant_counts`, `progress::VISITED_BYTES` | `claim`, `claim_raw`, `mark_area`, `calculate_usage`, insertions into the set and the counts |
| Walk | `main.rs:110-146`, `450-848` | the native stack of `visit_type` calls, the call frame and the requested variable reached, `visited` flags | visit of a type by each handler, return, `?`, next variable, next frame, report |
| Type handlers | `type_handlers/*.rs` | cursors: `CppMapNode`, `CppUnorderedMapNode`, the control bytes of hashbrown | `opt_read` of 14 library types, `next` |
| mrustc dump | `core_dump/mrustc.rs:1-208` | memory ranges with their first stored chunk, modules, offsets of the chunks | `open`, `read_bytes`, `is_valid` |
| Chunk cache | `core_dump/mrustc.rs:210-260` | entries with offset, last use and bytes; the count of uses | `new`, `with_chunk` |
| ELF dump | `core_dump/elf.rs` | segments, modules, threads | `open`, `read_bytes`, `is_valid` |
| CoreDump | `core_dump.rs` | which of the two | dispatch, `read_ptr` and the like |
| DebugPool: types | `debug_info.rs`, `debug_info/dwarf.rs` | `types`, `type_lookup`, `type_name_map`, `type_remap` | `index_types`, `get_type`, `size_of`, `find_type_by_vtable` |
| DebugPool: code | `debug_info/dwarf.rs` | `functions`, `symbols`, the unwind tables | `resolve_symbol`, `get_caller`, `get_variable` |
| DWARF parser | `debug_info/dwarf/dwarf_parse.rs` | the stack of open entries | push by tag, pop by depth |
| Progress | `main.rs:870-957` | nested trackers, fractions | `new`, `update`, drop |
| Command line, report | `main.rs:62-95`, `148-254` | none | parsing, formatting |

Interactions. `main` opens the dump, loads the debug information of the modules the
dump names, and unwinds thread 0 frame by frame; in a frame whose function was asked
for, it locates the variable and calls `visit_type`. `visit_type` asks `DebugPool` for
types, reads pointers through `CoreDump` (for an mrustc dump through the chunk cache),
records claims in `Output`, and calls itself. At the end `write_output` prints the
`Output` value. There is one thread and nothing is persisted: the hard behaviours are
not interleavings of this program or its crashes but

* recursion over an arbitrary graph: sharing, cycles, and errors that leave the
  recursion halfway;
* tables that must agree with each other, filled by many handlers;
* positions computed without an index (chunks of a dump, nodes of a tree);
* a cache at its limit, and reads that cross from one chunk to the next;
* input that no test produces: dumps with missing pages, malformed containers, and a
  program that was stopped in the middle of an operation on a container;
* debug information in orders and shapes that depend on the compiler: types before and
  after they are used, defined in another unit, entries nested in any depth.

What makes each part correct:

* Output: usage is what `du` would print; coverage is the union of the claims; the
  progress counter and the report agree; the table can be printed as a tree.
* Walk: each object is claimed exactly once and with its dynamic type; errors lose no
  more than they must; it ends unless owners form a cycle; it panics only for a reason.
* Dumps of both formats: a read of mapped memory gives the bytes of its address, a read
  outside is an error; what the program that wrote the dump stored is accepted; modules
  are where they were loaded, registers are numbered as DWARF does.
* Cache: it returns what the file holds, and drops only the least recently used.
* Parser: what is recorded is what the entries describe, whatever their order and nesting;
  each reference is to the type it names; what compilers write is accepted.
* Type index: the types of one name become one type, a defined one if there is one, and
  a vtable leads to the type of its object.
* Frames: each has the registers of a caller of the one before, they end, and a variable
  is found where its activation has it.
* Handlers: whatever the program did before the dump, each item is visited once, each
  byte of a container is claimed once, and the right variant of an enum is found.

`PROJECT.json` lists each hazard with its line and the properties that cover it.

## 2. Modules

```
Output  <---- Walk <---- WalkRequirements <---- MCGraphs, MCGallery   (with MCDumps)
  ^                        ^                        ^        ^
OutputLog               WalkProofs ----> OutputProofs   MCWalk
  ^
MCOutput, OutputProofs
ChunkCache <---- MrustcDump <---- MCMrustcDump
  ^                ^    |
MCChunkCache       |    v
                   |  Memory <---- ElfDump <---- MCElfDump, ElfDumpProofs
   MrustcDumpProofs ----> ChunkCacheProofs
DieParser <---- MCDieParser, DieParserProofs
DebugIndex <---- MCDebugIndex, DebugPoolProofs
Backtrace <---- StackWalk <---- MCStackWalk, DebugPoolProofs
Iteration, HashbrownMap, UnorderedMap, Vectors, Variants
   ^
Containers <---- MCContainers, ContainersProofs
   |
   v
RbTree
```

Memory, Backtrace and Iteration are abstract specifications: what any dump, the loop over
the frames, and the handler of any container promise. The modules on the other end of
their arrows are shown to implement them.

**Output** has a variable per table, named as in the source, and an action operator per
operation (`Claim`, `ClaimRaw`, `InsertShared`, `CountVariant`, and the two places where
the code inserts and claims at once). Addresses wrap at `U64`. `AddTo` is the idiom
`*map.entry(k).or_default() += n`. `used_memory` is the set of bits; the tree of vectors
that holds them is an encoding of that set. **OutputLog** is Output with the history of
what was claimed, which says what the tables should hold.

**Walk** instantiates Output and uses its operators inside its own steps. The native
stack is the variable `stack`; a frame holds the list of what its handler has left to do
(`Read`, `ClaimItem`, `Visit`, `VisitOnce`, `Raw`, `RawOnce`, `Count`, `Panic`), so each
step of the specification is one read, claim, call or return, and an `Err` pops frames
one by one (`Propagate`) as `?` does. There is one `...Steps` operator per handler of
`visit_type`, in the order of the source. `VisitVariable`, `NoSuchVariable`,
`SkipVariable` and `NextFrame` are the two loops of `main`; `Report` is the indexing
`output.usage[&vec![]]` that panics when nothing was claimed.

A dump is abstracted to cells. A cell is a typed place: its kind (which handler takes
it), address, size and formatted type, whether what the handler reads there is mapped,
and what it finds: parts, target, control block, length, buffer, variant. `view` is the
cell at the most derived type, which is how the vtable lookup appears. A read has one of
three `Outcomes`: the bytes, an `Err`, or the assertion that it does not leave its area. The
outcome is one per cell because a handler reads its own value before it does anything else;
the places it reads later (string buffers, links of a list, control bytes) have one of their
own, and an object with a vtable whose pointer cannot be read fails before it is claimed.
What a handler asks the debug information is there as well, since an answer it does not
expect is a panic: `sound` (the fields, pointers and discriminants it looks up), `named` (the
type of the items of a `Vec` or `HashMap`, or the class a vtable belongs to, is found by its
name), `sized` (the items have a size to divide by) and `overflows` (in a build that checks
arithmetic). `Panics` is what a handler makes of them before it does anything
(`Opening`), `VtableOutcome` what `find_type_by_vtable` does. A part whose `link` is a panic
is a parent that is not a struct, or a field past the end of the address space.
What is read never changes: the process is stopped. `Encoded` says what the debug
information and the handlers leave of a cell: only structs, unions and containers have
parts, and the path of a field does not end in a deref. `claims` (how often each cell was
claimed) and `entered` (the cells a handler was entered for) are history variables.

**WalkRequirements** states what a walk is for on the dump alone, without the handlers:
which cells are reachable from the places requested (`ReachedFrom`, in rounds as long as
anything new is found), which of them are objects, which are `WellFormed` (nothing about them
can make the program panic), what is *tidy*, and the properties below.
A dump is tidy when everything in it can be read and is well formed, every object has one
owner or only shared pointers, each requested variable is a place of its own, in one frame
and inside no other, and what is followed only once has an address of its own
(`SeparateOnce`: `shared_pointers` holds addresses, so two objects at one address are one
to it). The items of a container are of the type it holds: they are claimed as that type
and not, like what a pointer leads to, as the most derived one.

**ChunkCache** is `ChunkCache::with_chunk` as one action: hit or eviction, refill, stamp.
`file` is the dump; `stamp` is a history variable.

**MrustcDump** loads one range per step (`LoadRange`), ends with the assertion on the
number of chunks (`FinishLoading`), and answers reads. A read that crosses a chunk takes
two steps with the two calls of `with_chunk`. A byte of memory *is* its address, so a
wrong byte shows where it came from. The writer's side (`WrittenChunks`, `Rank`,
`DumpFile`) is external: every chunk some mapping touches, in order of address, as the
comment at the top of the file says. Its instance of ChunkCache is the cache of this file.

**RbTree** is `CppMap::opt_read`, `CppMapNode::next` and the loop of `visit_type` over it:
`Open`, `Item`, and the four branches of `next`. The nodes of a tree are named by the rank
of their keys, so a correct iteration is 1, 2, 3, ... `WellFormed` says what a search tree
is; colours and balance play no part in `next` and are absent. `node_count` is at most one
more than the nodes, since libstdc++ counts an item last when it inserts and when it erases
one: an item that is being erased is still counted.

**Memory** says what `CoreDump` promises its callers: `areas` that hold bytes, and the
reply to `read_bytes` and `is_valid`. Nothing is promised of a read that leaves what is
stored of an area, since both formats have a panic or another answer there.

**ElfDump** is `elf.rs`: `open` turns the segments into ranges and then takes the notes
in their order (`NT_FILE` entry by entry, threads with their registers, and the `todo!`s),
and `read_bytes`, `is_valid` with the assertion and the end of the file. A dump is a
record of segments (with the part of each that is stored) and notes.

**DieParser** is the loop of `dwarf_parse.rs` over the entries of a unit: one action per
kind of entry and kind of scope, one per way a scope ends, with the stack, `type_lookup`,
the types and functions recorded and each panic over what is missing. Entries are named
by position, names by the sequence of their parts. What the entries *describe* is defined
on the tree of entries alone (`DescribedType`, `DescribedFunction`, ...), and the properties
compare the two. The PC values of a function or a block are computed twice: `PcRange` is
`get_pc_range` of the code, which compares `high_pc` with `low_pc`, and `RealRange` reads the
form of the attribute (`is_length`), the pairs of a list from the base each counts from, and
the `low_pc` of the unit. `Tellable` says where the code has enough to tell the forms
apart, and `Recordable` adds that variables of one name have one type; they are conditions
of `RecordedFunctions` and nothing of `PcRange` is in what it expects.

**DebugIndex** is `dwarf.rs:74-214`: symbols with the load address, `index_types` name by
name, and the lookups. A formatted name is a value that says how it is composed, so two
types have one name exactly when the formatter writes the same.

**StackWalk** is the loop of `main` over the frames with `get_unwind`, `get_caller`,
`get_variable` and `evaluate_position`; `VisitVariable` is where the walk of a variable
would run. A process is a stack in words with registers and unwind rows. **Backtrace** is
the same loop over the activations the process really has. MCStackWalk derives both from
a list of calls, so the rows of the tables and the truth are independent; `WellCompiled`
says how the two agree.

**Iteration** has the addresses of the elements (`items`), whether all of the container
is in the dump (`whole`), and the addresses visited.

**HashbrownMap** and **UnorderedMap** hold the words of the table or list, the program's
operations on them (external), the moment of the dump, and the handler: a turn of the
loop of `next` per step. **Vectors** does so for the five contiguous containers; `words`
is memory, `todo` what an operation has yet to write, and `TornKinds` the kinds whose
dump may be taken with something left in `todo`: a block is written word by word, also the
one a vector is being moved to. `known` is what the debug information knows of the type of
the items: without it the lookup of a `Vec` finds nothing and a C++ class has size 0, as one
that is only declared does (`dwarf_parse.rs:294`); HashbrownMap has the same for its lookup. ThinVector's metadata, std::string's
inline buffer and the dangling pointer of an empty `Vec` or `String` are as the libraries
lay them out.

**Variants** has an enum (the value of each variant, the width of the discriminant), the
bytes the program stored, and the search of `find_variant` or of the tag. `smallest` says
which forms the producer of the debug information chooses.

**Containers** puts a container of any of these kinds, or an enum, in memory and gives it to
its handler, as the sequence of `opt_read` calls in `visit_type` does: `Program` is the
program until the dump is taken, `Analyse` a step of the handler. It maps the four that
have elements to Iteration.

## 3. Runs

| Run | Module | Shows |
|---|---|---|
| `output` | MCOutput | all sequences of three operations |
| `walk` | MCWalk | every graph of a variable with two pointers to two objects with a pointer each, cycles of owners apart; every handler, each place damaged and each lookup failing in turn, several stacks and command lines |
| `chunk_cache` | MCChunkCache | three entries, five chunks, seven calls |
| `mrustc_dump` | MCMrustcDump | every placement of one to three ranges in four chunks |
| `elf_dump` | MCElfDump | every placement of up to three segments in five bytes, with any part stored; every order of up to three notes |
| `die_parser` | MCDieParser | every unit of a few entries of three families: scopes, types, enums; a declaration, a function and a block with every form of range |
| `debug_index` | MCDebugIndex | every pool of up to four types, every layout of two and of three symbols |
| `stack_walk` | MCStackWalk | stacks of up to five calls with recursion, missing rows, lost words |
| `containers` | MCContainers | every tree of up to five items with any nodes missing and any count; every history of small hash tables, lists and contiguous containers up to the dump, of types that are found or not; every small enum |
| `ignored_errors`, `rc_twice` | MCWalk | end in a violation: section 5 |
| `nested_function` | MCDieParser | ends in a violation: section 5 |

Properties.

* `output`: `UsageIsDu` compares the table with sums over a log of the claims;
  `CoverageIsUnionOfClaims` compares the bitmap with their areas;
  `ProgressAgreesWithReport` and `ReportIsATree` are described in the module.
* `walk`: `SharedClaimedOnce`, `EveryObjectOnce`, `NoReentry`, `TotalIsSumOfObjects`,
  `EnumCountsExact`, `PanicsOnlyWithCause` and the liveness property `Terminates`, which
  promises nothing where owners, an `Rc` included, own each other in a cycle
  (`OwnersAcyclic`): the code follows it until the native stack is full.
* `chunk_cache`: `DeliversTheFile`, `NoChunkTwice`, `KeepsMostRecent`.
* `mrustc_dump`: `NeverRejected` and the refinement `ImplementsMemory`.
* `elf_dump`: `ModulesAtLowest`, `AnonMeansNoFile`, `NumberedByDwarf`, `ImplementsMemory`.
* `die_parser`: `RecordedTypes` and `RecordedFunctions` (what is recorded is what the tree
  describes), `TypesAreTheirs`, and `PanicsOnlyWithCause` (the forms that are not supported,
  `Unsupported`, are read off the tree too). `RecordedFunctions` is about functions with code
  that are the last entry of their name to end, not nested with another, and `Recordable`.
* `debug_index`: `FullyDefined`, `OneTypePerName`, `TargetsAgree`, `VtableIsDynamicType`.
* `stack_walk`: `FramesAreCallers`, the refinement `ImplementsBacktrace`, and `Unwinds`
  (liveness).
* `containers`: `InKeyOrder` (trees), `ClaimsAreExact`, `StopsOnlyWithCause`,
  `VariantFound`, the refinement `ImplementsIteration`, and `VisitEnds` (liveness). The first
  and the last say what becomes of a count that is one too many: the header comes after all
  items, and of an empty tree for ever (`Endless`). `ClaimsAreExact` is about containers that
  are whole in the dump, and inside an operation only about a `Vec` or a `String`: a
  `std::vector` that is being moved may have bytes of two blocks claimed.

The type invariants of `chunk_cache`, `stack_walk` and `containers` are checked as well; all
type invariants are proved, see section 4.

Bounds, and why they are enough.

* MCOutput: four bytes per bit, a prefix limit of 2, paths of up to 3 nodes, so the limit
  cuts a path; addresses on both sides of the boundary of an atom and one whose area ends
  within an atom of the end of the address space, so the sum wraps; a size of zero.
  `MaxOps = 3` lets two claims overlap and a third one follow; the proofs cover any number.
* MCWalk, graphs: two objects are enough for sharing, for self-reference and for a cycle of two;
  the pointers are unique, shared, mrustc's counted ones or, between the objects, `Rc`s; one
  object is virtual, and one pointer and the vtable may be unreadable. Graphs in which owners
  tie a cycle are left out: `Terminates` excludes them, and their stack grows without end.
* MCWalk, gallery: one value of each handled type, with two items where there are items, so the
  second is reached through the code that follows the first. Damage is one place at a time,
  since the first error ends the walk of the variable: a read that fails or asserts, words out
  of order with and without overflow, a count that is off, a type, a field or a class that is
  not found, items without a size.
* MCChunkCache: one chunk more than fits twice; seven calls fill the cache and evict each
  slot. Offsets are arbitrary numbers other than 0.
* MCMrustcDump: chunks of two bytes and reads of one or two, so a read may cross; ranges
  that share a chunk, touch, leave a gap of less or more than a chunk, start and end on a
  boundary or not. The cache has one entry, which makes every change of chunk a miss
  (ChunkCache is checked on its own). Address 0 is never mapped, as under Linux.
  `MaxUses = 2` chunks asked for: a split read, or a read after an eviction.
* MCContainers, trees: with five items there are trees in which the increment goes up three levels
  and down two, roots without a right child, and single nodes.
* MCElfDump: three segments give one between two others; a stored part of any length,
  none and all included; two files, so entries of one lie between those of the other.
* MCDieParser: four scopes reach a function in a type in a function in a namespace; three
  types refer to each other in every order; five entries make an enum with two variants
  and a discriminant in either place. Ranges are addresses, lengths above and below `low_pc`,
  lists with and without a base, and none, in units with and without a `low_pc`. The unit is
  read after one with the same names and
  offsets, so that state that leaks from unit to unit would show.
* MCDebugIndex: a name with two declarations and two definitions, and pointers to each;
  symbols that touch, overlap or leave a gap, and a vtable shorter than the distance to
  its neighbour's start. Four types are what one name with a pointer to each side needs.
* MCStackWalk: five calls allow a recursive function inside another; functions with and
  without frame pointer, a library without unwind tables, and each word of the stack lost.
* MCContainers, hash tables: a table grows from two buckets to four and back; the smallest table
  keeps a bucket empty, so removed and reused buckets occur from two keys on. Tags are
  one full value, deleted and empty, since the handler looks at the top bit only. The
  empty group is not dumped: the case in which it is differs only in `ReadError`.
* MCContainers, lists: in a list of four, a node goes in at the front, in the middle and at
  the end; `Count` apart from `Insert` and `Erase` makes the count one too many or few.
* MCContainers, contiguous: item sizes of 6, 8 and 24 bytes put the metadata of a
  ThinVector in three items, two and one; capacities on both sides of `Limit`; a first word
  of characters that is zero, small and over the limit. Two blocks are what a move needs.
* MCContainers, enums: with bytes of two values a discriminant of two bytes has values that
  fit one byte and values that do not; three variants are one before and one after a match.

Deadlock is checked in `die_parser` only, where the end of the parse is a step of its own
and everything before it must have a successor. The others stop for good reasons: the walk
after its report, the loader after a rejected dump, the bounded runs at their bound.

Fairness. The program is one thread without blocking calls, so it keeps taking steps as
long as it has one. Walk and StackWalk assume weak fairness of `Next` (`FairSpec`), for
`Terminates` and `Unwinds`. Containers assumes it of `Analyse` alone, for `VisitEnds`: the
program that was dumped may stop at any time, the handler may not.

## 4. Proofs

TLAPS checks these for all values of the constants, that is for every dump, chunk size,
cache, tree, unit of debug information and sequence of claims, under the named assumptions
of each module.

| Module | Theorems | Argument |
|---|---|---|
| OutputProofs | `OutputUsageIsDu`, `OutputCoverage` | The tables are functions of the log: a claim adds its size to exactly the paths that are prefixes of its own, and its atoms to the bitmap, for a log of any length. |
| OutputProofs | `OutputTypeOK`, `UsageTableIsATree`, `ProgressIsCoverage` | The invariant adds that the bitmap is finite, so that counting what a claim adds and counting the bits give the same number. Each operation adds one size to a prefix-closed set of paths, so parents keep up with children. |
| WalkProofs | `WalkTypeOK`, `SharedOnce` | Every step still to do in any frame of the stack is *safe*: a plain visit or claim is never for a cell that only shared pointers lead to. Each handler yields safe steps, tails of safe lists are safe, and such a cell is claimed only together with its insertion into `shared_pointers`, from which nothing is ever removed. |
| WalkProofs | `WalkPanicsOnlyWithCause` | A step is safe in its cell also in that it panics only when the cell is not `WellFormed`: each list of steps has a panic, or a read that may, only where the lookups, the sizes, the order of the words or the outcomes of the reads say so. The cells of all frames are reachable: the ones requested are, and each call is for an owned or a shared target of a reachable cell. |
| WalkProofs | `WalkNoReentry` | In a tidy dump a cell has one way in. The frames of the stack are a path, so a cell entered twice would give a cycle of owners, or two owners; a shared object was inserted when it was entered and is not entered again. |
| WalkProofs | `WalkEveryObjectOnce` | What a handler has to do is a set of *events*: a claim of each item, a visit of each part and target, a claim of each buffer, a count. Each handler's steps do the events of its cell, each once (`TopDoes`, from a lemma per handler). An event is *done* when its cell was entered and no frame has it left, so each step of the program does one event of one cell (`Did`, `Moves`). The invariant `Progress`: what a cell owns is entered exactly when its visit is done, what shared pointers lead to when any of them is done, `shared_pointers` has exactly these addresses, and the loops of main have entered the variables they have passed. So the objects claimed are those of the events done (`ClaimsExact`), and at the report everything is done and, being closed under what cells follow, everything reachable was entered (`AllDone`). |
| WalkProofs | `WalkTotalIsSum`, `WalkEnumCountsExact` | On top of `Progress`, each step adds one object, one string buffer or one unassociated area, or nothing, to the total and to the bitmap (`TotalGrows`); an `RcString` that is skipped shares its buffer with one that was marked. A sum over a set of cells is the number of its units, which says that the order the fold takes does not matter (`FoldedIsSum`). |
| WalkProofs | `WalkImplementsOutput`, `WalkReportIsATree` | Step simulation under the instance `Out`: each action of the walk is one operation of Output or leaves its variables alone. The properties proved of Output then hold of the walk. |
| ChunkCacheProofs | `CacheTypeOK`, `CacheNoChunkTwice`, `CacheDelivers`, `CacheKeepsMostRecent` | Each entry holds what its offset says and was last used when the history says; stamps are in the past; the victim is the minimum. |
| MrustcDumpProofs | `DumpNeverRejected`, `DumpFirstChunks` | The loader's invariant: `n_chunks` is the rank of `last_v_chunk`, that is the number of stored chunks below the chunk the last range ended in. It survives a range because the ranges ascend and, in a range, no chunk is missing between two. |
| MrustcDumpProofs | `DumpReadsMemory`, `DumpTypeOK` | The index computed for a mapped address is the rank of its chunk; the invariants of ChunkCacheProofs hold of the instance; between the halves of a split read, the first half is already right. |
| MrustcDumpProofs | `DumpImplementsMemory` | The same invariants under the mapping to Memory: loading is a stutter, a reply is the reply Memory allows, and what `is_valid` says of an area that one range holds is true. |
| ElfDumpProofs | `ElfTypeOK`, `ElfModulesAtLowest`, `ElfAnonMeansNoFile`, `ElfNumberedByDwarf`, `ElfImplementsMemory` | The ranges are the segments taken so far, in their order, and the notes taken so far determine the modules and which ranges are anonymous: each note changes them from the one set to the next. For Memory, the offset of a mapped address in the file lies in what its segment stores. |
| DieParserProofs | `ParserTypeOK`, `ParserTypesAreTheirs` | The stack has a frame for each open scope, of a kind that may stand on the one below, so each write into the frame below finds what it unwraps. `type_lookup` only grows and is injective, and what is recorded under a TypeRef comes from its entry: the frame remembers which. |
| DieParserProofs | `ParserRecordsTypes`, `ParserRecordsFunctions`, `ParserPanicsOnlyWithCause` | The invariant `Found` says how far the recorded is from the described: the open scopes are the entries before the next one that none of them has closed, one frame for each depth (`Shape`); a frame holds, in the order of the file, the members, bases, aliases, variants or variables among its children already read and, of nested scopes, those that have ended (`FramesHold`); a type or function whose scope has ended has its whole record (`TypesHold`, `FunctionsHold`). Reading one entry adds it at the end of exactly one list, or of none; ending a scope changes no list but its parent's. The refs in a list stay right because `type_lookup` only grows. The records of functions are first shown to be those the code's own ranges give (`FoundFunctions`); where the ranges are `Tellable`, these are the real ones (`TellableRange`, `ReadIsDescribed`). |
| DebugPoolProofs | `IndexTypeOK`, `IndexOneTypePerName`, `IndexFullyDefined` | Names still to be taken keep exactly their own types; a name that was taken has all its types mapped to its first in the order, which is a complete one if there is any. |
| DebugPoolProofs | `IndexTargetsAgree`, `IndexVtableIsDynamicType` | A formatted name is built from its target's, and two unlike ways of building give unlike names, so types of one name have targets of one name. The symbol found for a vtable is the nearest start at or below the address, and it covers it. |
| DebugPoolProofs | `StackWalkTypeOK`, `StackFramesAreCallers` | The frame reached is an activation of the chain as long as there is one, with its registers: the row of its PC restores those of the next. What follows the outermost call has PC 0 and no symbol. |
| DebugPoolProofs | `StackImplementsBacktrace` | Step simulation with the activations in the place of the frames: a lookup that fails only does so where Backtrace may stop. |
| ContainersProofs | `MapInKeyOrder`, `MapNeverNil`, `ContainersInKeyOrder` | The keys below a node form an interval. Going down, the interval of the current node starts with what comes next; going up, it ends with what came last; past the root, the iterator stands on the header and everything was visited. |
| ContainersProofs | `ContainersTypeOK`, `ContainersClaimsAreExact`, `ContainersStopOnlyWithCause`, `ContainersVariantFound` | An invariant per kind: the program keeps its table, list or vector well formed between operations, and in the middle of one what is left in `todo` says how far it is; the handler has claimed what lies before its cursor. For enums, the bytes before the position compared agree with the value of no earlier variant. |
| ContainersProofs | `ContainersImplementIteration` | Step simulation for the five kinds together: the items visited are the elements below the cursor, which the invariants above know. |

Assumptions that come from outside the code:

* `OutputAssumption`: no claim is made for the root path; `WalkAssumption`: a dump has a
  frame, and its cells are `Encoded`, so an `Rc` is never null; `CellsAssumption`: a dump has finitely many cells.
* `DumpAssumption`: the mappings are disjoint and ascending, as in `/proc/self/maps`, and
  reads are not longer than a chunk; `CacheAssumption`: offset 0 of the file is not a chunk;
  `ElfAssumption`: segments are disjoint and the stored part of each is in the file.
* `DwarfsAssumption`: the entries of a unit are the depth-first walk of a tree below one
  unit entry; its `NoneAssumption`: the absence of variants is not a list of variants.
* `InputsAssumption`: a type refers to types of the pool, from a declaration one comes to a
  type with a name (`DeclarationsEnd`: otherwise formatting it would not end), and named
  pointer types of one name have targets of one name (`NamedByTarget`); `NoneAssumption`
  and `AddrsAssumption` are types.
* `RegistersAssumption`, `TablesAssumption`: the rows name registers there are, and nothing
  is at address 0; `ProcessesAssumption`: where there is a row it says where the
  registers of the caller are, and where a function is described, so are its variables.
* `TreeAssumption` (libstdc++ keeps a search tree), the initial condition of RbTree that
  `node_count` is at most one more than the number of nodes, and `ContainersAssumption`, the conjunction of
  what the modules of the containers say of their sizes and addresses: a table is large
  enough for its buckets and apart from the empty group, null is not a node, the heap is
  apart from the container, only a `Vec` has items of no size, values of an enum are distinct
  and fit its width.

Only model-checked: the liveness properties `Terminates`, `Unwinds` and `VisitEnds`, which
are out of the prover's reach, as is ENABLED. Every safety property of a passing run, every
type invariant and every refinement is proved.

Induction over the data, where an argument needed it (reachability in a dump, rounds of a
search, the length of a chain, the cells of a sum), is done by taking the least
counterexample.

## 5. Where code and comments disagree

Shown by a run:

* `main.rs:516, 524, 528`: the comments above say "ignore errors", but `let _ = ..?`
  returns them. An unreadable target ends the visit of the whole variable
  (`IgnoredErrorsLoseNothing`).
* `main.rs:613`: `shared_pointers` is documented as "any sort of shared pointer"
  (`main.rs:371`), but an `Rc` is followed every time (`AnySharedPointerOnce`).
* `debug_info/dwarf/dwarf_parse.rs:456`: "Get the current function" (line 455), but the
  variable goes to the outermost open function (`VariablesOfCurrentFunction`).

Visible in the models, where a property, or an assumption, states the condition under which
the code is right:

* `main.rs:475`: "or is the root" (line 474), but the walk starts one node below the root,
  so the requested variable itself is never claimed. `EveryObjectOnce` is about what pointers
  lead to and what containers hold (`Objects`).
* `main.rs:613`: a cycle of `Rc`s is followed until the native stack is full. `Terminates` has
  the condition `OwnersAcyclic`; the run has no such cycle, for it has infinitely many states.
* `core_dump/mrustc.rs:187`: a read that starts in a range and ends outside it is Ok, with
  bytes of another address, while `is_valid` asserts that away (line 167). `core_dump/elf.rs:23`:
  so is a read past the stored part of a segment, since `p_filesz` is ignored. Memory
  therefore promises nothing of reads that leave what is stored.
* `dwarf_parse.rs:201`: `DW_AT_high_pc` is taken for an address whenever it is not below
  `low_pc`, also where it is a length, and for a length whenever it is below.
  `RecordedFunctions` is about functions whose ranges are `Tellable`, which says just that;
  the run has lengths on both sides of `low_pc`, and the range expected is the real one.
* `dwarf_parse.rs:213`: offsets in a list without a base count from the `low_pc` of the unit,
  and the code counts them from the load address (`Tellable` again). Line 201 also gives a
  function with a `low_pc` alone an empty range; it would be one address.
* `dwarf_parse.rs:464`: the variables of one name in a function have the type of the first
  of them (`Recordable`). Line 117: functions are keyed by name, so what ends last, a
  declaration included, replaces what was recorded (`LastOf` in `RecordedFunctions`).
* `dwarf_parse.rs:113`: a scope is recorded when a later entry pops it, so the last one of a
  unit is lost. `RecordedTypes` and `RecordedFunctions` are about scopes that end (`Closed`).
* `dwarf.rs:190`: the vtable is searched by the nearest start of a symbol, so the vtable of a
  small class next to another symbol is not found; what is found is right
  (`VtableIsDynamicType`). When it is found and no type has the name of its class, the lookup
  panics (line 200): a cause listed in Walk's `PanicsOnlyWithCause`.
* `dwarf.rs:348`: the scope of a variable is looked up at the return address, which is past
  the end of a block that ends with a call. `ProcessesAssumption` has the address in the block.
* `main.rs:538`: the differences that are printed before the test for a malformed vector
  overflow for the very vectors it is for. `StopsOnlyWithCause` lists that as a cause, as it
  lists `main.rs:544` and `mrustc.rs:108`, which divide by the size of the items: 0 for a
  class that is only declared (`dwarf_parse.rs:294`).
* `rust.rs:91-94` and `135-138` panic when `find_type_by_name` does not find the items' type,
  which is always so for a `Vec` of a primitive: it is indexed under its name and its bits
  (`dwarf.rs:407`). That the lookup finds nothing is the cause `known` of
  `StopsOnlyWithCause`, and `named` of the walk; why it does is in no property.
* `main.rs:773`: `find_variant` compares as many bytes as the form of the value has, not as
  many as the discriminant has, so the variants of a producer that chooses small forms may
  be confused. `VariantFound` excuses a variant found by such a value.
* `gnu_std_cxx.rs:172`: libstdc++ lowers the count of a tree after it has unlinked the node,
  so in a dump taken between the two the loop takes the header for an item, after the others;
  when it was the last one, the loop looks for the next item in the header for ever.
  `InKeyOrder` holds of such a tree, `VisitEnds` excludes the second case (`Endless`), and
  `ImplementsIteration` says nothing of it.

Which no property depends on:

* `dwarf.rs:163`: types with one formatted name are "equivalent" (line 64), but anonymous
  types are named after their offset in their unit, so two different ones may be taken for
  one. `OneTypePerName` holds of them too.
* `dwarf.rs:127`: every file is taken to be position-independent; the lowest address computed
  at line 79 is not used. In the models every file is.

## 6. Not modelled, and why

* Formatting, sorting and parsing of the command line: sequential text handling. The
  waste computed from variant sizes is part of it.
* The levels and fractions of nested progress trackers: they feed a display whose drawing
  the source has disabled (a return at the top of `redraw`); the counter and the assertion
  are modelled.
* Decompression, the magic number, and the register dump of mrustc files; the choice between
  the two formats; malformed notes of ELF: byte parsing without state.
* The field offsets the handlers look up by name: they belong to versions of libraries. That
  such a lookup panics is in Walk (`sound`), not in Containers, whose fields are found. The
  smart pointers and `RcString`, which are one or two reads each, are in Walk as the cells
  they lead to.
* The decoding of unwind tables, location expressions and attributes, which is gimli's, and
  the forms of them that the code rejects with `todo!`.
* The union members of debug information (the code does not recurse into them) and
  arrays (a `todo!`, modelled as a panic).

## 7. Plan

Done, in this order, since a wrong total is the worst this program can do and the dump is
what all of it rests on: Output, Walk with its requirements, ChunkCache, MrustcDump, RbTree;
Memory and ElfDump; DieParser; DebugIndex; Backtrace and StackWalk; Iteration and the
other containers.

The safety properties and refinements of all components are proved. What could follow:

* the walk of dumps that are not tidy: which objects are claimed when the first error ends
  the visit of a variable halfway;
* the condition `Tellable` (section 5) can go once the parser looks at the form of
  `DW_AT_high_pc` and of its lists, and `OwnersAcyclic` once an `Rc` is followed once.
