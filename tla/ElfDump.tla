------------------------------ MODULE ElfDump -------------------------------
(***************************************************************************)
(* The loader and the reads of an ELF core dump (src/src/core_dump/elf.rs).*)
(* The loader turns the PT_LOAD segments into ranges and reads from the    *)
(* notes which files are mapped, which ranges are anonymous, and the       *)
(* registers of the threads.                                               *)
(*                                                                         *)
(* A byte of memory is named by its address, so that a read shows where    *)
(* its bytes came from.                                                    *)
(***************************************************************************)
EXTENDS Naturals, Sequences, FiniteSets

CONSTANTS
    Cores,        \* the core dumps considered
    Paths,        \* of mapped files
    Registers,    \* values of registers
    Addrs, Lens   \* the reads asked for

VARIABLES
    core,           \* the file being read
    n_segments, n_notes,  \* how many segments and notes the loader has handled
    memory_ranges,
    modules,        \* file path -> its lowest load address, and the offset there
    threads,
    status,         \* "loading", "ready" or "panicked"
    reply           \* the last request and its answer

loadvars == <<n_segments, n_notes, memory_ranges, modules, threads>>
vars == <<core, loadvars, status, reply>>

-----------------------------------------------------------------------------
(* A core dump: its PT_LOAD segments, its notes in order (an NT_FILE note   *)
(* counts as one item for each file it lists), and the bytes of the file.   *)
(* The kernel and GDB write one segment for each mapping, in ascending      *)
(* order, and an entry in NT_FILE for each mapping of a file.  Of a mapping *)
(* that is not dumped they may store fewer bytes than its size, or none.    *)
Segment == [p_vaddr : Nat, p_memsz : Nat, p_filesz : Nat, p_offset : Nat]
FileEntry == [kind : {"file"}, v_start : Nat, ofs : Nat, path : Paths]
StatusNote == [kind : {"prstatus"}, desc : Seq(Registers)]
OtherNote == [kind : {"foreign", "ignored", "unknown"}]

(* struct elf_prstatus, in words: 14 of other things, then the registers.   *)
StatusWords == 14
NRegs == 20

(* The order of struct user_regs_struct (asm/user_64.h), and that of the     *)
(* DWARF register numbers 0 to 15 in the System V ABI.                       *)
UserRegs == <<"r15", "r14", "r13", "r12", "rbp", "rbx", "r11", "r10", "r9", "r8", "rax", "rcx",
              "rdx", "rsi", "rdi", "orig_rax", "rip", "cs", "eflags", "rsp">>
DwarfOrder == <<"rax", "rdx", "rcx", "rbx", "rsi", "rdi", "rbp", "rsp",
                "r8", "r9", "r10", "r11", "r12", "r13", "r14", "r15">>

CoreAssumption(c) ==
    /\ c.loads \in Seq(Segment)
    /\ c.notes \in Seq(FileEntry \cup StatusNote \cup OtherNote)
    /\ \A i \in DOMAIN c.notes :
          c.notes[i].kind = "prstatus" => Len(c.notes[i].desc) >= StatusWords + NRegs
    /\ c.size \in Nat /\ c.bytes \in [0 .. c.size - 1 -> Nat]
    /\ \A i \in DOMAIN c.loads :
          LET s == c.loads[i]
          IN /\ s.p_filesz <= s.p_memsz
             /\ s.p_offset + s.p_filesz <= c.size
             /\ s.p_offset # 0 =>
                  \A k \in 0 .. s.p_filesz - 1 : c.bytes[s.p_offset + k] = s.p_vaddr + k
    /\ \A i, j \in DOMAIN c.loads :
          i < j => c.loads[i].p_vaddr + c.loads[i].p_memsz <= c.loads[j].p_vaddr

ASSUME ElfAssumption ==
    /\ Addrs \subseteq Nat /\ Lens \subseteq Nat
    /\ \A c \in Cores : CoreAssumption(c)

-----------------------------------------------------------------------------
(* CoreDump::open: the segments first, then the notes.                      *)

MemoryRange == [v_start : Nat, size : Nat, offset : Nat, is_anon : BOOLEAN]
CpuState == [pc : Registers, gp_registers : Seq(Registers)]

LoadSegment ==
    /\ status = "loading" /\ n_segments < Len(core.loads)
    /\ LET s == core.loads[n_segments + 1]
       IN IF s.p_offset # 0
            THEN /\ n_segments' = n_segments + 1
                 /\ memory_ranges' = Append(memory_ranges,
                      [v_start |-> s.p_vaddr, size |-> s.p_memsz,
                       offset |-> s.p_offset, is_anon |-> TRUE])
                 /\ UNCHANGED status
            ELSE status' = "panicked" /\ UNCHANGED <<n_segments, memory_ranges>>
    /\ UNCHANGED <<core, n_notes, modules, threads, reply>>

NextNote == core.notes[n_notes + 1]
OnNote(kinds) ==
    /\ status = "loading" /\ n_segments = Len(core.loads)
    /\ n_notes < Len(core.notes) /\ NextNote.kind \in kinds
    /\ UNCHANGED <<core, n_segments, reply>>

(* NT_PRSTATUS: struct user_regs_struct has the registers in the order of   *)
(* the kernel; gp_registers has them by their DWARF numbers.                *)
Mutant_GpOrder == <<11, 12, 13, 6, 14, 15, 5, 20, 10, 9, 8, 7, 4, 3, 2, 1>>
GpOrder == <<11, 13, 12, 6, 14, 15, 5, 20, 10, 9, 8, 7, 4, 3, 2, 1>>
PcWord == 17
LoadThread ==
    /\ OnNote({"prstatus"})
    /\ n_notes' = n_notes + 1
    /\ threads' = Append(threads,
         [pc |-> NextNote.desc[StatusWords + PcWord],
          gp_registers |-> [r \in 1 .. 16 |-> NextNote.desc[StatusWords + GpOrder[r]]]])
    /\ UNCHANGED <<memory_ranges, modules, status>>

(* NT_FILE: the lowest mapping of a file gives its load address.            *)
Mutant_FirstMapping(f) ==
    IF f.path \in DOMAIN modules THEN modules
    ELSE [p \in DOMAIN modules \cup {f.path} |->
            IF p = f.path THEN [load_base |-> f.v_start, file_base |-> f.ofs] ELSE modules[p]]
WithModule(f) ==
    IF f.path \in DOMAIN modules /\ modules[f.path].load_base <= f.v_start THEN modules
    ELSE [p \in DOMAIN modules \cup {f.path} |->
            IF p = f.path THEN [load_base |-> f.v_start, file_base |-> f.ofs] ELSE modules[p]]

Mutant_NotAnonOnlyLast(f) ==
    [i \in DOMAIN memory_ranges |->
       [memory_ranges[i] EXCEPT !.is_anon = memory_ranges[i].v_start # f.v_start]]
WithBacking(f) ==
    [i \in DOMAIN memory_ranges |->
       IF memory_ranges[i].v_start = f.v_start THEN [memory_ranges[i] EXCEPT !.is_anon = FALSE]
                                               ELSE memory_ranges[i]]

LoadFile ==
    /\ OnNote({"file"})
    /\ n_notes' = n_notes + 1
    /\ modules' = WithModule(NextNote)
    /\ memory_ranges' = WithBacking(NextNote)
    /\ UNCHANGED <<threads, status>>

(* Notes that are skipped, and those of a type not known: todo!.            *)
LoadOther ==
    /\ OnNote({"foreign", "ignored", "unknown"})
    /\ IF NextNote.kind = "unknown" THEN status' = "panicked" /\ UNCHANGED n_notes
                                    ELSE n_notes' = n_notes + 1 /\ UNCHANGED status
    /\ UNCHANGED <<memory_ranges, modules, threads>>

FinishLoading ==
    /\ status = "loading"
    /\ n_segments = Len(core.loads) /\ n_notes = Len(core.notes)
    /\ status' = "ready"
    /\ UNCHANGED <<core, loadvars, reply>>

-----------------------------------------------------------------------------
(* Requests.                                                                *)

Containing(addr) ==
    {i \in DOMAIN memory_ranges :
       /\ memory_ranges[i].v_start <= addr
       /\ addr < memory_ranges[i].v_start + memory_ranges[i].size}
RangeOf(addr) == memory_ranges[CHOOSE i \in Containing(addr) : \A j \in Containing(addr) : i <= j]

(* The assertion against reading across the end of a range.                 *)
Within(addr, len) == (addr - RangeOf(addr).v_start) + len <= RangeOf(addr).size

Mutant_FileOffset(addr) == RangeOf(addr).offset
FileOffset(addr) == RangeOf(addr).offset + (addr - RangeOf(addr).v_start)

Answer(state, addr, len, dst) ==
    reply' = [state |-> state, addr |-> addr, len |-> len, dst |-> dst]
Fail(addr, len) == status' = "panicked" /\ Answer("panicked", addr, len, <<>>)

(* read_exact fails past the end of the file.                               *)
Stored(addr, len) == len = 0 \/ FileOffset(addr) + len <= core.size

read_bytes(addr, len) ==
    /\ status = "ready"
    /\ IF Containing(addr) = {}
         THEN Answer("err", addr, len, <<>>) /\ UNCHANGED status
         ELSE IF Within(addr, len) /\ Stored(addr, len)
                THEN /\ Answer("ok", addr, len,
                               [k \in 1 .. len |-> core.bytes[FileOffset(addr) + k - 1]])
                     /\ UNCHANGED status
                ELSE Fail(addr, len)
    /\ UNCHANGED <<core, loadvars>>

is_valid(addr, len) ==
    /\ status = "ready"
    /\ IF Containing(addr) = {}
         THEN Answer("invalid", addr, len, <<>>) /\ UNCHANGED status
         ELSE IF Within(addr, len) THEN Answer("valid", addr, len, <<>>) /\ UNCHANGED status
                                   ELSE Fail(addr, len)
    /\ UNCHANGED <<core, loadvars>>

AnonRanges == {i \in DOMAIN memory_ranges : memory_ranges[i].is_anon}

-----------------------------------------------------------------------------
Init ==
    /\ core \in Cores
    /\ n_segments = 0 /\ n_notes = 0
    /\ memory_ranges = <<>> /\ threads = <<>>
    /\ modules = [p \in {} |-> 0]
    /\ status = "loading"
    /\ reply = [state |-> "none", addr |-> 0, len |-> 0, dst |-> <<>>]

Next ==
    \/ LoadSegment \/ LoadThread \/ LoadFile \/ LoadOther \/ FinishLoading
    \/ \E addr \in Addrs, len \in Lens : read_bytes(addr, len) \/ is_valid(addr, len)

Spec == Init /\ [][Next]_vars

-----------------------------------------------------------------------------
TypeOK ==
    /\ n_segments \in 0 .. Len(core.loads) /\ n_notes \in 0 .. Len(core.notes)
    /\ memory_ranges \in Seq(MemoryRange) /\ Len(memory_ranges) = n_segments
    /\ \A p \in DOMAIN modules : p \in Paths /\ modules[p] \in [load_base : Nat, file_base : Nat]
    /\ threads \in Seq(CpuState)
    /\ status \in {"loading", "ready", "panicked"}
    /\ reply \in [state : {"none", "ok", "err", "valid", "invalid", "panicked"},
                  addr : Nat, len : Nat, dst : Seq(Nat)]

(* The reads keep the promise the rest of the program relies on             *)
(* (elf.rs:159-199), whatever part of each segment is stored.               *)
MemoryAreas == {[start  |-> core.loads[i].p_vaddr, size |-> core.loads[i].p_memsz,
                 stored |-> core.loads[i].p_filesz] : i \in DOMAIN core.loads}
Mem == INSTANCE Memory WITH areas <- MemoryAreas
ImplementsMemory == Mem!Spec

(* Once loaded, a module is at the lowest of the addresses its file is      *)
(* mapped at, with the offset of that mapping, in whatever order the        *)
(* entries come (elf.rs:115-129); and every file of the notes is there.     *)
Entries(p) == {i \in DOMAIN core.notes : core.notes[i].kind = "file" /\ core.notes[i].path = p}
ModulesAtLowest ==
    status = "ready" =>
        \A p \in Paths :
            /\ p \in DOMAIN modules <=> Entries(p) # {}
            /\ p \in DOMAIN modules =>
                 \E i \in Entries(p) :
                    /\ modules[p] = [load_base |-> core.notes[i].v_start,
                                     file_base |-> core.notes[i].ofs]
                    /\ \A j \in Entries(p) : core.notes[i].v_start <= core.notes[j].v_start

(* Once loaded, the ranges counted in anon_size (elf.rs:150) are those that *)
(* no file is mapped at, however many notes and entries there are.          *)
AnonMeansNoFile ==
    status = "ready" =>
        AnonRanges = {i \in DOMAIN core.loads :
                        ~\E j \in DOMAIN core.notes :
                            /\ core.notes[j].kind = "file"
                            /\ core.notes[j].v_start = core.loads[i].p_vaddr}

(* elf.rs:54-83: the threads are those of the status notes, in their order,  *)
(* and hold the registers of these by the numbers the unwinder asks with     *)
(* (dwarf.rs:254), whatever other notes come between.                        *)
StatusNotes(n) == {i \in 1 .. n : core.notes[i].kind = "prstatus"}
Holds(t, name, value) ==
    /\ name = "rip" => t.pc = value
    /\ \A r \in DOMAIN DwarfOrder : DwarfOrder[r] = name => t.gp_registers[r] = value
NumberedByDwarf ==
    /\ Len(threads) = Cardinality(StatusNotes(n_notes))
    /\ \A i \in StatusNotes(n_notes), w \in DOMAIN UserRegs :
          Holds(threads[Cardinality(StatusNotes(i))], UserRegs[w],
                core.notes[i].desc[StatusWords + w])
=============================================================================
