--------------------------- MODULE ElfDumpProofs ----------------------------
(***************************************************************************)
(* What the loader makes of every ELF core dump, and that its reads keep   *)
(* the promise of module Memory, for every list of segments and notes.     *)
(***************************************************************************)
EXTENDS ElfDump, FiniteSetTheorems, TLAPS

(* What the loader knows while it loads: each range is its segment, each    *)
(* module is at the lowest mapping met so far, and a range counts as        *)
(* anonymous until a file is met at its start.                              *)
RangesRight ==
    \A i \in DOMAIN memory_ranges :
        /\ memory_ranges[i].v_start = core.loads[i].p_vaddr
        /\ memory_ranges[i].size = core.loads[i].p_memsz
        /\ memory_ranges[i].offset = core.loads[i].p_offset
        /\ memory_ranges[i].offset # 0
Progress ==
    /\ n_segments < Len(core.loads) => n_notes = 0
    /\ status = "ready" => n_segments = Len(core.loads) /\ n_notes = Len(core.notes)
    /\ reply.state = "panicked" => status = "panicked"

IsFile(c, i, p) == c.notes[i].kind = "file" /\ c.notes[i].path = p
Lowest(c, m, i, p, n) ==
    /\ IsFile(c, i, p)
    /\ m[p] = [load_base |-> c.notes[i].v_start, file_base |-> c.notes[i].ofs]
    /\ \A j \in 1 .. n : IsFile(c, j, p) => c.notes[i].v_start <= c.notes[j].v_start
ModulesOf(c, m, n) ==
    \A p \in Paths :
        /\ p \in DOMAIN m <=> \E i \in 1 .. n : IsFile(c, i, p)
        /\ p \in DOMAIN m => \E i \in 1 .. n : Lowest(c, m, i, p, n)
ModulesSoFar == ModulesOf(core, modules, n_notes)

FileAt(c, j, a) == c.notes[j].kind = "file" /\ c.notes[j].v_start = a
AnonOf(c, r, n) ==
    \A i \in DOMAIN r : r[i].is_anon <=> ~\E j \in 1 .. n : FileAt(c, j, c.loads[i].p_vaddr)
AnonSoFar == AnonOf(core, memory_ranges, n_notes)

IInv ==
    /\ core \in Cores /\ TypeOK
    /\ RangesRight /\ Progress /\ ModulesSoFar /\ AnonSoFar

-----------------------------------------------------------------------------
LEMMA CoreFacts ==
    ASSUME NEW c \in Cores
    PROVE  /\ Len(c.loads) \in Nat /\ DOMAIN c.loads = 1 .. Len(c.loads)
           /\ Len(c.notes) \in Nat /\ DOMAIN c.notes = 1 .. Len(c.notes)
           /\ \A i \in DOMAIN c.loads : c.loads[i] \in Segment
           /\ \A i \in DOMAIN c.notes : c.notes[i] \in FileEntry \cup StatusNote \cup OtherNote
           /\ CoreAssumption(c)
<1>1. CoreAssumption(c)
  BY ElfAssumption
<1>2. c.loads \in Seq(Segment) /\ c.notes \in Seq(FileEntry \cup StatusNote \cup OtherNote)
  BY <1>1 DEF CoreAssumption
<1>3. QED
  BY <1>1, <1>2

LEMMA FileNote ==
    ASSUME NEW c \in Cores, NEW i \in DOMAIN c.notes, c.notes[i].kind = "file"
    PROVE  c.notes[i].v_start \in Nat /\ c.notes[i].ofs \in Nat /\ c.notes[i].path \in Paths
<1>1. c.notes[i] \in FileEntry \cup StatusNote \cup OtherNote
  BY CoreFacts
<1>2. c.notes[i] \in FileEntry
  BY <1>1 DEF StatusNote, OtherNote
<1>3. QED
  BY <1>2 DEF FileEntry

LEMMA ThreadNote ==
    ASSUME NEW c \in Cores, NEW i \in DOMAIN c.notes, c.notes[i].kind = "prstatus"
    PROVE  \A w \in 1 .. StatusWords + NRegs : c.notes[i].desc[w] \in Registers
<1>1. c.notes[i] \in StatusNote
  BY CoreFacts DEF FileEntry, StatusNote, OtherNote
<1>2. c.notes[i].desc \in Seq(Registers) /\ Len(c.notes[i].desc) >= StatusWords + NRegs
  BY <1>1, CoreFacts DEF StatusNote, CoreAssumption
<1>3. QED
  BY <1>2 DEF StatusWords, NRegs

LEMMA InitInv == Init => IInv
<1> SUFFICES ASSUME Init PROVE IInv
  OBVIOUS
<1>1. Len(memory_ranges) = 0 /\ DOMAIN memory_ranges = {} /\ memory_ranges \in Seq(MemoryRange)
  BY DEF Init
<1>2. core \in Cores /\ Len(core.loads) \in Nat /\ Len(core.notes) \in Nat
  BY CoreFacts DEF Init
<1>3. 1 .. n_notes = {} /\ DOMAIN modules = {}
  BY DEF Init
<1>4. TypeOK
  BY <1>1, <1>2, <1>3 DEF Init, TypeOK
<1>5. RangesRight /\ AnonSoFar
  BY <1>1 DEF RangesRight, AnonSoFar, AnonOf
<1>6. ModulesSoFar
  BY <1>3 DEF ModulesSoFar, ModulesOf
<1>7. Progress
  BY <1>2 DEF Init, Progress
<1>8. QED
  BY <1>2, <1>4, <1>5, <1>6, <1>7 DEF IInv

LEMMA SegmentStep == IInv /\ LoadSegment => IInv'
<1> SUFFICES ASSUME IInv, LoadSegment PROVE IInv'
  OBVIOUS
<1> DEFINE s == core.loads[n_segments + 1]
<1>1. /\ core \in Cores /\ core' = core /\ n_notes' = n_notes /\ modules' = modules
      /\ threads' = threads /\ reply' = reply /\ n_notes = 0
      /\ n_segments \in Nat /\ n_segments < Len(core.loads) /\ Len(memory_ranges) = n_segments
      /\ status = "loading" /\ memory_ranges \in Seq(MemoryRange)
  BY CoreFacts DEF IInv, Progress, LoadSegment, TypeOK
<1>2. s \in Segment /\ Len(core.loads) \in Nat
  BY <1>1, CoreFacts
<1>3. ModulesSoFar'
  BY <1>1 DEF IInv, ModulesSoFar
<1>4. CASE s.p_offset = 0
  <2>1. n_segments' = n_segments /\ memory_ranges' = memory_ranges /\ status' = "panicked"
    BY <1>4 DEF LoadSegment
  <2>2. TypeOK' /\ RangesRight' /\ Progress' /\ AnonSoFar'
    BY <1>1, <2>1 DEF IInv, TypeOK, RangesRight, Progress, AnonSoFar
  <2>3. QED
    BY <1>1, <1>3, <2>2 DEF IInv
<1>5. CASE s.p_offset # 0
  <2> DEFINE r == [v_start |-> s.p_vaddr, size |-> s.p_memsz, offset |-> s.p_offset, is_anon |-> TRUE]
  <2>1. n_segments' = n_segments + 1 /\ memory_ranges' = Append(memory_ranges, r) /\ status' = status
    BY <1>5 DEF LoadSegment
  <2>2. r \in MemoryRange
    BY <1>2 DEF Segment, MemoryRange
  <2>3. memory_ranges' \in Seq(MemoryRange) /\ Len(memory_ranges') = n_segments'
    BY <1>1, <2>1, <2>2
  <2>4. TypeOK'
    BY <1>1, <1>2, <2>1, <2>3 DEF IInv, TypeOK
  <2>5. ASSUME NEW i \in DOMAIN memory_ranges'
        PROVE  \/ i \in DOMAIN memory_ranges /\ memory_ranges'[i] = memory_ranges[i]
               \/ i = n_segments + 1 /\ memory_ranges'[i] = r
    BY <1>1, <2>1
  <2>6. RangesRight'
    BY <1>1, <1>5, <2>5 DEF IInv, RangesRight
  <2>7. AnonSoFar'
    BY <1>1, <2>5 DEF IInv, AnonSoFar, AnonOf
  <2>8. Progress'
    BY <1>1, <2>1 DEF IInv, Progress
  <2>9. QED
    BY <1>1, <1>3, <2>4, <2>6, <2>7, <2>8 DEF IInv
<1>6. QED
  BY <1>4, <1>5

(* What every note leaves alone, and the range of its number.               *)
LEMMA NoteFacts ==
    ASSUME IInv, NEW kinds, OnNote(kinds)
    PROVE  /\ core \in Cores /\ core' = core /\ n_segments' = n_segments /\ reply' = reply
           /\ n_notes \in Nat /\ n_notes + 1 \in DOMAIN core.notes
           /\ n_notes + 1 \in 0 .. Len(core.notes)
           /\ n_segments = Len(core.loads) /\ status = "loading"
           /\ core.notes[n_notes + 1] = NextNote /\ NextNote.kind \in kinds
BY CoreFacts DEF IInv, TypeOK, OnNote, NextNote

(* A note that lists no file changes neither modules nor ranges.            *)
LEMMA NotAFile ==
    ASSUME IInv, core' = core, memory_ranges' = memory_ranges, modules' = modules,
           n_notes \in Nat, n_notes' = n_notes + 1, core.notes[n_notes + 1].kind # "file"
    PROVE  ModulesSoFar' /\ AnonSoFar' /\ RangesRight'
<1>1. ASSUME NEW j \in 1 .. n_notes'
      PROVE  j \in 1 .. n_notes \/ core.notes[j].kind # "file"
  OBVIOUS
<1>2. \A j \in 1 .. n_notes : j \in 1 .. n_notes'
  OBVIOUS
<1>3. ASSUME NEW p \in Paths
      PROVE  /\ (\E i \in 1 .. n_notes' : IsFile(core, i, p)) <=> (\E i \in 1 .. n_notes : IsFile(core, i, p))
             /\ \A i \in 1 .. n_notes : Lowest(core, modules, i, p, n_notes) => Lowest(core, modules', i, p, n_notes')
  BY <1>1, <1>2 DEF IsFile, Lowest
<1>4. ModulesSoFar'
  BY <1>2, <1>3 DEF IInv, ModulesSoFar, ModulesOf
<1>5. AnonSoFar'
  BY <1>1, <1>2 DEF IInv, AnonSoFar, AnonOf, FileAt
<1>6. QED
  BY <1>4, <1>5 DEF IInv, RangesRight

LEMMA ThreadStep == IInv /\ LoadThread => IInv'
<1> SUFFICES ASSUME IInv, LoadThread PROVE IInv'
  OBVIOUS
<1>1. OnNote({"prstatus"})
  BY DEF LoadThread
<1>2. NextNote.kind = "prstatus" /\ \A w \in 1 .. StatusWords + NRegs : NextNote.desc[w] \in Registers
  BY <1>1, NoteFacts, ThreadNote
<1> DEFINE t == [pc |-> NextNote.desc[StatusWords + PcWord],
                 gp_registers |-> [r \in 1 .. 16 |-> NextNote.desc[StatusWords + GpOrder[r]]]]
<1>3. /\ threads' = Append(threads, t) /\ n_notes' = n_notes + 1 /\ status' = status
      /\ memory_ranges' = memory_ranges /\ modules' = modules
  BY DEF LoadThread
<1>4. t \in CpuState
  <2>1. \A r \in 1 .. 16 : StatusWords + GpOrder[r] \in 1 .. StatusWords + NRegs
    BY DEF GpOrder, StatusWords, NRegs
  <2>2. StatusWords + PcWord \in 1 .. StatusWords + NRegs
    BY DEF PcWord, StatusWords, NRegs
  <2>3. t.gp_registers \in Seq(Registers)
    BY <1>2, <2>1
  <2>4. QED
    BY <1>2, <2>2, <2>3 DEF CpuState
<1>5. TypeOK'
  <2>1. threads' \in Seq(CpuState)
    BY <1>3, <1>4 DEF IInv, TypeOK
  <2>2. QED
    BY <1>1, <1>3, <2>1, NoteFacts DEF IInv, TypeOK
<1>6. ModulesSoFar' /\ AnonSoFar' /\ RangesRight'
  BY <1>1, <1>2, <1>3, NoteFacts, NotAFile
<1>7. Progress'
  BY <1>1, <1>3, NoteFacts DEF IInv, Progress
<1>8. QED
  BY <1>1, <1>5, <1>6, <1>7, NoteFacts DEF IInv

LEMMA OtherStep == IInv /\ LoadOther => IInv'
<1> SUFFICES ASSUME IInv, LoadOther PROVE IInv'
  OBVIOUS
<1>1. OnNote({"foreign", "ignored", "unknown"})
  BY DEF LoadOther
<1>2. /\ memory_ranges' = memory_ranges /\ modules' = modules /\ threads' = threads
      /\ \/ status' = "panicked" /\ n_notes' = n_notes
         \/ status' = status /\ n_notes' = n_notes + 1
  BY DEF LoadOther
<1>3. TypeOK' /\ Progress'
  BY <1>1, <1>2, NoteFacts DEF IInv, TypeOK, Progress
<1>4. CASE n_notes' = n_notes + 1
  BY <1>1, <1>2, <1>3, <1>4, NoteFacts, NotAFile DEF IInv
<1>5. CASE n_notes' = n_notes
  BY <1>1, <1>2, <1>3, <1>5, NoteFacts
     DEF IInv, ModulesSoFar, AnonSoFar, RangesRight
<1>6. QED
  BY <1>2, <1>4, <1>5

(* An entry of NT_FILE: its module, and the range that starts where it does. *)
LEMMA FileModules ==
    ASSUME IInv, LoadFile
    PROVE  /\ ModulesSoFar'
           /\ \A p \in DOMAIN modules' : p \in Paths /\ modules'[p] \in [load_base : Nat, file_base : Nat]
<1> DEFINE f == NextNote
           n == n_notes + 1
<1>1. OnNote({"file"}) /\ n_notes' = n /\ modules' = WithModule(f)
  BY DEF LoadFile
<1>2. /\ core \in Cores /\ core' = core /\ n_notes \in Nat /\ core.notes[n] = f
      /\ f.kind = "file" /\ n \in DOMAIN core.notes
  BY <1>1, NoteFacts
<1>3. f.v_start \in Nat /\ f.ofs \in Nat /\ f.path \in Paths
  BY <1>2, FileNote
<1>4. \A j \in 1 .. n_notes : j \in DOMAIN core.notes /\ j \in 1 .. n
  BY <1>2, CoreFacts
<1>5. \A j \in 1 .. n : j \in 1 .. n_notes \/ j = n
  BY <1>2
<1>6. IsFile(core, n, f.path) /\ \A p : p # f.path => ~IsFile(core, n, p)
  BY <1>2 DEF IsFile
<1>7. \A p \in DOMAIN modules : p \in Paths /\ modules[p] \in [load_base : Nat, file_base : Nat]
  BY DEF IInv, TypeOK
<1> DEFINE e == [load_base |-> f.v_start, file_base |-> f.ofs]
<1>8. CASE f.path \in DOMAIN modules /\ modules[f.path].load_base <= f.v_start
  <2>1. modules' = modules
    BY <1>1, <1>8 DEF WithModule
  <2>2. ASSUME NEW p \in Paths, NEW i \in 1 .. n_notes, Lowest(core, modules, i, p, n_notes)
        PROVE  Lowest(core, modules, i, p, n)
    <3>1. p = f.path => core.notes[i].v_start <= core.notes[n].v_start
      BY <1>2, <1>8, <2>2 DEF Lowest
    <3>2. QED
      BY <1>5, <1>6, <2>2, <3>1 DEF Lowest, IsFile
  <2>3. ModulesSoFar'
    <3>1. ASSUME NEW p \in Paths
          PROVE  /\ p \in DOMAIN modules <=> \E i \in 1 .. n : IsFile(core, i, p)
                 /\ p \in DOMAIN modules => \E i \in 1 .. n : Lowest(core, modules, i, p, n)
      BY <1>4, <1>5, <1>6, <1>8, <2>2 DEF IInv, ModulesSoFar, ModulesOf
    <3>2. QED
      BY <1>1, <1>2, <2>1, <3>1 DEF ModulesSoFar, ModulesOf
  <2>4. QED
    BY <1>7, <2>1, <2>3
<1>9. CASE ~ (f.path \in DOMAIN modules /\ modules[f.path].load_base <= f.v_start)
  <2>1. modules' = [p \in DOMAIN modules \cup {f.path} |-> IF p = f.path THEN e ELSE modules[p]]
    BY <1>1, <1>9 DEF WithModule
  <2>2. \A j \in 1 .. n : IsFile(core, j, f.path) => f.v_start <= core.notes[j].v_start
    <3>1. SUFFICES ASSUME NEW j \in 1 .. n_notes, IsFile(core, j, f.path)
                   PROVE  f.v_start <= core.notes[j].v_start
      BY <1>2, <1>3, <1>5
    <3>2. f.path \in DOMAIN modules
      BY <1>3, <3>1 DEF IInv, ModulesSoFar, ModulesOf
    <3>3. PICK i \in 1 .. n_notes : Lowest(core, modules, i, f.path, n_notes)
      BY <1>3, <3>2 DEF IInv, ModulesSoFar, ModulesOf
    <3>4. /\ core.notes[i].v_start = modules[f.path].load_base
          /\ core.notes[i].v_start <= core.notes[j].v_start
      BY <3>1, <3>3 DEF Lowest
    <3>5. /\ core.notes[i].v_start \in Nat /\ core.notes[j].v_start \in Nat
          /\ ~ (core.notes[i].v_start <= f.v_start)
      BY <1>2, <1>4, <1>9, <3>1, <3>2, <3>3, <3>4, FileNote DEF Lowest, IsFile
    <3>6. QED
      BY <1>3, <3>4, <3>5
  <2>3. Lowest(core, modules', n, f.path, n)
    BY <1>2, <1>6, <2>1, <2>2 DEF Lowest, IsFile
  <2>4. ASSUME NEW p \in Paths, p # f.path
        PROVE  /\ p \in DOMAIN modules' <=> p \in DOMAIN modules
               /\ p \in DOMAIN modules => modules'[p] = modules[p]
    BY <2>1, <2>4
  <2>5. ASSUME NEW p \in Paths, p # f.path, NEW i \in 1 .. n_notes, Lowest(core, modules, i, p, n_notes),
               p \in DOMAIN modules
        PROVE  Lowest(core, modules', i, p, n)
    BY <1>2, <1>5, <1>6, <2>4, <2>5 DEF Lowest, IsFile
  <2>6. ASSUME NEW p \in Paths
        PROVE  /\ p \in DOMAIN modules' <=> \E i \in 1 .. n : IsFile(core, i, p)
               /\ p \in DOMAIN modules' => \E i \in 1 .. n : Lowest(core, modules', i, p, n)
    <3>1. CASE p = f.path
      <4>1. n \in 1 .. n /\ p \in DOMAIN modules'
        BY <1>2, <2>1, <3>1
      <4>2. QED
        BY <1>2, <1>6, <2>3, <3>1, <4>1 DEF IsFile
    <3>2. CASE p # f.path
      <4>1. p \in DOMAIN modules <=> \E i \in 1 .. n : IsFile(core, i, p)
        BY <1>4, <1>5, <1>6, <3>2 DEF IInv, ModulesSoFar, ModulesOf
      <4>2. p \in DOMAIN modules => \E i \in 1 .. n : Lowest(core, modules', i, p, n)
        BY <1>4, <2>5, <3>2 DEF IInv, ModulesSoFar, ModulesOf
      <4>3. QED
        BY <1>2, <2>4, <3>2, <4>1, <4>2 DEF IsFile
    <3>3. QED
      BY <3>1, <3>2
  <2>7. ModulesSoFar'
    BY <1>1, <1>2, <2>6 DEF ModulesSoFar, ModulesOf
  <2>8. QED
    BY <1>3, <1>7, <2>1, <2>7
<1>10. QED
  BY <1>8, <1>9

LEMMA FileRanges ==
    ASSUME IInv, LoadFile
    PROVE  /\ memory_ranges' \in Seq(MemoryRange) /\ Len(memory_ranges') = Len(memory_ranges)
           /\ RangesRight' /\ AnonSoFar'
<1>1. /\ OnNote({"file"}) /\ n_notes' = n_notes + 1 /\ memory_ranges' = WithBacking(NextNote)
      /\ core \in Cores /\ core' = core /\ n_notes \in Nat /\ core.notes[n_notes + 1] = NextNote
      /\ NextNote.kind = "file"
  BY NoteFacts DEF LoadFile
<1>2. memory_ranges \in Seq(MemoryRange)
  BY DEF IInv, TypeOK
<1>3. ASSUME NEW i \in DOMAIN memory_ranges
      PROVE  /\ memory_ranges'[i] \in MemoryRange
             /\ memory_ranges'[i].v_start = memory_ranges[i].v_start
             /\ memory_ranges'[i].size = memory_ranges[i].size
             /\ memory_ranges'[i].offset = memory_ranges[i].offset
             /\ memory_ranges[i].v_start = NextNote.v_start => memory_ranges'[i].is_anon = FALSE
             /\ memory_ranges[i].v_start # NextNote.v_start =>
                  memory_ranges'[i].is_anon = memory_ranges[i].is_anon
  <2>1. memory_ranges[i] \in MemoryRange
    BY <1>2
  <2>2. QED
    BY <1>1, <2>1 DEF WithBacking, MemoryRange
<1>4. DOMAIN memory_ranges' = DOMAIN memory_ranges
  BY <1>1 DEF WithBacking
<1>6. memory_ranges' \in Seq(MemoryRange) /\ Len(memory_ranges') = Len(memory_ranges)
  <2>1. DOMAIN memory_ranges = 1 .. Len(memory_ranges) /\ Len(memory_ranges) \in Nat
    BY <1>2
  <2>2. memory_ranges' \in [1 .. Len(memory_ranges) -> MemoryRange]
    BY <1>1, <1>3, <2>1 DEF WithBacking
  <2> DEFINE len == Len(memory_ranges)
  <2> HIDE DEF len
  <2>3. len \in Nat /\ memory_ranges' \in [1 .. len -> MemoryRange]
    BY <2>1, <2>2 DEF len
  <2>4. memory_ranges' \in Seq(MemoryRange) /\ Len(memory_ranges') = len
    BY <2>3
  <2>5. QED
    BY <2>4 DEF len
<1>7. RangesRight'
  <2>1. RangesRight
    BY DEF IInv
  <2>2. QED
    BY <1>1, <1>3, <1>4, <2>1 DEF RangesRight
<1>8. AnonSoFar'
  <2>1. SUFFICES ASSUME NEW i \in DOMAIN memory_ranges
                 PROVE  memory_ranges'[i].is_anon
                          <=> ~\E j \in 1 .. n_notes + 1 : FileAt(core, j, core.loads[i].p_vaddr)
    BY <1>1, <1>4 DEF AnonSoFar, AnonOf
  <2>2. memory_ranges'[i].is_anon <=> /\ memory_ranges[i].is_anon
                                      /\ core.loads[i].p_vaddr # NextNote.v_start
    <3>1. memory_ranges[i].v_start = core.loads[i].p_vaddr
      BY DEF IInv, RangesRight
    <3>2. QED
      BY <1>3, <3>1
  <2>3. memory_ranges[i].is_anon <=> ~\E j \in 1 .. n_notes : FileAt(core, j, core.loads[i].p_vaddr)
    BY DEF IInv, AnonSoFar, AnonOf
  <2>4. FileAt(core, n_notes + 1, core.loads[i].p_vaddr) <=> core.loads[i].p_vaddr = NextNote.v_start
    BY <1>1 DEF FileAt
  <2>5. \A j : j \in 1 .. n_notes + 1 <=> j \in 1 .. n_notes \/ j = n_notes + 1
    BY <1>1
  <2> HIDE DEF FileAt
  <2>6. QED
    BY <2>2, <2>3, <2>4, <2>5
<1>9. QED
  BY <1>6, <1>7, <1>8

LEMMA FileStep == IInv /\ LoadFile => IInv'
<1> SUFFICES ASSUME IInv, LoadFile PROVE IInv'
  OBVIOUS
<1>1. /\ OnNote({"file"}) /\ n_notes' = n_notes + 1 /\ threads' = threads /\ status' = status
      /\ core \in Cores /\ core' = core /\ n_segments' = n_segments /\ reply' = reply
      /\ n_notes + 1 \in 0 .. Len(core.notes) /\ status = "loading" /\ n_segments = Len(core.loads)
  BY NoteFacts DEF LoadFile
<1>2. TypeOK'
  BY <1>1, FileModules, FileRanges DEF IInv, TypeOK
<1>3. Progress'
  BY <1>1 DEF IInv, Progress
<1>4. QED
  BY <1>1, <1>2, <1>3, FileModules, FileRanges DEF IInv

-----------------------------------------------------------------------------
(* Threads.  The status notes among the first n, counted.                   *)
LEMMA StatusCount ==
    ASSUME NEW n \in Nat
    PROVE  /\ IsFiniteSet(StatusNotes(n)) /\ Cardinality(StatusNotes(n)) \in Nat
           /\ \A i \in StatusNotes(n) :
                /\ i \in StatusNotes(i)
                /\ Cardinality(StatusNotes(i)) \in 1 .. Cardinality(StatusNotes(n))
           /\ core.notes[n + 1].kind # "prstatus" => StatusNotes(n + 1) = StatusNotes(n)
           /\ core.notes[n + 1].kind = "prstatus" =>
                /\ StatusNotes(n + 1) = StatusNotes(n) \cup {n + 1}
                /\ Cardinality(StatusNotes(n + 1)) = Cardinality(StatusNotes(n)) + 1
<1>1. ASSUME NEW m \in Nat PROVE IsFiniteSet(StatusNotes(m)) /\ Cardinality(StatusNotes(m)) \in Nat
  <2>1. StatusNotes(m) \subseteq 1 .. m
    BY DEF StatusNotes
  <2>2. IsFiniteSet(1 .. m)
    BY FS_Interval
  <2>3. QED
    BY <2>1, <2>2, FS_Subset, FS_CardinalityType
<1>2. ASSUME NEW i \in StatusNotes(n)
      PROVE  /\ i \in StatusNotes(i)
             /\ Cardinality(StatusNotes(i)) \in 1 .. Cardinality(StatusNotes(n))
  <2>1. i \in Nat /\ i \in StatusNotes(i) /\ StatusNotes(i) \subseteq StatusNotes(n)
    BY DEF StatusNotes
  <2>2. Cardinality(StatusNotes(i)) <= Cardinality(StatusNotes(n))
    BY <1>1, <2>1, FS_Subset
  <2>3. Cardinality(StatusNotes(i)) # 0
    BY <1>1, <2>1, FS_EmptySet
  <2>4. QED
    BY <1>1, <2>1, <2>2, <2>3
<1>3. core.notes[n + 1].kind # "prstatus" => StatusNotes(n + 1) = StatusNotes(n)
  <2>1. \A i : i \in 1 .. n + 1 <=> i \in 1 .. n \/ i = n + 1
    OBVIOUS
  <2>2. QED
    BY <2>1 DEF StatusNotes
<1>4. ASSUME core.notes[n + 1].kind = "prstatus"
      PROVE  /\ StatusNotes(n + 1) = StatusNotes(n) \cup {n + 1}
             /\ Cardinality(StatusNotes(n + 1)) = Cardinality(StatusNotes(n)) + 1
  <2>1. \A i : i \in 1 .. n + 1 <=> i \in 1 .. n \/ i = n + 1
    OBVIOUS
  <2>2. StatusNotes(n + 1) = StatusNotes(n) \cup {n + 1} /\ n + 1 \notin StatusNotes(n)
    BY <1>4, <2>1 DEF StatusNotes
  <2>3. QED
    BY <1>1, <2>2, FS_AddElement
<1>5. QED
  BY <1>1, <1>2, <1>3, <1>4

(* GpOrder gives each DWARF number the word that has its register.          *)
LEMMA OrderRight ==
    /\ \A w \in DOMAIN UserRegs : w \in 1 .. NRegs
    /\ \A w \in DOMAIN UserRegs : UserRegs[w] = "rip" => w = PcWord
    /\ DOMAIN DwarfOrder = 1 .. 16
    /\ \A r \in 1 .. 16 : \A w \in DOMAIN UserRegs : UserRegs[w] = DwarfOrder[r] => w = GpOrder[r]
<1>1. DOMAIN UserRegs = 1 .. NRegs /\ DOMAIN DwarfOrder = 1 .. 16
  BY DEF UserRegs, DwarfOrder, NRegs
<1>2. \A w \in 1 .. NRegs : UserRegs[w] = "rip" => w = PcWord
  BY DEF UserRegs, PcWord, NRegs
<1>3. \A r \in 1 .. 16 : UserRegs[GpOrder[r]] = DwarfOrder[r] /\ GpOrder[r] \in 1 .. NRegs
  BY DEF UserRegs, DwarfOrder, GpOrder, NRegs
<1>4. \A v \in 1 .. NRegs, w \in 1 .. NRegs : UserRegs[v] = UserRegs[w] => v = w
  BY DEF UserRegs, NRegs
<1>5. QED
  BY <1>1, <1>2, <1>3, <1>4

(* A status note adds its thread, and no other step changes a thread.       *)
LEMMA ThreadNumbered == IInv /\ NumberedByDwarf /\ LoadThread => NumberedByDwarf'
<1> SUFFICES ASSUME IInv, NumberedByDwarf, LoadThread PROVE NumberedByDwarf'
  OBVIOUS
<1> DEFINE desc == NextNote.desc
           t == [pc |-> desc[StatusWords + PcWord],
                 gp_registers |-> [r \in 1 .. 16 |-> desc[StatusWords + GpOrder[r]]]]
           n == n_notes
<1>1. OnNote({"prstatus"}) /\ threads' = Append(threads, t) /\ n_notes' = n + 1
  BY DEF LoadThread
<1>2. /\ core' = core /\ n \in Nat /\ core.notes[n + 1] = NextNote /\ NextNote.kind = "prstatus"
      /\ Len(threads) = Cardinality(StatusNotes(n)) /\ threads \in Seq(CpuState)
  <2>1. core' = core /\ n \in Nat /\ core.notes[n + 1] = NextNote /\ NextNote.kind = "prstatus"
    BY <1>1, NoteFacts
  <2>2. Len(threads) = Cardinality(StatusNotes(n)) /\ threads \in Seq(CpuState)
    BY DEF IInv, TypeOK, NumberedByDwarf
  <2>3. QED
    BY <2>1, <2>2
<1>3. \A m : StatusNotes(m)' = {i \in 1 .. m : core.notes[i].kind = "prstatus"}
  BY <1>2 DEF StatusNotes
<1>4. /\ StatusNotes(n + 1) = StatusNotes(n) \cup {n + 1}
      /\ Cardinality(StatusNotes(n + 1)) = Cardinality(StatusNotes(n)) + 1
  BY <1>2, StatusCount
<1>5. /\ Len(threads') = Cardinality(StatusNotes(n + 1))
      /\ threads'[Cardinality(StatusNotes(n + 1))] = t
      /\ \A k \in 1 .. Cardinality(StatusNotes(n)) : threads'[k] = threads[k]
  <2> DEFINE c == Cardinality(StatusNotes(n))
  <2> HIDE DEF t, c
  <2>1. c = Len(threads) /\ c \in Nat /\ Cardinality(StatusNotes(n + 1)) = c + 1
    BY <1>2, <1>4 DEF c
  <2>2. Len(threads') = c + 1 /\ threads'[c + 1] = t /\ \A k \in 1 .. c : threads'[k] = threads[k]
    BY <1>1, <1>2, <2>1
  <2>3. QED
    BY <2>1, <2>2 DEF c
<1>6. ASSUME NEW w \in DOMAIN UserRegs
      PROVE  Holds(t, UserRegs[w], core.notes[n + 1].desc[StatusWords + w])
  <2>1. UserRegs[w] = "rip" => t.pc = desc[StatusWords + w]
    BY OrderRight
  <2>2. \A r \in 1 .. 16 : DwarfOrder[r] = UserRegs[w] => t.gp_registers[r] = desc[StatusWords + w]
    BY OrderRight
  <2>3. QED
    BY <1>2, <2>1, <2>2, OrderRight DEF Holds
<1> HIDE DEF t
<1>7. ASSUME NEW i \in StatusNotes(n + 1), NEW w \in DOMAIN UserRegs
      PROVE  Holds(threads'[Cardinality(StatusNotes(i))], UserRegs[w], core.notes[i].desc[StatusWords + w])
  <2>1. CASE i = n + 1
    BY <1>5, <1>6, <2>1
  <2>2. CASE i \in StatusNotes(n)
    <3>1. Cardinality(StatusNotes(i)) \in 1 .. Cardinality(StatusNotes(n))
      BY <1>2, <2>2, StatusCount
    <3>2. QED
      BY <1>5, <2>2, <3>1 DEF NumberedByDwarf
  <2>3. QED
    BY <1>4, <2>1, <2>2
<1>8. NumberedByDwarf' <=>
         /\ Len(threads') = Cardinality(StatusNotes(n + 1))
         /\ \A i \in StatusNotes(n + 1), w \in DOMAIN UserRegs :
               Holds(threads'[Cardinality(StatusNotes(i))], UserRegs[w],
                     core.notes[i].desc[StatusWords + w])
  BY <1>1, <1>2 DEF NumberedByDwarf, StatusNotes
<1>9. QED
  BY <1>5, <1>7, <1>8

LEMMA ThreadsKept ==
    ASSUME IInv, NumberedByDwarf, core' = core, threads' = threads,
           \/ n_notes' = n_notes
           \/ n_notes' = n_notes + 1 /\ core.notes[n_notes + 1].kind # "prstatus"
    PROVE  NumberedByDwarf'
<1>1. n_notes \in Nat
  BY DEF IInv, TypeOK
<1>2. StatusNotes(n_notes') = StatusNotes(n_notes)
  BY <1>1, StatusCount
<1>3. NumberedByDwarf' <=>
         /\ Len(threads) = Cardinality(StatusNotes(n_notes'))
         /\ \A i \in StatusNotes(n_notes'), w \in DOMAIN UserRegs :
               Holds(threads[Cardinality(StatusNotes(i))], UserRegs[w],
                     core.notes[i].desc[StatusWords + w])
  BY DEF NumberedByDwarf, StatusNotes
<1>4. QED
  BY <1>2, <1>3 DEF NumberedByDwarf

-----------------------------------------------------------------------------
(* Requests.  A range with an address in it is the only one.                *)
LEMMA OneRange ==
    ASSUME IInv, NEW i \in DOMAIN memory_ranges, NEW j \in DOMAIN memory_ranges, i # j,
           NEW a \in Nat, i \in Containing(a)
    PROVE  j \notin Containing(a)
<1>1. core \in Cores /\ DOMAIN memory_ranges \subseteq DOMAIN core.loads
  BY CoreFacts DEF IInv, TypeOK
<1>2. /\ i \in DOMAIN core.loads /\ j \in DOMAIN core.loads /\ i \in Nat /\ j \in Nat
      /\ core.loads[i] \in Segment /\ core.loads[j] \in Segment
  BY <1>1, CoreFacts
<1>3. /\ i < j => core.loads[i].p_vaddr + core.loads[i].p_memsz <= core.loads[j].p_vaddr
      /\ j < i => core.loads[j].p_vaddr + core.loads[j].p_memsz <= core.loads[i].p_vaddr
  BY <1>1, <1>2, CoreFacts DEF CoreAssumption
<1>4. QED
  BY <1>2, <1>3 DEF IInv, RangesRight, Containing, Segment

LEMMA TheRange ==
    ASSUME IInv, NEW i \in DOMAIN memory_ranges, NEW a \in Nat, i \in Containing(a)
    PROVE  RangeOf(a) = memory_ranges[i]
<1>1. Containing(a) = {i}
  BY OneRange DEF Containing
<1>2. i \in Nat
  BY DEF IInv, TypeOK
<1>3. QED
  BY <1>1, <1>2 DEF RangeOf

LEMMA RangeFacts ==
    ASSUME IInv, NEW a \in Nat, Containing(a) # {}
    PROVE  /\ RangeOf(a) \in MemoryRange /\ RangeOf(a).v_start <= a
           /\ FileOffset(a) \in Nat
<1>1. PICK i \in DOMAIN memory_ranges : i \in Containing(a)
  BY DEF Containing
<1>2. RangeOf(a) = memory_ranges[i] /\ memory_ranges[i] \in MemoryRange /\ memory_ranges[i].v_start <= a
  BY <1>1, TheRange DEF IInv, TypeOK, Containing
<1>3. QED
  BY <1>2 DEF MemoryRange, FileOffset

(* Once loaded, the ranges are the areas of the dump.                       *)
LEMMA AreaRange ==
    ASSUME IInv, status = "ready"
    PROVE  /\ DOMAIN memory_ranges = DOMAIN core.loads
           /\ \A a \in Nat : Mem!Covers(a) <=> Containing(a) # {}
<1>1. core \in Cores /\ DOMAIN memory_ranges = DOMAIN core.loads
  BY CoreFacts DEF IInv, TypeOK, Progress
<1>2. ASSUME NEW a \in Nat PROVE Mem!Covers(a) <=> Containing(a) # {}
  <2>1. ASSUME NEW i \in DOMAIN core.loads
        PROVE  /\ memory_ranges[i].v_start = core.loads[i].p_vaddr
               /\ memory_ranges[i].size = core.loads[i].p_memsz
    BY <1>1 DEF IInv, RangesRight
  <2>2. Mem!Covers(a) <=> \E i \in DOMAIN core.loads :
                             /\ core.loads[i].p_vaddr <= a
                             /\ a < core.loads[i].p_vaddr + core.loads[i].p_memsz
    <3> DEFINE Area(i) == [start  |-> core.loads[i].p_vaddr, size |-> core.loads[i].p_memsz,
                           stored |-> core.loads[i].p_filesz]
    <3>1. MemoryAreas = {Area(i) : i \in DOMAIN core.loads}
      BY DEF MemoryAreas
    <3>2. \A i : Area(i).start = core.loads[i].p_vaddr /\ Area(i).size = core.loads[i].p_memsz
      OBVIOUS
    <3> HIDE DEF Area
    <3>3. QED
      BY <3>1, <3>2 DEF Mem!Covers
  <2>3. QED
    BY <1>1, <2>1, <2>2 DEF Containing
<1>3. QED
  BY <1>1, <1>2

(* What is stored of an area is read from where it is.                      *)
LEMMA WholeIsRead ==
    ASSUME IInv, status = "ready", NEW a \in Nat, NEW len \in Nat, Containing(a) # {},
           Mem!Whole(a, len)
    PROVE  /\ Within(a, len) /\ Stored(a, len)
           /\ \A k \in 1 .. len : core.bytes[FileOffset(a) + k - 1] = a + k - 1
<1>1. core \in Cores /\ DOMAIN memory_ranges = DOMAIN core.loads /\ CoreAssumption(core)
  BY AreaRange, CoreFacts DEF IInv
<1>2. PICK i \in DOMAIN core.loads : /\ core.loads[i].p_vaddr <= a
                                     /\ a + len <= core.loads[i].p_vaddr + core.loads[i].p_filesz
  BY DEF Mem!Whole, MemoryAreas
<1>3. /\ core.loads[i] \in Segment /\ core.loads[i].p_filesz <= core.loads[i].p_memsz
      /\ core.loads[i].p_offset + core.loads[i].p_filesz <= core.size /\ core.size \in Nat
  BY <1>1, CoreFacts DEF CoreAssumption
<1>4. /\ memory_ranges[i].v_start = core.loads[i].p_vaddr
      /\ memory_ranges[i].size = core.loads[i].p_memsz
      /\ memory_ranges[i].offset = core.loads[i].p_offset /\ core.loads[i].p_offset # 0
  BY <1>1, <1>2 DEF IInv, RangesRight
<1>5. CASE len = 0
  <2>1. PICK j \in DOMAIN memory_ranges : j \in Containing(a)
    BY DEF Containing
  <2>2. RangeOf(a) = memory_ranges[j] /\ memory_ranges[j] \in MemoryRange
    BY <2>1, TheRange DEF IInv, TypeOK
  <2>3. a - memory_ranges[j].v_start + 0 <= memory_ranges[j].size
    BY <2>1, <2>2 DEF Containing, MemoryRange
  <2>4. QED
    BY <1>5, <2>2, <2>3 DEF Within, Stored, MemoryRange
<1>6. CASE len # 0
  <2>1. i \in Containing(a)
    BY <1>1, <1>2, <1>3, <1>4, <1>6 DEF Containing, Segment
  <2>2. RangeOf(a) = memory_ranges[i]
    BY <1>1, <2>1, TheRange
  <2>3. Within(a, len) /\ Stored(a, len)
    BY <1>2, <1>3, <1>4, <2>2 DEF Within, Stored, FileOffset, Segment
  <2>4. ASSUME NEW k \in 1 .. len
        PROVE  core.bytes[FileOffset(a) + k - 1] = a + k - 1
    <3> DEFINE d == (a - core.loads[i].p_vaddr) + (k - 1)
    <3>1. /\ d \in 0 .. core.loads[i].p_filesz - 1
          /\ FileOffset(a) + k - 1 = core.loads[i].p_offset + d
          /\ a + k - 1 = core.loads[i].p_vaddr + d
      BY <1>2, <1>3, <1>4, <2>2 DEF FileOffset, Segment
    <3>2. core.bytes[core.loads[i].p_offset + d] = core.loads[i].p_vaddr + d
      BY <1>1, <1>4, <3>1 DEF CoreAssumption
    <3>3. QED
      BY <3>1, <3>2
  <2>5. QED
    BY <2>3, <2>4
<1>7. QED
  BY <1>5, <1>6

(* A request changes nothing but the answer.                                *)
LEMMA RequestFrame ==
    ASSUME IInv, core' = core, loadvars' = loadvars, status = "ready",
           status' \in {"ready", "panicked"}, reply'.state = "panicked" => status' = "panicked",
           reply' \in [state : {"ok", "err", "valid", "invalid", "panicked"},
                       addr : Nat, len : Nat, dst : Seq(Nat)]
    PROVE  IInv'
<1>1. /\ n_segments' = n_segments /\ n_notes' = n_notes /\ memory_ranges' = memory_ranges
      /\ modules' = modules /\ threads' = threads
  BY DEF loadvars
<1>2. TypeOK' /\ Progress'
  BY <1>1 DEF IInv, TypeOK, Progress
<1>3. RangesRight' /\ ModulesSoFar' /\ AnonSoFar'
  BY <1>1 DEF IInv, RangesRight, ModulesSoFar, AnonSoFar
<1>4. QED
  BY <1>2, <1>3 DEF IInv

LEMMA ReadTyped ==
    ASSUME IInv, NEW a \in Nat, NEW len \in Nat, Containing(a) # {}, Stored(a, len)
    PROVE  [k \in 1 .. len |-> core.bytes[FileOffset(a) + k - 1]] \in Seq(Nat)
<1>1. core.size \in Nat /\ core.bytes \in [0 .. core.size - 1 -> Nat]
  BY CoreFacts DEF IInv, CoreAssumption
<1>2. FileOffset(a) \in Nat
  BY RangeFacts
<1>3. ASSUME NEW k \in 1 .. len PROVE core.bytes[FileOffset(a) + k - 1] \in Nat
  <2>1. FileOffset(a) + k - 1 \in 0 .. core.size - 1
    BY <1>1, <1>2 DEF Stored
  <2>2. QED
    BY <1>1, <2>1
<1>4. QED
  BY <1>3

LEMMA AnswerTyped ==
    ASSUME NEW state \in {"ok", "err", "valid", "invalid", "panicked"}, NEW addr \in Nat,
           NEW len \in Nat, NEW dst \in Seq(Nat), Answer(state, addr, len, dst)
    PROVE  /\ reply' \in [state : {"ok", "err", "valid", "invalid", "panicked"},
                          addr : Nat, len : Nat, dst : Seq(Nat)]
           /\ reply'.state = state
BY DEF Answer

LEMMA ReadStep ==
    ASSUME IInv, NEW addr \in Nat, NEW len \in Nat, read_bytes(addr, len)
    PROVE  IInv'
<1>1. status = "ready" /\ core' = core /\ loadvars' = loadvars
  BY DEF read_bytes
<1>2. <<>> \in Seq(Nat)
  OBVIOUS
<1>3. CASE Containing(addr) = {}
  <2>1. Answer("err", addr, len, <<>>) /\ status' = status
    BY <1>3 DEF read_bytes
  <2>2. QED
    BY <1>1, <1>2, <2>1, AnswerTyped, RequestFrame
<1>4. CASE Containing(addr) # {} /\ Within(addr, len) /\ Stored(addr, len)
  <2> DEFINE dst == [k \in 1 .. len |-> core.bytes[FileOffset(addr) + k - 1]]
  <2>1. Answer("ok", addr, len, dst) /\ status' = status /\ dst \in Seq(Nat)
    BY <1>4, ReadTyped DEF read_bytes
  <2> HIDE DEF dst
  <2>2. QED
    BY <1>1, <2>1, AnswerTyped, RequestFrame
<1>5. CASE Containing(addr) # {} /\ ~ (Within(addr, len) /\ Stored(addr, len))
  <2>1. Answer("panicked", addr, len, <<>>) /\ status' = "panicked"
    BY <1>5 DEF read_bytes, Fail
  <2>2. QED
    BY <1>1, <1>2, <2>1, AnswerTyped, RequestFrame
<1>6. QED
  BY <1>3, <1>4, <1>5

LEMMA ValidStep ==
    ASSUME IInv, NEW addr \in Nat, NEW len \in Nat, is_valid(addr, len)
    PROVE  IInv'
<1>1. status = "ready" /\ core' = core /\ loadvars' = loadvars
  BY DEF is_valid
<1>2. <<>> \in Seq(Nat)
  OBVIOUS
<1>3. \/ \E state \in {"valid", "invalid"} : Answer(state, addr, len, <<>>) /\ status' = status
      \/ Answer("panicked", addr, len, <<>>) /\ status' = "panicked"
  BY DEF is_valid, Fail
<1>4. QED
  BY <1>1, <1>2, <1>3, AnswerTyped, RequestFrame

LEMMA NextInv == IInv /\ [Next]_vars => IInv'
<1> SUFFICES ASSUME IInv, [Next]_vars PROVE IInv'
  OBVIOUS
<1>1. CASE LoadSegment
  BY <1>1, SegmentStep
<1>2. CASE LoadThread
  BY <1>2, ThreadStep
<1>3. CASE LoadFile
  BY <1>3, FileStep
<1>4. CASE LoadOther
  BY <1>4, OtherStep
<1>5. CASE FinishLoading
  BY <1>5 DEF FinishLoading, loadvars, IInv, TypeOK, Progress, RangesRight, ModulesSoFar, AnonSoFar
<1>6. CASE \E addr \in Addrs, len \in Lens : read_bytes(addr, len) \/ is_valid(addr, len)
  BY <1>6, ReadStep, ValidStep, ElfAssumption
<1>7. CASE UNCHANGED vars
  BY <1>7 DEF vars, loadvars, IInv, TypeOK, Progress, RangesRight, ModulesSoFar, AnonSoFar
<1>8. QED
  BY <1>1, <1>2, <1>3, <1>4, <1>5, <1>6, <1>7 DEF Next

LEMMA InvHolds == Spec => []IInv
<1>1. Init => IInv
  BY InitInv
<1>2. IInv /\ [Next]_vars => IInv'
  BY NextInv
<1>3. QED
  BY <1>1, <1>2, PTL DEF Spec

-----------------------------------------------------------------------------
(* The loader and the reads keep their types (elf.rs:13-199): every segment *)
(* has its range, and a read never runs past the bytes of the file.         *)
THEOREM ElfTypeOK == Spec => []TypeOK
<1>1. IInv => TypeOK
  BY DEF IInv
<1>2. QED
  BY <1>1, InvHolds, PTL

(* Every module is at the lowest mapping of its file (elf.rs:115-129),      *)
(* whatever notes there are and in whatever order.                          *)
THEOREM ElfModulesAtLowest == Spec => []ModulesAtLowest
<1>1. IInv => ModulesAtLowest
  <2> SUFFICES ASSUME IInv, status = "ready", NEW p \in Paths
               PROVE  /\ p \in DOMAIN modules <=> Entries(p) # {}
                      /\ p \in DOMAIN modules =>
                           \E i \in Entries(p) :
                              /\ modules[p] = [load_base |-> core.notes[i].v_start,
                                               file_base |-> core.notes[i].ofs]
                              /\ \A j \in Entries(p) : core.notes[i].v_start <= core.notes[j].v_start
    BY DEF ModulesAtLowest
  <2>1. 1 .. n_notes = DOMAIN core.notes
    BY CoreFacts DEF IInv, Progress
  <2>2. Entries(p) = {i \in 1 .. n_notes : IsFile(core, i, p)}
    BY <2>1 DEF Entries, IsFile
  <2>3. QED
    BY <2>2 DEF IInv, ModulesSoFar, ModulesOf, Lowest
<1>2. QED
  BY <1>1, InvHolds, PTL

(* The ranges that count as anonymous are those no file is mapped at        *)
(* (elf.rs:131-135).                                                        *)
THEOREM ElfAnonMeansNoFile == Spec => []AnonMeansNoFile
<1>1. IInv => AnonMeansNoFile
  <2> SUFFICES ASSUME IInv, status = "ready"
               PROVE  AnonRanges = {i \in DOMAIN core.loads :
                        ~\E j \in DOMAIN core.notes :
                            /\ core.notes[j].kind = "file"
                            /\ core.notes[j].v_start = core.loads[i].p_vaddr}
    BY DEF AnonMeansNoFile
  <2>1. 1 .. n_notes = DOMAIN core.notes /\ DOMAIN memory_ranges = DOMAIN core.loads
    BY CoreFacts, AreaRange DEF IInv, Progress
  <2>2. QED
    BY <2>1 DEF IInv, AnonSoFar, AnonOf, FileAt, AnonRanges
<1>2. QED
  BY <1>1, InvHolds, PTL

(* Every thread has the registers of its status note, in the order the      *)
(* unwinder asks for them in (elf.rs:54-83), whatever is in the dump.       *)
THEOREM ElfNumberedByDwarf == Spec => []NumberedByDwarf
<1>1. IInv /\ Init => NumberedByDwarf
  <2> SUFFICES ASSUME Init PROVE NumberedByDwarf
    OBVIOUS
  <2>1. StatusNotes(n_notes) = {} /\ Len(threads) = 0
    BY DEF Init, StatusNotes
  <2>2. QED
    BY <2>1, FS_EmptySet DEF NumberedByDwarf
<1>2. IInv /\ NumberedByDwarf /\ [Next]_vars => NumberedByDwarf'
  <2> SUFFICES ASSUME IInv, NumberedByDwarf, [Next]_vars PROVE NumberedByDwarf'
    OBVIOUS
  <2>1. CASE LoadThread
    BY <2>1, ThreadNumbered
  <2>2. CASE LoadFile
    <3>1. OnNote({"file"}) /\ threads' = threads /\ n_notes' = n_notes + 1
      BY <2>2 DEF LoadFile
    <3>2. QED
      BY <3>1, NoteFacts, ThreadsKept
  <2>3. CASE LoadOther
    <3>1. /\ OnNote({"foreign", "ignored", "unknown"}) /\ threads' = threads
          /\ n_notes' \in {n_notes, n_notes + 1}
      BY <2>3 DEF LoadOther
    <3>2. QED
      BY <3>1, NoteFacts, ThreadsKept
  <2>4. CASE LoadSegment \/ FinishLoading \/ UNCHANGED vars
    BY <2>4, ThreadsKept DEF LoadSegment, FinishLoading, vars, loadvars
  <2>5. CASE \E addr \in Addrs, len \in Lens : read_bytes(addr, len) \/ is_valid(addr, len)
    BY <2>5, ThreadsKept DEF read_bytes, is_valid, loadvars
  <2>6. QED
    BY <2>1, <2>2, <2>3, <2>4, <2>5 DEF Next
<1>3. QED
  BY <1>1, <1>2, InitInv, InvHolds, PTL DEF Spec

(* The reads of every ELF core dump keep the promise of module Memory.      *)
THEOREM ElfImplementsMemory == Spec => ImplementsMemory
<1>1. Init => Mem!Init
  BY DEF Init, Mem!Init
<1>2. IInv /\ [Next]_vars => [Mem!Next]_<<MemoryAreas, reply>>
  <2> SUFFICES ASSUME IInv, [Next]_vars PROVE [Mem!Next]_<<MemoryAreas, reply>>
    OBVIOUS
  <2>1. core' = core => MemoryAreas' = MemoryAreas
    BY DEF MemoryAreas
  <2>2. ASSUME NEW addr \in Addrs, NEW len \in Lens, read_bytes(addr, len)
        PROVE  Mem!Next
    <3>1. /\ addr \in Nat /\ len \in Nat /\ status = "ready" /\ core' = core
          /\ reply'.addr = addr /\ reply'.len = len
      BY <2>2, ElfAssumption DEF read_bytes, Answer, Fail
    <3>2. Mem!Free
      BY <3>1 DEF IInv, TypeOK, Progress, Mem!Free
    <3>3. Mem!Covers(addr) <=> Containing(addr) # {}
      BY <3>1, AreaRange
    <3>4. CASE Containing(addr) = {}
      BY <2>1, <2>2, <3>1, <3>2, <3>3, <3>4 DEF Mem!Next, Mem!read_bytes, read_bytes, Answer
    <3>5. CASE Containing(addr) # {}
      <4>1. ASSUME Mem!Whole(addr, len)
            PROVE  reply'.state = "ok" /\ reply'.dst = Mem!Bytes(addr, len)
        BY <2>2, <3>1, <3>5, <4>1, WholeIsRead DEF read_bytes, Answer, Mem!Bytes
      <4>2. reply'.state \in {"ok", "pending", "panicked"}
        BY <2>2, <3>5 DEF read_bytes, Answer, Fail
      <4>3. Mem!AnswersRead({"ok", "pending", "panicked"})
        BY <3>1, <4>1, <4>2 DEF Mem!AnswersRead
      <4>4. Mem!read_bytes(addr, len)
        BY <3>1, <3>2, <3>3, <3>5, <4>3 DEF Mem!read_bytes
      <4>5. QED
        BY <2>1, <3>1, <4>4 DEF Mem!Next
    <3>6. QED
      BY <3>4, <3>5
  <2>3. ASSUME NEW addr \in Addrs, NEW len \in Lens, is_valid(addr, len)
        PROVE  Mem!Next
    <3>1. /\ addr \in Nat /\ len \in Nat /\ status = "ready" /\ core' = core
          /\ reply'.addr = addr /\ reply'.len = len
      BY <2>3, ElfAssumption DEF is_valid, Answer, Fail
    <3>2. Mem!Free
      BY <3>1 DEF IInv, TypeOK, Progress, Mem!Free
    <3>3. Mem!Covers(addr) <=> Containing(addr) # {}
      BY <3>1, AreaRange
    <3>4. Containing(addr) # {} /\ Mem!Whole(addr, len) => Within(addr, len)
      BY <3>1, WholeIsRead
    <3>5. Mem!is_valid(addr, len)
      BY <2>3, <3>1, <3>2, <3>3, <3>4 DEF Mem!is_valid, is_valid, Answer, Fail
    <3>6. QED
      BY <2>1, <3>1, <3>5 DEF Mem!Next
  <2>4. CASE LoadSegment \/ LoadThread \/ LoadFile \/ LoadOther \/ FinishLoading
    BY <2>1, <2>4 DEF LoadSegment, LoadThread, LoadFile, LoadOther, OnNote, FinishLoading
  <2>5. CASE UNCHANGED vars
    BY <2>1, <2>5 DEF vars
  <2>6. QED
    BY <2>2, <2>3, <2>4, <2>5 DEF Next
<1>3. QED
  BY <1>1, <1>2, InvHolds, PTL DEF Spec, ImplementsMemory, Mem!Spec, Mem!memvars
=============================================================================
