----------------------------- MODULE MCElfDump ------------------------------
(***************************************************************************)
(* ElfDump for every way of placing up to MaxSegments segments below Top   *)
(* and of storing a part of each, with notes that list files at their      *)
(* starts in any order.                                                    *)
(***************************************************************************)
EXTENDS ElfDump, SequencesExt, FiniteSetsExt

CONSTANTS Top, MaxSegments, MaxNotes

HeaderSize == 1   \* what precedes the segments in the file

-----------------------------------------------------------------------------
(* A segment by its bounds and the number of bytes stored.  The stored      *)
(* bytes follow each other in the file; the last segment may come from      *)
(* outside (offset 0).                                                      *)
Placed == {s \in [from : 1 .. Top - 1, to : 2 .. Top, stored : 0 .. Top] :
             s.from < s.to /\ s.stored <= s.to - s.from}
Layouts == UNION {{l \in [1 .. n -> Placed] : \A i \in 1 .. n - 1 : l[i].to <= l[i + 1].from} :
                    n \in 1 .. MaxSegments}

StoredBefore(l, i) == FoldSet(LAMBDA j, n : n + l[j].stored, 0, 1 .. i - 1)
SegmentAt(l, i, outside) ==
    [p_vaddr |-> l[i].from, p_memsz |-> l[i].to - l[i].from, p_filesz |-> l[i].stored,
     p_offset |-> IF outside /\ i = Len(l) THEN 0 ELSE HeaderSize + StoredBefore(l, i)]

FileBytes(l) ==
    FoldLeft(LAMBDA bytes, s : bytes \o [k \in 1 .. s.stored |-> s.from + k - 1],
             [k \in 1 .. HeaderSize |-> 0], l)

-----------------------------------------------------------------------------
(* A register is named with the status note it is from; the words before   *)
(* the registers are not looked at.                                        *)
NoRegister == <<"other", 0>>
MCRegisters == (ToSet(UserRegs) \X (1 .. 2)) \cup {NoRegister}
PrStatus(n) == [kind |-> "prstatus",
                desc |-> [i \in 1 .. StatusWords |-> NoRegister] \o [w \in 1 .. NRegs |-> <<UserRegs[w], n>>]]

Others == {PrStatus(1), PrStatus(2), [kind |-> "foreign"], [kind |-> "unknown"]}
NotesOf(l) ==
    SeqOf({[kind |-> "file", v_start |-> l[i].from, ofs |-> i, path |-> p] :
             i \in DOMAIN l, p \in Paths} \cup Others, MaxNotes)

(* Reads look at no note, and notes at nothing but where segments start.   *)
CoreOf(l, notes, outside) ==
    [loads |-> [i \in DOMAIN l |-> SegmentAt(l, i, outside)], notes |-> notes,
     size |-> Len(FileBytes(l)), bytes |-> [o \in 0 .. Len(FileBytes(l)) - 1 |-> FileBytes(l)[o + 1]]]
UnitLayout == [i \in 1 .. MaxSegments |-> [from |-> i, to |-> i + 1, stored |-> 1]]
MCCores ==
    {CoreOf(l, <<PrStatus(1)>>, outside) : l \in Layouts, outside \in BOOLEAN}
    \cup {CoreOf(UnitLayout, notes, FALSE) : notes \in NotesOf(UnitLayout)}

(* A request leaves nothing behind that the next one could look at, so each *)
(* behaviour makes two.                                                     *)
MCNext ==
    \/ LoadSegment \/ LoadThread \/ LoadFile \/ LoadOther \/ FinishLoading
    \/ \E addr \in Addrs, len \in Lens :
          /\ reply.state = "none" \/ reply.addr = 1
          /\ read_bytes(addr, len) \/ is_valid(addr, len)

MCSpec == Init /\ [][MCNext]_vars
=============================================================================
