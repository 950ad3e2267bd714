----------------------------- MODULE MrustcDump -----------------------------
(***************************************************************************)
(* The loader and the reads of an mrustc dump                              *)
(* (src/src/core_dump/mrustc.rs).  The dump stores only the chunks of the  *)
(* address space that some memory range touches, without an index: the     *)
(* loader derives from the ranges alone which stored chunk a range starts  *)
(* in, and a read goes through the chunk cache (module ChunkCache).        *)
(*                                                                         *)
(* A byte of memory is named by its address, so that a read shows where    *)
(* its bytes came from.                                                    *)
(***************************************************************************)
EXTENDS Naturals, Sequences, FiniteSets

CONSTANTS
    Maps,                  \* the memory maps considered, as range headers
    Names,                 \* names of mappings,
    AnonNames, FileNames,  \* those of dynamic memory, and of files
    Addrs, Lens,           \* the reads asked for
    chunk_size,
    HeaderSize,            \* what precedes the chunks in the file
    MaxChunks,             \* bound on the chunks of a dump
    CACHE_BYTES, MIN_ENTS  \* as in ChunkCache

VARIABLES
    maps,           \* the range headers in the file
    memory_ranges,  \* the ranges loaded so far
    modules,        \* file name -> its lowest load address, and the offset there
    n_chunks, last_v_chunk, last_end,  \* the loader's locals
    file_chunks,    \* where each stored chunk starts
    status,         \* "loading", "ready", "rejected" (assert!) or "panicked"
    req,            \* the last request and its answer
    uses, ents, chunk, stamp    \* the chunk cache

loadvars  == <<memory_ranges, modules, n_chunks, last_v_chunk, last_end, file_chunks>>
cachevars == <<uses, ents, chunk, stamp>>
vars == <<maps, loadvars, status, req, cachevars>>

-----------------------------------------------------------------------------
(* What mrustc wrote.  The maps come from /proc/self/maps: in ascending     *)
(* order, disjoint and not empty.                                           *)
MemoryRangeHeader == [v_start : Nat, size : Nat \ {0}, file_ofs : Nat, name : Names]

Touched(r) == (r.v_start \div chunk_size) .. (((r.v_start + r.size) - 1) \div chunk_size)
WrittenChunks(m) == UNION {Touched(m[i]) : i \in DOMAIN m}
Before(m, c) == {d \in WrittenChunks(m) : d < c}
Rank(m, c) == Cardinality(Before(m, c))

Mapped(m, a) == \E i \in DOMAIN m : m[i].v_start <= a /\ a < m[i].v_start + m[i].size

ASSUME DumpAssumption ==
    /\ chunk_size \in Nat \ {0} /\ HeaderSize \in Nat \ {0}
    /\ MaxChunks \in Nat /\ CACHE_BYTES \in Nat /\ MIN_ENTS \in Nat \ {0}
    /\ AnonNames \subseteq Names /\ FileNames \subseteq Names
    /\ Addrs \subseteq Nat
    /\ Lens \subseteq 1 .. chunk_size     \* at most 16 bytes, and chunks of 1 MiB
    /\ Maps \subseteq Seq(MemoryRangeHeader)
    /\ \A m \in Maps :
          /\ \A i, j \in DOMAIN m : i < j => m[i].v_start + m[i].size <= m[j].v_start
          /\ Cardinality(WrittenChunks(m)) <= MaxChunks

header_n_chunks == Cardinality(WrittenChunks(maps))

(* Chunks follow the header in the order of their addresses.  How far apart *)
(* they are depends on the compression: here, one.                          *)
ChunkOffset(k) == HeaderSize + k
ChunkOffsets == {HeaderSize + k : k \in 0 .. MaxChunks}
Content(c) == [i \in 0 .. chunk_size - 1 |-> c * chunk_size + i]
Zeroes == [i \in 0 .. chunk_size - 1 |-> 0]
StoredAt(ofs) ==
    IF \E c \in WrittenChunks(maps) : HeaderSize + Rank(maps, c) = ofs
      THEN Content(CHOOSE c \in WrittenChunks(maps) : HeaderSize + Rank(maps, c) = ofs)
      ELSE Zeroes
DumpFile == [ofs \in ChunkOffsets |-> StoredAt(ofs)]

Cache == INSTANCE ChunkCache
           WITH Offsets <- ChunkOffsets, Chunks <- [0 .. chunk_size - 1 -> Nat], file <- DumpFile

-----------------------------------------------------------------------------
(* CoreDump::open, one range at a time.                                     *)

MemoryRange == [first_chunk : Nat, v_start : Nat, size : Nat \ {0}, is_anon : BOOLEAN]
Module == [load_base : Nat, file_base : Nat]

(* A range that does not start in the chunk the last one ended in: if that  *)
(* chunk was entered, it is stored too.                                     *)
Mutant_AnyTail(this_chunk) == last_end % chunk_size # 0
Gap(this_chunk) == last_v_chunk # this_chunk /\ last_end % chunk_size # 0

WithModule(hdr) ==
    IF hdr.name \notin FileNames THEN modules
    ELSE IF hdr.name \in DOMAIN modules /\ modules[hdr.name].load_base <= hdr.v_start THEN modules
    ELSE [n \in DOMAIN modules \cup {hdr.name} |->
            IF n = hdr.name THEN [load_base |-> hdr.v_start, file_base |-> hdr.file_ofs]
                            ELSE modules[n]]

LoadRange ==
    /\ status = "loading" /\ Len(memory_ranges) < Len(maps)
    /\ LET hdr        == maps[Len(memory_ranges) + 1]
           this_chunk == hdr.v_start \div chunk_size
           this_end   == hdr.v_start + hdr.size
           next_chunk == this_end \div chunk_size
           first      == IF Gap(this_chunk) THEN n_chunks + 1 ELSE n_chunks
       IN /\ memory_ranges' =
               Append(memory_ranges, [first_chunk |-> first, v_start |-> hdr.v_start,
                                      size |-> hdr.size, is_anon |-> hdr.name \in AnonNames])
          /\ n_chunks' = first + (next_chunk - this_chunk)
          /\ last_end' = this_end
          /\ last_v_chunk' = next_chunk
          /\ modules' = WithModule(hdr)
    /\ UNCHANGED <<maps, file_chunks, status, req, cachevars>>

(* The last chunk, the assertion, and the scan for the starts of the chunks. *)
FinishLoading ==
    /\ status = "loading" /\ Len(memory_ranges) = Len(maps)
    /\ n_chunks' = IF last_end % chunk_size # 0 THEN n_chunks + 1 ELSE n_chunks
    /\ IF n_chunks' = header_n_chunks
         THEN /\ status' = "ready"
              /\ file_chunks' = [k \in 1 .. header_n_chunks |-> ChunkOffset(k - 1)]
         ELSE status' = "rejected" /\ UNCHANGED file_chunks
    /\ UNCHANGED <<maps, memory_ranges, modules, last_v_chunk, last_end, req, cachevars>>

-----------------------------------------------------------------------------
(* Reads.                                                                   *)
Idle == status = "ready" /\ req.state # "split"

Containing(addr) ==
    {i \in DOMAIN memory_ranges :
       /\ memory_ranges[i].v_start <= addr
       /\ addr < memory_ranges[i].v_start + memory_ranges[i].size}
RangeOf(addr) == memory_ranges[CHOOSE i \in Containing(addr) : \A j \in Containing(addr) : i <= j]

(* The chunk to read, as an index into file_chunks (from 0).                *)
ChunkIndex(addr) ==
    LET r == RangeOf(addr)
        start_aligned == r.v_start - (r.v_start % chunk_size)
    IN r.first_chunk + ((addr - start_aligned) \div chunk_size)

Copy(data, ofs, l) == [k \in 1 .. l |-> data[ofs + k - 1]]

Answer(state, addr, len, dst) ==
    req' = [state |-> state, addr |-> addr, len |-> len, dst |-> dst]

(* read_bytes, up to the first chunk; a split read goes on below.           *)
ReadBytes(addr, len) ==
    /\ Idle
    /\ UNCHANGED <<maps, loadvars>>
    /\ IF Containing(addr) = {}
         THEN Answer("err", addr, len, <<>>) /\ UNCHANGED <<status, cachevars>>
         ELSE LET chunk_ofs == addr % chunk_size
                  l1 == chunk_size - chunk_ofs
              IN IF ChunkIndex(addr) >= Len(file_chunks)
                   THEN /\ status' = "panicked"
                        /\ Answer("panicked", addr, len, <<>>)
                        /\ UNCHANGED cachevars
                   ELSE /\ Cache!with_chunk(file_chunks[ChunkIndex(addr) + 1])
                        /\ IF chunk_ofs + len > chunk_size
                             THEN Answer("split", addr, len, Copy(chunk'.data, chunk_ofs, l1))
                             ELSE Answer("ok", addr, len, Copy(chunk'.data, chunk_ofs, len))
                        /\ UNCHANGED status

(* The rest of a read that crosses into the next stored chunk.              *)
ReadRest ==
    /\ status = "ready" /\ req.state = "split"
    /\ UNCHANGED <<maps, loadvars>>
    /\ LET idx == ChunkIndex(req.addr) + 1
       IN IF idx >= Len(file_chunks)
            THEN /\ status' = "panicked"
                 /\ Answer("panicked", req.addr, req.len, <<>>)
                 /\ UNCHANGED cachevars
            ELSE /\ Cache!with_chunk(file_chunks[idx + 1])
                 /\ Answer("ok", req.addr, req.len,
                           req.dst \o Copy(chunk'.data, 0, req.len - Len(req.dst)))
                 /\ UNCHANGED status

(* is_valid asserts that an area that starts in a range ends in it.         *)
Mutant_LastByteOut(addr, len) ==
    /\ Idle
    /\ IF Containing(addr) = {}
         THEN Answer("invalid", addr, len, <<>>) /\ UNCHANGED status
         ELSE IF (addr - RangeOf(addr).v_start) + len < RangeOf(addr).size
                THEN Answer("valid", addr, len, <<>>) /\ UNCHANGED status
                ELSE Answer("asserted", addr, len, <<>>) /\ status' = "panicked"
    /\ UNCHANGED <<maps, loadvars, cachevars>>
CheckValid(addr, len) ==
    /\ Idle
    /\ IF Containing(addr) = {}
         THEN Answer("invalid", addr, len, <<>>) /\ UNCHANGED status
         ELSE IF (addr - RangeOf(addr).v_start) + len <= RangeOf(addr).size
                THEN Answer("valid", addr, len, <<>>) /\ UNCHANGED status
                ELSE Answer("asserted", addr, len, <<>>) /\ status' = "panicked"
    /\ UNCHANGED <<maps, loadvars, cachevars>>

-----------------------------------------------------------------------------
Init ==
    /\ maps \in Maps
    /\ memory_ranges = <<>> /\ modules = [n \in {} |-> 0]
    /\ n_chunks = 0 /\ last_v_chunk = 0 /\ last_end = 0
    /\ file_chunks = <<>> /\ status = "loading"
    /\ req = [state |-> "none", addr |-> 0, len |-> 0, dst |-> <<>>]
    /\ Cache!Start

Next ==
    \/ LoadRange \/ FinishLoading \/ ReadRest
    \/ \E addr \in Addrs, len \in Lens : ReadBytes(addr, len) \/ CheckValid(addr, len)

Spec == Init /\ [][Next]_vars

-----------------------------------------------------------------------------
States == {"none", "ok", "err", "split", "valid", "invalid", "panicked", "asserted"}
TypeOK ==
    /\ memory_ranges \in Seq(MemoryRange)
    /\ \A n \in DOMAIN modules : n \in FileNames /\ modules[n] \in Module
    /\ n_chunks \in Nat /\ last_v_chunk \in Nat /\ last_end \in Nat
    /\ file_chunks \in Seq(ChunkOffsets)
    /\ status \in {"loading", "ready", "rejected", "panicked"}
    /\ req \in [state : States, addr : Nat, len : 0 .. chunk_size, dst : Seq(Nat)]

(* A dump mrustc wrote is never rejected: the number of chunks derived from *)
(* the ranges is the number stored, wherever ranges start and end and share *)
(* chunks (mrustc.rs:62-101).                                               *)
NeverRejected == status # "rejected"

(* While loading, each range already knows its first stored chunk           *)
(* (mrustc.rs:25-27).                                                       *)
FirstChunksRight ==
    \A i \in DOMAIN memory_ranges :
        memory_ranges[i].first_chunk = Rank(maps, maps[i].v_start \div chunk_size)

(* A read of mapped memory gives the bytes that were there, never an Err or *)
(* a panic, whatever chunks the cache holds and on whichever side of a      *)
(* chunk's end the bytes lie (mrustc.rs:173-203).                           *)
AllMapped(addr, len) == \A k \in 0 .. len - 1 : Mapped(maps, addr + k)
ReadsMemory ==
    AllMapped(req.addr, req.len) /\ req.len > 0 =>
        /\ req.state \notin {"err", "panicked"}
        /\ req.state = "ok" => req.dst = [k \in 1 .. req.len |-> req.addr + k - 1]

(* The reads and is_valid keep the promise the rest of the program relies   *)
(* on (mrustc.rs:164-203): a read in two halves is pending in between, and  *)
(* an assertion that fails is a panic.                                      *)
MemoryAreas == {[start |-> maps[i].v_start, size |-> maps[i].size, stored |-> maps[i].size] :
                  i \in DOMAIN maps}
ReplyState(state) == CASE state = "split"    -> "pending"
                       [] state = "asserted" -> "panicked"
                       [] OTHER              -> state
Reply(r) == [r EXCEPT !.state = ReplyState(r.state)]
Mem == INSTANCE Memory WITH areas <- MemoryAreas, reply <- Reply(req)
ImplementsMemory == Mem!Spec
=============================================================================
