---------------------------- MODULE MCChunkCache ----------------------------
(***************************************************************************)
(* ChunkCache with three entries and five chunks; the number of calls is   *)
(* bounded.                                                                *)
(***************************************************************************)
EXTENDS ChunkCache

CONSTANT MaxUses    \* calls in a behaviour

(* A chunk is named by its offset, so that no two chunks are the same.      *)
MCOffsets == {24, 30, 37, 41, 58}
MCChunks == MCOffsets \cup {0}

MCInit == file = [o \in Offsets |-> o] /\ Start
MCNext == uses < MaxUses /\ Next
MCSpec == MCInit /\ [][MCNext]_vars
=============================================================================
