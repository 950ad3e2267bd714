---------------------------- MODULE MCMrustcDump ----------------------------
(***************************************************************************)
(* MrustcDump for every way of placing up to three ranges in four chunks,  *)
(* with a cache that holds less than a dump.                               *)
(***************************************************************************)
EXTENDS MrustcDump

CONSTANTS Top,      \* end of the address space
          MaxUses   \* chunks asked for in a behaviour

MCNames == {"", "[heap]", "[stack]", "/bin"}

(* Names and file offsets play no part in the reads: each position has its  *)
(* own.                                                                     *)
NameAt(i) == <<"/bin", "/bin", "[heap]">>[i]
Header(i, from, to) ==
    [v_start |-> from, size |-> to - from, file_ofs |-> from, name |-> NameAt(i)]
Bounds(n) == {b \in [1 .. 2 * n -> 1 .. Top] :
                \A i \in 1 .. 2 * n - 1 : IF i % 2 = 1 THEN b[i] < b[i + 1] ELSE b[i] <= b[i + 1]}
MCMaps == UNION {{[i \in 1 .. n |-> Header(i, b[2 * i - 1], b[2 * i])] : b \in Bounds(n)} : n \in 1 .. 3}

MCNext ==
    \/ LoadRange \/ FinishLoading \/ ReadRest
    \/ \E addr \in Addrs, len \in Lens :
          uses < MaxUses /\ (ReadBytes(addr, len) \/ CheckValid(addr, len))

MCSpec == Init /\ [][MCNext]_vars
=============================================================================
