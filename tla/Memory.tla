------------------------------- MODULE Memory -------------------------------
(***************************************************************************)
(* What the rest of the program relies on when it asks a CoreDump for      *)
(* memory (src/src/core_dump.rs): a read of bytes that one area of the     *)
(* dump holds gives those bytes, a read that starts outside every area is  *)
(* an Err, and is_valid tells the two apart.  Nothing is promised of a     *)
(* read that starts in an area and leaves what is stored of it.  Both      *)
(* formats are shown to keep this promise: modules MrustcDump and ElfDump. *)
(*                                                                         *)
(* A byte of memory is named by its address.                               *)
(***************************************************************************)
EXTENDS Naturals, Sequences

CONSTANTS Addrs, Lens   \* the requests

VARIABLES
    areas,   \* the areas of the dump, and how many bytes of each it stores
    reply    \* the last request and its answer; "pending" while it is read

memvars == <<areas, reply>>

Covers(addr) == \E a \in areas : a.start <= addr /\ addr < a.start + a.size
Whole(addr, len) == \E a \in areas : a.start <= addr /\ addr + len <= a.start + a.stored
Bytes(addr, len) == [k \in 1 .. len |-> addr + k - 1]

Free == reply.state \notin {"pending", "panicked"}

AnswersRead(states) ==
    /\ reply'.state \in states
    /\ Whole(reply'.addr, reply'.len) =>
          /\ reply'.state \in {"pending", "ok"}
          /\ reply'.state = "ok" => reply'.dst = Bytes(reply'.addr, reply'.len)

(* read_bytes: the answer, or the first part of a read in two parts.        *)
read_bytes(addr, len) ==
    /\ Free
    /\ reply'.addr = addr /\ reply'.len = len
    /\ IF Covers(addr) THEN AnswersRead({"ok", "pending", "panicked"})
                       ELSE reply'.state = "err"

(* The rest of such a read.                                                 *)
Fulfil ==
    /\ reply.state = "pending"
    /\ reply'.addr = reply.addr /\ reply'.len = reply.len
    /\ AnswersRead({"ok", "panicked"})

is_valid(addr, len) ==
    /\ Free
    /\ reply'.addr = addr /\ reply'.len = len
    /\ IF Covers(addr)
         THEN /\ reply'.state \in {"valid", "panicked"}
              /\ Whole(addr, len) => reply'.state = "valid"
         ELSE reply'.state = "invalid"

Init == reply.state = "none"

Next ==
    /\ areas' = areas
    /\ \/ Fulfil
       \/ \E addr \in Addrs, len \in Lens : read_bytes(addr, len) \/ is_valid(addr, len)

Spec == Init /\ [][Next]_memvars
=============================================================================
