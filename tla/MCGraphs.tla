------------------------------- MODULE MCGraphs -------------------------------
(***************************************************************************)
(* Walk on every small graph of pointers: a variable with two pointers to  *)
(* two objects that each hold a pointer, for every kind, target and        *)
(* readability, so every way of sharing, nesting and tying cycles with two *)
(* objects, one of them virtual.                                           *)
(***************************************************************************)
EXTENDS MCDumps, WalkRequirements

GraphCells == {"v", "p1", "p2", "a", "pa", "b", "pb", "B"}

-----------------------------------------------------------------------------
(* The pointers of the graphs.                                              *)
Links == {<<"CppUniquePtr", Null>>} \cup ({"CppUniquePtr", "CppSharedPtr", "rc_ptr"} \X {"a", "b"})

InnerLinks == Links \cup ({"AllocRc"} \X {"a", "b"})
Ends == {"ok", "err"}

(* `b` is virtual: seen from the pointer it is a `T`, in truth it is the    *)
(* larger "Derived" at the same address (cell "B").                         *)
Graph(l1, l2, la, lb, oka, okb) ==
    [cells |-> [c \in Cells |->
        CASE c = "v"  -> Struct("v", <<Member("x", "p1"), Member("y", "p2")>>, 0, 16)
          [] c = "p1" -> Pointer("p1", l1[1], l1[2], "ok")
          [] c = "p2" -> Pointer("p2", l2[1], l2[2], "ok")
          [] c = "a"  -> Struct("a", <<Member("x", "pa")>>, 64, 8)
          [] c = "pa" -> Pointer("pa", la[1], la[2], oka)
          [] c = "b"  -> [Struct("B", <<>>, 128, 8) EXCEPT !.vptr = TRUE, !.readable = okb]
          [] c = "B"  -> [Struct("B", <<Member("y", "pb")>>, 128, 40) EXCEPT !.ty = "Derived"]
          [] c = "pb" -> Pointer("pb", lb[1], lb[2], "ok")
          [] OTHER -> Blank],
     frames |-> MainFrames, args |-> MainArgs]

(* Graphs without a cycle of owners, of which an Rc is one: such a cycle is *)
(* followed for ever (OwnersAcyclic) and its states have no end.            *)
Owning == {"CppUniquePtr", "AllocRc"}
NoOwnerCycle(la, lb) ==
    LET owns(l, c) == l[1] \in Owning /\ l[2] = c
    IN /\ ~owns(la, "a") /\ ~owns(lb, "b")
       /\ ~(owns(la, "b") /\ owns(lb, "a"))

Graphs ==
    {Graph(q[1], q[2], q[3], q[4], q[5], q[6]) :
       q \in {q \in Links \X Links \X InnerLinks \X InnerLinks \X Ends \X Ends :
               NoOwnerCycle(q[3], q[4])}}
=============================================================================
