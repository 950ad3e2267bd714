-------------------------------- MODULE RbTree --------------------------------
(***************************************************************************)
(* The walk along the red-black tree of a std::map: CppMapNode in          *)
(* src/src/type_handlers/gnu_std_cxx.rs and the loop in visit_type that    *)
(* drives it.  Module Walk takes the items of a map as a sequence: this    *)
(* module shows which sequence the code follows.                           *)
(*                                                                         *)
(* The nodes of a tree of n items are named 1 .. n in the order of their   *)
(* keys, its header n + 1, and nil is 0.                                   *)
(***************************************************************************)
EXTENDS Naturals, Sequences

CONSTANT Trees   \* the trees considered

VARIABLES
    tree,     \* the tree in memory,
    mapped,   \* the nodes the dump has,
    count,    \* and node_count
    cur_n,    \* the copy of the current node
    p,        \* the copy of its parent, in `next`
    status,   \* where the code is
    visited   \* the items claimed so far

vars == <<tree, mapped, count, cur_n, p, status, visited>>

-----------------------------------------------------------------------------
(* lo and hi are the least and the greatest key below a node: they are not  *)
(* in memory, and say what makes the links a search tree.                   *)
Nodes(t) == 1 .. t.n
Header(t) == t.n + 1
WellFormed(t) ==
    /\ t.n \in Nat
    /\ \A f \in {t.left, t.right, t.parent, t.lo, t.hi} : f \in [Nodes(t) -> 0 .. t.n + 1]
    /\ IF t.n = 0 THEN t.root = 0
       ELSE /\ t.root \in Nodes(t) /\ t.parent[t.root] = Header(t)
            /\ t.lo[t.root] = 1 /\ t.hi[t.root] = t.n
    /\ \A x \in Nodes(t) :
          /\ t.lo[x] >= 1 /\ t.lo[x] <= x /\ x <= t.hi[x] /\ t.hi[x] <= t.n
          /\ IF t.left[x] = 0 THEN t.lo[x] = x
             ELSE /\ t.left[x] \in Nodes(t) /\ t.parent[t.left[x]] = x
                  /\ t.lo[t.left[x]] = t.lo[x] /\ t.hi[t.left[x]] = x - 1
          /\ IF t.right[x] = 0 THEN t.hi[x] = x
             ELSE /\ t.right[x] \in Nodes(t) /\ t.parent[t.right[x]] = x
                  /\ t.lo[t.right[x]] = x + 1 /\ t.hi[t.right[x]] = t.hi[x]
          /\ x # t.root => /\ t.parent[x] \in Nodes(t)
                           /\ x \in {t.left[t.parent[x]], t.right[t.parent[x]]}

ASSUME TreeAssumption == \A t \in Trees : WellFormed(t)

(* CppMapNode::read.  The header links to the first, the root and the last  *)
(* item, or twice to itself when there is none.                             *)
Nil == [addr |-> 0, left_addr |-> 0, parent_addr |-> 0, right_addr |-> 0]
Readable(a) == a \in mapped \cup {0}
Read(a) ==
    IF a = 0 THEN Nil
    ELSE IF a = Header(tree)
      THEN [addr |-> a, left_addr |-> 1, parent_addr |-> tree.root,
             right_addr |-> IF tree.n = 0 THEN Header(tree) ELSE tree.n]
      ELSE [addr |-> a, left_addr |-> tree.left[a], parent_addr |-> tree.parent[a],
            right_addr |-> tree.right[a]]

-----------------------------------------------------------------------------
(* `?`: the read of a node that is not in the dump ends the walk.           *)
Err == status' = "err" /\ UNCHANGED <<tree, mapped, count, cur_n, p, visited>>

(* CppMap::opt_read: from the header to the leftmost node.                  *)
Open ==
    /\ status = "open"
    /\ IF count = 0
         THEN cur_n' = Nil /\ status' = "item" /\ UNCHANGED <<tree, mapped, count, p, visited>>
         ELSE IF Readable(Header(tree)) /\ Readable(Read(Header(tree)).left_addr)
           THEN /\ cur_n' = Read(Read(Header(tree)).left_addr)
                /\ status' = "item"
                /\ UNCHANGED <<tree, mapped, count, p, visited>>
           ELSE Err

(* One turn of the loop in visit_type: the assertion, the claim, the visit. *)
Item ==
    /\ status = "item"
    /\ IF Len(visited) = count THEN status' = "done" /\ UNCHANGED visited
       ELSE IF cur_n.addr = 0 THEN status' = "panicked" /\ UNCHANGED visited
       ELSE status' = "next" /\ visited' = Append(visited, cur_n.addr)
    /\ UNCHANGED <<tree, mapped, count, cur_n, p>>

(* CppMapNode::next: down to the leftmost node on the right, ...            *)
NextRight ==
    /\ status = "next" /\ cur_n.right_addr # 0
    /\ IF Readable(cur_n.right_addr)
         THEN /\ cur_n' = Read(cur_n.right_addr)
              /\ status' = "down"
              /\ UNCHANGED <<tree, mapped, count, p, visited>>
         ELSE Err

Mutant_DownOnce ==
    /\ status = "down" /\ status' = "item"
    /\ UNCHANGED <<tree, mapped, count, cur_n, p, visited>>
Mutant_BackUp ==
    /\ status = "down"
    /\ IF cur_n.left_addr = 0
         THEN status' = "item" /\ UNCHANGED <<tree, mapped, count, cur_n, p, visited>>
         ELSE IF Readable(cur_n.parent_addr)
           THEN cur_n' = Read(cur_n.parent_addr) /\ UNCHANGED <<tree, mapped, count, p, status, visited>>
           ELSE Err
Down ==
    /\ status = "down"
    /\ IF cur_n.left_addr = 0
         THEN status' = "item" /\ UNCHANGED <<tree, mapped, count, cur_n, p, visited>>
         ELSE IF Readable(cur_n.left_addr)
           THEN cur_n' = Read(cur_n.left_addr) /\ UNCHANGED <<tree, mapped, count, p, status, visited>>
           ELSE Err

(* ... or up to the first ancestor this node is on the left of.             *)
NextUp ==
    /\ status = "next" /\ cur_n.right_addr = 0
    /\ IF Readable(cur_n.parent_addr)
         THEN /\ p' = Read(cur_n.parent_addr)
              /\ status' = "up"
              /\ UNCHANGED <<tree, mapped, count, cur_n, visited>>
         ELSE Err

(* The last test is for a root without a right child, which the header      *)
(* links to as its right.                                                   *)
Up ==
    /\ status = "up"
    /\ IF cur_n.addr # p.right_addr
         THEN /\ cur_n' = IF cur_n.right_addr # p.addr THEN p ELSE cur_n
              /\ status' = "item"
              /\ UNCHANGED <<tree, mapped, count, p, visited>>
         ELSE IF Readable(p.parent_addr)
           THEN /\ cur_n' = p
                /\ p' = Read(p.parent_addr)
                /\ UNCHANGED <<tree, mapped, count, status, visited>>
           ELSE Err

-----------------------------------------------------------------------------
(* node_count is at most one more than the number of nodes: libstdc++       *)
(* counts an item after it has linked its node, and counts it down after it *)
(* has unlinked it (gnu_std_cxx.rs:172 reads the count apart).              *)
Init ==
    /\ tree \in Trees
    /\ mapped \in SUBSET (Nodes(tree) \cup {Header(tree)})
    /\ count \in 0 .. tree.n + 1
    /\ cur_n = Nil /\ p = Nil
    /\ status = "open"
    /\ visited = <<>>

Next == Open \/ Item \/ NextRight \/ Down \/ NextUp \/ Up

Spec == Init /\ [][Next]_vars

-----------------------------------------------------------------------------
Addr == 0 .. Header(tree)
NodeCopy == [addr : Addr, left_addr : Addr, parent_addr : Addr, right_addr : Addr]
TypeOK ==
    /\ cur_n \in NodeCopy /\ p \in NodeCopy
    /\ status \in {"open", "item", "next", "down", "up", "done", "err", "panicked"}
    /\ visited \in Seq(Addr) /\ Len(visited) <= count

(* Every item is claimed, in the order of the keys and none twice, whatever *)
(* the shape of the tree: no subtree is skipped on the way down or up       *)
(* (gnu_std_cxx.rs:218-244).  The header, n + 1, is taken for an item after *)
(* all of them, and only in a dump taken while an item was erased, when     *)
(* node_count is one too many.                                              *)
InKeyOrder == \A k \in 1 .. Len(visited) : visited[k] = k

(* main.rs:558: the walk does not run out of nodes before it has seen       *)
(* node_count of them.                                                      *)
NeverNil == status # "panicked"
=============================================================================
