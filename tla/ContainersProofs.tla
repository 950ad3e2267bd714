-------------------------- MODULE ContainersProofs --------------------------
(***************************************************************************)
(* The containers of Containers, of every size and after every history of  *)
(* the program: trees, hash tables, lists, contiguous containers and enums *)
(* in turn, each with an invariant of its own, and then all of them as one *)
(* specification that implements Iteration.                                *)
(***************************************************************************)
EXTENDS Containers, FiniteSetTheorems, WellFoundedInduction, TLAPS

K == Len(visited)
IsNode(x) == x \in Nodes(tree)

(* Where the code is in the tree.  On the way down, the subtree holds what  *)
(* comes next; on the way up, it ends with what came last.                  *)
AtItem == K < count => cur_n = Read(K + 1)
AtNext == K >= 1 /\ K <= count /\ cur_n = Read(K)
GoingDown == \E x \in Nodes(tree) : cur_n = Read(x) /\ tree.lo[x] = K + 1
GoingUp == \E x \in Nodes(tree) :
             cur_n = Read(x) /\ p = Read(tree.parent[x]) /\ tree.hi[x] = K
PastTheRoot ==
    K = tree.n /\ tree.n > 0 /\ tree.root = tree.n /\ cur_n = Read(Header(tree)) /\ p = Read(tree.root)

(* After the header was taken for an item, it goes down again.              *)
Linked == 1 .. tree.n + 1
Beyond == K = tree.n + 1 /\ \E x \in Linked : cur_n = Read(x)

Inv ==
    /\ tree \in Trees /\ count \in 0 .. tree.n + 1
    /\ TypeOK /\ InKeyOrder /\ NeverNil
    /\ status = "open" => visited = <<>>
    /\ status = "item" => AtItem
    /\ status = "next" => AtNext
    /\ status = "down" => GoingDown \/ Beyond
    /\ status = "up" => GoingUp \/ PastTheRoot

-----------------------------------------------------------------------------
LEMMA TreeFacts ==
    ASSUME Inv
    PROVE  /\ tree.n \in Nat /\ count \in Nat /\ count <= tree.n + 1 /\ K \in Nat /\ K <= count
           /\ Nodes(tree) = 1 .. tree.n /\ Header(tree) = tree.n + 1
           /\ tree.n > 0 => /\ tree.root \in Nodes(tree) /\ tree.parent[tree.root] = Header(tree)
                            /\ tree.hi[tree.root] = tree.n
           /\ tree.n = 0 => tree.root = 0
BY TreeAssumption DEF Inv, TypeOK, WellFormed, K, Nodes, Header

LEMMA NodeFacts ==
    ASSUME Inv, NEW x \in Nodes(tree)
    PROVE  /\ x \in Nat /\ x >= 1 /\ x <= tree.n /\ x # Header(tree) /\ x # 0 /\ tree.n > 0
           /\ tree.lo[x] \in Nat /\ tree.hi[x] \in Nat /\ tree.lo[x] <= x /\ x <= tree.hi[x]
           /\ tree.hi[x] <= tree.n
           /\ Read(x) = [addr |-> x, left_addr |-> tree.left[x], parent_addr |-> tree.parent[x],
                         right_addr |-> tree.right[x]]
<1>1. WellFormed(tree) /\ Nodes(tree) = 1 .. tree.n /\ Header(tree) = tree.n + 1 /\ tree.n \in Nat
  BY TreeAssumption, TreeFacts DEF Inv
<1>2. tree.lo \in [Nodes(tree) -> 0 .. tree.n + 1] /\ tree.hi \in [Nodes(tree) -> 0 .. tree.n + 1]
  BY <1>1 DEF WellFormed
<1>3. x \in Nat /\ x >= 1 /\ x <= tree.n /\ x # Header(tree) /\ x # 0
  BY <1>1
<1>4. tree.lo[x] \in Nat /\ tree.hi[x] \in Nat /\ tree.n > 0
  BY <1>1, <1>2, <1>3
<1>5. tree.lo[x] <= x /\ x <= tree.hi[x] /\ tree.hi[x] <= tree.n
  BY <1>1 DEF WellFormed
<1>6. Read(x) = [addr |-> x, left_addr |-> tree.left[x], parent_addr |-> tree.parent[x],
                 right_addr |-> tree.right[x]]
  BY <1>3 DEF Read
<1>7. QED
  BY <1>3, <1>4, <1>5, <1>6

LEMMA LeftFacts ==
    ASSUME Inv, NEW x \in Nodes(tree)
    PROVE  IF tree.left[x] = 0 THEN tree.lo[x] = x
           ELSE tree.left[x] \in Nodes(tree) /\ tree.lo[tree.left[x]] = tree.lo[x]
                  /\ tree.hi[tree.left[x]] = x - 1
BY TreeAssumption DEF Inv, WellFormed

LEMMA RightFacts ==
    ASSUME Inv, NEW x \in Nodes(tree)
    PROVE  IF tree.right[x] = 0 THEN tree.hi[x] = x
           ELSE tree.right[x] \in Nodes(tree) /\ tree.lo[tree.right[x]] = x + 1
                  /\ tree.hi[tree.right[x]] = tree.hi[x]
BY TreeAssumption DEF Inv, WellFormed

LEMMA ParentFacts ==
    ASSUME Inv, NEW x \in Nodes(tree), x # tree.root
    PROVE  /\ tree.parent[x] \in Nodes(tree)
           /\ x \in {tree.left[tree.parent[x]], tree.right[tree.parent[x]]}
BY TreeAssumption DEF Inv, WellFormed

LEMMA LinksAreAddrs ==
    ASSUME Inv, NEW a \in Addr
    PROVE  Read(a) \in NodeCopy
<1>1. CASE a = 0
  BY <1>1, TreeFacts DEF Read, Nil, NodeCopy, Addr
<1>2. CASE a = Header(tree)
  BY <1>2, TreeFacts DEF Read, NodeCopy, Addr, Nil
<1>3. CASE a # 0 /\ a # Header(tree)
  <2>1. a \in Nodes(tree)
    BY <1>3, TreeFacts DEF Addr
  <2>2. tree.left[a] \in Addr /\ tree.right[a] \in Addr /\ tree.parent[a] \in Addr
    BY <2>1, TreeFacts, TreeAssumption DEF Inv, WellFormed, Addr
  <2>3. QED
    BY <2>1, <2>2, NodeFacts DEF NodeCopy
<1>4. QED
  BY <1>1, <1>2, <1>3

(* Whatever a step does but reading a node leaves the tree as it is.        *)
Moved ==
    /\ UNCHANGED <<tree, count, visited>>
    /\ cur_n' \in NodeCopy /\ p' \in NodeCopy
    /\ status' \in {"item", "next", "down", "up", "done", "err"}
LEMMA MovedKeeps ==
    ASSUME Inv, Moved,
           status' = "item" => (K < count => cur_n' = Read(K + 1)),
           status' = "next" => K >= 1 /\ K <= count /\ cur_n' = Read(K),
           status' = "down" =>
             \/ \E x \in Nodes(tree) : cur_n' = Read(x) /\ tree.lo[x] = K + 1
             \/ K = tree.n + 1 /\ \E x \in Linked : cur_n' = Read(x),
           status' = "up" =>
             \/ \E x \in Nodes(tree) :
                  cur_n' = Read(x) /\ p' = Read(tree.parent[x]) /\ tree.hi[x] = K
             \/ /\ K = tree.n /\ tree.n > 0 /\ tree.root = tree.n
                /\ cur_n' = Read(Header(tree)) /\ p' = Read(tree.root)
    PROVE  Inv'
<1>1. /\ K' = K /\ Nodes(tree)' = Nodes(tree) /\ Header(tree)' = Header(tree)
      /\ \A a : Read(a)' = Read(a)
  BY DEF Moved, K, Nodes, Header, Read, Nil
<1>2. TypeOK' /\ InKeyOrder' /\ NeverNil'
  BY DEF Moved, Inv, TypeOK, InKeyOrder, NeverNil, NodeCopy, Addr, Header
<1>3. tree' \in Trees /\ count' \in 0 .. tree'.n + 1
  BY DEF Moved, Inv
<1>4. status' # "open"
  BY DEF Moved
<1>5. (status = "item" => AtItem)'
  BY <1>1 DEF Moved, AtItem
<1>6. (status = "next" => AtNext)'
  BY <1>1 DEF Moved, AtNext
<1>7. (status = "down" => GoingDown \/ Beyond)'
  BY <1>1 DEF Moved, GoingDown, Beyond, Linked
<1>8. (status = "up" => GoingUp \/ PastTheRoot)'
  BY <1>1 DEF Moved, GoingUp, PastTheRoot
<1>9. QED
  BY <1>2, <1>3, <1>4, <1>5, <1>6, <1>7, <1>8 DEF Inv

LEMMA ErrKeeps == ASSUME Inv, Err PROVE Inv'
<1>1. Moved
  BY DEF Err, Moved, Inv, TypeOK
<1>2. QED
  BY <1>1, MovedKeeps DEF Err

-----------------------------------------------------------------------------
LEMMA LinkedFacts ==
    ASSUME Inv, NEW x \in Linked
    PROVE  /\ x \in Addr /\ x # 0 /\ Read(x).addr = x /\ Read(x) \in NodeCopy
           /\ x \notin Nodes(tree) => x = Header(tree) /\ Read(x).right_addr \in Linked
           /\ Read(x).left_addr \in Linked \cup {0} /\ (x = Header(tree) => Read(x).left_addr # 0)
<1>1. x \in Addr /\ x # 0 /\ (x \notin Nodes(tree) => x = Header(tree)) /\ 1 \in Linked
  BY TreeFacts DEF Linked, Addr
<1>2. CASE x \in Nodes(tree)
  <2>1. tree.left[x] \in Linked \cup {0}
    BY <1>2, TreeFacts, LeftFacts, TreeAssumption DEF Linked, Inv, WellFormed
  <2>2. x # Header(tree)
    BY <1>2, TreeFacts
  <2>3. QED
    BY <1>1, <1>2, <2>1, <2>2, NodeFacts, LinksAreAddrs
<1>3. CASE x = Header(tree)
  <2>1. Read(x).addr = x /\ Read(x).left_addr = 1 /\ Read(x).right_addr = IF tree.n = 0 THEN Header(tree) ELSE tree.n
    BY <1>1, <1>3 DEF Read
  <2>2. Read(x).right_addr \in Linked
    BY <2>1, TreeFacts DEF Linked
  <2>3. QED
    BY <1>1, <1>3, <2>1, <2>2, LinksAreAddrs
<1>4. QED
  BY <1>1, <1>2, <1>3

LEMMA OpenKeeps == ASSUME Inv, Open PROVE Inv'
<1>1. CASE count = 0
  <2>1. Moved /\ status' = "item"
    BY <1>1, TreeFacts DEF Open, Moved, Inv, TypeOK, Nil, NodeCopy, Addr
  <2>2. ~ (K < count)
    BY <1>1, TreeFacts
  <2>3. QED
    BY <2>1, <2>2, MovedKeeps
<1>2. CASE count # 0 /\ ~ Err
  <2>1. 1 \in Addr /\ Header(tree) # 0 /\ K = 0
    BY <1>2, TreeFacts DEF Open, Inv, K, Addr
  <2>2. Read(Header(tree)).left_addr = 1
    BY <2>1 DEF Read
  <2>3. cur_n' = Read(1) /\ status' = "item" /\ UNCHANGED <<tree, count, p, visited>>
    BY <1>2, <2>2 DEF Open
  <2>4. Read(1) \in NodeCopy
    BY <2>1, LinksAreAddrs
  <2>5. Moved
    BY <2>3, <2>4 DEF Moved, Inv, TypeOK
  <2>6. QED
    BY <2>1, <2>3, <2>5, MovedKeeps
<1>3. QED
  BY <1>1, <1>2, ErrKeeps

LEMMA ItemKeeps == ASSUME Inv, Item PROVE Inv'
<1>1. CASE K = count
  <2>1. Moved /\ status' = "done"
    BY <1>1 DEF Item, Moved, Inv, TypeOK, K
  <2>2. QED
    BY <2>1, MovedKeeps
<1>2. CASE K # count
  <2>1. K < count /\ cur_n = Read(K + 1) /\ status = "item" /\ K + 1 \in Linked
    BY <1>2, TreeFacts DEF Item, Inv, AtItem, Linked
  <2>2. cur_n.addr = K + 1 /\ K + 1 # 0
    BY <2>1, LinkedFacts
  <2>3. /\ status' = "next" /\ visited' = Append(visited, K + 1)
        /\ UNCHANGED <<tree, count, cur_n, p>>
    BY <1>2, <2>2 DEF Item, K
  <2>4. visited \in Seq(Addr) /\ K + 1 \in Addr /\ K \in Nat
    BY <2>1, TreeFacts DEF Inv, TypeOK, Addr, Linked
  <2>5. /\ visited' \in Seq(Addr) /\ K' = K + 1
        /\ \A k \in 1 .. K : visited'[k] = visited[k]
        /\ visited'[K + 1] = K + 1
    BY <2>3, <2>4 DEF K
  <2>6. InKeyOrder'
    <3>1. \A k \in 1 .. K + 1 : visited'[k] = k
      BY <2>4, <2>5 DEF Inv, InKeyOrder, K
    <3>2. QED
      BY <2>5, <3>1 DEF InKeyOrder, K
  <2>7. TypeOK'
    <3>1. Len(visited') <= count
      BY <2>1, <2>4, <2>5, TreeFacts DEF K
    <3>2. QED
      BY <2>3, <2>5, <3>1 DEF Inv, TypeOK, NodeCopy, Addr, Header
  <2>8. AtNext'
    <3>1. K' >= 1 /\ K' <= count'
      BY <2>1, <2>3, <2>4, <2>5, TreeFacts
    <3>2. cur_n' = Read(K)'
      BY <2>1, <2>3, <2>5 DEF Read, Header, Nil
    <3>3. QED
      BY <3>1, <3>2 DEF AtNext
  <2>9. QED
    BY <2>3, <2>6, <2>7, <2>8 DEF Inv, NeverNil
<1>3. QED
  BY <1>1, <1>2

LEMMA NextRightKeeps == ASSUME Inv, NextRight PROVE Inv'
<1>1. CASE ~ Err /\ K \in Nodes(tree)
  <2>1. K \in Nodes(tree) /\ cur_n = Read(K)
    BY <1>1, TreeFacts DEF NextRight, Inv, AtNext
  <2>2. tree.right[K] # 0 /\ cur_n.right_addr = tree.right[K]
    BY <2>1, NodeFacts DEF NextRight
  <2>3. tree.right[K] \in Nodes(tree) /\ tree.lo[tree.right[K]] = K + 1
    BY <2>1, <2>2, RightFacts
  <2>4. /\ cur_n' = Read(tree.right[K]) /\ status' = "down"
        /\ UNCHANGED <<tree, count, p, visited>>
    BY <1>1, <2>2 DEF NextRight
  <2>5. Read(tree.right[K]) \in NodeCopy
    BY <2>3, TreeFacts, NodeFacts, LinksAreAddrs DEF Addr
  <2>6. Moved
    BY <2>4, <2>5 DEF Moved, Inv, TypeOK
  <2>7. QED
    BY <2>3, <2>4, <2>6, MovedKeeps
<1>2. CASE ~ Err /\ K \notin Nodes(tree)
  <2>1. K = tree.n + 1 /\ K \in Linked /\ cur_n = Read(K)
    BY <1>2, TreeFacts DEF NextRight, Inv, AtNext, Linked
  <2>2. cur_n.right_addr \in Linked
    BY <1>2, <2>1, LinkedFacts
  <2>3. /\ cur_n' = Read(cur_n.right_addr) /\ status' = "down"
        /\ UNCHANGED <<tree, count, p, visited>>
    BY <1>2 DEF NextRight
  <2>4. Moved
    BY <2>2, <2>3, LinkedFacts DEF Moved, Inv, TypeOK
  <2>5. QED
    BY <2>1, <2>2, <2>3, <2>4, MovedKeeps
<1>3. QED
  BY <1>1, <1>2, ErrKeeps

LEMMA DownKeeps == ASSUME Inv, Down PROVE Inv'
<1>1. CASE ~ Err /\ GoingDown
  <2>1. PICK x \in Nodes(tree) : cur_n = Read(x) /\ tree.lo[x] = K + 1
    BY <1>1 DEF GoingDown
  <2>2. cur_n.left_addr = tree.left[x]
    BY <2>1, NodeFacts
  <2>3. CASE tree.left[x] = 0
    <3>1. x = K + 1
      BY <2>1, <2>3, LeftFacts
    <3>2. status' = "item" /\ UNCHANGED <<tree, count, cur_n, p, visited>>
      BY <2>2, <2>3 DEF Down
    <3>3. Moved
      BY <3>2 DEF Moved, Inv, TypeOK
    <3>4. QED
      BY <2>1, <3>1, <3>2, <3>3, MovedKeeps
  <2>4. CASE tree.left[x] # 0
    <3>1. tree.left[x] \in Nodes(tree) /\ tree.lo[tree.left[x]] = K + 1
      BY <2>1, <2>4, LeftFacts
    <3>2. /\ cur_n' = Read(tree.left[x]) /\ status' = status
          /\ UNCHANGED <<tree, count, p, visited>>
      BY <1>1, <2>2, <2>4 DEF Down
    <3>3. Read(tree.left[x]) \in NodeCopy
      BY <3>1, TreeFacts, NodeFacts, LinksAreAddrs DEF Addr
    <3>4. Moved /\ status' = "down"
      BY <3>2, <3>3 DEF Moved, Inv, TypeOK, Down
    <3>5. QED
      BY <3>1, <3>2, <3>4, MovedKeeps
  <2>5. QED
    BY <2>3, <2>4
<1>2. CASE ~ Err /\ Beyond
  <2>1. PICK x \in Linked : cur_n = Read(x)
    BY <1>2 DEF Beyond
  <2>2. CASE cur_n.left_addr = 0
    <3>1. Moved /\ status' = "item"
      BY <2>2 DEF Down, Moved, Inv, TypeOK
    <3>2. ~ (K < count)
      BY <1>2, TreeFacts DEF Beyond
    <3>3. QED
      BY <3>1, <3>2, MovedKeeps
  <2>3. CASE cur_n.left_addr # 0
    <3>1. cur_n.left_addr \in Linked
      BY <2>1, <2>3, LinkedFacts
    <3>2. /\ cur_n' = Read(cur_n.left_addr) /\ status' = "down"
          /\ UNCHANGED <<tree, count, p, visited>>
      BY <1>2, <2>3 DEF Down
    <3>3. Moved
      BY <3>1, <3>2, LinkedFacts DEF Moved, Inv, TypeOK
    <3>4. QED
      BY <1>2, <3>1, <3>2, <3>3, MovedKeeps DEF Beyond
  <2>4. QED
    BY <2>2, <2>3
<1>3. QED
  BY <1>1, <1>2, ErrKeeps DEF Down, Inv

LEMMA ParentIsRead ==
    ASSUME Inv, NEW x \in Nodes(tree)
    PROVE  tree.parent[x] \in Addr /\ Read(tree.parent[x]) \in NodeCopy
<1>1. tree.parent[x] \in Addr /\ tree.n > 0
  BY TreeFacts, TreeAssumption, NodeFacts DEF Inv, WellFormed, Addr
<1>2. QED
  BY <1>1, LinksAreAddrs

LEMMA NextUpKeeps == ASSUME Inv, NextUp PROVE Inv'
<1>1. CASE ~ Err
  <2>1. K \in Nodes(tree) /\ cur_n = Read(K)
    <3>1. K \in Linked /\ cur_n = Read(K)
      BY TreeFacts DEF NextUp, Inv, AtNext, Linked
    <3>2. cur_n.right_addr \notin Linked
      BY TreeFacts DEF NextUp, Linked
    <3>3. QED
      BY <3>1, <3>2, LinkedFacts
  <2>2. /\ tree.right[K] = 0 /\ cur_n.parent_addr = tree.parent[K]
    BY <2>1, NodeFacts DEF NextUp
  <2>3. tree.hi[K] = K
    BY <2>1, <2>2, RightFacts
  <2>4. /\ p' = Read(tree.parent[K]) /\ status' = "up"
        /\ UNCHANGED <<tree, count, cur_n, visited>>
    BY <1>1, <2>2 DEF NextUp
  <2>5. Moved
    BY <2>1, <2>4, ParentIsRead DEF Moved, Inv, TypeOK
  <2>6. QED
    BY <2>1, <2>3, <2>4, <2>5, MovedKeeps
<1>2. QED
  BY <1>1, ErrKeeps

(* One step up inside the tree, from x to its parent.                       *)
LEMMA UpInside ==
    ASSUME Inv, Up, ~ Err, NEW x \in Nodes(tree), x # tree.root,
           cur_n = Read(x), p = Read(tree.parent[x]), tree.hi[x] = K
    PROVE  Inv'
<1> DEFINE y == tree.parent[x]
<1>1. y \in Nodes(tree) /\ x \in {tree.left[y], tree.right[y]}
  BY ParentFacts
<1>2. /\ cur_n.addr = x /\ cur_n.right_addr = tree.right[x]
      /\ p.addr = y /\ p.right_addr = tree.right[y] /\ p.parent_addr = tree.parent[y]
  BY <1>1, NodeFacts
<1> HIDE DEF y
<1>3. CASE x = tree.right[y]
  <2>1. tree.hi[y] = K
    BY <1>1, <1>3, NodeFacts, RightFacts
  <2>2. /\ cur_n' = p /\ p' = Read(tree.parent[y]) /\ status' = "up"
        /\ UNCHANGED <<tree, count, visited>>
    BY <1>2, <1>3 DEF Up
  <2>3. Moved
    BY <1>1, <2>2, ParentIsRead DEF Moved, Inv, TypeOK
  <2>4. cur_n' = Read(y)
    BY <2>2 DEF y
  <2>5. QED
    BY <1>1, <2>1, <2>2, <2>3, <2>4, MovedKeeps
<1>4. CASE x # tree.right[y]
  <2>1. x = tree.left[y] /\ x # 0
    BY <1>1, <1>4, NodeFacts
  <2>2. tree.hi[x] = y - 1
    BY <1>1, <2>1, LeftFacts
  <2>3. y = K + 1
    BY <1>1, <2>2, NodeFacts
  <2>4. tree.right[x] # y
    <3>1. CASE tree.right[x] = 0
      BY <1>1, <3>1, NodeFacts
    <3>2. CASE tree.right[x] # 0
      <4>1. /\ tree.right[x] \in Nodes(tree) /\ tree.hi[tree.right[x]] = tree.hi[x]
        BY <3>2, RightFacts
      <4>2. tree.right[x] <= tree.hi[x]
        BY <4>1, NodeFacts
      <4>3. QED
        BY <1>1, <2>2, <4>1, <4>2, NodeFacts
    <3>3. QED
      BY <3>1, <3>2
  <2>5. /\ cur_n' = p /\ p' = p /\ status' = "item"
        /\ UNCHANGED <<tree, count, visited>>
    BY <1>2, <1>4, <2>4 DEF Up
  <2>6. Moved
    BY <2>5 DEF Moved, Inv, TypeOK
  <2>7. cur_n' = Read(K + 1)
    BY <2>3, <2>5 DEF y
  <2>8. QED
    BY <2>5, <2>6, <2>7, MovedKeeps
<1>5. QED
  BY <1>3, <1>4

(* At the root everything was claimed: what comes next is the header.       *)
LEMMA UpAtRoot ==
    ASSUME Inv, Up, ~ Err, K = tree.n, tree.n > 0,
           \/ cur_n = Read(tree.root) /\ p = Read(Header(tree))
           \/ cur_n = Read(Header(tree)) /\ p = Read(tree.root) /\ tree.root = tree.n
    PROVE  Inv'
<1>1. /\ tree.root \in Nodes(tree) /\ Header(tree) # 0 /\ Header(tree) = K + 1
      /\ Read(Header(tree)).addr = Header(tree) /\ Read(Header(tree)).parent_addr = tree.root
      /\ Read(Header(tree)).right_addr = tree.n
  BY TreeFacts DEF Read
<1>2. CASE status' = "item"
  <2>1. Moved
    BY <1>2 DEF Up, Moved, Inv, TypeOK
  <2>2. cur_n' = IF cur_n.right_addr # p.addr THEN p ELSE cur_n
    BY <1>2 DEF Up
  <2>3. tree.right[tree.root] # Header(tree) /\ Read(tree.root).right_addr = tree.right[tree.root]
        /\ Read(tree.root).addr = tree.root
    BY <1>1, TreeFacts, RightFacts, NodeFacts
  <2>4. cur_n' = Read(K + 1)
    BY <1>1, <2>2, <2>3
  <2>5. QED
    BY <1>2, <2>1, <2>4, MovedKeeps
<1>3. CASE status' # "item"
  <2>1. /\ cur_n.addr = p.right_addr
        /\ cur_n' = p /\ p' = Read(p.parent_addr) /\ status' = "up"
        /\ UNCHANGED <<tree, count, visited>>
    BY <1>3 DEF Up
  <2>2. p = Read(Header(tree)) /\ p.parent_addr = tree.root /\ cur_n = Read(tree.root)
    <3>1. CASE p = Read(tree.root) /\ cur_n = Read(Header(tree))
      <4>1. p.right_addr = tree.right[tree.root] /\ cur_n.addr = Header(tree)
        BY <1>1, <3>1, NodeFacts
      <4>2. tree.right[tree.root] # Header(tree)
        BY <1>1, TreeFacts, RightFacts, NodeFacts
      <4>3. QED
        BY <2>1, <4>1, <4>2
    <3>2. QED
      BY <1>1, <3>1
  <2>3. Read(tree.root) \in NodeCopy
    BY <1>1, TreeFacts, NodeFacts, LinksAreAddrs DEF Addr
  <2>4. Moved
    BY <2>1, <2>2, <2>3 DEF Moved, Inv, TypeOK
  <2>5. tree.root = tree.n
    BY <1>1, <2>1, <2>2, NodeFacts
  <2>6. QED
    BY <2>1, <2>2, <2>4, <2>5, MovedKeeps
<1>4. QED
  BY <1>2, <1>3

LEMMA UpKeeps == ASSUME Inv, Up PROVE Inv'
<1>1. CASE ~ Err
  <2>1. CASE GoingUp
    <3>1. PICK x \in Nodes(tree) :
             cur_n = Read(x) /\ p = Read(tree.parent[x]) /\ tree.hi[x] = K
      BY <2>1 DEF GoingUp
    <3>2. CASE x = tree.root
      <4>1. tree.n > 0 /\ K = tree.n /\ tree.parent[x] = Header(tree)
        BY <3>1, <3>2, NodeFacts, TreeFacts
      <4>2. QED
        BY <1>1, <3>1, <3>2, <4>1, UpAtRoot
    <3>3. CASE x # tree.root
      BY <1>1, <3>1, <3>3, UpInside
    <3>4. QED
      BY <3>2, <3>3
  <2>2. CASE PastTheRoot
    BY <1>1, <2>2, UpAtRoot DEF PastTheRoot
  <2>3. QED
    BY <2>1, <2>2 DEF Inv, Up
<1>2. QED
  BY <1>1, ErrKeeps

-----------------------------------------------------------------------------
LEMMA InitInv == Init => Inv
<1> SUFFICES ASSUME Init PROVE Inv
  OBVIOUS
<1>1. tree.n \in Nat
  BY TreeAssumption DEF Init, WellFormed
<1>2. Nil \in NodeCopy
  BY <1>1 DEF Nil, NodeCopy, Addr, Header
<1>3. visited \in Seq(Addr) /\ Len(visited) = 0
  BY DEF Init
<1>4. TypeOK
  BY <1>1, <1>2, <1>3 DEF Init, TypeOK
<1>5. QED
  BY <1>3, <1>4 DEF Init, Inv, InKeyOrder, NeverNil

LEMMA NextInv == Inv /\ [Next]_vars => Inv'
<1> SUFFICES ASSUME Inv, [Next]_vars PROVE Inv'
  OBVIOUS
<1>1. CASE UNCHANGED vars
  <2>1. UNCHANGED <<tree, count, cur_n, p, status, visited>>
    BY <1>1 DEF vars
  <2>2. CASE status \in {"item", "next", "down", "up", "done", "err"}
    <3>1. Moved
      BY <2>1, <2>2 DEF Moved, Inv, TypeOK
    <3>2. QED
      BY <2>1, <3>1, MovedKeeps
           DEF Inv, AtItem, AtNext, GoingDown, GoingUp, PastTheRoot, Beyond
  <2>3. CASE status = "open"
    BY <2>1, <2>3 DEF Inv, TypeOK, InKeyOrder, NeverNil, NodeCopy, Addr, Header
  <2>4. QED
    BY <2>2, <2>3 DEF Inv, TypeOK, NeverNil
<1>2. QED
  BY <1>1, OpenKeeps, ItemKeeps, NextRightKeeps, DownKeeps, NextUpKeeps, UpKeeps DEF Next

LEMMA InvHolds == Spec => []Inv
<1>1. QED
  BY InitInv, NextInv, PTL DEF Spec

(* For every tree, the items are claimed in the order of their keys, all of *)
(* them in turn, and the header after them if at all                        *)
(* (gnu_std_cxx.rs:218-244).                                                *)
THEOREM MapInKeyOrder == Spec => []InKeyOrder
<1>1. Inv => InKeyOrder
  BY DEF Inv
<1>2. QED
  BY <1>1, InvHolds, PTL

(* For every tree, the assertion that there is a node left holds            *)
(* (main.rs:558).                                                           *)
THEOREM MapNeverNil == Spec => []NeverNil
<1>1. Inv => NeverNil
  BY DEF Inv
<1>2. QED
  BY <1>1, InvHolds, PTL

-----------------------------------------------------------------------------
(* The list of a std::unordered_map.  Its nodes are in some order, none     *)
(* twice, whatever the program has put in and taken out.                    *)
Follows(s, k) == IF k < Len(s) THEN s[k + 1] ELSE CppUnorderedMap!Null
IsList(s) ==
    /\ s \in Seq(ListNodes)
    /\ \A j, k \in 1 .. Len(s) : s[j] = s[k] => j = k
    /\ DOMAIN next = {s[k] : k \in 1 .. Len(s)}
    /\ before_begin = Follows(s, 0)
    /\ \A k \in 1 .. Len(s) : next[s[k]] = Follows(s, k)

(* The count is at most one off, and the handler is at one of the nodes.    *)
Counted(s) == element_count \in Nat /\ counted \in -1 .. 1 /\ element_count + counted = Len(s)
Along(s) ==
    /\ i \in 0 .. Len(s) /\ Len(given) \in i .. i + 1 /\ Len(given) <= Len(s)
    /\ node = Follows(s, i) /\ given \in Seq(CppUnorderedMap!Places)
    /\ \A k \in 1 .. Len(given) : given[k] = s[k] + DataOfs
    /\ max = element_count /\ lost \subseteq DOMAIN next
    /\ phase = "over" => i = Len(s)
    /\ phase = "failed" => lost # {}
Unread ==
    /\ node = CppUnorderedMap!Null /\ i = 0 /\ max = 0 /\ given = <<>> /\ lost = {}
At(s) ==
    /\ phase \in {"running", "dumped", "over", "failed"}
    /\ IF phase = "running" THEN Unread ELSE Along(s)
ListInv == \E s : IsList(s) /\ Counted(s) /\ At(s)

LEMMA ListTypes ==
    ASSUME ListInv
    PROVE  CppUnorderedMap!TypeOK /\ CppUnorderedMap!NeverPanics
<1>1. PICK s : IsList(s) /\ Counted(s) /\ At(s)
  BY DEF ListInv
<1>2. Len(s) \in Nat /\ \A k \in 1 .. Len(s) : s[k] \in ListNodes
  BY <1>1 DEF IsList
<1>3. \A k \in Nat : Follows(s, k) \in ListNodes \cup {CppUnorderedMap!Null}
  BY <1>2 DEF Follows
<1>4. CppUnorderedMap!Linked \subseteq ListNodes /\ CppUnorderedMap!Range(next) \cup {before_begin} \subseteq ListNodes \cup {CppUnorderedMap!Null}
  BY <1>1, <1>2, <1>3 DEF IsList, CppUnorderedMap!Linked, CppUnorderedMap!Range
<1>5. node \in ListNodes \cup {CppUnorderedMap!Null} /\ max \in Nat /\ lost \subseteq ListNodes
  BY <1>1, <1>3, <1>4 DEF At, Unread, Along, Counted, CppUnorderedMap!Linked
<1>6. Len(given) \in i .. i + 1 /\ given \in Seq(CppUnorderedMap!Places)
  <2>1. CASE phase = "running"
    <3>1. given = <<>> /\ i = 0
      BY <1>1, <2>1 DEF At, Unread
    <3>2. QED
      BY <3>1
  <2>2. CASE phase # "running"
    BY <1>1, <2>2 DEF At, Along
  <2>3. QED
    BY <2>1, <2>2
<1>7. phase \in {"running", "dumped", "over", "failed"} /\ element_count \in Nat /\ counted \in -1 .. 1
  BY <1>1 DEF At, Counted
<1>8. CppUnorderedMap!NeverPanics
  BY <1>7 DEF CppUnorderedMap!NeverPanics
<1>9. CppUnorderedMap!Range(next) \cup {before_begin, node} \subseteq ListNodes \cup {CppUnorderedMap!Null}
  BY <1>4, <1>5
<1>10. phase \in {"running", "dumped", "over", "failed", "panicked"}
  BY <1>7
<1>11. QED
  BY <1>4, <1>5, <1>6, <1>7, <1>8, <1>9, <1>10, Zenon DEF CppUnorderedMap!TypeOK, CppUnorderedMap!Places

LEMMA ListInit == CppUnorderedMap!Init => ListInv
<1> SUFFICES ASSUME CppUnorderedMap!Init PROVE ListInv
  OBVIOUS
<1>1. IsList(<<>>)
  BY DEF IsList, Follows, CppUnorderedMap!Init, CppUnorderedMap!Null
<1>2. Counted(<<>>) /\ At(<<>>)
  BY DEF Counted, At, Unread, CppUnorderedMap!Init, CppUnorderedMap!Null
<1>3. QED
  BY <1>1, <1>2 DEF ListInv

LEMMA ListFacts ==
    ASSUME NEW s, IsList(s)
    PROVE  /\ Len(s) \in Nat /\ s \in Seq(ListNodes)
           /\ \A k \in 1 .. Len(s) : s[k] \in DOMAIN next /\ s[k] \in Nat /\ s[k] # CppUnorderedMap!Null
<1>1. s \in Seq(ListNodes) /\ Len(s) \in Nat
  BY DEF IsList
<1>2. \A k \in 1 .. Len(s) : s[k] \in ListNodes
  BY <1>1
<1>3. ListNodes \subseteq Nat \ {CppUnorderedMap!Null}
  BY ContainersAssumption DEF CppUnorderedMap!UnorderedAssumption
<1>4. \A k \in 1 .. Len(s) : s[k] \in DOMAIN next
  BY DEF IsList
<1>5. QED
  BY <1>1, <1>2, <1>3, <1>4

(* The program puts a node in behind the first j, and takes out the j-th.   *)
With(s, j, n) == [k \in 1 .. Len(s) + 1 |-> IF k <= j THEN s[k] ELSE IF k = j + 1 THEN n ELSE s[k - 1]]
Without(s, j) == [k \in 1 .. Len(s) - 1 |-> IF k < j THEN s[k] ELSE s[k + 1]]

LEMMA WithIsList ==
    ASSUME NEW s, IsList(s), NEW j \in 0 .. Len(s), NEW n \in ListNodes \ DOMAIN next,
           DOMAIN next' = DOMAIN next \cup {n},
           next'[n] = Follows(s, j),
           \A m \in DOMAIN next : next'[m] = IF j # 0 /\ m = s[j] THEN n ELSE next[m],
           before_begin' = IF j = 0 THEN n ELSE before_begin
    PROVE  IsList(With(s, j, n))' /\ Len(With(s, j, n)) = Len(s) + 1
<1> DEFINE t == With(s, j, n)
<1>1. Len(s) \in Nat /\ s \in Seq(ListNodes) /\ \A k \in 1 .. Len(s) : s[k] \in ListNodes /\ s[k] \in DOMAIN next /\ s[k] # n
  BY DEF IsList
<1>2. t \in Seq(ListNodes) /\ Len(t) = Len(s) + 1
  BY <1>1 DEF With
<1>3. \A k \in 1 .. Len(t) : t[k] = IF k <= j THEN s[k] ELSE IF k = j + 1 THEN n ELSE s[k - 1]
  BY <1>1, <1>2 DEF With
<1> HIDE DEF t
<1>4. \A a, b \in 1 .. Len(t) : t[a] = t[b] => a = b
  <2> SUFFICES ASSUME NEW a \in 1 .. Len(t), NEW b \in 1 .. Len(t), t[a] = t[b] PROVE a = b
    OBVIOUS
  <2> DEFINE Old(k) == IF k <= j THEN k ELSE k - 1
  <2>1. \A k \in 1 .. Len(t) : k # j + 1 => Old(k) \in 1 .. Len(s) /\ t[k] = s[Old(k)]
    BY <1>1, <1>2, <1>3
  <2>2. \A k \in 1 .. Len(t) : k = j + 1 => t[k] = n
    BY <1>1, <1>2, <1>3
  <2>3. CASE a = j + 1 \/ b = j + 1
    BY <1>1, <2>1, <2>2, <2>3
  <2>4. CASE a # j + 1 /\ b # j + 1
    <3>1. Old(a) \in 1 .. Len(s) /\ Old(b) \in 1 .. Len(s) /\ s[Old(a)] = s[Old(b)]
      BY <2>1, <2>4
    <3> HIDE DEF Old
    <3>2. Old(a) = Old(b)
      BY <3>1 DEF IsList
    <3>3. QED
      BY <1>1, <1>2, <2>4, <3>2 DEF Old
  <2>5. QED
    BY <2>3, <2>4
<1>5. DOMAIN next' = {t[k] : k \in 1 .. Len(t)}
  <2>1. ASSUME NEW k \in 1 .. Len(t) PROVE t[k] \in DOMAIN next'
    <3>1. CASE k <= j
      <4>1. k \in 1 .. Len(s) /\ t[k] = s[k]
        BY <1>1, <1>2, <1>3, <3>1
      <4>2. QED
        BY <1>1, <4>1
    <3>2. CASE k = j + 1
      <4>1. t[k] = n
        BY <1>3, <3>2
      <4>2. QED
        BY <4>1
    <3>3. CASE k > j + 1
      <4>1. k - 1 \in 1 .. Len(s) /\ t[k] = s[k - 1]
        BY <1>1, <1>2, <1>3, <3>3
      <4>2. QED
        BY <1>1, <4>1
    <3>4. QED
      BY <1>1, <3>1, <3>2, <3>3
  <2>2. ASSUME NEW m \in DOMAIN next' PROVE \E k \in 1 .. Len(t) : t[k] = m
    <3>1. CASE m = n
      <4>1. j + 1 \in 1 .. Len(t) /\ t[j + 1] = n
        BY <1>1, <1>2, <1>3
      <4>2. QED
        BY <4>1, <3>1
    <3>2. CASE m \in DOMAIN next
      <4>1. PICK k \in 1 .. Len(s) : m = s[k]
        BY <3>2 DEF IsList
      <4>2. CASE k <= j
        <5>1. k \in 1 .. Len(t) /\ t[k] = s[k]
          BY <1>1, <1>2, <1>3, <4>1, <4>2
        <5>2. QED
          BY <5>1, <4>1
      <4>3. CASE k > j
        <5>1. k + 1 \in 1 .. Len(t) /\ t[k + 1] = s[k]
          BY <1>1, <1>2, <1>3, <4>1, <4>3
        <5>2. QED
          BY <5>1, <4>1
      <4>4. QED
        BY <1>1, <4>1, <4>2, <4>3
    <3>3. QED
      BY <3>1, <3>2
  <2>3. QED
    BY <2>1, <2>2
<1>6. before_begin' = Follows(t, 0)
  BY <1>1, <1>2, <1>3 DEF IsList, Follows
<1>7. ASSUME NEW k \in 1 .. Len(t) PROVE next'[t[k]] = Follows(t, k)
  <2>1. CASE k <= j /\ k # j
    <3>1. t[k] = s[k] /\ t[k + 1] = s[k + 1] /\ s[k] # s[j] /\ k \in 1 .. Len(s) /\ k < Len(s) /\ k < Len(t)
      BY <1>1, <1>2, <1>3, <2>1 DEF IsList
    <3>2. next'[s[k]] = next[s[k]] /\ next[s[k]] = Follows(s, k)
      BY <1>1, <3>1 DEF IsList
    <3>3. QED
      BY <3>1, <3>2 DEF Follows
  <2>2. CASE k = j
    <3>1. t[k] = s[j] /\ t[k + 1] = n /\ j # 0 /\ k < Len(t) /\ s[j] \in DOMAIN next
      BY <1>1, <1>2, <1>3, <2>2
    <3>2. QED
      BY <2>2, <3>1 DEF Follows
  <2>3. CASE k = j + 1
    <3>1. t[k] = n /\ (k < Len(t) <=> j < Len(s)) /\ (k < Len(t) => t[k + 1] = s[j + 1])
      BY <1>1, <1>2, <1>3, <2>3
    <3>2. QED
      BY <3>1 DEF Follows
  <2>4. CASE k > j + 1
    <3>1. t[k] = s[k - 1] /\ k - 1 \in 1 .. Len(s) /\ (j # 0 => s[k - 1] # s[j])
      BY <1>1, <1>2, <1>3, <2>4 DEF IsList
    <3>2. next'[t[k]] = Follows(s, k - 1)
      BY <1>1, <3>1 DEF IsList
    <3>3. QED
      BY <1>1, <1>2, <1>3, <2>4, <3>2 DEF Follows
  <2>5. QED
    BY <1>1, <1>2, <2>1, <2>2, <2>3, <2>4
<1>8. IsList(t)'
  <2>1. Follows(t, 0)' = Follows(t', 0) /\ \A k : Follows(t, k)' = Follows(t', k)
    BY DEF Follows, CppUnorderedMap!Null
  <2>2. QED
    BY <1>2, <1>4, <1>5, <1>6, <1>7 DEF IsList, Follows, CppUnorderedMap!Null
<1>9. QED
  BY <1>2, <1>8 DEF t

LEMMA WithoutIsList ==
    ASSUME NEW s, IsList(s), NEW j \in 1 .. Len(s),
           DOMAIN next' = DOMAIN next \ {s[j]},
           \A m \in DOMAIN next' : next'[m] = IF next[m] = s[j] THEN next[s[j]] ELSE next[m],
           before_begin' = IF before_begin = s[j] THEN next[s[j]] ELSE before_begin
    PROVE  IsList(Without(s, j))' /\ Len(Without(s, j)) = Len(s) - 1
<1> DEFINE t == Without(s, j)
<1>1. /\ Len(s) \in Nat /\ s \in Seq(ListNodes)
      /\ \A k \in 1 .. Len(s) : s[k] \in ListNodes /\ s[k] \in DOMAIN next /\ s[k] # CppUnorderedMap!Null
  <2>1. s \in Seq(ListNodes) /\ \A k \in 1 .. Len(s) : s[k] \in ListNodes
    BY DEF IsList
  <2>2. QED
    BY <2>1, ListFacts
<1>2. t \in Seq(ListNodes) /\ Len(t) = Len(s) - 1
  BY <1>1 DEF Without
<1>3. \A k \in 1 .. Len(t) : t[k] = IF k < j THEN s[k] ELSE s[k + 1]
  BY <1>1, <1>2 DEF Without
<1> HIDE DEF t
<1>4. \A a, b \in 1 .. Len(t) : t[a] = t[b] => a = b
  <2> SUFFICES ASSUME NEW a \in 1 .. Len(t), NEW b \in 1 .. Len(t), t[a] = t[b] PROVE a = b
    OBVIOUS
  <2> DEFINE Old(k) == IF k < j THEN k ELSE k + 1
  <2>1. \A k \in 1 .. Len(t) : Old(k) \in 1 .. Len(s) /\ t[k] = s[Old(k)]
    BY <1>1, <1>2, <1>3
  <2>2. Old(a) \in 1 .. Len(s) /\ Old(b) \in 1 .. Len(s) /\ s[Old(a)] = s[Old(b)]
    BY <2>1
  <2> HIDE DEF Old
  <2>3. Old(a) = Old(b)
    BY <2>2 DEF IsList
  <2>4. QED
    BY <1>1, <1>2, <2>3 DEF Old
<1>5. DOMAIN next' = {t[k] : k \in 1 .. Len(t)}
  <2>1. ASSUME NEW k \in 1 .. Len(t) PROVE t[k] \in DOMAIN next'
    <3>1. CASE k < j
      <4>1. t[k] = s[k] /\ k \in 1 .. Len(s) /\ s[k] # s[j]
        BY <1>1, <1>2, <1>3, <3>1 DEF IsList
      <4>2. QED
        BY <1>1, <4>1
    <3>2. CASE ~ (k < j)
      <4>1. t[k] = s[k + 1] /\ k + 1 \in 1 .. Len(s) /\ s[k + 1] # s[j]
        BY <1>1, <1>2, <1>3, <3>2 DEF IsList
      <4>2. QED
        BY <1>1, <4>1
    <3>3. QED
      BY <3>1, <3>2
  <2>2. ASSUME NEW m \in DOMAIN next' PROVE \E k \in 1 .. Len(t) : t[k] = m
    <3>1. PICK k \in 1 .. Len(s) : m = s[k] /\ k # j
      BY DEF IsList
    <3>2. CASE k < j
      <4>1. k \in 1 .. Len(t) /\ t[k] = s[k]
        BY <1>1, <1>2, <1>3, <3>2
      <4>2. QED
        BY <3>1, <4>1
    <3>3. CASE ~ (k < j)
      <4>1. k - 1 \in 1 .. Len(t) /\ t[k - 1] = s[k]
        BY <1>1, <1>2, <1>3, <3>1, <3>3
      <4>2. QED
        BY <3>1, <4>1
    <3>4. QED
      BY <3>2, <3>3
  <2>3. QED
    BY <2>1, <2>2
<1>6. next[s[j]] = Follows(s, j) /\ before_begin = Follows(s, 0)
  BY DEF IsList
<1>7. before_begin' = Follows(t, 0)
  <2>1. CASE j = 1
    BY <1>1, <1>2, <1>3, <1>6, <2>1 DEF Follows
  <2>2. CASE j # 1
    <3>1. Len(s) > 1 /\ 1 < j /\ 1 \in 1 .. Len(s) /\ 1 \in 1 .. Len(t)
      BY <1>1, <1>2, <2>2
    <3>2. s[1] # s[j]
      BY <2>2, <3>1 DEF IsList
    <3>3. t[1] = s[1]
      BY <1>3, <3>1
    <3>4. Follows(s, 0) = s[1] /\ Follows(t, 0) = t[1]
      BY <1>1, <1>2, <3>1 DEF Follows
    <3>5. QED
      BY <1>6, <3>2, <3>3, <3>4
  <2>3. QED
    BY <2>1, <2>2
<1>8. ASSUME NEW k \in 1 .. Len(t) PROVE next'[t[k]] = Follows(t, k)
  <2>0. t[k] \in DOMAIN next'
    BY <1>5
  <2>1. CASE k < j - 1
    <3>1. k \in 1 .. Len(s) /\ k + 1 \in 1 .. Len(s) /\ k + 1 \in 1 .. Len(t) /\ k + 1 # j
      BY <1>1, <1>2, <2>1
    <3>2. t[k] = s[k] /\ t[k + 1] = s[k + 1]
      BY <1>1, <1>3, <2>1, <3>1
    <3>3. s[k + 1] # s[j]
      BY <3>1 DEF IsList
    <3>4. k < Len(s) /\ k < Len(t)
      BY <1>1, <1>2, <3>1
    <3>5. next[s[k]] = s[k + 1]
      BY <3>1, <3>4 DEF IsList, Follows
    <3>6. QED
      BY <2>0, <3>2, <3>3, <3>4, <3>5 DEF Follows
  <2>2. CASE k = j - 1
    <3>1. t[k] = s[k] /\ k \in 1 .. Len(s) /\ k + 1 = j /\ k < Len(s)
      BY <1>1, <1>2, <1>3, <2>2
    <3>2. next[s[k]] = s[j]
      BY <3>1 DEF IsList, Follows
    <3>3. next'[t[k]] = Follows(s, j)
      BY <2>0, <3>1, <3>2, <1>6
    <3>4. (j < Len(s) <=> k < Len(t)) /\ (k < Len(t) => t[k + 1] = s[j + 1])
      BY <1>1, <1>2, <1>3, <3>1
    <3>5. QED
      BY <3>3, <3>4 DEF Follows
  <2>3. CASE k >= j
    <3>1. t[k] = s[k + 1] /\ k + 1 \in 1 .. Len(s)
      BY <1>1, <1>2, <1>3, <2>3
    <3>2. next[s[k + 1]] = Follows(s, k + 1)
      BY <3>1 DEF IsList
    <3>3. Follows(s, k + 1) # s[j]
      <4>1. CASE k + 1 < Len(s)
        BY <1>1, <1>2, <2>3, <4>1 DEF Follows, IsList
      <4>2. CASE ~ (k + 1 < Len(s))
        BY <1>1, <4>2 DEF Follows
      <4>3. QED
        BY <4>1, <4>2
    <3>4. (k + 1 < Len(s) <=> k < Len(t)) /\ (k < Len(t) => t[k + 1] = s[k + 2])
      BY <1>1, <1>2, <1>3, <2>3
    <3>5. k + 1 + 1 = k + 2
      BY <1>2
    <3>6. Follows(s, k + 1) = Follows(t, k)
      BY <3>4, <3>5 DEF Follows
    <3>7. QED
      BY <2>0, <3>1, <3>2, <3>3, <3>6
  <2>4. QED
    BY <1>1, <1>2, <2>1, <2>2, <2>3
<1>9. IsList(t)'
  BY <1>2, <1>4, <1>5, <1>7, <1>8 DEF IsList, Follows, CppUnorderedMap!Null
<1>10. QED
  BY <1>2, <1>9 DEF t

LEMMA EndOfList ==
    ASSUME NEW s, IsList(s), Along(s), node = CppUnorderedMap!Null
    PROVE  i = Len(s)
<1>1. CASE i < Len(s)
  <2>1. node = s[i + 1] /\ i + 1 \in 1 .. Len(s)
    BY <1>1, ListFacts DEF Along, Follows
  <2>2. QED
    BY <2>1, ListFacts
<1>2. QED
  BY <1>1, ListFacts DEF Along

LEMMA Unchanged ==
    ASSUME NEW s
    PROVE  UNCHANGED <<before_begin, next>> /\ IsList(s) => IsList(s)'
BY DEF IsList, Follows, CppUnorderedMap!Null

LEMMA ListProgram ==
    ASSUME ListInv, CppUnorderedMap!Program
    PROVE  ListInv'
<1>2. PICK s : IsList(s) /\ Counted(s) /\ At(s)
  BY DEF ListInv
<1>3. Len(s) \in Nat /\ (\A k \in 1 .. Len(s) : s[k] \in DOMAIN next)
  BY <1>2 DEF IsList
<1>4. phase = "running" /\ UNCHANGED <<lost, node, i, max, given, phase>>
  BY DEF CppUnorderedMap!Program
<1>5. \A t : At(t)'
  BY <1>2, <1>4 DEF At, Unread, CppUnorderedMap!Null
<1>6. CASE CppUnorderedMap!Insert
  <2>1. PICK n \in ListNodes \ DOMAIN next :
           \/ /\ next' = [m \in DOMAIN next \cup {n} |-> IF m = n THEN before_begin ELSE next[m]]
              /\ before_begin' = n
           \/ \E q \in DOMAIN next :
                 /\ next' = [m \in DOMAIN next \cup {n} |-> IF m = q THEN n ELSE IF m = n THEN next[q] ELSE next[m]]
                 /\ UNCHANGED before_begin
    BY <1>6 DEF CppUnorderedMap!Insert, CppUnorderedMap!Linked
  <2>2. \E j \in 0 .. Len(s) : IsList(With(s, j, n))' /\ Len(With(s, j, n)) = Len(s) + 1
    <3>1. CASE /\ next' = [m \in DOMAIN next \cup {n} |-> IF m = n THEN before_begin ELSE next[m]]
               /\ before_begin' = n
      <4>1. before_begin = Follows(s, 0) /\ 0 \in 0 .. Len(s)
        BY <1>2, <1>3 DEF IsList
      <4>2. IsList(With(s, 0, n))' /\ Len(With(s, 0, n)) = Len(s) + 1
        BY <1>2, <3>1, <4>1, WithIsList
      <4>3. QED
        BY <4>1, <4>2
    <3>2. CASE \E q \in DOMAIN next :
                 /\ next' = [m \in DOMAIN next \cup {n} |-> IF m = q THEN n ELSE IF m = n THEN next[q] ELSE next[m]]
                 /\ UNCHANGED before_begin
      <4>1. PICK q \in DOMAIN next :
                 /\ next' = [m \in DOMAIN next \cup {n} |-> IF m = q THEN n ELSE IF m = n THEN next[q] ELSE next[m]]
                 /\ UNCHANGED before_begin
        BY <3>2
      <4>2. PICK j \in 1 .. Len(s) : q = s[j]
        BY <1>2 DEF IsList
      <4>3. next[q] = Follows(s, j) /\ j \in 0 .. Len(s) /\ j # 0
        BY <1>2, <1>3, <4>2 DEF IsList
      <4>4. /\ DOMAIN next' = DOMAIN next \cup {n} /\ next'[n] = Follows(s, j)
            /\ \A m \in DOMAIN next : next'[m] = IF j # 0 /\ m = s[j] THEN n ELSE next[m]
            /\ before_begin' = IF j = 0 THEN n ELSE before_begin
        BY <4>1, <4>2, <4>3
      <4>5. IsList(With(s, j, n))' /\ Len(With(s, j, n)) = Len(s) + 1
        BY <1>2, <4>3, <4>4, WithIsList
      <4>6. QED
        BY <4>3, <4>5
    <3>3. QED
      BY <2>1, <3>1, <3>2
  <2>3. PICK j \in 0 .. Len(s) : IsList(With(s, j, n))' /\ Len(With(s, j, n)) = Len(s) + 1
    BY <2>2
  <2>4. counted = 0 /\ counted' = 1 /\ element_count' = element_count
    BY <1>6 DEF CppUnorderedMap!Insert
  <2>5. Counted(With(s, j, n))'
    BY <1>2, <1>3, <2>3, <2>4 DEF Counted
  <2>6. QED
    BY <1>5, <2>3, <2>5 DEF ListInv
<1>7. CASE CppUnorderedMap!Erase
  <2>1. PICK n \in DOMAIN next :
           /\ next' = [m \in DOMAIN next \ {n} |-> IF next[m] = n THEN next[n] ELSE next[m]]
           /\ before_begin' = IF before_begin = n THEN next[n] ELSE before_begin
    BY <1>7 DEF CppUnorderedMap!Erase, CppUnorderedMap!Linked
  <2>2. PICK j \in 1 .. Len(s) : n = s[j]
    BY <1>2 DEF IsList
  <2>3. /\ DOMAIN next' = DOMAIN next \ {s[j]}
        /\ \A m \in DOMAIN next' : next'[m] = IF next[m] = s[j] THEN next[s[j]] ELSE next[m]
        /\ before_begin' = IF before_begin = s[j] THEN next[s[j]] ELSE before_begin
    BY <2>1, <2>2
  <2>4. IsList(Without(s, j))' /\ Len(Without(s, j)) = Len(s) - 1
    BY <1>2, <2>3, WithoutIsList
  <2>5. counted = 0 /\ counted' = -1 /\ element_count' = element_count
    BY <1>7 DEF CppUnorderedMap!Erase
  <2>6. Counted(Without(s, j))'
    BY <1>2, <1>3, <2>4, <2>5 DEF Counted
  <2>7. QED
    BY <1>5, <2>4, <2>6 DEF ListInv
<1>8. CASE CppUnorderedMap!Count
  <2>1. IsList(s)'
    BY <1>2, <1>8, Unchanged DEF CppUnorderedMap!Count
  <2>2. Counted(s)'
    BY <1>2, <1>3, <1>8 DEF CppUnorderedMap!Count, Counted
  <2>3. QED
    BY <1>5, <2>1, <2>2 DEF ListInv
<1>9. QED
  BY <1>6, <1>7, <1>8 DEF CppUnorderedMap!Program

(* A step of the handler leaves the list as it is.                          *)
LEMMA ListHandler ==
    ASSUME ListInv, CppUnorderedMap!opt_read \/ CppUnorderedMap!Handler
    PROVE  ListInv'
<1>1. PICK s : IsList(s) /\ Counted(s) /\ At(s)
  BY DEF ListInv
<1>2. UNCHANGED <<before_begin, next, element_count, counted>>
  BY DEF CppUnorderedMap!opt_read, CppUnorderedMap!Handler, CppUnorderedMap!Visit,
         CppUnorderedMap!Advance, CppUnorderedMap!Finish, CppUnorderedMap!program
<1>3. IsList(s)' /\ Counted(s)'
  BY <1>1, <1>2, Unchanged DEF Counted
<1>4. Len(s) \in Nat /\ s \in Seq(ListNodes) /\ \A k : Follows(s, k)' = Follows(s, k)
  BY <1>1 DEF IsList, Follows, CppUnorderedMap!Null
<1>5. CASE CppUnorderedMap!opt_read
  <2>1. /\ node' = Follows(s, 0) /\ max' = element_count' /\ i' = 0 /\ given' = <<>>
        /\ lost' \subseteq DOMAIN next' /\ phase' = "dumped"
    BY <1>1, <1>2, <1>5 DEF CppUnorderedMap!opt_read, CppUnorderedMap!Linked, IsList, At, Unread
  <2>2. Len(given') = 0 /\ given' \in Seq(CppUnorderedMap!Places)
    BY <2>1
  <2>3. Along(s)'
    BY <1>4, <2>1, <2>2 DEF Along, CppUnorderedMap!Places
  <2>4. QED
    BY <1>3, <2>1, <2>3 DEF ListInv, At
<1>6. CASE CppUnorderedMap!Handler
  <2>1. phase = "dumped" /\ Along(s)
    BY <1>1, <1>6 DEF At, CppUnorderedMap!Handler, CppUnorderedMap!Visit, CppUnorderedMap!Advance, CppUnorderedMap!Finish
  <2>2. i \in Nat /\ i <= Len(s) /\ given \in Seq(CppUnorderedMap!Places) /\ Len(given) \in Nat
    BY <1>4, <2>1 DEF Along
  <2>3. UNCHANGED <<max, lost>>
    BY <1>6 DEF CppUnorderedMap!Handler, CppUnorderedMap!Visit, CppUnorderedMap!Advance, CppUnorderedMap!Finish
  <2>4. CASE CppUnorderedMap!Visit
    <3>1. i < Len(s) /\ node = s[i + 1] /\ s[i + 1] \in ListNodes /\ Len(given) = i
      BY <1>4, <2>1, <2>2, <2>4 DEF CppUnorderedMap!Visit, Along, Follows
    <3>2. i <= max
      BY <1>1, <1>4, <2>1, <2>2, <3>1 DEF Along, Counted
    <3>3. /\ given' = Append(given, s[i + 1] + DataOfs) /\ UNCHANGED <<node, i>>
          /\ phase' = "dumped"
      BY <2>1, <2>4, <3>1, <3>2 DEF CppUnorderedMap!Visit, CppUnorderedMap!Allowed, CppUnorderedMap!data_addr
    <3>4. s[i + 1] + DataOfs \in CppUnorderedMap!Places
      BY <3>1 DEF CppUnorderedMap!Places
    <3>5. /\ given' \in Seq(CppUnorderedMap!Places) /\ Len(given') = i + 1
          /\ given'[i + 1] = s[i + 1] + DataOfs
          /\ \A k \in 1 .. i : given'[k] = given[k]
      BY <2>2, <3>1, <3>3, <3>4
    <3>6. \A k \in 1 .. i + 1 : given'[k] = s[k] + DataOfs
      BY <2>1, <2>2, <3>1, <3>5 DEF Along
    <3>7. i' \in 0 .. Len(s) /\ Len(given') \in i' .. i' + 1 /\ Len(given') <= Len(s)
      BY <1>4, <2>2, <3>1, <3>3, <3>5
    <3>8. \A k \in 1 .. Len(given') : given'[k] = s[k] + DataOfs
      BY <3>5, <3>6
    <3>9. node' = Follows(s, i)
      BY <2>1, <3>3 DEF Along
    <3>10. Along(s)'
      BY <1>2, <1>4, <2>1, <2>3, <3>3, <3>5, <3>7, <3>8, <3>9 DEF Along, CppUnorderedMap!Places
    <3>11. QED
      BY <1>3, <3>3, <3>10 DEF ListInv, At
  <2>5. CASE CppUnorderedMap!Advance
    <3>1. Len(given) = i + 1 /\ i < Len(s) /\ i + 1 \in 1 .. Len(s) /\ node = s[i + 1] /\ given' = given
      BY <1>4, <2>1, <2>2, <2>5 DEF CppUnorderedMap!Advance, Along, Follows
    <3>2. CASE node \in lost
      <4>1. phase' = "failed" /\ UNCHANGED <<node, i>> /\ lost' # {}
        BY <2>3, <2>5, <3>2 DEF CppUnorderedMap!Advance
      <4>2. Along(s)'
        BY <1>2, <1>4, <2>1, <2>3, <3>1, <4>1 DEF Along, CppUnorderedMap!Places
      <4>3. QED
        BY <1>3, <4>1, <4>2 DEF ListInv, At
    <3>3. CASE node \notin lost
      <4>1. node' = next[s[i + 1]] /\ i' = i + 1 /\ phase' = "dumped"
        BY <2>1, <2>5, <3>1, <3>3 DEF CppUnorderedMap!Advance
      <4>2. node' = Follows(s, i')
        BY <1>1, <3>1, <4>1 DEF IsList
      <4>3. Along(s)'
        BY <1>2, <1>4, <2>1, <2>2, <2>3, <3>1, <4>1, <4>2 DEF Along, CppUnorderedMap!Places
      <4>4. QED
        BY <1>3, <4>1, <4>3 DEF ListInv, At
    <3>4. QED
      BY <3>2, <3>3
  <2>6. CASE CppUnorderedMap!Finish
    <3>1. node = CppUnorderedMap!Null /\ UNCHANGED <<node, i, given>> /\ phase' = "over" /\ Len(given) = i
      BY <2>6 DEF CppUnorderedMap!Finish
    <3>2. i = Len(s)
      BY <1>1, <2>1, <3>1, EndOfList
    <3>3. Along(s)'
      BY <1>2, <1>4, <2>1, <2>3, <3>1, <3>2 DEF Along, CppUnorderedMap!Places
    <3>4. QED
      BY <1>3, <3>1, <3>3 DEF ListInv, At
  <2>7. QED
    BY <1>6, <2>4, <2>5, <2>6 DEF CppUnorderedMap!Handler
<1>7. QED
  BY <1>5, <1>6

(* The walk of the list implements Iteration.                               *)
LEMMA ListAbstracts ==
    ASSUME which = "CppUnorderedMap", which' = which, ListInv, CppUnorderedMap!Program \/ CppUnorderedMap!opt_read \/ CppUnorderedMap!Handler
    PROVE  [Contents!Next]_(Contents!vars)
<1>1. PICK s : IsList(s) /\ Counted(s) /\ At(s)
  BY DEF ListInv
<1>2. /\ Elements = {n + DataOfs : n \in DOMAIN next} /\ Whole = (lost = {}) /\ Given = given
      /\ Stage = IF phase \in {"failed", "panicked"} THEN "over" ELSE phase
  BY DEF Elements, Whole, Given, Stage, CppUnorderedMap!Elements, CppUnorderedMap!Whole, CppUnorderedMap!Stage, CppUnorderedMap!Linked
<1>3. /\ Elements' = {n + DataOfs : n \in DOMAIN next'} /\ Whole' = (lost' = {}) /\ Given' = given'
      /\ Stage' = IF phase' \in {"failed", "panicked"} THEN "over" ELSE phase'
  BY DEF Elements, Whole, Given, Stage, CppUnorderedMap!Elements, CppUnorderedMap!Whole, CppUnorderedMap!Stage, CppUnorderedMap!Linked
<1>4. DOMAIN next \subseteq Nat /\ DOMAIN next' \subseteq Nat /\ DataOfs \in Nat
  <2>1. ListInv'
    BY ListProgram, ListHandler
  <2>2. DOMAIN next \subseteq ListNodes
    BY ListTypes DEF CppUnorderedMap!TypeOK, CppUnorderedMap!Linked
  <2>3. PICK t : IsList(t)'
    BY <2>1 DEF ListInv
  <2>4. DOMAIN next' \subseteq ListNodes
    BY <2>3 DEF IsList
  <2>5. QED
    BY <2>2, <2>4, ContainersAssumption DEF CppUnorderedMap!UnorderedAssumption
<1>5. Elements \subseteq Nat /\ Elements' \subseteq Nat
  BY <1>2, <1>3, <1>4
<1>6. CASE CppUnorderedMap!Program
  <2>1. Stage = "running" /\ Stage' = "running" /\ Given' = Given
    BY <1>2, <1>3, <1>6 DEF CppUnorderedMap!Program
  <2>2. QED
    BY <1>3, <1>5, <2>1 DEF Contents!Next, Contents!Change
<1>7. CASE CppUnorderedMap!opt_read
  <2>1. Stage = "running" /\ Stage' = "dumped" /\ Given' = Given /\ Elements' = Elements
    BY <1>2, <1>3, <1>7 DEF CppUnorderedMap!opt_read, CppUnorderedMap!program
  <2>2. QED
    BY <1>3, <2>1 DEF Contents!Next, Contents!Dump
<1>8. CASE CppUnorderedMap!Handler
  <2>1. phase = "dumped" /\ Along(s) /\ UNCHANGED <<next, lost>>
    BY <1>1, <1>8 DEF At, CppUnorderedMap!Handler, CppUnorderedMap!Visit, CppUnorderedMap!Advance, CppUnorderedMap!Finish, CppUnorderedMap!program
  <2>2. Elements' = Elements /\ Whole' = Whole /\ Stage = "dumped"
    BY <1>2, <1>3, <2>1
  <2>3. Len(s) \in Nat /\ s \in Seq(ListNodes) /\ Elements = {s[k] + DataOfs : k \in 1 .. Len(s)}
    BY <1>1, <1>2 DEF IsList
  <2>4. given \in Seq(CppUnorderedMap!Places) /\ Len(given) \in Nat /\ Len(given) <= Len(s)
    BY <2>1 DEF Along
  <2>5. DOMAIN given = 1 .. Len(given) /\ Contents!Range(Given) = {s[k] + DataOfs : k \in 1 .. Len(given)}
    BY <1>2, <2>1, <2>4 DEF Along, Contents!Range
  <2>6. CASE CppUnorderedMap!Visit
    <3>1. i < Len(s) /\ Len(given) = i /\ i \in Nat /\ node = s[i + 1] /\ i + 1 \in 1 .. Len(s)
      BY <2>1, <2>3, <2>4, <2>6 DEF CppUnorderedMap!Visit, Along, Follows
    <3>2. ListInv'
      BY <1>8, ListHandler
    <3>3. Given' = Append(Given, s[i + 1] + DataOfs) /\ Stage' = "dumped"
      BY <1>2, <1>3, <2>1, <2>6, <3>1, <3>2 DEF CppUnorderedMap!Visit, CppUnorderedMap!data_addr, ListInv, At
    <3>4. \A k \in 1 .. i : s[k] + DataOfs # s[i + 1] + DataOfs
      <4>1. \A k \in 1 .. Len(s) : s[k] \in Nat
        BY <1>1, ListFacts
      <4>2. \A k \in 1 .. i : s[k] # s[i + 1]
        BY <1>1, <2>3, <3>1 DEF IsList
      <4>3. QED
        BY <1>4, <2>3, <3>1, <4>1, <4>2
    <3>5. s[i + 1] + DataOfs \in Elements \ Contents!Range(Given)
      BY <2>3, <2>5, <3>1, <3>4
    <3>6. QED
      BY <2>2, <3>3, <3>5 DEF Contents!Next, Contents!Give
  <2>7. CASE CppUnorderedMap!Advance
    <3>1. Given' = Given
      BY <1>2, <1>3, <2>7 DEF CppUnorderedMap!Advance
    <3>2. CASE node \in lost
      <4>1. Stage' = "over" /\ ~ Whole
        BY <1>2, <1>3, <2>7, <3>2 DEF CppUnorderedMap!Advance
      <4>2. QED
        BY <2>2, <3>1, <4>1 DEF Contents!Next, Contents!Finish
    <3>3. CASE node \notin lost
      <4>1. Stage' = Stage
        BY <1>2, <1>3, <2>7, <3>3 DEF CppUnorderedMap!Advance
      <4>2. QED
        BY <2>2, <3>1, <4>1 DEF Contents!vars
    <3>4. QED
      BY <3>2, <3>3
  <2>8. CASE CppUnorderedMap!Finish
    <3>1. Given' = Given /\ Stage' = "over" /\ Len(given) = i
      BY <1>2, <1>3, <2>8 DEF CppUnorderedMap!Finish
    <3>2. i = Len(s)
      BY <1>1, <2>1, <2>8, EndOfList DEF CppUnorderedMap!Finish
    <3>3. Contents!Range(Given) = Elements
      BY <2>3, <2>5, <3>1, <3>2
    <3>4. QED
      BY <2>2, <3>1, <3>3 DEF Contents!Next, Contents!Finish
  <2>9. QED
    BY <1>8, <2>6, <2>7, <2>8 DEF CppUnorderedMap!Handler
<1>9. QED
  BY <1>6, <1>7, <1>8

(* So does the walk of a tree: it fails only where the dump lacks a node.   *)
LEMMA TreeAbstracts ==
    ASSUME which = "CppMap", which' = which, Inv, [Next]_vars
    PROVE  [Contents!Next]_(Contents!vars)
<1>1. Inv' /\ UNCHANGED <<tree, mapped, count>>
  BY NextInv DEF Next, Open, Item, NextRight, Down, NextUp, Up, Err, vars
<1>2. /\ Elements = Nodes(tree) /\ Whole = (count = tree.n /\ mapped = Nodes(tree) \cup {Header(tree)})
      /\ Given = (IF count > tree.n THEN <<>> ELSE visited) /\ Stage = IF status \in {"done", "err"} THEN "over" ELSE "dumped"
  BY DEF Elements, Whole, Given, Stage
<1>3. /\ Elements' = Elements /\ Whole' = Whole
      /\ Given' = (IF count > tree.n THEN <<>> ELSE visited') /\ Stage' = IF status' \in {"done", "err"} THEN "over" ELSE "dumped"
  BY <1>1 DEF Elements, Whole, Given, Stage, Nodes, Header
<1>4. /\ count <= tree.n => Contents!Range(Given) = 1 .. K
      /\ K \in Nat /\ count \in Nat /\ tree.n \in Nat /\ Nodes(tree) = 1 .. tree.n
  <2>1. visited \in Seq(Addr) /\ \A k \in 1 .. Len(visited) : visited[k] = k
    BY DEF Inv, TypeOK, InKeyOrder
  <2>2. DOMAIN visited = 1 .. Len(visited)
    BY <2>1
  <2>3. QED
    BY <1>2, <2>1, <2>2, TreeFacts DEF K, Contents!Range
<1>5. ASSUME Err, status \notin {"done", "err"}, NEW a \in Addr, ~ Readable(a)
      PROVE  Contents!Next
  <2>1. ~ Whole
    <3>1. a \in Nodes(tree) \cup {Header(tree), 0}
      BY TreeFacts DEF Addr
    <3>2. a \notin mapped /\ a # 0
      BY <1>5 DEF Readable
    <3>3. QED
      BY <1>2, <3>1, <3>2
  <2>2. Stage = "dumped" /\ Stage' = "over" /\ Given' = Given
    BY <1>2, <1>3, <1>5 DEF Err
  <2>3. QED
    BY <1>3, <2>1, <2>2 DEF Contents!Next, Contents!Finish
<1>6. ASSUME UNCHANGED visited, status \notin {"done", "err"}, status' \notin {"done", "err"}
      PROVE  UNCHANGED Contents!vars
  BY <1>2, <1>3, <1>6 DEF Contents!vars
<1>7. cur_n.left_addr \in Addr /\ cur_n.right_addr \in Addr /\ cur_n.parent_addr \in Addr /\ p.parent_addr \in Addr
  BY DEF Inv, TypeOK, NodeCopy
<1>8. CASE Open
  <2>1. CASE ~ Err
    BY <1>6, <1>8, <2>1 DEF Open
  <2>2. CASE Err
    <3>1. status = "open" /\ count # 0 /\ (~ Readable(Header(tree)) \/ ~ Readable(Read(Header(tree)).left_addr))
      BY <1>8, <2>2 DEF Open, Err
    <3>2. Header(tree) \in Addr /\ Header(tree) # 0
      BY TreeFacts DEF Addr
    <3>3. Read(Header(tree)).left_addr \in Addr
      BY <3>2, TreeFacts DEF Read, Addr
    <3>4. QED
      BY <1>5, <2>2, <3>1, <3>2, <3>3
  <2>3. QED
    BY <2>1, <2>2
<1>9. CASE Item
  <2>1. CASE K = count
    <3>1. status = "item" /\ status' = "done" /\ visited' = visited
      BY <1>9, <2>1 DEF Item, K
    <3>2. ASSUME Whole PROVE Contents!Range(Given) = Elements
      <4>1. count = tree.n
        BY <1>2, <3>2
      <4>2. Contents!Range(Given) = 1 .. K /\ Elements = 1 .. tree.n
        BY <1>2, <1>4, <4>1
      <4>3. QED
        BY <2>1, <4>1, <4>2
    <3>3. Whole \in BOOLEAN
      BY <1>2
    <3>4. Stage = "dumped" /\ Stage' = "over" /\ Given' = Given
      BY <1>2, <1>3, <3>1
    <3>5. QED
      BY <1>3, <3>2, <3>3, <3>4 DEF Contents!Next, Contents!Finish
  <2>2. CASE K # count /\ count > tree.n
    <3>1. Given' = Given
      BY <1>2, <1>3, <2>2
    <3>2. status = "item" /\ status' \notin {"done", "err"}
      BY <1>9, <2>2 DEF Item, K
    <3>3. QED
      BY <1>2, <1>3, <3>1, <3>2 DEF Contents!vars
  <2>3. CASE K # count /\ count <= tree.n
    <3>1. status = "item" /\ K < count /\ cur_n = Read(K + 1) /\ K + 1 \in Nodes(tree)
      BY <1>9, <2>3, TreeFacts DEF Item, Inv, AtItem
    <3>2. cur_n.addr = K + 1 /\ K + 1 # 0
      BY <3>1, NodeFacts
    <3>3. status' = "next" /\ visited' = Append(visited, K + 1)
      BY <1>9, <2>3, <3>2 DEF Item, K
    <3>4. K + 1 \in Elements \ Contents!Range(Given)
      BY <1>2, <1>4, <2>3, <3>1
    <3>5. Stage = "dumped" /\ Stage' = "dumped" /\ Given' = Append(Given, K + 1)
      BY <1>2, <1>3, <1>4, <2>3, <3>1, <3>3
    <3>6. QED
      BY <1>3, <3>4, <3>5 DEF Contents!Next, Contents!Give
  <2>4. QED
    BY <1>4, <2>1, <2>2, <2>3
<1>10. CASE NextRight
  BY <1>5, <1>6, <1>7, <1>10 DEF NextRight
<1>11. CASE Down
  BY <1>5, <1>6, <1>7, <1>11 DEF Down
<1>12. CASE NextUp
  BY <1>5, <1>6, <1>7, <1>12 DEF NextUp
<1>13. CASE Up
  BY <1>5, <1>6, <1>7, <1>13 DEF Up
<1>14. CASE UNCHANGED vars
  BY <1>2, <1>3, <1>14 DEF Contents!vars, vars
<1>15. QED
  BY <1>8, <1>9, <1>10, <1>11, <1>12, <1>13, <1>14 DEF Next

-----------------------------------------------------------------------------
(* The table of a HashMap: exactly the buckets whose tag is a hash hold an  *)
(* entry of the map, each another one.                                      *)
LEMMA Multiples ==
    ASSUME NEW a \in Nat, NEW b \in Nat, NEW c \in Nat, a < b
    PROVE  a * c \in Nat /\ b * c \in Nat /\ (a + 1) * c = a * c + c /\ a * c + c <= b * c
<1>1. PICK d \in Nat : b = a + 1 + d
  <2>1. b - a - 1 \in Nat /\ b = a + 1 + (b - a - 1)
    OBVIOUS
  <2>2. QED
    BY <2>1
<1>2. d * c \in Nat /\ a * c \in Nat /\ b * c \in Nat
  OBVIOUS
<1>3. b * c = a * c + c + d * c
  BY <1>1
<1>4. QED
  BY <1>2, <1>3

Buckets_in == 0 .. bucket_mask
Allocated ==
    /\ bucket_mask + 1 \in Buckets /\ ctrl = Ctrl[bucket_mask + 1] /\ ctrl # EmptyGroup
Shared ==
    /\ ctrl = EmptyGroup /\ bucket_mask = 0 /\ map = {} /\ DOMAIN entries = {}
    /\ \A a \in DOMAIN tags : tags[a] = HashMap!EMPTY
HashTable ==
    /\ bucket_mask \in Nat /\ ctrl \in Nat /\ (Allocated \/ Shared)
    /\ DOMAIN tags = ctrl .. ctrl + bucket_mask + 1
    /\ \A a \in DOMAIN tags : tags[a] \in HashMap!Full \cup {HashMap!DELETED, HashMap!EMPTY}
    /\ \A a \in DOMAIN entries : entries[a] \in Keys /\ \E b \in HashMap!Table : a = HashMap!Bucket(b)
Entered ==
    /\ map \subseteq Keys
    /\ \A b \in HashMap!Occupied : HashMap!Bucket(b) \in DOMAIN entries
    /\ \A b, c \in HashMap!Occupied : entries[HashMap!Bucket(b)] = entries[HashMap!Bucket(c)] => b = c
    /\ map = {entries[HashMap!Bucket(b)] : b \in HashMap!Occupied}

(* f lists the buckets of the entries visited so far.                       *)
Passed == bucket_mask + 1 - n_buckets
VisitedIn(f) ==
    /\ f \in Seq(Nat) /\ Len(f) = Len(given)
    /\ \A k \in 1 .. Len(f) : given[k] = HashMap!Bucket(f[k])
    /\ \A j, k \in 1 .. Len(f) : f[j] = f[k] => j = k
    /\ \A k \in 1 .. Len(f) : f[k] \in HashMap!Occupied /\ f[k] < Passed
    /\ \A b \in HashMap!Occupied : b < Passed => \E k \in 1 .. Len(f) : f[k] = b
InTable ==
    /\ n_buckets \in 0 .. bucket_mask + 1 /\ ctrl_start = ctrl + Passed /\ data_end = ctrl - Passed * ItemSize
    /\ given \in Seq(HashMap!Places) /\ \E f : VisitedIn(f)
    /\ phase = "over" => n_buckets = 0
    /\ phase = "failed" => ctrl = EmptyGroup /\ ~ EmptyGroupDumped
HashInv ==
    /\ HashTable /\ Entered
    /\ phase \in {"running", "dumped", "over", "failed", "panicked"} /\ known \in BOOLEAN
    /\ phase = "panicked" => ~known
    /\ IF phase \in {"running", "panicked"} THEN n_buckets = 0 /\ ctrl_start = 0 /\ data_end = 0 /\ given = <<>>
       ELSE InTable

LEMMA SizesOK ==
    /\ Buckets \subseteq Nat \ {0} /\ ItemSize \in Nat /\ ItemSize # 0 /\ EmptyGroupDumped \in BOOLEAN
    /\ Ctrl \in [Buckets -> Nat] /\ EmptyGroup \in Nat /\ EmptyGroup >= ItemSize
    /\ \A n \in Buckets : Ctrl[n] >= n * ItemSize
    /\ \A n \in Buckets : EmptyGroup \notin Ctrl[n] - n * ItemSize .. Ctrl[n] + n
BY ContainersAssumption DEF HashMap!HashbrownAssumption

(* The table has room below and above its control bytes.                    *)
LEMMA TableFacts ==
    ASSUME HashTable
    PROVE  /\ ctrl \in Nat /\ bucket_mask \in Nat /\ ctrl - (bucket_mask + 1) * ItemSize \in Nat
           /\ \A b, c \in Nat : HashMap!Bucket(b) = HashMap!Bucket(c) => b = c
           /\ \A b \in 0 .. bucket_mask : HashMap!Bucket(b) \in Nat
           /\ \A b \in HashMap!Table : HashMap!Bucket(b) \in HashMap!Places
           /\ HashMap!Table \subseteq 0 .. bucket_mask
           /\ HashMap!Places \subseteq Nat
<1>1. ctrl \in Nat /\ bucket_mask \in Nat /\ ItemSize \in Nat /\ ItemSize # 0
  BY SizesOK DEF HashTable
<1>2. ctrl >= (bucket_mask + 1) * ItemSize /\ (bucket_mask + 1) * ItemSize \in Nat
  <2>1. CASE Allocated
    BY <1>1, <2>1, SizesOK DEF Allocated
  <2>2. CASE Shared
    BY <1>1, <2>2, SizesOK DEF Shared
  <2>3. QED
    BY <2>1, <2>2 DEF HashTable
<1>3. \A b \in Nat : HashMap!Bucket(b) = ctrl - (b + 1) * ItemSize /\ (b + 1) * ItemSize \in Nat
  BY <1>1 DEF HashMap!Bucket
<1>4. \A b, c \in Nat : b < c => (b + 1) * ItemSize < (c + 1) * ItemSize
  <2> SUFFICES ASSUME NEW b \in Nat, NEW c \in Nat, b < c PROVE (b + 1) * ItemSize < (c + 1) * ItemSize
    OBVIOUS
  <2>1. (b + 1) * ItemSize + ItemSize <= (c + 1) * ItemSize /\ (b + 1) * ItemSize \in Nat /\ (c + 1) * ItemSize \in Nat
    BY <1>1, Multiples
  <2>2. QED
    BY <1>1, <2>1
<1>5. \A b, c \in Nat : HashMap!Bucket(b) = HashMap!Bucket(c) => b = c
  <2> SUFFICES ASSUME NEW b \in Nat, NEW c \in Nat, b < c PROVE HashMap!Bucket(b) # HashMap!Bucket(c)
    OBVIOUS
  <2>1. QED
    BY <1>1, <1>3, <1>4
<1>6. \A n \in Nat : \A b \in 0 .. n - 1 : (b + 1) * ItemSize <= n * ItemSize /\ (b + 1) * ItemSize \in Nat
  <2> SUFFICES ASSUME NEW n \in Nat, NEW b \in 0 .. n - 1
               PROVE  (b + 1) * ItemSize <= n * ItemSize /\ (b + 1) * ItemSize \in Nat
    OBVIOUS
  <2>1. (b + 1) * ItemSize = b * ItemSize + ItemSize /\ b * ItemSize + ItemSize <= n * ItemSize /\ b * ItemSize \in Nat
    BY <1>1, Multiples
  <2>2. QED
    BY <1>1, <2>1
<1>7. \A b \in 0 .. bucket_mask : HashMap!Bucket(b) \in Nat
  BY <1>1, <1>2, <1>3, <1>6
<1>8. HashMap!Table \subseteq 0 .. bucket_mask
  BY DEF HashMap!Table
<1>9. \A b \in HashMap!Table : HashMap!Bucket(b) \in HashMap!Places
  <2> SUFFICES ASSUME NEW b \in HashMap!Table PROVE HashMap!Bucket(b) \in HashMap!Places
    OBVIOUS
  <2>1. PICK n \in Buckets : n = bucket_mask + 1 /\ ctrl = Ctrl[n]
    BY <1>1 DEF HashMap!Table, HashTable, Allocated, Shared
  <2>2. b \in 0 .. n - 1 /\ HashMap!Bucket(b) = Ctrl[n] - (b + 1) * ItemSize
    BY <1>1, <2>1 DEF HashMap!Table, HashMap!Bucket
  <2>3. HashMap!Bucket(b) \in {Ctrl[n] - (e + 1) * ItemSize : e \in 0 .. n - 1}
    BY <2>2
  <2>4. QED
    BY <2>3, Zenon DEF HashMap!Places
<1>10. HashMap!Places \subseteq Nat
  <2> SUFFICES ASSUME NEW n \in Buckets, NEW b \in 0 .. n - 1 PROVE Ctrl[n] - (b + 1) * ItemSize \in Nat
    BY DEF HashMap!Places
  <2>1. n \in Nat /\ Ctrl[n] \in Nat /\ Ctrl[n] >= n * ItemSize /\ n * ItemSize \in Nat
    BY <1>1, SizesOK
  <2>2. QED
    BY <1>6, <2>1
<1>11. QED
  BY <1>1, <1>2, <1>5, <1>7, <1>8, <1>9, <1>10

LEMMA HashInit == HashMap!Init => HashInv
<1> SUFFICES ASSUME HashMap!Init PROVE HashInv
  OBVIOUS
<1>1. /\ map = {} /\ DOMAIN entries = {} /\ ctrl = EmptyGroup /\ bucket_mask = 0 /\ ctrl \in Nat
      /\ DOMAIN tags = ctrl .. ctrl + bucket_mask + 1 /\ \A a \in DOMAIN tags : tags[a] = HashMap!EMPTY
  BY SizesOK DEF HashMap!Init
<1>2. HashTable
  BY <1>1 DEF HashTable, Shared
<1>3. HashMap!Occupied = {}
  BY <1>1 DEF HashMap!Occupied, HashMap!Table
<1>4. Entered
  BY <1>1, <1>3 DEF Entered
<1>5. QED
  BY <1>2, <1>4 DEF HashInv, HashMap!Init

(* A tag is written to its place and, if it is the first, behind the last.  *)
LEMMA WrittenTags ==
    ASSUME HashTable, NEW at \in HashMap!Table, NEW tag \in HashMap!Full \cup {HashMap!DELETED, HashMap!EMPTY},
           tags' = HashMap!Written(at, tag), UNCHANGED <<ctrl, bucket_mask>>
    PROVE  /\ Allocated' /\ HashMap!Table' = HashMap!Table
           /\ DOMAIN tags' = ctrl' .. ctrl' + bucket_mask' + 1
           /\ \A a \in DOMAIN tags' : tags'[a] \in HashMap!Full \cup {HashMap!DELETED, HashMap!EMPTY}
           /\ \A b \in HashMap!Table : HashMap!Tag(b)' = IF b = at THEN tag ELSE HashMap!Tag(b)
           /\ \A b : HashMap!Bucket(b)' = HashMap!Bucket(b)
<1>1. ctrl \in Nat /\ bucket_mask \in Nat /\ at \in 0 .. bucket_mask /\ HashMap!Table \subseteq 0 .. bucket_mask
  BY TableFacts
<1>2. Allocated' /\ HashMap!Table' = HashMap!Table /\ \A b : HashMap!Bucket(b)' = HashMap!Bucket(b)
  BY DEF HashTable, Allocated, Shared, HashMap!Table, HashMap!Bucket
<1>3. /\ DOMAIN tags' = DOMAIN tags /\ DOMAIN tags = ctrl .. ctrl + bucket_mask + 1
      /\ \A a \in DOMAIN tags : tags'[a] = IF a = ctrl + at \/ (at = 0 /\ a = ctrl + bucket_mask + 1) THEN tag ELSE tags[a]
  BY DEF HashMap!Written, HashTable
<1>4. \A a \in DOMAIN tags' : tags'[a] \in HashMap!Full \cup {HashMap!DELETED, HashMap!EMPTY}
  BY <1>3 DEF HashTable
<1>5. ASSUME NEW b \in HashMap!Table PROVE HashMap!Tag(b)' = IF b = at THEN tag ELSE HashMap!Tag(b)
  <2>1. ctrl + b \in DOMAIN tags /\ ctrl + b # ctrl + bucket_mask + 1 /\ (ctrl + b = ctrl + at <=> b = at)
    BY <1>1, <1>3
  <2>2. HashMap!Tag(b)' = tags'[ctrl + b] /\ HashMap!Tag(b) = tags[ctrl + b]
    BY DEF HashMap!Tag
  <2>3. QED
    BY <1>3, <2>1, <2>2
<1>6. QED
  BY <1>2, <1>3, <1>4, <1>5

LEMMA HashInsert ==
    ASSUME HashTable, Entered, HashMap!Insert, UNCHANGED <<ctrl, bucket_mask>>
    PROVE  HashTable' /\ Entered'
<1>1. PICK k \in Keys \ map, at \in HashMap!Table :
        /\ HashMap!Tag(at) = HashMap!DELETED \/ HashMap!Tag(at) = HashMap!EMPTY
        /\ map' = map \cup {k} /\ tags' = HashMap!Written(at, 1)
        /\ entries' = [a \in DOMAIN entries \cup {HashMap!Bucket(at)} |-> IF a = HashMap!Bucket(at) THEN k ELSE entries[a]]
  BY DEF HashMap!Insert
<1>2. 1 \in HashMap!Full /\ HashMap!DELETED \notin HashMap!Full /\ HashMap!EMPTY \notin HashMap!Full
  BY DEF HashMap!Full, HashMap!DELETED, HashMap!EMPTY
<1>3. /\ Allocated' /\ HashMap!Table' = HashMap!Table
      /\ DOMAIN tags' = ctrl' .. ctrl' + bucket_mask' + 1
      /\ \A a \in DOMAIN tags' : tags'[a] \in HashMap!Full \cup {HashMap!DELETED, HashMap!EMPTY}
      /\ \A b \in HashMap!Table : HashMap!Tag(b)' = IF b = at THEN 1 ELSE HashMap!Tag(b)
      /\ \A b : HashMap!Bucket(b)' = HashMap!Bucket(b)
  BY <1>1, <1>2, WrittenTags
<1>4. HashMap!Occupied' = HashMap!Occupied \cup {at} /\ at \notin HashMap!Occupied
  BY <1>1, <1>2, <1>3 DEF HashMap!Occupied
<1>5. HashMap!Table \subseteq Nat /\ HashMap!Occupied \subseteq Nat
  BY TableFacts DEF HashMap!Occupied
<1>6. \A b \in HashMap!Occupied : HashMap!Bucket(b) # HashMap!Bucket(at)
  BY <1>4, <1>5, TableFacts
<1>7. /\ \A b \in HashMap!Occupied : entries'[HashMap!Bucket(b)] = entries[HashMap!Bucket(b)]
      /\ \A b \in HashMap!Occupied : HashMap!Bucket(b) \in DOMAIN entries'
      /\ entries'[HashMap!Bucket(at)] = k /\ HashMap!Bucket(at) \in DOMAIN entries'
  BY <1>1, <1>6 DEF Entered
<1>8. \A a \in DOMAIN entries' : entries'[a] \in Keys /\ \E b \in HashMap!Table' : a = HashMap!Bucket(b)'
  BY <1>1, <1>3 DEF HashTable
<1>9. HashTable'
  BY <1>3, <1>8, SizesOK DEF HashTable, HashMap!Full, HashMap!DELETED, HashMap!EMPTY
<1>10. Entered'
  <2>1. map' \subseteq Keys
    BY <1>1 DEF Entered
  <2>2. \A b \in HashMap!Occupied' : HashMap!Bucket(b)' \in DOMAIN entries'
    BY <1>3, <1>4, <1>7
  <2>3. \A b \in HashMap!Occupied : entries[HashMap!Bucket(b)] # k
    BY <1>1 DEF Entered
  <2>4. \A b, c \in HashMap!Occupied' : entries'[HashMap!Bucket(b)'] = entries'[HashMap!Bucket(c)'] => b = c
    BY <1>3, <1>4, <1>7, <2>3 DEF Entered
  <2>5. map' = {entries'[HashMap!Bucket(b)'] : b \in HashMap!Occupied'}
    <3>1. map' = {entries[HashMap!Bucket(b)] : b \in HashMap!Occupied} \cup {k}
      BY <1>1 DEF Entered
    <3>2. \A b \in HashMap!Occupied : entries'[HashMap!Bucket(b)'] = entries[HashMap!Bucket(b)]
      BY <1>3, <1>7
    <3>3. entries'[HashMap!Bucket(at)'] = k
      BY <1>3, <1>7
    <3>4. QED
      BY <1>4, <3>1, <3>2, <3>3
  <2>6. QED
    BY <2>1, <2>2, <2>4, <2>5 DEF Entered
<1>11. QED
  BY <1>9, <1>10

LEMMA HashRemove ==
    ASSUME HashTable, Entered, HashMap!Remove, UNCHANGED <<ctrl, bucket_mask>>
    PROVE  HashTable' /\ Entered'
<1>1. PICK at \in HashMap!Occupied, tag \in {HashMap!EMPTY, HashMap!DELETED} :
        /\ map' = map \ {entries[HashMap!Bucket(at)]} /\ tags' = HashMap!Written(at, tag)
        /\ entries' = entries
  BY DEF HashMap!Remove
<1>2. tag \notin HashMap!Full /\ at \in HashMap!Table
  BY <1>1 DEF HashMap!Full, HashMap!DELETED, HashMap!EMPTY, HashMap!Occupied
<1>3. /\ Allocated' /\ HashMap!Table' = HashMap!Table
      /\ DOMAIN tags' = ctrl' .. ctrl' + bucket_mask' + 1
      /\ \A a \in DOMAIN tags' : tags'[a] \in HashMap!Full \cup {HashMap!DELETED, HashMap!EMPTY}
      /\ \A b \in HashMap!Table : HashMap!Tag(b)' = IF b = at THEN tag ELSE HashMap!Tag(b)
      /\ \A b : HashMap!Bucket(b)' = HashMap!Bucket(b)
  BY <1>1, <1>2, WrittenTags
<1>4. HashMap!Occupied' = HashMap!Occupied \ {at}
  BY <1>1, <1>2, <1>3 DEF HashMap!Occupied
<1>5. HashTable'
  BY <1>1, <1>3, SizesOK DEF HashTable, HashMap!Full, HashMap!DELETED, HashMap!EMPTY
<1>6. Entered'
  BY <1>1, <1>3, <1>4 DEF Entered
<1>7. QED
  BY <1>5, <1>6

LEMMA HashResize ==
    ASSUME HashTable, Entered, HashMap!Resize
    PROVE  HashTable' /\ Entered'
<1>0. PICK n \in Buckets : \E at \in HashMap!Injection(map, 0 .. n - 1) :
        /\ ctrl' = Ctrl[n] /\ bucket_mask' = n - 1 /\ map' = map
        /\ tags' = [a \in Ctrl[n] .. Ctrl[n] + n |-> IF (a - Ctrl[n]) % n \in HashMap!Range(at) THEN 1 ELSE HashMap!EMPTY]
        /\ entries' = [a \in {Ctrl[n] - (b + 1) * ItemSize : b \in HashMap!Range(at)} |->
                          CHOOSE k \in map : a = Ctrl[n] - (at[k] + 1) * ItemSize]
  BY DEF HashMap!Resize
<1>1. PICK at \in HashMap!Injection(map, 0 .. n - 1) :
        /\ ctrl' = Ctrl[n] /\ bucket_mask' = n - 1 /\ map' = map
        /\ tags' = [a \in Ctrl[n] .. Ctrl[n] + n |-> IF (a - Ctrl[n]) % n \in HashMap!Range(at) THEN 1 ELSE HashMap!EMPTY]
        /\ entries' = [a \in {Ctrl[n] - (b + 1) * ItemSize : b \in HashMap!Range(at)} |->
                          CHOOSE k \in map : a = Ctrl[n] - (at[k] + 1) * ItemSize]
  BY <1>0
<1>2. /\ n \in Nat /\ n # 0 /\ Ctrl[n] \in Nat /\ Ctrl[n] # EmptyGroup /\ ItemSize \in Nat /\ ItemSize # 0
  <2>1. n \in Nat /\ n # 0 /\ Ctrl[n] \in Nat /\ ItemSize \in Nat /\ ItemSize # 0
    BY SizesOK
  <2>2. n * ItemSize \in Nat /\ EmptyGroup \notin Ctrl[n] - n * ItemSize .. Ctrl[n] + n
    BY <2>1, SizesOK
  <2>3. QED
    BY <2>1, <2>2
<1>3. at \in [map -> 0 .. n - 1] /\ \A j, k \in map : at[j] = at[k] => j = k
  BY <1>1 DEF HashMap!Injection, HashMap!IsInjective
<1>4. HashMap!Range(at) = {at[k] : k \in map} /\ HashMap!Range(at) \subseteq 0 .. n - 1
  BY <1>3 DEF HashMap!Range
<1>5. HashMap!Table' = 0 .. n - 1 /\ (\A b \in 0 .. n - 1 : HashMap!Bucket(b)' = Ctrl[n] - (b + 1) * ItemSize)
  BY <1>1, <1>2 DEF HashMap!Table, HashMap!Bucket
<1>6. \A b \in 0 .. n - 1 : b % n = b
  BY <1>2
<1>7. DOMAIN tags' = Ctrl[n] .. Ctrl[n] + n
  BY <1>1
<1>8. ASSUME NEW b \in 0 .. n - 1 PROVE HashMap!Tag(b)' = IF b \in HashMap!Range(at) THEN 1 ELSE HashMap!EMPTY
  <2>1. Ctrl[n] + b \in Ctrl[n] .. Ctrl[n] + n /\ (Ctrl[n] + b) - Ctrl[n] = b
    BY <1>2
  <2>2. HashMap!Tag(b)' = tags'[Ctrl[n] + b]
    BY <1>1 DEF HashMap!Tag
  <2>3. QED
    BY <1>1, <1>6, <2>1, <2>2
<1>9. HashMap!Occupied' = HashMap!Range(at)
  <2>1. 1 \in HashMap!Full /\ HashMap!EMPTY \notin HashMap!Full
    BY DEF HashMap!Full, HashMap!EMPTY
  <2>2. HashMap!Occupied' = {b \in 0 .. n - 1 : HashMap!Tag(b)' \in HashMap!Full}
    BY <1>5 DEF HashMap!Occupied, HashMap!Full
  <2>3. QED
    BY <1>4, <1>8, <2>1, <2>2
<1>10. \A b, c \in 0 .. n - 1 : Ctrl[n] - (b + 1) * ItemSize = Ctrl[n] - (c + 1) * ItemSize => b = c
  <2> SUFFICES ASSUME NEW b \in 0 .. n - 1, NEW c \in 0 .. n - 1, b < c
               PROVE  Ctrl[n] - (b + 1) * ItemSize # Ctrl[n] - (c + 1) * ItemSize
    BY <1>2
  <2>1. (b + 1) * ItemSize + ItemSize <= (c + 1) * ItemSize /\ (b + 1) * ItemSize \in Nat /\ (c + 1) * ItemSize \in Nat
    BY <1>2, Multiples
  <2>2. QED
    BY <1>2, <2>1
<1>11. ASSUME NEW k \in map
       PROVE  /\ Ctrl[n] - (at[k] + 1) * ItemSize \in DOMAIN entries'
              /\ entries'[Ctrl[n] - (at[k] + 1) * ItemSize] = k
  <2>1. at[k] \in HashMap!Range(at) /\ at[k] \in 0 .. n - 1
    BY <1>3, <1>4
  <2>2. \A j \in map : Ctrl[n] - (at[k] + 1) * ItemSize = Ctrl[n] - (at[j] + 1) * ItemSize => j = k
    BY <1>3, <1>10
  <2>3. k = CHOOSE j \in map : Ctrl[n] - (at[k] + 1) * ItemSize = Ctrl[n] - (at[j] + 1) * ItemSize
    BY <2>2
  <2>4. QED
    BY <1>1, <2>1, <2>3
<1>12. \A a \in DOMAIN entries' : \E k \in map : a = Ctrl[n] - (at[k] + 1) * ItemSize
  BY <1>1, <1>4
<1>13. \A b \in HashMap!Occupied' : \E k \in map : b = at[k] /\ b \in 0 .. n - 1 /\ entries'[HashMap!Bucket(b)'] = k
  BY <1>3, <1>4, <1>5, <1>9, <1>11
<1>14. HashTable'
  <2>1. bucket_mask' \in Nat /\ ctrl' \in Nat /\ Allocated' /\ DOMAIN tags' = ctrl' .. ctrl' + bucket_mask' + 1
    <3>1. bucket_mask' + 1 = n /\ bucket_mask' \in Nat
      BY <1>1, <1>2
    <3>2. ctrl' + bucket_mask' + 1 = Ctrl[n] + n
      BY <1>1, <1>2
    <3>3. QED
      BY <1>1, <1>2, <1>7, <3>1, <3>2 DEF Allocated
  <2>2. \A a \in DOMAIN tags' : tags'[a] \in HashMap!Full \cup {HashMap!DELETED, HashMap!EMPTY}
    BY <1>1 DEF HashMap!Full
  <2>3. \A a \in DOMAIN entries' : entries'[a] \in Keys /\ \E b \in HashMap!Table' : a = HashMap!Bucket(b)'
    BY <1>3, <1>5, <1>11, <1>12 DEF Entered
  <2>4. QED
    BY <2>1, <2>2, <2>3 DEF HashTable, HashMap!Full, HashMap!DELETED, HashMap!EMPTY
<1>15. Entered'
  <2>1. map' \subseteq Keys
    BY <1>1 DEF Entered
  <2>2. \A b \in HashMap!Occupied' : HashMap!Bucket(b)' \in DOMAIN entries'
    BY <1>3, <1>5, <1>11, <1>13
  <2>3. \A b, c \in HashMap!Occupied' : entries'[HashMap!Bucket(b)'] = entries'[HashMap!Bucket(c)'] => b = c
    BY <1>13
  <2>4. \A k \in map : at[k] \in HashMap!Occupied' /\ entries'[HashMap!Bucket(at[k])'] = k
    BY <1>3, <1>4, <1>5, <1>9, <1>11
  <2>5. map' = {entries'[HashMap!Bucket(b)'] : b \in HashMap!Occupied'}
    <3>1. \A b \in HashMap!Occupied' : entries'[HashMap!Bucket(b)'] \in map
      BY <1>13
    <3>2. {entries'[HashMap!Bucket(b)'] : b \in HashMap!Occupied'} \subseteq map
      BY <3>1
    <3>3. map \subseteq {entries'[HashMap!Bucket(b)'] : b \in HashMap!Occupied'}
      BY <2>4
    <3>4. QED
      BY <1>1, <3>2, <3>3
  <2>6. QED
    BY <2>1, <2>2, <2>3, <2>5 DEF Entered
<1>16. QED
  BY <1>14, <1>15

LEMMA HashProgram ==
    ASSUME HashInv, HashMap!Program
    PROVE  HashInv'
<1>1. phase = "running" /\ UNCHANGED <<known, n_buckets, ctrl_start, data_end, given, phase>>
  BY DEF HashMap!Program, HashMap!handler
<1>2. HashTable' /\ Entered'
  BY HashInsert, HashRemove, HashResize DEF HashInv, HashMap!Program
<1>3. QED
  BY <1>1, <1>2 DEF HashInv

(* A step of the handler leaves the table as it is.                         *)
LEMMA HashStill ==
    ASSUME HashInv, UNCHANGED HashMap!program
    PROVE  /\ HashTable' /\ Entered' /\ HashMap!Occupied' = HashMap!Occupied
           /\ \A b : HashMap!Bucket(b)' = HashMap!Bucket(b)
           /\ HashMap!Places' = HashMap!Places
           /\ UNCHANGED <<map, tags, entries, ctrl, bucket_mask, known>>
<1>1. UNCHANGED <<map, tags, entries, ctrl, bucket_mask, known>>
  BY DEF HashMap!program
<1>2. HashMap!Table' = HashMap!Table /\ (\A b : HashMap!Bucket(b)' = HashMap!Bucket(b)) /\ (\A b : HashMap!Tag(b)' = HashMap!Tag(b))
  BY <1>1 DEF HashMap!Table, HashMap!Bucket, HashMap!Tag
<1>3. HashMap!Occupied' = HashMap!Occupied
  BY <1>2 DEF HashMap!Occupied, HashMap!Full
<1>4. HashTable'
  BY <1>1, <1>2 DEF HashInv, HashTable, Allocated, Shared, HashMap!Full, HashMap!DELETED, HashMap!EMPTY
<1>5. Entered'
  BY <1>1, <1>2, <1>3 DEF HashInv, Entered
<1>6. QED
  BY <1>1, <1>2, <1>3, <1>4, <1>5 DEF HashMap!Places

LEMMA HashHandler ==
    ASSUME HashInv, HashMap!opt_read \/ HashMap!Handler
    PROVE  HashInv'
<1>1. UNCHANGED HashMap!program
  BY DEF HashMap!opt_read, HashMap!Handler, HashMap!next, HashMap!ReadError, HashMap!Finish
<1>2. /\ HashTable' /\ Entered' /\ HashMap!Occupied' = HashMap!Occupied
      /\ (\A b : HashMap!Bucket(b)' = HashMap!Bucket(b))
      /\ HashMap!Places' = HashMap!Places
      /\ UNCHANGED <<map, tags, entries, ctrl, bucket_mask, known>>
  BY <1>1, HashStill
<1>3. /\ ctrl \in Nat /\ bucket_mask \in Nat /\ ItemSize \in Nat /\ HashMap!Table \subseteq 0 .. bucket_mask
      /\ HashMap!Occupied \subseteq HashMap!Table
  BY TableFacts, SizesOK DEF HashInv, HashMap!Occupied
<1>0. CASE HashMap!opt_read /\ ~known
  <2>1. phase = "running" /\ phase' = "panicked" /\ UNCHANGED <<n_buckets, ctrl_start, data_end, given>>
    BY <1>0 DEF HashMap!opt_read
  <2>2. QED
    BY <1>0, <1>2, <2>1 DEF HashInv
<1>4. CASE HashMap!opt_read /\ known
  <2>1. /\ n_buckets' = bucket_mask' + 1 /\ ctrl_start' = ctrl' /\ data_end' = ctrl' /\ given' = <<>>
        /\ phase' = "dumped"
    BY <1>2, <1>4 DEF HashMap!opt_read, HashInv
  <2>2. Passed' = 0 /\ 0 * ItemSize = 0
    BY <1>2, <1>3, <2>1 DEF Passed
  <2>3. VisitedIn(<<>>)'
    <3>1. \A b \in HashMap!Occupied' : ~ (b < Passed')
      BY <1>2, <1>3, <2>2
    <3>2. Len(<<>>) = 0 /\ <<>> \in Seq(Nat)
      OBVIOUS
    <3>3. QED
      BY <2>1, <3>1, <3>2 DEF VisitedIn
  <2>4. given' \in Seq(HashMap!Places)
    BY <2>1
  <2>5. InTable'
    BY <1>2, <1>3, <2>1, <2>2, <2>3, <2>4 DEF InTable
  <2>6. QED
    BY <1>2, <2>1, <2>5 DEF HashInv
<1>5. ASSUME HashMap!Handler PROVE phase = "dumped" /\ InTable /\ Passed \in Nat /\ Passed + n_buckets = bucket_mask + 1
  <2>1. phase = "dumped" /\ InTable
    BY <1>5 DEF HashMap!Handler, HashMap!next, HashMap!ReadError, HashMap!Finish, HashInv
  <2>2. QED
    BY <1>3, <2>1 DEF InTable, Passed
<1>6. CASE HashMap!next
  <2>0. PICK d : d = Passed
    OBVIOUS
  <2>1. InTable /\ d \in 0 .. bucket_mask /\ d + n_buckets = bucket_mask + 1 /\ n_buckets \in Nat
    BY <1>3, <1>5, <1>6, <2>0 DEF HashMap!next, HashMap!Handler, InTable
  <2>2. ctrl_start = ctrl + d /\ data_end = ctrl - d * ItemSize /\ given \in Seq(HashMap!Places)
    BY <2>0, <2>1 DEF InTable
  <2>3. n_buckets' = n_buckets - 1 /\ ctrl_start' = ctrl_start + 1 /\ data_end' = data_end - ItemSize /\ phase' = "dumped"
    BY <1>5, <1>6 DEF HashMap!next, HashMap!Handler
  <2>4. Passed' = d + 1
    BY <1>2, <1>3, <2>0, <2>1, <2>3 DEF Passed
  <2>5. (d + 1) * ItemSize = d * ItemSize + ItemSize /\ d * ItemSize \in Nat
    BY <1>3, <2>1, Multiples
  <2>6. data_end' = HashMap!Bucket(d) /\ data_end' = ctrl' - Passed' * ItemSize /\ ctrl_start' = ctrl' + Passed'
    BY <1>2, <1>3, <2>1, <2>2, <2>3, <2>4, <2>5 DEF HashMap!Bucket
  <2>7. HashMap!is_populated(tags[ctrl_start]) <=> d \in HashMap!Occupied
    <3>1. ctrl + d \in DOMAIN tags
      BY <1>3, <2>1 DEF HashInv, HashTable
    <3>2. tags[ctrl + d] \in HashMap!Full \cup {HashMap!DELETED, HashMap!EMPTY} /\ (Shared => tags[ctrl + d] = HashMap!EMPTY)
      BY <3>1 DEF HashInv, HashTable, Shared
    <3>3. HashMap!is_populated(tags[ctrl + d]) <=> tags[ctrl + d] \in HashMap!Full
      BY <3>2 DEF HashMap!is_populated, HashMap!Full, HashMap!DELETED, HashMap!EMPTY
    <3>4. CASE Shared
      <4>1. HashMap!Occupied = {}
        BY <1>3, <3>4 DEF Shared, HashMap!Table
      <4>2. tags[ctrl + d] \notin HashMap!Full
        BY <3>2, <3>4 DEF HashMap!Full, HashMap!EMPTY
      <4>3. QED
        BY <2>2, <3>3, <4>1, <4>2
    <3>5. CASE Allocated
      <4>1. d \in HashMap!Table
        BY <2>1, <3>5 DEF Allocated, HashMap!Table
      <4>2. QED
        BY <2>2, <3>3, <4>1 DEF HashMap!Occupied, HashMap!Tag
    <3>6. QED
      BY <3>4, <3>5 DEF HashInv, HashTable
  <2>8. PICK f : VisitedIn(f)
    BY <2>1 DEF InTable
  <2>9. f \in Seq(Nat) /\ Len(f) = Len(given) /\ Len(f) \in Nat
    BY <2>8 DEF VisitedIn
  <2>10. HashMap!Occupied \subseteq Nat
    BY <1>3
  <2>11. given' \in Seq(HashMap!Places) /\ \E g : VisitedIn(g)'
    <3>1. CASE d \in HashMap!Occupied
      <4>0. PICK g : g = Append(f, d)
        OBVIOUS
      <4>1. given' = Append(given, HashMap!Bucket(d)) /\ HashMap!Bucket(d) \in HashMap!Places
        BY <1>3, <1>6, <2>6, <2>7, <3>1, TableFacts DEF HashMap!next, HashInv
      <4>2. given' \in Seq(HashMap!Places) /\ Len(given') = Len(f) + 1 /\ given'[Len(f) + 1] = HashMap!Bucket(d)
            /\ \A k \in 1 .. Len(f) : given'[k] = given[k]
        BY <2>2, <2>9, <4>1
      <4>3. g \in Seq(Nat) /\ Len(g) = Len(f) + 1 /\ g[Len(f) + 1] = d /\ \A k \in 1 .. Len(f) : g[k] = f[k]
        BY <2>1, <2>9, <4>0
      <4>4. \A k \in 1 .. Len(g) : k = Len(f) + 1 \/ k \in 1 .. Len(f)
        BY <2>9, <4>3
      <4>5. \A k \in 1 .. Len(f) : given[k] = HashMap!Bucket(f[k]) /\ f[k] \in HashMap!Occupied /\ f[k] < d
        BY <2>0, <2>8 DEF VisitedIn
      <4>6. \A k \in 1 .. Len(g) : given'[k] = HashMap!Bucket(g[k])'
        BY <1>2, <4>2, <4>3, <4>4, <4>5
      <4>7. \A k \in 1 .. Len(f) : f[k] # d
        BY <2>1, <2>10, <4>5
      <4>8. \A j, k \in 1 .. Len(f) : f[j] = f[k] => j = k
        BY <2>8 DEF VisitedIn
      <4>9. \A j, k \in 1 .. Len(g) : g[j] = g[k] => j = k
        BY <4>3, <4>4, <4>7, <4>8
      <4>10. \A k \in 1 .. Len(g) : g[k] \in HashMap!Occupied' /\ g[k] < Passed'
        <5>1. \A k \in 1 .. Len(f) : g[k] \in HashMap!Occupied' /\ g[k] < Passed'
          BY <1>2, <2>1, <2>4, <2>10, <4>3, <4>5
        <5>2. d \in HashMap!Occupied' /\ d < Passed'
          BY <1>2, <2>1, <2>4, <2>10, <3>1
        <5>3. QED
          BY <4>3, <4>4, <5>1, <5>2
      <4>11. ASSUME NEW b \in HashMap!Occupied', b < Passed' PROVE \E k \in 1 .. Len(g) : g[k] = b
        <5>1. b = d \/ b < d
          BY <1>2, <2>1, <2>4, <2>10, <4>11
        <5>2. CASE b = d
          <6>1. Len(f) + 1 \in 1 .. Len(g)
            BY <2>9, <4>3
          <6>2. QED
            BY <4>3, <5>2, <6>1
        <5>3. CASE b < d
          <6>1. PICK k \in 1 .. Len(f) : f[k] = b
            BY <1>2, <2>0, <2>8, <5>3 DEF VisitedIn
          <6>2. k \in 1 .. Len(g)
            BY <2>9, <4>3
          <6>3. QED
            BY <4>3, <6>1, <6>2
        <5>4. QED
          BY <5>1, <5>2, <5>3
      <4>12. VisitedIn(g)'
        BY <4>2, <4>3, <4>6, <4>9, <4>10, <4>11 DEF VisitedIn
      <4>13. QED
        BY <4>2, <4>12
    <3>2. CASE d \notin HashMap!Occupied
      <4>1. given' = given
        BY <1>6, <2>7, <3>2 DEF HashMap!next
      <4>2. \A b \in HashMap!Occupied : b < Passed' <=> b < Passed
        BY <2>0, <2>1, <2>4, <2>10, <3>2
      <4>3. VisitedIn(f)'
        BY <1>2, <2>8, <4>1, <4>2 DEF VisitedIn
      <4>4. QED
        BY <2>2, <4>1, <4>3
    <3>3. QED
      BY <3>1, <3>2
  <2>12. n_buckets' \in 0 .. bucket_mask' + 1
    BY <1>2, <1>3, <2>1, <2>3
  <2>13. InTable'
    BY <1>2, <2>3, <2>6, <2>11, <2>12 DEF InTable
  <2>14. QED
    BY <1>2, <2>3, <2>13 DEF HashInv
<1>7. ASSUME HashMap!ReadError \/ HashMap!Finish,
             phase' = "over" => n_buckets = 0, phase' = "failed" => ctrl = EmptyGroup /\ ~ EmptyGroupDumped
      PROVE  HashInv'
  <2>1. InTable /\ UNCHANGED <<n_buckets, ctrl_start, data_end, given>> /\ phase' \in {"over", "failed"}
    BY <1>5, <1>7 DEF HashMap!ReadError, HashMap!Finish, HashMap!Handler, HashMap!handler
  <2>2. Passed' = Passed /\ \A f : VisitedIn(f) => VisitedIn(f)'
    BY <1>2, <2>1 DEF Passed, VisitedIn
  <2>3. InTable'
    BY <1>2, <1>7, <2>1, <2>2 DEF InTable
  <2>4. QED
    BY <1>2, <2>1, <2>3 DEF HashInv
<1>8. CASE HashMap!ReadError
  <2>1. ctrl_start = EmptyGroup /\ ~ EmptyGroupDumped /\ n_buckets > 0 /\ phase' = "failed"
    BY <1>8, SizesOK DEF HashMap!ReadError, HashMap!Readable
  <2>2. ctrl = EmptyGroup
    <3>1. CASE Allocated
      <4>1. PICK n \in Buckets : n = bucket_mask + 1 /\ ctrl = Ctrl[n]
        BY <3>1 DEF Allocated
      <4>2. ctrl_start \in Ctrl[n] .. Ctrl[n] + n
        BY <1>3, <1>5, <1>8, <2>1, <4>1 DEF InTable, HashMap!Handler
      <4>3. n * ItemSize \in Nat
        BY <1>3, <4>1
      <4>4. QED
        BY <1>3, <2>1, <4>1, <4>2, <4>3, SizesOK
    <3>2. CASE Shared
      BY <3>2 DEF Shared
    <3>3. QED
      BY <3>1, <3>2 DEF HashInv, HashTable
  <2>3. QED
    BY <1>7, <1>8, <2>1, <2>2
<1>9. CASE HashMap!Finish
  BY <1>7, <1>9 DEF HashMap!Finish
<1>10. QED
  BY <1>0, <1>4, <1>6, <1>8, <1>9 DEF HashMap!Handler

LEMMA HashFacts ==
    ASSUME HashInv
    PROVE  HashMap!TypeOK /\ HashMap!EveryEntryOnce /\ HashMap!StopsOnlyWithCause
<1>1. HashMap!Places \subseteq Nat /\ ctrl \in Nat /\ bucket_mask \in Nat /\ ItemSize \in Nat
  BY TableFacts, SizesOK DEF HashInv
<1>2. HashMap!TypeOK
  <2>1. map \subseteq Keys /\ DOMAIN tags \subseteq Nat
    BY <1>1 DEF HashInv, HashTable, Entered
  <2>2. HashMap!Range(tags) \subseteq HashMap!Full \cup {HashMap!DELETED, HashMap!EMPTY}
    BY DEF HashInv, HashTable, HashMap!Range
  <2>3. DOMAIN entries \subseteq HashMap!Places /\ HashMap!Range(entries) \subseteq Keys
    BY TableFacts DEF HashInv, HashTable, HashMap!Range
  <2>4. given \in Seq(HashMap!Places)
    <3>1. <<>> \in Seq(HashMap!Places)
      OBVIOUS
    <3>2. QED
      BY <3>1 DEF HashInv, InTable
  <2>5. n_buckets \in 0 .. bucket_mask + 1 /\ ctrl_start \in Nat /\ data_end \in Nat
    <3>1. CASE phase \in {"running", "panicked"}
      BY <1>1, <3>1 DEF HashInv
    <3>2. CASE phase \notin {"running", "panicked"}
      <4>1. InTable
        BY <3>2 DEF HashInv
      <4>2. PICK d \in Nat : d = Passed /\ d <= bucket_mask + 1
        BY <1>1, <4>1 DEF InTable, Passed
      <4>3. ctrl - (bucket_mask + 1) * ItemSize \in Nat
        BY TableFacts DEF HashInv
      <4>4. d * ItemSize <= (bucket_mask + 1) * ItemSize /\ d * ItemSize \in Nat /\ (bucket_mask + 1) * ItemSize \in Nat
        <5>1. PICK n \in Nat : n = bucket_mask + 1
          BY <1>1
        <5>2. CASE d < n
          <6>1. d * ItemSize + ItemSize <= n * ItemSize /\ d * ItemSize \in Nat /\ n * ItemSize \in Nat
            BY <1>1, <5>2, Multiples
          <6>2. QED
            BY <1>1, <5>1, <6>1
        <5>3. CASE d = n
          BY <1>1, <5>1, <5>3
        <5>4. QED
          BY <4>2, <5>1, <5>2, <5>3
      <4>5. n_buckets \in 0 .. bucket_mask + 1 /\ ctrl_start = ctrl + d /\ data_end = ctrl - d * ItemSize
        BY <4>1, <4>2 DEF InTable
      <4>6. QED
        BY <1>1, <4>3, <4>4, <4>5
    <3>3. QED
      BY <3>1, <3>2
  <2>6. phase \in {"running", "dumped", "over", "failed", "panicked"} /\ known \in BOOLEAN
    BY DEF HashInv
  <2>7. QED
    BY <2>1, <2>2, <2>3, <2>4, <2>5, <2>6 DEF HashMap!TypeOK
<1>3. ASSUME phase = "over"
      PROVE  /\ \A k \in DOMAIN given : given[k] \in DOMAIN entries
             /\ {entries[given[k]] : k \in DOMAIN given} = map
             /\ Len(given) = HashMap!Cardinality(map)
  <2>1. InTable /\ Entered /\ n_buckets = 0
    BY <1>3 DEF HashInv, InTable
  <2>2. given \in Seq(HashMap!Places) /\ Len(given) \in Nat /\ DOMAIN given = 1 .. Len(given)
    BY <2>1 DEF InTable
  <2>3. PICK f : VisitedIn(f)
    BY <2>1 DEF InTable
  <2>4. Passed = bucket_mask + 1 /\ \A b \in HashMap!Occupied : b < Passed
    BY <1>1, <2>1, TableFacts DEF Passed, HashMap!Occupied, HashInv
  <2>5. \A k \in DOMAIN given : given[k] = HashMap!Bucket(f[k]) /\ f[k] \in HashMap!Occupied
    BY <2>2, <2>3 DEF VisitedIn
  <2>6. \A b \in HashMap!Occupied : \E k \in DOMAIN given : f[k] = b
    BY <2>2, <2>3, <2>4 DEF VisitedIn
  <2>7. \A j, k \in DOMAIN given : f[j] = f[k] => j = k
    BY <2>2, <2>3 DEF VisitedIn
  <2>8. \A k \in DOMAIN given : given[k] \in DOMAIN entries /\ entries[given[k]] \in map
    BY <2>1, <2>5 DEF Entered
  <2>9. \A m \in map : \E k \in DOMAIN given : entries[given[k]] = m
    BY <2>1, <2>5, <2>6 DEF Entered
  <2>10. \A j, k \in DOMAIN given : entries[given[j]] = entries[given[k]] => j = k
    BY <2>1, <2>5, <2>7 DEF Entered
  <2>11. ExistsBijection(1 .. Len(given), map)
    <3> DEFINE h == [k \in 1 .. Len(given) |-> entries[given[k]]]
    <3>1. h \in [1 .. Len(given) -> map]
      BY <2>2, <2>8
    <3>2. \A j, k \in 1 .. Len(given) : h[j] = h[k] => j = k
      BY <2>2, <2>10
    <3>3. \A m \in map : \E k \in 1 .. Len(given) : h[k] = m
      BY <2>2, <2>9
    <3> HIDE DEF h
    <3>4. h \in Bijection(1 .. Len(given), map)
      BY <3>1, <3>2, <3>3 DEF Bijection, Injection, Surjection, IsInjective
    <3>5. QED
      BY <3>4 DEF ExistsBijection
  <2>12. Cardinality(map) = Len(given)
    BY <2>2, <2>11, FS_CountingElements
  <2>13. HashMap!Cardinality(map) = Cardinality(map)
    BY DEF HashMap!Cardinality, Cardinality
  <2>14. QED
    BY <2>8, <2>9, <2>12, <2>13
<1>4. ASSUME phase = "failed" PROVE map = {} /\ ~ HashMap!Whole
  <2>1. ctrl = EmptyGroup /\ ~ EmptyGroupDumped /\ Entered
    BY <1>4 DEF HashInv, InTable
  <2>2. HashMap!Occupied = {}
    BY <2>1 DEF HashMap!Occupied, HashMap!Table
  <2>3. QED
    BY <2>1, <2>2 DEF Entered, HashMap!Whole
<1>5. phase = "panicked" => ~ known
  BY DEF HashInv
<1>6. QED
  BY <1>2, <1>3, <1>4, <1>5 DEF HashMap!EveryEntryOnce, HashMap!StopsOnlyWithCause

InMemory == {HashMap!Bucket(b) : b \in HashMap!Occupied} \subseteq Nat
LEMMA HashInMemory == HashInv => InMemory
BY TableFacts DEF InMemory, HashInv, HashMap!Occupied

(* The visit of a HashMap implements Iteration.                             *)
LEMMA HashAbstracts ==
    ASSUME which = "HashMap", which' = which, HashInv, HashMap!Program \/ HashMap!opt_read \/ HashMap!Handler
    PROVE  [Contents!Next]_(Contents!vars)
<1>1. HashInv'
  BY HashProgram, HashHandler
<1>2. /\ Elements = {HashMap!Bucket(b) : b \in HashMap!Occupied} /\ Given = given
      /\ Whole = (ctrl # EmptyGroup \/ EmptyGroupDumped)
      /\ Stage = CASE phase = "failed" -> "over" [] phase = "panicked" -> "dumped" [] OTHER -> phase
  BY DEF Elements, Whole, Given, Stage, HashMap!Elements, HashMap!Whole, HashMap!Stage
<1>3. /\ Elements' = {HashMap!Bucket(b)' : b \in HashMap!Occupied'} /\ Given' = given'
      /\ Whole' = (ctrl' # EmptyGroup \/ EmptyGroupDumped)
      /\ Stage' = CASE phase' = "failed" -> "over" [] phase' = "panicked" -> "dumped" [] OTHER -> phase'
  BY DEF Elements, Whole, Given, Stage, HashMap!Elements, HashMap!Whole, HashMap!Stage
<1>4. Whole \in BOOLEAN /\ Whole' \in BOOLEAN
  BY <1>2, <1>3, SizesOK
<1>5. CASE HashMap!Program
  <2>1. InMemory'
    BY <1>1, HashInMemory, PTL
  <2>2. Elements' \subseteq Nat
    BY <1>3, <2>1 DEF InMemory
  <2>3. Stage = "running" /\ Stage' = "running" /\ Given' = Given
    BY <1>2, <1>3, <1>5 DEF HashMap!Program, HashMap!handler
  <2>4. QED
    BY <1>4, <2>2, <2>3 DEF Contents!Next, Contents!Change
<1>6. ASSUME HashMap!opt_read \/ HashMap!Handler
      PROVE  Elements' = Elements /\ Whole' = Whole /\ \A b : HashMap!Bucket(b)' = HashMap!Bucket(b)
  <2>1. UNCHANGED HashMap!program
    BY <1>6 DEF HashMap!opt_read, HashMap!Handler, HashMap!next, HashMap!ReadError, HashMap!Finish
  <2>2. QED
    BY <1>2, <1>3, <2>1, HashStill
<1>7. CASE HashMap!opt_read
  <2>1. Stage = "running" /\ Stage' = "dumped" /\ Given' = Given
    BY <1>2, <1>3, <1>7 DEF HashMap!opt_read
  <2>2. QED
    BY <1>4, <1>6, <1>7, <2>1 DEF Contents!Next, Contents!Dump
<1>8. ASSUME HashMap!Handler PROVE phase = "dumped" /\ Stage = "dumped" /\ InTable /\ HashTable
  BY <1>2, <1>8 DEF HashMap!Handler, HashMap!next, HashMap!ReadError, HashMap!Finish, HashInv
<1>9. CASE HashMap!next
  <2>1. CASE given' = given
    <3>1. phase' = phase
      BY <1>9 DEF HashMap!next
    <3>2. QED
      BY <1>2, <1>3, <1>6, <1>9, <2>1, <3>1 DEF HashMap!Handler, Contents!vars
  <2>2. CASE given' # given
    <3>1. PICK a : a = data_end' /\ given' = Append(given, a) /\ phase' = "dumped"
      BY <1>9, <2>2 DEF HashMap!next
    <3>2. InTable' /\ given \in Seq(HashMap!Places)
      BY <1>1, <1>8, <1>9, <3>1 DEF HashInv, HashMap!Handler, InTable
    <3>3. PICK f : VisitedIn(f)'
      BY <3>2 DEF InTable
    <3>4. /\ Len(given') = Len(given) + 1 /\ Len(given) \in Nat /\ given'[Len(given) + 1] = a
          /\ DOMAIN given = 1 .. Len(given)
          /\ \A k \in 1 .. Len(given) : given'[k] = given[k]
      BY <1>1, <3>1, <3>2 DEF HashInv, InTable
    <3>5. \A k \in 1 .. Len(given) + 1 : given'[k] = HashMap!Bucket(f[k]) /\ f[k] \in HashMap!Occupied' /\ f[k] \in Nat
      BY <1>6, <1>9, <3>3, <3>4 DEF VisitedIn, HashMap!Handler
    <3>6. \A k \in 1 .. Len(given) : given[k] # a
      <4>1. \A k \in 1 .. Len(given) : f[k] # f[Len(given) + 1]
        BY <3>3, <3>4 DEF VisitedIn
      <4>2. \A k \in 1 .. Len(given) : HashMap!Bucket(f[k]) # HashMap!Bucket(f[Len(given) + 1])
        BY <1>8, <1>9, <3>4, <3>5, <4>1, TableFacts DEF HashMap!Handler
      <4>3. QED
        BY <3>4, <3>5, <4>2
    <3>7. a \in Elements
      <4>1. a = HashMap!Bucket(f[Len(given) + 1]) /\ f[Len(given) + 1] \in HashMap!Occupied'
        BY <3>4, <3>5
      <4>2. a \in Elements'
        BY <1>3, <1>6, <1>9, <4>1 DEF HashMap!Handler
      <4>3. QED
        BY <1>6, <1>9, <4>2 DEF HashMap!Handler
    <3>8. a \notin Contents!Range(Given)
      BY <1>2, <3>4, <3>6 DEF Contents!Range
    <3>9. Given' = Append(Given, a) /\ Stage' = "dumped" /\ Stage = "dumped"
      BY <1>2, <1>3, <1>8, <1>9, <3>1 DEF HashMap!Handler
    <3>10. QED
      BY <1>6, <1>9, <3>7, <3>8, <3>9 DEF Contents!Next, Contents!Give, HashMap!Handler
  <2>3. QED
    BY <2>1, <2>2
<1>10. CASE HashMap!ReadError
  <2>1. phase' = "failed" /\ UNCHANGED <<ctrl, given>>
    BY <1>10 DEF HashMap!ReadError, HashMap!handler, HashMap!program
  <2>2. ~ Whole
    BY <1>1, <1>2, <2>1 DEF HashInv, InTable
  <2>3. Stage' = "over" /\ Given' = Given
    BY <1>2, <1>3, <2>1
  <2>4. QED
    BY <1>6, <1>8, <1>10, <2>2, <2>3 DEF Contents!Next, Contents!Finish, HashMap!Handler
<1>11. CASE HashMap!Finish
  <2>1. phase' = "over" /\ n_buckets = 0 /\ given' = given
    BY <1>11 DEF HashMap!Finish, HashMap!handler
  <2>2. InTable /\ HashTable /\ Stage = "dumped"
    BY <1>8, <1>11 DEF HashMap!Handler
  <2>3. PICK f : VisitedIn(f)
    BY <2>2 DEF InTable
  <2>4. given \in Seq(HashMap!Places) /\ DOMAIN given = 1 .. Len(given)
    BY <2>2 DEF InTable
  <2>5. \A b \in HashMap!Occupied : b < Passed
    BY <2>1, <2>2, TableFacts DEF Passed, HashMap!Occupied
  <2>6. Contents!Range(Given) = Elements
    <3>1. \A k \in 1 .. Len(given) : given[k] \in Elements
      BY <1>2, <2>3 DEF VisitedIn
    <3>2. \A b \in HashMap!Occupied : \E k \in 1 .. Len(given) : given[k] = HashMap!Bucket(b)
      BY <2>3, <2>5 DEF VisitedIn
    <3>3. QED
      BY <1>2, <2>4, <3>1, <3>2 DEF Contents!Range
  <2>7. Stage' = "over" /\ Given' = Given
    BY <1>2, <1>3, <2>1
  <2>8. QED
    BY <1>6, <1>11, <2>2, <2>6, <2>7 DEF Contents!Next, Contents!Finish, HashMap!Handler
<1>12. QED
  BY <1>5, <1>7, <1>9, <1>10, <1>11 DEF HashMap!Handler

-----------------------------------------------------------------------------
(* The contiguous containers.  Their words are those of the block they are  *)
(* in, but for those the program has yet to write, ...                      *)
LEMMA VectorAssumed ==
    /\ \A k \in DOMAIN ItemSizes : ItemSizes[k] \subseteq Nat
    /\ Blocks \subseteq Nat /\ Capacities \subseteq Nat \ {0} /\ Texts \subseteq Nat /\ Inline \in Nat /\ Limit \in Nat
    /\ OverflowChecks \in BOOLEAN
    /\ \A k \in DOMAIN ItemSizes : 0 \in ItemSizes[k] => k = "Vec"
    /\ \A k \in DOMAIN ItemSizes : k \in {"String", "std::string"} => ItemSizes[k] = {1}
    /\ \A k \in DOMAIN ItemSizes : \A s \in ItemSizes[k], b \in Blocks : b > 48 + s
    /\ DOMAIN ItemSizes \subseteq {"std::vector", "Vec", "ThinVector", "String", "std::string"}
BY ContainersAssumption DEF Vector!VectorsAssumption, Vector!Chars, Vector!Self

Sized == kind \in DOMAIN ItemSizes /\ size \in ItemSizes[kind]
Held ==
    /\ len \in Nat /\ cap \in Nat /\ len <= cap
    /\ \/ block \in Blocks /\ cap > Vector!Room(kind)
       \/ block = Vector!Nowhere(kind) /\ cap = Vector!Room(kind) /\ todo = <<>>
Unwritten ==
    todo \in CASE kind = "std::vector" -> {<<>>, <<16, 24>>, <<24>>}
               [] kind \in {"Vec", "String"} -> {<<>>, <<16>>}
               [] kind = "std::string" -> {<<>>, <<24>>}
               [] OTHER -> {<<>>}
Ahead(b, s) == b - s * ((16 + (s - 1)) \div s)
Stored ==
    /\ DOMAIN words \subseteq Nat /\ words \in [DOMAIN words -> Nat]
    /\ 8 \in DOMAIN words /\ words[8] = block
    /\ kind # "ThinVector" => {16, 24} \subseteq DOMAIN words
    /\ kind = "std::vector" /\ todo \in {<<>>, <<24>>} => words[16] = block + len * size
    /\ kind = "std::vector" /\ todo = <<>> => words[24] = block + cap * size
    /\ kind \in {"Vec", "String"} => words[24] = len
    /\ kind = "Vec" => words[16] >= len
    /\ kind = "std::string" => words[16] = len
    /\ kind = "std::string" /\ block # 24 /\ todo = <<>> => words[24] = cap
    /\ kind = "ThinVector" /\ block # 0 =>
          /\ {Ahead(block, size), Ahead(block, size) + 8} \subseteq DOMAIN words
          /\ words[Ahead(block, size)] = len /\ words[Ahead(block, size) + 8] = cap
Written == Sized /\ Held /\ Unwritten /\ Stored

LEMMA SizeFacts ==
    ASSUME Sized
    PROVE  /\ size \in Nat /\ (size = 0 => kind = "Vec") /\ (kind \in {"String", "std::string"} => size = 1)
           /\ kind \in {"std::vector", "Vec", "ThinVector", "String", "std::string"}
           /\ \A b \in Blocks : b \in Nat /\ b > 48 + size
BY VectorAssumed DEF Sized

(* The words in front of the items of a ThinVector are where its handler    *)
(* looks for them, and not in the container.                                *)
LEMMA MetadataFacts ==
    ASSUME NEW s \in Nat, s > 0
    PROVE  /\ (16 + (s - 1)) \div s = CHOOSE n \in 1 .. 16 : n * s >= 16 /\ (n - 1) * s < 16
           /\ ((16 + (s - 1)) \div s) * s \in 16 .. 15 + s
<1> DEFINE q == (16 + (s - 1)) \div s
<1>1. q \in Nat /\ q * s <= 15 + s /\ 15 + s < q * s + s /\ q * s \in Nat
  OBVIOUS
<1> HIDE DEF q
<1>2. q >= 1
  BY <1>1
<1>3. (q - 1) * s = q * s - s /\ (q - 1) * s < 16 /\ q * s >= 16
  BY <1>1, <1>2
<1>4. q <= 16
  <2>1. CASE q - 1 >= 16
    <3>1. PICK e \in Nat : q - 1 = 16 + e
      <4>1. q - 1 - 16 \in Nat /\ q - 1 = 16 + (q - 1 - 16)
        BY <1>1, <2>1
      <4>2. QED
        BY <4>1
    <3>2. (q - 1) * s = 16 * s + e * s /\ e * s \in Nat
      BY <3>1
    <3>3. QED
      BY <1>3, <3>2
  <2>2. QED
    BY <1>1, <2>1
<1>5. ASSUME NEW n \in 1 .. 16, n * s >= 16, (n - 1) * s < 16 PROVE n = q
  <2>1. CASE n < q
    <3>1. PICK e \in Nat : q = n + 1 + e
      <4>1. q - n - 1 \in Nat /\ q = n + 1 + (q - n - 1)
        BY <1>1, <2>1
      <4>2. QED
        BY <4>1
    <3>2. (q - 1) * s = n * s + e * s /\ e * s \in Nat
      BY <3>1
    <3>3. QED
      BY <1>3, <1>5, <3>2
  <2>2. CASE q < n
    <3>1. PICK e \in Nat : n = q + 1 + e
      <4>1. n - q - 1 \in Nat /\ n = q + 1 + (n - q - 1)
        BY <1>1, <2>2
      <4>2. QED
        BY <4>1
    <3>2. n - 1 = q + e /\ (q + e) * s = q * s + e * s /\ e * s \in Nat /\ q * s \in Nat
      BY <1>1, <3>1
    <3>3. (n - 1) * s >= 16
      BY <1>3, <3>2
    <3>4. QED
      BY <1>5, <3>3
  <2>3. QED
    BY <1>1, <2>1, <2>2
<1>6. q \in 1 .. 16
  BY <1>1, <1>2, <1>4
<1>7. q = CHOOSE n \in 1 .. 16 : n * s >= 16 /\ (n - 1) * s < 16
  BY <1>3, <1>5, <1>6
<1>8. QED
  BY <1>1, <1>3, <1>7 DEF q

LEMMA SlotsFacts ==
    ASSUME Sized, NEW b \in Blocks \cup {Vector!Nowhere(kind)}
    PROVE  /\ b \in Nat /\ (b \in Blocks => b # Vector!Nowhere(kind) /\ b # 24)
           /\ kind # "ThinVector" => Vector!Slots(kind, b) = {8, 16, 24}
           /\ kind = "ThinVector" /\ b = 0 => Vector!Slots(kind, b) = {8}
           /\ kind = "ThinVector" /\ b # 0 =>
                 /\ Vector!Slots(kind, b) = {8, Ahead(b, size), Ahead(b, size) + 8}
                 /\ Vector!Metadata(b) = Ahead(b, size) /\ Ahead(b, size) \in Nat /\ Ahead(b, size) > 24
           /\ Vector!Slots(kind, b) \subseteq Nat
<1>1. b \in Nat /\ (b \in Blocks => b # Vector!Nowhere(kind) /\ b # 24)
  BY SizeFacts DEF Vector!Nowhere, Vector!Null, Vector!Dangling, Vector!Chars, Vector!Self
<1>2. ASSUME kind = "ThinVector" /\ b # 0
      PROVE  Vector!Metadata(b) = Ahead(b, size) /\ Ahead(b, size) \in Nat /\ Ahead(b, size) > 24
  <2>1. size \in Nat /\ size > 0 /\ b > 48 + size
    BY <1>2, SizeFacts DEF Vector!Nowhere, Vector!Null
  <2>2. PICK q : q = (16 + (size - 1)) \div size
    OBVIOUS
  <2>3. q \in Nat /\ q * size \in 16 .. 15 + size /\ q = CHOOSE n \in 1 .. 16 : n * size >= 16 /\ (n - 1) * size < 16
    BY <2>1, <2>2, MetadataFacts
  <2>4. Vector!Metadata(b) = b - size * q /\ Ahead(b, size) = b - size * q
    BY <2>2, <2>3 DEF Vector!Metadata, Ahead
  <2>5. size * q = q * size
    BY <2>1, <2>3
  <2>6. QED
    BY <1>1, <2>1, <2>3, <2>4, <2>5
<1>3. QED
  BY <1>1, <1>2, SizeFacts DEF Vector!Slots, Vector!Null, Vector!Self

(* The word at each of these addresses.                                     *)
(* The first word is the start of the block, and every word is a number.    *)
LEMMA WordOf ==
    ASSUME Sized, NEW b \in Blocks \cup {Vector!Nowhere(kind)}, NEW l \in Nat, NEW c \in Nat, NEW text \in Nat
    PROVE  /\ Vector!Word(kind, b, l, c, text, 8) = b
           /\ \A a : Vector!Word(kind, b, l, c, text, a) \in Nat
<1>1. l * size \in Nat /\ c * size \in Nat /\ b \in Nat
  BY SizeFacts, SlotsFacts
<1>2. b + l * size \in Nat /\ b + c * size \in Nat
  BY <1>1
<1>3. kind \in {"std::vector", "Vec", "String", "std::string", "ThinVector"}
  BY SizeFacts
<1>4. Vector!Self = 8
  BY DEF Vector!Self
<1>5. QED
  BY <1>1, <1>2, <1>3, <1>4 DEF Vector!Word

LEMMA WordFacts ==
    ASSUME Sized, NEW b \in Blocks \cup {Vector!Nowhere(kind)}, NEW l \in Nat, NEW c \in Nat, NEW text \in Nat
    PROVE  /\ Vector!Word(kind, b, l, c, text, 8) = b
           /\ kind = "std::vector" => /\ Vector!Word(kind, b, l, c, text, 16) = b + l * size
                                      /\ Vector!Word(kind, b, l, c, text, 24) = b + c * size
           /\ kind \in {"Vec", "String"} => /\ Vector!Word(kind, b, l, c, text, 16) = c
                                            /\ Vector!Word(kind, b, l, c, text, 24) = l
           /\ kind = "std::string" => /\ Vector!Word(kind, b, l, c, text, 16) = l
                                      /\ b # 24 => Vector!Word(kind, b, l, c, text, 24) = c
           /\ kind = "ThinVector" /\ b # 0 => /\ Vector!Word(kind, b, l, c, text, Ahead(b, size)) = l
                                              /\ Vector!Word(kind, b, l, c, text, Ahead(b, size) + 8) = c
           /\ \A a : Vector!Word(kind, b, l, c, text, a) \in Nat
<1>2. \A a : Vector!Word(kind, b, l, c, text, a) \in Nat
  BY WordOf
<1>3. Vector!Self = 8 /\ Vector!Chars = 24
  BY DEF Vector!Self, Vector!Chars
<1>4. Vector!Word(kind, b, l, c, text, 8) = b
  BY WordOf
<1>5. kind = "std::vector" => Vector!Word(kind, b, l, c, text, 16) = b + l * size /\ Vector!Word(kind, b, l, c, text, 24) = b + c * size
  BY <1>3 DEF Vector!Word
<1>6. kind \in {"Vec", "String"} => Vector!Word(kind, b, l, c, text, 16) = c /\ Vector!Word(kind, b, l, c, text, 24) = l
  BY <1>3 DEF Vector!Word
<1>7. kind = "std::string" => Vector!Word(kind, b, l, c, text, 16) = l /\ (b # 24 => Vector!Word(kind, b, l, c, text, 24) = c)
  BY <1>3 DEF Vector!Word
<1>8. ASSUME kind = "ThinVector", b # 0
      PROVE  /\ Vector!Word(kind, b, l, c, text, Ahead(b, size)) = l
             /\ Vector!Word(kind, b, l, c, text, Ahead(b, size) + 8) = c
  <2>1. PICK m \in Nat : m = Ahead(b, size) /\ m > 24 /\ Vector!Metadata(b) = m
    BY <1>8, SlotsFacts
  <2>2. \A a : a # 8 => Vector!Word(kind, b, l, c, text, a) = IF a = m THEN l ELSE c
    BY <1>3, <1>8, <2>1 DEF Vector!Word
  <2>3. QED
    BY <2>1, <2>2
<1>9. QED
  BY <1>2, <1>4, <1>5, <1>6, <1>7, <1>8

(* What is written is there, and the rest as before.                        *)
WordsAt(W, A, k, s, b, l, c) ==
    /\ 8 \in A => W[8] = b
    /\ k = "std::vector" => (16 \in A => W[16] = b + l * s) /\ (24 \in A => W[24] = b + c * s)
    /\ k \in {"Vec", "String"} => (16 \in A => W[16] = c) /\ (24 \in A => W[24] = l)
    /\ k = "std::string" => (16 \in A => W[16] = l) /\ (24 \in A /\ b # 24 => W[24] = c)
    /\ k = "ThinVector" /\ b # 0 => (Ahead(b, s) \in A => W[Ahead(b, s)] = l) /\ (Ahead(b, s) + 8 \in A => W[Ahead(b, s) + 8] = c)
LEMMA WordsAtFacts ==
    ASSUME Sized, NEW b \in Blocks \cup {Vector!Nowhere(kind)}, NEW l \in Nat, NEW c \in Nat, NEW text \in Nat,
           NEW W, NEW A, \A a \in A : W[a] = Vector!Word(kind, b, l, c, text, a)
    PROVE  WordsAt(W, A, kind, size, b, l, c)
<1>1. 8 \in A => W[8] = b
  BY WordFacts
<1>2. kind = "std::vector" => (16 \in A => W[16] = b + l * size) /\ (24 \in A => W[24] = b + c * size)
  BY WordFacts
<1>3. ASSUME kind \in {"Vec", "String"} PROVE (16 \in A => W[16] = c) /\ (24 \in A => W[24] = l)
  <2>1. Vector!Word(kind, b, l, c, text, 16) = c /\ Vector!Word(kind, b, l, c, text, 24) = l
    BY <1>3, WordFacts
  <2>2. QED
    BY <2>1
<1>4. kind = "std::string" => (16 \in A => W[16] = l) /\ (24 \in A /\ b # 24 => W[24] = c)
  BY WordFacts
<1>5. ASSUME kind = "ThinVector", b # 0
       PROVE  /\ Ahead(b, size) \in A => W[Ahead(b, size)] = l
              /\ Ahead(b, size) + 8 \in A => W[Ahead(b, size) + 8] = c
  <2>1. /\ Vector!Word(kind, b, l, c, text, Ahead(b, size)) = l
        /\ Vector!Word(kind, b, l, c, text, Ahead(b, size) + 8) = c
    BY <1>5, WordFacts
  <2>2. PICK m, n : m = Ahead(b, size) /\ n = Ahead(b, size) + 8
    OBVIOUS
  <2>3. Vector!Word(kind, b, l, c, text, m) = l /\ Vector!Word(kind, b, l, c, text, n) = c
    BY <2>1, <2>2, Zenon
  <2>4. (m \in A => W[m] = l) /\ (n \in A => W[n] = c)
    BY <2>3
  <2>5. QED
    BY <2>2, <2>4, Zenon
<1>6. QED
  BY <1>1, <1>2, <1>3, <1>4, <1>5, Zenon DEF WordsAt

LEMMA WrittenWords ==
    ASSUME Sized, Stored, NEW b \in Blocks \cup {Vector!Nowhere(kind)}, NEW l \in Nat, NEW c \in Nat, NEW text \in Nat,
           NEW A, A \subseteq Nat, words' = Vector!Written(A, b, l, c, text)
    PROVE  /\ DOMAIN words' = DOMAIN words \cup A /\ DOMAIN words' \subseteq Nat
           /\ \A a \in DOMAIN words \ A : words'[a] = words[a]
           /\ words' \in [DOMAIN words' -> Nat]
           /\ WordsAt(words', A, kind, size, b, l, c)
<1>1. DOMAIN words' = DOMAIN words \cup A
  BY DEF Vector!Written
<1>2. \A a \in DOMAIN words' : words'[a] = IF a \in A THEN Vector!Word(kind, b, l, c, text, a) ELSE words[a]
  BY <1>1 DEF Vector!Written
<1>3. \A a : Vector!Word(kind, b, l, c, text, a) \in Nat
  BY WordFacts
<1>4. DOMAIN words \subseteq Nat /\ \A a \in DOMAIN words : words[a] \in Nat
  BY DEF Stored
<1>5. \A a \in A : words'[a] = Vector!Word(kind, b, l, c, text, a)
  BY <1>1, <1>2
<1>6. \A a \in DOMAIN words \ A : words'[a] = words[a]
  BY <1>1, <1>2
<1>7. words' \in [DOMAIN words' -> Nat]
  <2>1. \A a \in DOMAIN words' : words'[a] \in Nat
    BY <1>1, <1>2, <1>3, <1>4
  <2>2. words' = [a \in DOMAIN words' |-> words'[a]]
    BY DEF Vector!Written
  <2>3. QED
    BY <2>1, <2>2
<1>8. WordsAt(words', A, kind, size, b, l, c)
  BY <1>5, WordsAtFacts
<1>9. DOMAIN words' \subseteq Nat
  BY <1>1, <1>4
<1>10. QED
  BY <1>1, <1>6, <1>7, <1>8, <1>9

(* ... the handler has read them, and it goes from one item to the next:    *)
(* what it has visited it has claimed.                                      *)
ReadWords ==
    /\ begin = block
    /\ kind = "std::vector" /\ todo = <<>> => end = block + len * size /\ alloc_end = block + cap * size
    /\ kind = "Vec" => end = block + len * size /\ end <= alloc_end
    /\ kind = "ThinVector" => end = block + len * size /\ alloc_end = block + cap * size
    /\ kind \in {"String", "std::string"} => end = block + len
    /\ kind = "std::string" => IF block = 24 THEN alloc_end = block ELSE todo = <<>> => alloc_end = block + cap
Iterated == kind \in {"std::vector", "Vec", "ThinVector"}
Looped ==
    /\ Iterated /\ size # 0 /\ begin <= end /\ end <= alloc_end
    /\ cursor = begin + Len(given) * size /\ cursor <= alloc_end + size
    /\ \A k \in 1 .. Len(given) : given[k] = begin + (k - 1) * size
    /\ IF kind = "ThinVector" THEN claims = <<<<begin, alloc_end - begin>>>>
       ELSE Len(claims) = Len(given) /\ \A k \in 1 .. Len(given) : claims[k] = <<begin + (k - 1) * size, size>>
    /\ Vector!Mixed \/ Len(given) <= len
Fresh == given = <<>> /\ claims = <<>>
StringDone ==
    /\ ~ Iterated /\ given = <<>>
    /\ kind = "String" => block # 1 /\ claims = <<<<begin, end - begin>>>>
    /\ kind = "std::string" => claims = IF alloc_end = begin THEN <<>> ELSE <<<<begin, end - begin>>>>
Handled ==
    /\ {begin, end, alloc_end} \subseteq Nat /\ given \in Seq(Nat) /\ claims \in Seq(Nat \X Nat)
    /\ lost \subseteq Vector!Parts /\ known \in BOOLEAN
    /\ phase \in {"running", "read", "dumped", "over", "failing", "failed", "panicked"}
    /\ phase = "running" => Fresh /\ lost = {}
    /\ phase \in {"read", "dumped", "over"} => ReadWords
    /\ phase = "read" => Fresh /\ cursor = begin
    /\ phase = "dumped" => Looped
    /\ phase = "failing" => (lost # {} \/ Vector!Mixed) /\ Iterated
    /\ phase = "failed" =>
          \/ Iterated /\ (lost # {} \/ Vector!Mixed)
          \/ ~ Iterated /\ Fresh /\ (lost # {} \/ (kind = "String" /\ block = 1))
    /\ phase = "over" =>
          \/ Looped /\ (Vector!Mixed \/ Len(given) = len)
          \/ Vector!Mixed /\ Fresh
          \/ StringDone
    /\ phase = "panicked" => Fresh /\ Vector!PanicsOnlyWithCause
VectorInv == Written /\ Handled

LEMMA VectorInit == Vector!Init => VectorInv
<1> SUFFICES ASSUME Vector!Init PROVE VectorInv
  OBVIOUS
<1> USE DEF Vector!Init
<1>1. Sized
  BY DEF Sized
<1>2. Held
  BY <1>1, VectorAssumed DEF Held, Vector!Room
<1>3. Unwritten
  BY <1>1, SizeFacts DEF Unwritten
<1>4. Stored
  <2>1. \A a \in Vector!Slots(kind, block) : words[a] = Vector!Word(kind, block, 0, cap, 0, a)
    OBVIOUS
  <2>2. DOMAIN words = Vector!Slots(kind, block) /\ cap \in Nat /\ block \in Blocks \cup {Vector!Nowhere(kind)} /\ 0 \in Nat
    BY <1>2 DEF Held
  <2>7. Sized /\ cap \in Nat /\ block \in Blocks \cup {Vector!Nowhere(kind)}
    BY <1>1, <2>2
  <2>3. 8 \in DOMAIN words /\ words[8] = block /\ DOMAIN words \subseteq Nat /\ words \in [DOMAIN words -> Nat]
    <3>1. 8 \in DOMAIN words /\ DOMAIN words \subseteq Nat
      BY <1>1, <2>2, SlotsFacts DEF Vector!Slots, Vector!Self
    <3>2. PICK text \in Nat : text = 0
      OBVIOUS
    <3>3. Vector!Word(kind, block, text, cap, text, 8) = block
      BY <2>7, <3>2, WordOf
    <3>9. \A a : Vector!Word(kind, block, text, cap, text, a) \in Nat
      BY <2>7, <3>2, WordOf
    <3>4. words = [a \in DOMAIN words |-> words[a]]
      OBVIOUS
    <3>5. \A a \in DOMAIN words : words[a] = Vector!Word(kind, block, text, cap, text, a)
      BY <2>1, <2>2, <3>2
    <3>6. words[8] = block
      BY <3>1, <3>3, <3>5
    <3>7. \A a \in DOMAIN words : words[a] \in Nat
      BY <3>9, <3>5
    <3>8. QED
      BY <3>1, <3>4, <3>6, <3>7
  <2>4. kind = "ThinVector" => block = 0
    BY DEF Vector!Nowhere, Vector!Null
  <2>5. CASE kind # "ThinVector"
    <3>1. DOMAIN words = {8, 16, 24}
      BY <1>1, <2>2, <2>5, SlotsFacts
    <3>2. PICK text \in Nat : text = 0
      OBVIOUS
    <3>3. PICK W : W = words
      OBVIOUS
    <3>4. \A a \in {8, 16, 24} : W[a] = Vector!Word(kind, block, text, cap, text, a)
      BY <2>1, <2>2, <3>1, <3>2, <3>3
    <3>5. WordsAt(W, {8, 16, 24}, kind, size, block, text, cap)
      BY <2>7, <3>4, WordsAtFacts
    <3>6. len = text
      BY <3>2
    <3>7. /\ kind = "std::vector" => words[16] = block + len * size /\ words[24] = block + cap * size
          /\ kind \in {"Vec", "String"} => words[16] = cap /\ words[24] = len
          /\ kind = "std::string" => words[16] = len /\ (block # 24 => words[24] = cap)
      BY <3>2, <3>5, <3>6, <3>3 DEF WordsAt
    <3>8. kind = "Vec" => words[16] >= len
      BY <2>2, <3>2, <3>6, <3>7
    <3>9. QED
      BY <2>3, <2>5, <3>1, <3>7, <3>8 DEF Stored
  <2>6. QED
    BY <2>3, <2>4, <2>5 DEF Stored
<1>5. Handled
  BY DEF Handled, Fresh
<1>6. QED
  BY <1>1, <1>2, <1>3, <1>4, <1>5 DEF VectorInv, Written

(* The program writes one word after the other.                             *)
LEMMA VectorMove == ASSUME Written, Vector!Move PROVE Written'
<1>1. /\ kind' = kind /\ size' = size /\ len' = len /\ Sized /\ Stored /\ len \in Nat
      /\ kind \in {"std::vector", "Vec", "ThinVector", "String", "std::string"}
      /\ todo' = IF block' \in Blocks THEN Vector!Later(kind) ELSE <<>>
  BY SizeFacts DEF Written, Held, Vector!Move
<1>2. /\ block' \in Blocks \cup {Vector!Nowhere(kind)} /\ cap' \in Nat /\ len <= cap'
      /\ (block' \in Blocks => cap' > Vector!Room(kind)) /\ (block' \notin Blocks => cap' = Vector!Room(kind))
  <2>1. Vector!Room(kind) \in Nat /\ Vector!Nowhere(kind) \notin Blocks
    BY <1>1, SlotsFacts, VectorAssumed DEF Vector!Room
  <2>2. QED
    BY <1>1, <2>1, VectorAssumed DEF Vector!Move
<1>3. PICK b \in Blocks \cup {Vector!Nowhere(kind)}, c \in Nat : b = block' /\ c = cap'
  BY <1>2
<1>4. PICK t : t = todo'
  OBVIOUS
<1>5. Sized' /\ Held'
  BY <1>1, <1>2 DEF Sized, Held
<1>6. /\ kind = "std::vector" => t \in {<<>>, <<16, 24>>}
      /\ kind \in {"Vec", "String"} => t \in {<<>>, <<16>>}
      /\ kind = "std::string" => t \in {<<>>, <<24>>}
      /\ kind = "ThinVector" => t = <<>>
      /\ t = <<>> \/ b \in Blocks
  BY <1>1, <1>3, <1>4 DEF Vector!Later, Vector!Self, Vector!Chars
<1>7. Unwritten'
  BY <1>1, <1>3, <1>6, <1>4 DEF Unwritten
<1>8. PICK text \in Texts : words' = Vector!Written(Vector!Slots(kind, b) \ Vector!Range(t), b, len, c, text)
  BY <1>3, <1>4 DEF Vector!Move
<1>9. PICK A : A = Vector!Slots(kind, b) \ Vector!Range(t)
  OBVIOUS
<1>10. text \in Nat /\ A \subseteq Nat /\ words' = Vector!Written(A, b, len, c, text)
  BY <1>1, <1>8, <1>9, SlotsFacts, VectorAssumed
<1>11. /\ DOMAIN words' = DOMAIN words \cup A /\ DOMAIN words' \subseteq Nat
       /\ \A a \in DOMAIN words \ A : words'[a] = words[a]
       /\ words' \in [DOMAIN words' -> Nat]
       /\ WordsAt(words', A, kind, size, b, len, c)
  BY <1>1, <1>10, WrittenWords
<1>12. Vector!Range(<<>>) = {} /\ Vector!Range(<<16, 24>>) = {16, 24} /\ Vector!Range(<<16>>) = {16} /\ Vector!Range(<<24>>) = {24}
  BY DEF Vector!Range
<1>13. CASE kind = "ThinVector"
  <2>1. A = Vector!Slots(kind, b)
    BY <1>6, <1>9, <1>12, <1>13
  <2>2. 8 \in A /\ (b # 0 => {Ahead(b, size), Ahead(b, size) + 8} \subseteq A)
    BY <1>1, <1>13, <2>1, SlotsFacts
  <2>3. Stored'
    BY <1>1, <1>3, <1>11, <1>13, <1>4, <2>2 DEF Stored, WordsAt
  <2>4. QED
    BY <1>5, <1>7, <2>3 DEF Written
<1>14. CASE kind # "ThinVector"
  <2>1. A = {8, 16, 24} \ Vector!Range(t) /\ {16, 24} \subseteq DOMAIN words
    BY <1>1, <1>9, <1>14, SlotsFacts DEF Stored, WordsAt
  <2>2. /\ 8 \in A /\ (t = <<>> => 16 \in A /\ 24 \in A) /\ (kind = "std::string" => 16 \in A)
        /\ (kind \in {"Vec", "String"} => 24 \in A) /\ {16, 24} \subseteq DOMAIN words'
        /\ (kind = "std::vector" => t # <<24>>)
    <3>1. {16, 24} \subseteq DOMAIN words'
      BY <1>11, <2>1
    <3>2. kind = "std::vector" => t # <<24>>
      BY <1>6
    <3>3. 8 \in A /\ (t = <<>> => 16 \in A /\ 24 \in A) /\ (kind = "std::string" => 16 \in A)
      BY <1>1, <1>6, <1>12, <1>14, <2>1
    <3>4. kind \in {"Vec", "String"} => 24 \in A
      BY <1>1, <1>6, <1>12, <1>14, <2>1
    <3>5. QED
      BY <3>1, <3>2, <3>3, <3>4
  <2>3. kind = "Vec" => words'[16] >= len
    <3>1. CASE 16 \in A
      BY <1>2, <1>3, <1>11, <3>1 DEF WordsAt
    <3>2. CASE 16 \notin A
      BY <1>1, <1>11, <2>1, <3>2 DEF Stored, WordsAt
    <3>3. QED
      BY <3>1, <3>2
  <2>4. Stored'
    BY <1>1, <1>3, <1>6, <1>11, <1>14, <1>4, <2>2, <2>3 DEF Stored, WordsAt
  <2>5. QED
    BY <1>5, <1>7, <2>4 DEF Written
<1>15. QED
  BY <1>13, <1>14

LEMMA VectorPush == ASSUME Written, NEW l \in 0 .. cap, Vector!Push(l) PROVE Written'
<1>1. /\ kind' = kind /\ size' = size /\ len' = l /\ cap' = cap /\ block' = block /\ todo' = <<>> /\ todo = <<>>
      /\ Sized /\ Stored /\ l \in Nat /\ l <= cap /\ cap \in Nat /\ block \in Blocks \cup {Vector!Nowhere(kind)}
      /\ kind \in {"std::vector", "Vec", "ThinVector", "String", "std::string"}
  BY SizeFacts DEF Written, Held, Vector!Push
<1>2. Sized' /\ Held' /\ Unwritten'
  <2>1. Sized' /\ Held'
    BY <1>1 DEF Written, Sized, Held
  <2>2. Unwritten'
    BY <1>1 DEF Unwritten
  <2>3. QED
    BY <2>1, <2>2
<1>3. PICK text \in Texts : words' = Vector!Written(Vector!Slots(kind, block), block, l, cap, text)
  BY DEF Vector!Push
<1>4. PICK A : A = Vector!Slots(kind, block)
  OBVIOUS
<1>5. text \in Nat /\ A \subseteq Nat /\ words' = Vector!Written(A, block, l, cap, text)
  BY <1>1, <1>3, <1>4, SlotsFacts, VectorAssumed
<1>6. /\ DOMAIN words' = DOMAIN words \cup A /\ DOMAIN words' \subseteq Nat
      /\ words' \in [DOMAIN words' -> Nat]
      /\ WordsAt(words', A, kind, size, block, l, cap)
  BY <1>1, <1>5, WrittenWords
<1>7. /\ 8 \in A /\ (kind # "ThinVector" => {16, 24} \subseteq A)
      /\ (kind = "ThinVector" /\ block # 0 => {Ahead(block, size), Ahead(block, size) + 8} \subseteq A)
  BY <1>1, <1>4, SlotsFacts
<1>8. Stored'
  BY <1>1, <1>6, <1>7 DEF Stored, WordsAt
<1>9. QED
  BY <1>2, <1>8 DEF Written

LEMMA VectorWrite == ASSUME Written, Vector!Write PROVE Written'
<1>1. /\ kind' = kind /\ size' = size /\ len' = len /\ cap' = cap /\ block' = block /\ todo # <<>>
      /\ Sized /\ Stored /\ len \in Nat /\ len <= cap /\ cap \in Nat /\ block \in Blocks
      /\ kind \in {"std::vector", "Vec", "ThinVector", "String", "std::string"}
      /\ todo' = Tail(todo) /\ words' = Vector!Written({Head(todo)}, block, len, cap, 0)
  BY SizeFacts DEF Written, Held, Vector!Write
<1>2. PICK h, t, u, A : h = Head(todo) /\ t = todo /\ u = Tail(todo) /\ A = {Head(todo)}
  OBVIOUS
<1>3. /\ kind = "std::vector" => (t = <<16, 24>> /\ h = 16 /\ u = <<24>>) \/ (t = <<24>> /\ h = 24 /\ u = <<>>)
      /\ kind \in {"Vec", "String"} => t = <<16>> /\ h = 16 /\ u = <<>>
      /\ kind = "std::string" => t = <<24>> /\ h = 24 /\ u = <<>>
      /\ kind # "ThinVector"
  <2>1. t \in CASE kind = "std::vector" -> {<<>>, <<16, 24>>, <<24>>}
                [] kind \in {"Vec", "String"} -> {<<>>, <<16>>}
                [] kind = "std::string" -> {<<>>, <<24>>}
                [] OTHER -> {<<>>}
    BY <1>2 DEF Written, Unwritten
  <2>2. t # <<>> /\ h = Head(t) /\ u = Tail(t)
    BY <1>1, <1>2
  <2>3. Head(<<16, 24>>) = 16 /\ Tail(<<16, 24>>) = <<24>> /\ Head(<<16>>) = 16 /\ Tail(<<16>>) = <<>>
        /\ Head(<<24>>) = 24 /\ Tail(<<24>>) = <<>>
    OBVIOUS
  <2>4. QED
    BY <1>1, <2>1, <2>2, <2>3
<1>4. Sized' /\ Held' /\ Unwritten'
  <2>1. Sized' /\ Held'
    BY <1>1 DEF Written, Sized, Held
  <2>2. Unwritten'
    BY <1>1, <1>2, <1>3 DEF Unwritten
  <2>3. QED
    BY <2>1, <2>2
<1>5. /\ h \in Nat /\ A \subseteq Nat /\ A = {h} /\ h \in {16, 24} /\ block # 24 /\ 0 \in Nat
      /\ block \in Blocks \cup {Vector!Nowhere(kind)} /\ words' = Vector!Written(A, block, len, cap, 0)
  BY <1>1, <1>2, <1>3, SlotsFacts
<1>6. /\ DOMAIN words' = DOMAIN words \cup A /\ DOMAIN words' \subseteq Nat
      /\ \A a \in DOMAIN words \ A : words'[a] = words[a]
      /\ words' \in [DOMAIN words' -> Nat]
      /\ WordsAt(words', A, kind, size, block, len, cap)
  <2>1. PICK text \in Nat : text = 0
    OBVIOUS
  <2>2. /\ Sized /\ Stored /\ block \in Blocks \cup {Vector!Nowhere(kind)} /\ len \in Nat /\ cap \in Nat
        /\ A \subseteq Nat /\ words' = Vector!Written(A, block, len, cap, text)
    BY <1>1, <1>5, <2>1
  <2>3. QED
    BY <2>2, WrittenWords
<1>7. /\ {8, 16, 24} \subseteq DOMAIN words /\ {8, 16, 24} \subseteq DOMAIN words' /\ words'[8] = block
      /\ \A a \in {8, 16, 24} : a # h => words'[a] = words[a]
  <2>1. {8, 16, 24} \subseteq DOMAIN words /\ words[8] = block
    BY <1>1, <1>3 DEF Stored, WordsAt
  <2>2. \A a \in {8, 16, 24} : a # h => a \in DOMAIN words \ A
    BY <1>5, <2>1
  <2>3. QED
    BY <1>5, <1>6, <2>1, <2>2
<1>8. CASE kind = "std::vector"
  <2>1. CASE h = 16
    <3>1. words'[16] = block + len * size
      BY <1>5, <1>6, <1>8, <2>1 DEF WordsAt
    <3>2. u = <<24>> /\ u # <<>>
      BY <1>3, <1>8, <2>1
    <3>3. Stored'
      BY <1>1, <1>2, <1>6, <1>7, <1>8, <3>1, <3>2 DEF Stored
    <3>4. QED
      BY <1>4, <3>3 DEF Written
  <2>2. CASE h = 24
    <3>1. words'[16] = block + len * size
      BY <1>1, <1>2, <1>3, <1>7, <1>8, <2>2 DEF Stored, WordsAt
    <3>2. QED
      BY <1>1, <1>2, <1>3, <1>4, <1>5, <1>6, <1>7, <1>8, <2>2, <3>1 DEF Stored, WordsAt, Written
  <2>3. QED
    BY <1>5, <2>1, <2>2
<1>9. CASE kind \in {"Vec", "String"}
  BY <1>1, <1>3, <1>4, <1>5, <1>6, <1>7, <1>9 DEF Stored, WordsAt, Written
<1>10. CASE kind = "std::string"
  BY <1>1, <1>3, <1>4, <1>5, <1>6, <1>7, <1>10 DEF Stored, WordsAt, Written
<1>11. QED
  BY <1>1, <1>3, <1>8, <1>9, <1>10

LEMMA VectorProgram == ASSUME VectorInv, Vector!Program PROVE VectorInv' /\ phase = "running"
<1>1. Written'
  BY VectorMove, VectorPush, VectorWrite DEF VectorInv, Vector!Program
<1>2. phase = "running" /\ UNCHANGED <<known, begin, end, alloc_end, cursor, lost, claims, given, phase>>
  BY DEF Vector!Program, Vector!Move, Vector!Push, Vector!Write, Vector!handler
<1>3. Handled'
  <2>1. Fresh' /\ lost' = {} /\ {begin, end, alloc_end}' \subseteq Nat
    BY <1>2 DEF VectorInv, Handled, Fresh
  <2>2. QED
    BY <1>2, <2>1 DEF VectorInv, Handled, Fresh
<1>4. QED
  BY <1>1, <1>2, <1>3 DEF VectorInv

LEMMA VectorStill ==
    ASSUME UNCHANGED Vector!program
    PROVE  /\ Written => Written'
           /\ Vector!Items' = Vector!Items /\ Vector!Elements' = Vector!Elements /\ Vector!Parts' = Vector!Parts
           /\ phase # "running" /\ phase' # "running" => (Vector!Mixed' <=> Vector!Mixed)
           /\ phase # "running" /\ UNCHANGED <<begin, end, alloc_end>> /\ ReadWords => ReadWords'
<1>1. /\ kind' = kind /\ size' = size /\ known' = known /\ block' = block /\ len' = len /\ cap' = cap /\ words' = words /\ todo' = todo
  BY DEF Vector!program
<1>2. Written => Written'
  BY <1>1 DEF Written, Sized, Held, Unwritten, Stored
<1>3. Vector!Items' = Vector!Items
  BY <1>1 DEF Vector!Items
<1>4. Vector!Parts' = Vector!Parts
  BY <1>1, <1>3 DEF Vector!Parts, Vector!Metadata, Vector!Null, Vector!Chars, Vector!Self
<1>5. QED
  BY <1>1, <1>2, <1>3, <1>4 DEF Vector!Elements, Vector!Mixed, ReadWords

LEMMA Smaller == ASSUME NEW n \in Nat, NEW m \in Nat, NEW s \in Nat PROVE (n * s < m * s => n < m) /\ (n <= m => n * s <= m * s)
<1>1. CASE m <= n
  <2>1. PICK e \in Nat : n = m + e
    <3>1. n - m \in Nat /\ n = m + (n - m)
      BY <1>1
    <3>2. QED
      BY <3>1
  <2>2. n * s = m * s + e * s /\ e * s \in Nat /\ m * s \in Nat
    BY <2>1
  <2>3. n <= m => e = 0
    BY <1>1, <2>1
  <2>4. e = 0 => e * s = 0
    OBVIOUS
  <2>5. QED
    BY <1>1, <2>2, <2>3, <2>4
<1>2. CASE n < m
  <2>1. PICK e \in Nat : m = n + e
    <3>1. m - n \in Nat /\ m = n + (m - n)
      BY <1>2
    <3>2. QED
      BY <3>1
  <2>2. m * s = n * s + e * s /\ e * s \in Nat /\ n * s \in Nat
    BY <2>1
  <2>3. QED
    BY <1>2, <2>2
<1>3. QED
  BY <1>1, <1>2

LEMMA ReadFacts ==
    ASSUME Written, ReadWords, end \in Nat, alloc_end \in Nat
    PROVE  /\ kind \in {"std::vector", "Vec", "ThinVector", "String", "std::string"} /\ size \in Nat
           /\ (size = 0 => kind = "Vec") /\ (~ Iterated => size = 1)
           /\ begin = block /\ block \in Nat /\ len \in Nat /\ cap \in Nat /\ len <= cap
           /\ len * size \in Nat /\ cap * size \in Nat /\ len * size <= cap * size
           /\ kind \in {"Vec", "ThinVector"} \/ (kind = "std::vector" /\ todo = <<>>)
                 => end = block + len * size /\ begin <= end /\ end <= alloc_end
           /\ ~ Iterated => begin <= end
<1>1. /\ kind \in {"std::vector", "Vec", "ThinVector", "String", "std::string"} /\ size \in Nat
      /\ (size = 0 => kind = "Vec") /\ (kind \in {"String", "std::string"} => size = 1)
  BY SizeFacts DEF Written
<1>2. block \in Nat /\ len \in Nat /\ cap \in Nat /\ len <= cap
  BY SlotsFacts DEF Written, Held
<1>3. len * size \in Nat /\ cap * size \in Nat /\ len * size <= cap * size
  BY <1>1, <1>2, Smaller
<1>4. QED
  BY <1>1, <1>2, <1>3 DEF ReadWords, Iterated

LEMMA VectorRead ==
    ASSUME VectorInv, Vector!opt_read
    PROVE  /\ VectorInv' /\ phase = "running" /\ phase' \in {"read", "failing", "panicked"}
           /\ given' = <<>> /\ UNCHANGED Vector!program
<1>1. /\ phase = "running" /\ UNCHANGED Vector!program /\ claims' = claims /\ given' = given /\ cursor' = begin'
      /\ Fresh /\ Written
  BY DEF Vector!opt_read, Vector!Dump, VectorInv, Handled
<1>2. /\ kind \in {"std::vector", "Vec", "ThinVector", "String", "std::string"} /\ size \in Nat
      /\ (kind \in {"String", "std::string"} => size = 1) /\ (kind = "ThinVector" => size > 0)
      /\ block \in Blocks \cup {Vector!Nowhere(kind)} /\ block \in Nat /\ len \in Nat /\ cap \in Nat /\ len <= cap
      /\ len * size \in Nat /\ cap * size \in Nat /\ len * size <= cap * size
      /\ Stored
  <2>1. /\ kind \in {"std::vector", "Vec", "ThinVector", "String", "std::string"} /\ size \in Nat
        /\ (kind \in {"String", "std::string"} => size = 1) /\ (size = 0 => kind = "Vec")
    BY <1>1, SizeFacts DEF Written
  <2>2. block \in Blocks \cup {Vector!Nowhere(kind)} /\ block \in Nat /\ len \in Nat /\ cap \in Nat /\ len <= cap
    BY <1>1, SlotsFacts DEF Written, Held
  <2>3. len * size \in Nat /\ cap * size \in Nat /\ len * size <= cap * size
    BY <2>1, <2>2, Smaller
  <2>4. QED
    BY <1>1, <2>1, <2>2, <2>3 DEF Written
<1>3. /\ words[8] = block /\ (kind # "ThinVector" => words[16] \in Nat /\ words[24] \in Nat)
  BY <1>2 DEF Stored
<1>4. Vector!Self = 8 /\ Vector!Chars = 24 /\ Vector!Null = 0
  BY DEF Vector!Self, Vector!Chars, Vector!Null
<1> DEFINE NoType == phase' = "panicked" /\ ~known /\ kind \in {"Vec", "ThinVector"} /\ (kind = "ThinVector" => block # 0)
           NoMetadata == phase' = "failing" /\ kind = "ThinVector" /\ lost' # {}
<1>5. /\ {begin, end, alloc_end}' \subseteq Nat
      /\ (phase' = "read" /\ ReadWords') \/ NoType \/ NoMetadata
  <2>1. /\ kind' = kind /\ size' = size /\ block' = block /\ len' = len /\ cap' = cap /\ todo' = todo
    BY <1>1 DEF Vector!program
  <2>0. known \in BOOLEAN /\ {end, alloc_end} \subseteq Nat
    BY DEF VectorInv, Handled
  <2>2. CASE Vector!CppVector
    BY <1>2, <1>3, <1>4, <2>1, <2>2 DEF Vector!CppVector, ReadWords, Stored
  <2>3. CASE Vector!AllocVec
    <3>1. kind = "Vec" /\ begin' = block /\ end' = block + words[24] * size /\ alloc_end' = block + words[16] * size
      BY <1>3, <1>4, <2>3 DEF Vector!AllocVec
    <3>2. words[24] = len /\ words[16] >= len
      BY <1>2, <3>1 DEF Stored
    <3>3. words[16] * size >= len * size /\ words[16] * size \in Nat
      BY <1>2, <1>3, <3>1, <3>2, Smaller
    <3>4. QED
      BY <1>2, <2>0, <2>1, <2>3, <3>1, <3>2, <3>3 DEF ReadWords, Vector!AllocVec
  <2>4. CASE Vector!ThinVector
    <3>1. kind = "ThinVector" /\ begin' = block
      BY <1>3, <1>4, <2>4 DEF Vector!ThinVector
    <3>2. CASE block = 0
      <4>1. len = 0 /\ cap = 0
        <5>1. block \notin Blocks
          BY <1>1, <1>2, <3>2, SizeFacts DEF Written
        <5>2. QED
          BY <1>1, <1>2, <3>1, <5>1 DEF Written, Held, Vector!Room
      <4>2. len * size = 0 /\ cap * size = 0
        BY <1>2, <4>1
      <4>3. end' = 0 /\ alloc_end' = 0 /\ phase' = "read"
        BY <1>3, <1>4, <2>4, <3>2 DEF Vector!ThinVector
      <4>4. QED
        BY <2>1, <3>1, <3>2, <4>2, <4>3 DEF ReadWords
    <3>3. CASE block # 0 /\ ~known
      <4>1. phase' = "panicked" /\ UNCHANGED <<end, alloc_end>>
        BY <1>3, <1>4, <2>4, <3>3 DEF Vector!ThinVector, Vector!inner_size
      <4>2. QED
        BY <1>2, <2>0, <3>1, <3>3, <4>1
    <3>4. CASE block # 0 /\ known /\ Vector!meta_addr \in lost'
      <4>1. phase' = "failing" /\ UNCHANGED <<end, alloc_end>>
        BY <1>2, <1>3, <1>4, <2>4, <3>1, <3>4 DEF Vector!ThinVector, Vector!inner_size
      <4>2. QED
        BY <1>2, <2>0, <3>1, <3>4, <4>1
    <3>5. CASE block # 0 /\ known /\ Vector!meta_addr \notin lost'
      <4>1. PICK q : q = (16 + (size - 1)) \div size
        OBVIOUS
      <4>2. q \in Nat /\ Ahead(block, size) = block - size * q /\ Vector!meta_addr = block - q * size
        BY <1>2, <1>3, <1>4, <3>1, <4>1 DEF Ahead, Vector!meta_addr
      <4>3. size * q = q * size
        BY <1>2, <4>2
      <4>4. Vector!meta_addr = Ahead(block, size)
        BY <4>2, <4>3
      <4>5. Vector!Read(Vector!meta_addr) = len /\ Vector!Read(Vector!meta_addr + 8) = cap
        BY <1>2, <3>1, <3>5, <4>4 DEF Stored, Vector!Read
      <4>6. phase' = "read" /\ end' = block + len * size /\ alloc_end' = block + cap * size
        <5>1. words[8] # 0 /\ Vector!inner_size # 0
          BY <1>2, <1>3, <3>1, <3>5 DEF Vector!inner_size
        <5>2. /\ phase' = "read"
              /\ end' = words[8] + Vector!Read(Vector!meta_addr) * size
              /\ alloc_end' = words[8] + Vector!Read(Vector!meta_addr + 8) * size
          BY <1>4, <2>4, <3>5, <5>1 DEF Vector!ThinVector
        <5>3. QED
          BY <1>3, <4>5, <5>2
      <4>7. QED
        BY <1>2, <2>1, <3>1, <4>6 DEF ReadWords
    <3>6. QED
      BY <2>0, <3>2, <3>3, <3>4, <3>5
  <2>5. CASE Vector!AllocString
    BY <1>2, <1>3, <1>4, <2>1, <2>5 DEF Vector!AllocString, ReadWords, Stored
  <2>6. CASE Vector!CppString
    <3>1. /\ kind = "std::string" /\ phase' = "read" /\ begin' = block /\ end' = block + words[16]
          /\ alloc_end' = block + IF block = 24 THEN 0 ELSE words[24]
      BY <1>3, <1>4, <2>6 DEF Vector!CppString, Vector!capacity
    <3>2. words[16] = len /\ (block # 24 /\ todo = <<>> => words[24] = cap)
      BY <1>2, <3>1 DEF Stored
    <3>3. (block = 24 => alloc_end' = block) /\ (block # 24 => alloc_end' = block + words[24])
      BY <1>2, <3>1
    <3>4. ReadWords'
      BY <1>2, <2>1, <3>1, <3>2, <3>3 DEF ReadWords
    <3>5. QED
      BY <1>2, <1>3, <3>1, <3>3, <3>4
  <2>7. QED
    BY <2>2, <2>3, <2>4, <2>5, <2>6 DEF Vector!opt_read
<1>6. lost' \subseteq Vector!Parts'
  <2>1. lost' \subseteq Vector!Parts
    BY DEF Vector!opt_read, Vector!Dump
  <2>2. QED
    BY <1>1, <2>1, VectorStill
<1>7. Written'
  BY <1>1, VectorStill
<1>8. Handled'
  <2>1. /\ Fresh' /\ known' \in BOOLEAN /\ given' \in Seq(Nat) /\ claims' \in Seq(Nat \X Nat)
        /\ kind' = kind /\ known' = known /\ block' = block
    BY <1>1 DEF Fresh, Vector!program, VectorInv, Handled
  <2>2. CASE NoType
    <3>1. Vector!PanicsOnlyWithCause'
      BY <2>1, <2>2 DEF Vector!PanicsOnlyWithCause, Vector!Null
    <3>2. QED
      BY <1>5, <1>6, <2>1, <2>2, <3>1 DEF Handled
  <2>3. CASE NoMetadata
    BY <1>5, <1>6, <2>1, <2>3 DEF Handled, Iterated
  <2>4. CASE phase' = "read" /\ ReadWords'
    BY <1>1, <1>5, <1>6, <2>1, <2>4 DEF Handled
  <2>5. QED
    BY <1>5, <2>2, <2>3, <2>4
<1>9. QED
  BY <1>1, <1>5, <1>7, <1>8 DEF VectorInv, Fresh

LEMMA VectorVisits == ASSUME VectorInv, Vector!Visit PROVE VectorInv'
<1>1. /\ phase = "dumped" /\ cursor < end /\ Looped /\ ReadWords /\ Written
      /\ given \in Seq(Nat) /\ claims \in Seq(Nat \X Nat) /\ {begin, end, alloc_end} \subseteq Nat
      /\ UNCHANGED Vector!program /\ UNCHANGED <<begin, end, alloc_end, lost>>
      /\ cursor' = cursor + size /\ given' = Append(given, cursor)
      /\ claims' = IF kind = "ThinVector" THEN claims ELSE Append(claims, <<cursor, size>>)
  BY DEF Vector!Visit, Vector!More, VectorInv, Handled
<1>2. /\ kind' = kind /\ size' = size /\ block' = block /\ len' = len /\ cap' = cap /\ todo' = todo
  BY <1>1 DEF Vector!program
<1>3. PICK n \in Nat : n = Len(given)
  BY <1>1
<1>4. /\ size \in Nat /\ size > 0 /\ begin = block /\ block \in Nat /\ len \in Nat
      /\ end = block + len * size \/ Vector!Mixed
  <2>1. end \in Nat /\ alloc_end \in Nat /\ size # 0 /\ Iterated
    BY <1>1 DEF Looped
  <2>2. /\ size \in Nat /\ begin = block /\ block \in Nat /\ len \in Nat
        /\ kind \in {"Vec", "ThinVector"} \/ (kind = "std::vector" /\ todo = <<>>) => end = block + len * size
    BY <1>1, <2>1, ReadFacts
  <2>3. QED
    BY <1>1, <2>1, <2>2 DEF Iterated, Vector!Mixed
<1>5. n * size \in Nat /\ (n + 1) * size = n * size + size /\ cursor = begin + n * size /\ cursor \in Nat
      /\ end <= alloc_end
  <2>1. n * size \in Nat /\ (n + 1) * size = n * size + size
    BY <1>3, <1>4
  <2>2. cursor = begin + n * size /\ end <= alloc_end
    BY <1>1, <1>3 DEF Looped
  <2>3. QED
    BY <1>4, <2>1, <2>2
<1>6. Vector!Mixed \/ n < len
  BY <1>1, <1>3, <1>4, <1>5, Smaller
<1>7. phase' \in {"dumped", "failing"} /\ (phase' = "failing" => cursor \in lost \/ cursor \notin Vector!Items)
  BY <1>1 DEF Vector!Visit
<1>8. Vector!Mixed' <=> Vector!Mixed
  BY <1>1, <1>7, VectorStill
<1>9. phase' = "failing" => lost' # {} \/ Vector!Mixed'
  <2>1. ~ Vector!Mixed => cursor \in Vector!Items
    <3>1. ~ Vector!Mixed => n \in 0 .. len - 1 /\ cursor = block + n * size
      BY <1>4, <1>5, <1>6
    <3>2. QED
      BY <3>1 DEF Vector!Items
  <2>2. QED
    BY <1>1, <1>7, <1>8, <2>1
<1>10. Looped'
  <2>1. Len(given') = n + 1 /\ given' \in Seq(Nat) /\ given'[n + 1] = cursor /\ \A k \in 1 .. n : given'[k] = given[k]
    BY <1>1, <1>3, <1>5
  <2>2. \A k \in 1 .. n + 1 : given'[k] = begin + (k - 1) * size
    <3>1. \A k \in 1 .. n : given'[k] = begin + (k - 1) * size
      BY <1>1, <1>3, <2>1 DEF Looped
    <3>2. given'[n + 1] = begin + ((n + 1) - 1) * size
      <4>1. (n + 1) - 1 = n
        BY <1>3
      <4>2. QED
        BY <1>5, <2>1, <4>1
    <3>3. \A k \in 1 .. n + 1 : k \in 1 .. n \/ k = n + 1
      OBVIOUS
    <3>4. QED
      BY <3>1, <3>2, <3>3
  <2>3. IF kind = "ThinVector" THEN claims' = <<<<begin, alloc_end - begin>>>>
        ELSE Len(claims') = n + 1 /\ \A k \in 1 .. n + 1 : claims'[k] = <<begin + (k - 1) * size, size>>
    <3>1. CASE kind = "ThinVector"
      BY <1>1, <3>1 DEF Looped
    <3>2. CASE kind # "ThinVector"
      <4>1. /\ Len(claims) = n /\ claims' = Append(claims, <<cursor, size>>)
            /\ \A k \in 1 .. n : claims[k] = <<begin + (k - 1) * size, size>>
        BY <1>1, <1>3, <3>2 DEF Looped
      <4>2. Len(claims') = n + 1 /\ claims'[n + 1] = <<cursor, size>> /\ \A k \in 1 .. n : claims'[k] = claims[k]
        BY <1>1, <4>1
      <4>3. claims'[n + 1] = <<begin + ((n + 1) - 1) * size, size>>
        <5>1. (n + 1) - 1 = n
          BY <1>3
        <5>2. QED
          BY <1>5, <4>2, <5>1
      <4>4. \A k \in 1 .. n + 1 : k \in 1 .. n \/ k = n + 1
        OBVIOUS
      <4>5. QED
        BY <3>2, <4>1, <4>2, <4>3, <4>4
    <3>3. QED
      BY <3>1, <3>2
  <2>4. cursor' = begin + (n + 1) * size /\ cursor' <= alloc_end + size
    BY <1>1, <1>3, <1>4, <1>5
  <2>5. QED
    <3>1. /\ size' # 0 /\ begin' <= end' /\ end' <= alloc_end' /\ Iterated' /\ Len(given') = n + 1
          /\ cursor' = begin' + Len(given') * size' /\ cursor' <= alloc_end' + size'
      BY <1>1, <1>2, <2>1, <2>4 DEF Looped, Iterated
    <3>2. \A k \in 1 .. Len(given') : given'[k] = begin' + (k - 1) * size'
      BY <1>1, <1>2, <2>1, <2>2
    <3>3. IF kind' = "ThinVector" THEN claims' = <<<<begin', alloc_end' - begin'>>>>
          ELSE Len(claims') = Len(given') /\ \A k \in 1 .. Len(given') : claims'[k] = <<begin' + (k - 1) * size', size'>>
      BY <1>1, <1>2, <2>1, <2>3
    <3>4. Vector!Mixed' \/ Len(given') <= len'
      BY <1>2, <1>3, <1>4, <1>6, <1>8, <2>1
    <3>5. QED
      BY <3>1, <3>2, <3>3, <3>4 DEF Looped
<1>11. claims' \in Seq(Nat \X Nat) /\ given' \in Seq(Nat)
  <2>1. Append(claims, <<cursor, size>>) \in Seq(Nat \X Nat) /\ Append(given, cursor) \in Seq(Nat)
    BY <1>1, <1>4, <1>5
  <2>2. QED
    BY <1>1, <2>1
<1>12. lost' \subseteq Vector!Parts' /\ known' \in BOOLEAN
  BY <1>1, VectorStill DEF VectorInv, Handled, Vector!program
<1>13. ReadWords' /\ Written'
  BY <1>1, VectorStill
<1>14. Handled'
  <2>1. Iterated'
    BY <1>10 DEF Looped
  <2>2. QED
    BY <1>1, <1>7, <1>9, <1>10, <1>11, <1>12, <1>13, <2>1 DEF Handled
<1>15. QED
  BY <1>13, <1>14 DEF VectorInv

LEMMA VectorHandler == ASSUME VectorInv, Vector!Handler PROVE VectorInv' /\ UNCHANGED Vector!program /\ phase # "running" /\ phase' # "running"
<1>1. /\ UNCHANGED Vector!program /\ UNCHANGED <<begin, end, alloc_end, lost>> /\ phase # "running" /\ phase' # "running"
      /\ phase' \in {"dumped", "over", "failing", "failed", "panicked"}
      /\ (Vector!Visit \/ UNCHANGED <<cursor, given>>)
  BY DEF Vector!Handler, Vector!VisitVector, Vector!VisitVec, Vector!VisitThin, Vector!VisitString, Vector!Visit, Vector!Err,
         Vector!Finish, Vector!Goto, Vector!handler
<1> SUFFICES VectorInv'
  BY <1>1
<1>2. /\ kind' = kind /\ size' = size /\ known' = known /\ block' = block /\ len' = len /\ cap' = cap /\ todo' = todo
  BY <1>1 DEF Vector!program
<1>0. CASE Vector!Err
  <2>1. phase = "failing" /\ phase' = "failed" /\ UNCHANGED <<claims, given>>
    BY <1>0 DEF Vector!Err, Vector!Goto, Vector!handler
  <2>2. Written' /\ lost' \subseteq Vector!Parts' /\ (Vector!Mixed' <=> Vector!Mixed) /\ known' \in BOOLEAN
    BY <1>1, VectorStill DEF VectorInv, Handled, Vector!program
  <2>3. Handled'
    BY <1>1, <1>2, <2>1, <2>2 DEF VectorInv, Handled, Iterated
  <2>4. QED
    BY <2>2, <2>3 DEF VectorInv
<1> SUFFICES ASSUME ~ Vector!Err PROVE VectorInv'
  BY <1>0
<1>3. /\ Written /\ ReadWords /\ {begin, end, alloc_end} \subseteq Nat /\ lost \subseteq Vector!Parts
      /\ given \in Seq(Nat) /\ claims \in Seq(Nat \X Nat) /\ known \in BOOLEAN
  <2>1. phase \in {"read", "dumped"}
    BY DEF Vector!Handler, Vector!VisitVector, Vector!VisitVec, Vector!VisitThin, Vector!VisitString, Vector!Visit, Vector!Finish
  <2>2. QED
    BY <2>1 DEF VectorInv, Handled
<1>4. /\ kind \in {"std::vector", "Vec", "ThinVector", "String", "std::string"} /\ size \in Nat
      /\ (size = 0 => kind = "Vec") /\ (~ Iterated => size = 1)
      /\ begin = block /\ block \in Nat /\ len \in Nat /\ cap \in Nat /\ len <= cap
      /\ len * size \in Nat /\ cap * size \in Nat /\ len * size <= cap * size
      /\ kind \in {"Vec", "ThinVector"} \/ (kind = "std::vector" /\ todo = <<>>)
            => end = block + len * size /\ begin <= end /\ end <= alloc_end
      /\ ~ Iterated => begin <= end
  BY <1>3, ReadFacts
<1>5. /\ Written' /\ ReadWords' /\ {begin, end, alloc_end}' \subseteq Nat /\ lost' \subseteq Vector!Parts'
      /\ (Vector!Mixed' <=> Vector!Mixed) /\ known' \in BOOLEAN
  BY <1>1, <1>2, <1>3, VectorStill
<1>6. ASSUME phase = "read" PROVE Fresh /\ cursor = begin
  BY <1>6 DEF VectorInv, Handled
<1>7. (Vector!Mixed <=> (kind = "std::vector" /\ todo # <<>>)) /\ (Vector!Mixed' <=> (kind = "std::vector" /\ todo # <<>>))
  BY <1>1, <1>2, <1>5 DEF Vector!Mixed
<1>8. ASSUME UNCHANGED claims, phase = "read", phase' = "dumped", begin <= end, end <= alloc_end, size # 0, Iterated, kind # "ThinVector"
      PROVE  VectorInv'
  <2>1. given' = <<>> /\ claims' = <<>> /\ cursor' = begin
    BY <1>1, <1>6, <1>8 DEF Fresh, Vector!Visit
  <2>2. begin + 0 * size = begin /\ begin <= alloc_end + size
    BY <1>3, <1>4, <1>8
  <2>3. Looped'
    BY <1>1, <1>2, <1>4, <1>8, <2>1, <2>2 DEF Looped, Iterated
  <2>4. Handled'
    BY <1>5, <1>8, <2>1, <2>3 DEF Handled
  <2>5. QED
    BY <1>5, <2>4 DEF VectorInv
<1>9. CASE Vector!VisitVector
  <2>1. phase = "read" /\ kind = "std::vector" /\ UNCHANGED claims /\ given' = given
        /\ phase' = CASE Vector!Overflows -> "panicked"
                      [] ~ Vector!Overflows /\ ~ Vector!Ordered -> "over"
                      [] OTHER -> IF Vector!inner_size = 0 THEN "panicked" ELSE "dumped"
    BY <1>9 DEF Vector!VisitVector, Vector!Goto
  <2>2. given' = <<>> /\ claims' = <<>>
    BY <1>6, <2>1 DEF Fresh
  <2>3. CASE Vector!Overflows
    <3>1. phase' = "panicked"
      BY <2>1, <2>3
    <3>2. Vector!Mixed /\ OverflowChecks
      BY <1>3, <1>4, <1>7, <2>1, <2>3 DEF Vector!Overflows
    <3>3. Vector!PanicsOnlyWithCause'
      BY <1>5, <3>1, <3>2 DEF Vector!PanicsOnlyWithCause
    <3>4. QED
      BY <1>5, <2>2, <3>1, <3>3 DEF Handled, VectorInv, Fresh
  <2>4. CASE ~ Vector!Overflows /\ Vector!Ordered /\ Vector!inner_size # 0
    BY <1>4, <1>8, <2>1, <2>4 DEF Vector!Ordered, Iterated
  <2>7. CASE ~ Vector!Overflows /\ Vector!Ordered /\ Vector!inner_size = 0
    <3>1. phase' = "panicked" /\ ~ known
      BY <1>4, <2>1, <2>7 DEF Vector!inner_size
    <3>2. Vector!PanicsOnlyWithCause'
      BY <1>2, <2>1, <3>1 DEF Vector!PanicsOnlyWithCause
    <3>3. QED
      BY <1>5, <2>2, <3>1, <3>2 DEF Handled, VectorInv, Fresh
  <2>5. CASE ~ Vector!Overflows /\ ~ Vector!Ordered
    <3>1. phase' = "over"
      BY <2>1, <2>5
    <3>2. Vector!Mixed'
      BY <1>4, <1>7, <2>1, <2>5 DEF Vector!Ordered
    <3>3. QED
      BY <1>5, <2>2, <3>1, <3>2 DEF Handled, VectorInv, Fresh
  <2>6. QED
    BY <2>3, <2>4, <2>5, <2>7
<1>10. CASE Vector!VisitVec
  <2>1. phase = "read" /\ kind = "Vec" /\ UNCHANGED claims /\ given' = given
        /\ phase' = IF Vector!Accepted THEN "dumped" ELSE "panicked"
    BY <1>10 DEF Vector!VisitVec, Vector!Goto
  <2>2. given' = <<>> /\ claims' = <<>>
    BY <1>6, <2>1 DEF Fresh
  <2>3. CASE Vector!Accepted
    BY <1>4, <1>8, <2>1, <2>3 DEF Vector!Accepted, Vector!Ordered, Iterated
  <2>4. CASE ~ Vector!Accepted
    <3>1. size = 0 /\ phase' = "panicked"
      BY <1>4, <2>1, <2>4 DEF Vector!Accepted, Vector!Ordered
    <3>2. Vector!PanicsOnlyWithCause'
      BY <1>2, <2>1, <3>1 DEF Vector!PanicsOnlyWithCause
    <3>3. QED
      BY <1>5, <2>2, <3>1, <3>2 DEF Handled, VectorInv, Fresh
  <2>5. QED
    BY <2>3, <2>4
<1>11. CASE Vector!VisitThin
  <2>1. phase = "read" /\ phase' = "dumped" /\ kind = "ThinVector" /\ given' = given /\ claims' = <<<<begin, alloc_end - begin>>>>
        /\ cursor' = cursor
    BY <1>11 DEF Vector!VisitThin, Vector!handler
  <2>2. given' = <<>> /\ cursor' = begin
    BY <1>6, <2>1 DEF Fresh
  <2>3. begin + 0 * size = begin /\ begin <= alloc_end + size /\ alloc_end - begin \in Nat /\ begin <= end /\ end <= alloc_end
    <3>1. {begin, end, alloc_end} \subseteq Nat /\ begin <= end /\ end <= alloc_end /\ size \in Nat
      BY <1>3, <1>4, <2>1
    <3>2. QED
      BY <3>1
  <2>4. claims' \in Seq(Nat \X Nat)
    BY <1>3, <2>1, <2>3
  <2>5. Looped'
    BY <1>1, <1>2, <1>4, <2>1, <2>2, <2>3 DEF Looped, Iterated
  <2>6. QED
    BY <1>5, <2>1, <2>2, <2>4, <2>5 DEF Handled, VectorInv
<1>12. CASE Vector!VisitString
  <2>1. phase = "read" /\ kind \in {"String", "std::string"} /\ given' = given /\ given' = <<>> /\ claims = <<>>
    BY <1>6, <1>12 DEF Vector!VisitString, Vector!Goto, Fresh
  <2>2. /\ ~ Iterated /\ ~ Iterated' /\ size = 1 /\ begin <= end /\ end - begin \in Nat
    BY <1>2, <1>3, <1>4, <2>1 DEF Iterated
  <2>3. CASE kind = "std::string" /\ ~ Vector!Checked /\ Vector!Goto("panicked")
    <3>1. phase' = "panicked" /\ claims' = <<>>
      BY <2>1, <2>3 DEF Vector!Goto
    <3>2. alloc_end # begin /\ ~ (end <= alloc_end /\ alloc_end - begin < Limit)
      BY <2>3 DEF Vector!Checked
    <3>3. todo = <<>> => alloc_end = block + cap /\ end = block + len
      BY <1>3, <1>4, <2>3, <3>2 DEF ReadWords
    <3>4. cap >= Limit \/ todo # <<>>
      BY <1>3, <1>4, <3>2, <3>3, VectorAssumed
    <3>5. Vector!PanicsOnlyWithCause'
      BY <1>2, <2>3, <3>4 DEF Vector!PanicsOnlyWithCause
    <3>6. QED
      BY <1>5, <2>1, <3>1, <3>5 DEF Handled, VectorInv, Fresh
  <2>4. CASE Vector!Failing(begin) /\ Vector!Goto("failed")
    <3>1. phase' = "failed" /\ claims' = <<>>
      BY <2>1, <2>4 DEF Vector!Goto
    <3>2. block # 0 /\ block # 24 /\ (block \notin Blocks \/ lost # {})
      BY <1>4, <2>4 DEF Vector!Failing, Vector!Mapped, Vector!Null, Vector!Chars, Vector!Self
    <3>3. lost # {} \/ (kind = "String" /\ block = 1)
      BY <1>3, <2>1, <3>2 DEF Written, Held, Vector!Nowhere, Vector!Dangling, Vector!Chars, Vector!Self
    <3>4. Fresh' /\ (lost' # {} \/ (kind' = "String" /\ block' = 1)) /\ given' \in Seq(Nat) /\ claims' \in Seq(Nat \X Nat)
      BY <1>1, <1>2, <2>1, <3>1, <3>3 DEF Fresh
    <3>5. (~ Iterated /\ Fresh /\ (lost # {} \/ (kind = "String" /\ block = 1)))'
      BY <2>2, <3>4
    <3>6. Handled'
      BY <1>5, <3>1, <3>4, <3>5 DEF Handled
    <3>7. QED
      BY <1>5, <3>6 DEF VectorInv
  <2>5. CASE /\ ~ Vector!Failing(begin) /\ phase' = "over"
             /\ claims' = IF kind = "String" \/ alloc_end # begin THEN Append(claims, <<begin, end - begin>>) ELSE claims
    <3>1. claims' = IF kind = "String" \/ alloc_end # begin THEN <<<<begin, end - begin>>>> ELSE <<>>
      BY <2>1, <2>5
    <3>2. claims' \in Seq(Nat \X Nat)
      <4>1. <<<<begin, end - begin>>>> \in Seq(Nat \X Nat) /\ <<>> \in Seq(Nat \X Nat)
        BY <1>3, <2>2
      <4>2. QED
        BY <3>1, <4>1
    <3>3. kind = "String" => block # 1
      <4>1. 1 \notin Blocks
        BY <1>3, SizeFacts DEF Written
      <4>2. QED
        BY <1>4, <2>5, <4>1 DEF Vector!Failing, Vector!Mapped, Vector!Null, Vector!Chars, Vector!Self
    <3>4. StringDone'
      BY <1>1, <1>2, <2>1, <2>2, <3>1, <3>3 DEF StringDone
    <3>5. QED
      BY <1>5, <2>1, <2>5, <3>2, <3>4 DEF Handled, VectorInv
  <2>6. QED
    BY <1>12, <2>3, <2>4, <2>5 DEF Vector!VisitString
<1>13. CASE Vector!Visit
  BY <1>1, <1>13, VectorVisits
<1>15. CASE Vector!Finish
  <2>1. phase = "dumped" /\ phase' = "over" /\ ~ (cursor < end) /\ UNCHANGED <<claims, given, cursor>>
    BY <1>15 DEF Vector!Finish, Vector!Goto, Vector!handler, Vector!More
  <2>2. Looped
    BY <2>1 DEF VectorInv, Handled
  <2>3. Looped'
    BY <1>1, <1>2, <1>5, <2>1, <2>2 DEF Looped, Iterated
  <2>4. Vector!Mixed \/ Len(given) = len
    <3>1. PICK n \in Nat : n = Len(given)
      BY <1>3
    <3>2. ~ Vector!Mixed => end = block + len * size /\ n <= len
      BY <1>4, <1>7, <2>2, <3>1 DEF Looped, Iterated
    <3>3. cursor = block + n * size /\ n * size \in Nat /\ size > 0
      BY <1>4, <2>2, <3>1 DEF Looped
    <3>4. ~ Vector!Mixed => n * size >= len * size
      BY <1>3, <1>4, <2>1, <3>2, <3>3
    <3>5. n < len => n * size + size <= len * size
      <4>1. n < len => (n + 1) * size <= len * size
        BY <1>4, Smaller
      <4>2. (n + 1) * size = n * size + size
        BY <1>4
      <4>3. QED
        BY <4>1, <4>2
    <3>6. QED
      BY <1>4, <3>1, <3>2, <3>3, <3>4, <3>5
  <2>5. QED
    BY <1>1, <1>2, <1>3, <1>5, <2>1, <2>3, <2>4 DEF Handled, VectorInv
<1>16. QED
  BY <1>1, <1>9, <1>10, <1>11, <1>12, <1>13, <1>15 DEF Vector!Handler

LEMMA VectorTypes == VectorInv => Vector!TypeOK
<1> SUFFICES ASSUME VectorInv PROVE Vector!TypeOK
  OBVIOUS
<1>1. kind \in DOMAIN ItemSizes /\ size \in ItemSizes[kind]
  BY DEF VectorInv, Written, Sized
<1>2. block \in Blocks \cup {Vector!Nowhere(kind)} /\ len \in 0 .. cap
  BY DEF VectorInv, Written, Held
<1>3. words \in [DOMAIN words -> Nat]
  BY DEF VectorInv, Written, Stored
<1>4. todo \in Seq(Nat)
  <2>1. todo \in {<<>>, <<16, 24>>, <<24>>, <<16>>}
    BY SizeFacts DEF VectorInv, Written, Unwritten
  <2>2. <<16, 24>> \in Seq(Nat) /\ <<24>> \in Seq(Nat) /\ <<16>> \in Seq(Nat) /\ <<>> \in Seq(Nat)
    OBVIOUS
  <2>3. QED
    BY <2>1, <2>2
<1>5. {begin, end, alloc_end} \subseteq Nat /\ lost \subseteq Vector!Parts /\ known \in BOOLEAN /\ claims \in Seq(Nat \X Nat) /\ given \in Seq(Nat)
      /\ phase \in {"running", "read", "dumped", "over", "failing", "failed", "panicked"}
  BY DEF VectorInv, Handled
<1>6. ASSUME phase = "dumped" PROVE cursor \in begin .. alloc_end + size
  <2>1. Looped /\ ReadWords /\ Written
    BY <1>6 DEF VectorInv, Handled
  <2>2. size \in Nat
    BY <2>1, SizeFacts DEF Written
  <2>3. Len(given) * size \in Nat
    BY <1>5, <2>2
  <2>4. QED
    BY <1>5, <2>1, <2>2, <2>3 DEF Looped
<1>7. QED
  BY <1>1, <1>2, <1>3, <1>4, <1>5, <1>6 DEF Vector!TypeOK

(* An item after the other, of as many bytes each.                          *)
LEMMA AreasOfItems ==
    ASSUME NEW a \in Nat, NEW n \in Nat, NEW s \in Nat, s > 0
    PROVE  /\ \A x : x \in Vector!Bytes(a, n * s) <=> \E k \in 1 .. n : x \in Vector!Bytes(a + (k - 1) * s, s)
           /\ \A j, k \in 1 .. n : j < k => Vector!Bytes(a + (j - 1) * s, s) \cap Vector!Bytes(a + (k - 1) * s, s) = {}
<1>1. ASSUME NEW x \in Vector!Bytes(a, n * s) PROVE \E k \in 1 .. n : x \in Vector!Bytes(a + (k - 1) * s, s)
  <2>1. PICK y \in Nat : x = a + y /\ y < n * s
    BY DEF Vector!Bytes
  <2>2. PICK q : q = y \div s
    OBVIOUS
  <2>3. q \in Nat /\ q * s <= y /\ y < q * s + s /\ q * s \in Nat
    BY <2>2
  <2>4. q < n
    BY <2>1, <2>3, Smaller
  <2>5. x = (a + ((q + 1) - 1) * s) + (y - q * s) /\ y - q * s \in 0 .. s - 1
    <3>1. (q + 1) - 1 = q
      BY <2>3
    <3>2. QED
      BY <2>1, <2>3, <3>1
  <2>6. q + 1 \in 1 .. n
    BY <2>3, <2>4
  <2>7. x \in Vector!Bytes(a + ((q + 1) - 1) * s, s)
    BY <2>5 DEF Vector!Bytes
  <2>8. QED
    BY <2>6, <2>7
<1>2. ASSUME NEW k \in 1 .. n, NEW x \in Vector!Bytes(a + (k - 1) * s, s) PROVE x \in Vector!Bytes(a, n * s)
  <2>1. PICK y \in 0 .. s - 1 : x = a + (k - 1) * s + y
    BY DEF Vector!Bytes
  <2>2. PICK j \in Nat : j = k - 1 /\ j + 1 <= n
    BY <1>2
  <2>3. j * s \in Nat /\ (j + 1) * s = j * s + s /\ (j + 1) * s <= n * s
    BY <2>2, Smaller
  <2>4. x = a + (j * s + y) /\ j * s + y \in 0 .. n * s - 1
    BY <2>1, <2>2, <2>3
  <2>5. QED
    BY <2>4 DEF Vector!Bytes
<1>3. ASSUME NEW j \in 1 .. n, NEW k \in 1 .. n, j < k
      PROVE  Vector!Bytes(a + (j - 1) * s, s) \cap Vector!Bytes(a + (k - 1) * s, s) = {}
  <2>1. PICK l \in Nat, m \in Nat : l = j - 1 /\ m = k - 1 /\ l + 1 <= m
    BY <1>3
  <2>2. l * s \in Nat /\ m * s \in Nat /\ (l + 1) * s = l * s + s /\ (l + 1) * s <= m * s
    BY <2>1, Smaller
  <2>3. \A x \in Vector!Bytes(a + (j - 1) * s, s) : x < a + l * s + s
    BY <2>1, <2>2 DEF Vector!Bytes
  <2>4. \A x \in Vector!Bytes(a + (k - 1) * s, s) : x \in Nat /\ x >= a + m * s
    BY <2>1, <2>2 DEF Vector!Bytes
  <2>5. QED
    BY <2>2, <2>3, <2>4
<1>4. QED
  BY <1>1, <1>2, <1>3

LEMMA VectorClaims == VectorInv => Vector!EveryByteOnce
<1> SUFFICES ASSUME VectorInv, phase = "over", lost = {}, Vector!Settled
             PROVE  /\ UNION {Vector!Bytes(claims[k][1], claims[k][2]) : k \in DOMAIN claims} = Vector!Owned
                    /\ \A j, k \in DOMAIN claims :
                          j < k => Vector!Bytes(claims[j][1], claims[j][2]) \cap Vector!Bytes(claims[k][1], claims[k][2]) = {}
  BY DEF Vector!EveryByteOnce
<1>1. /\ todo = <<>> \/ kind \in {"Vec", "String"}
      /\ ~ Vector!Mixed
      /\ lost = {}
  BY DEF Vector!Settled, Vector!Mixed
<1>2. /\ Written /\ ReadWords /\ {begin, end, alloc_end} \subseteq Nat /\ claims \in Seq(Nat \X Nat) /\ given \in Seq(Nat)
      /\ (Looped /\ Len(given) = len) \/ StringDone
  BY <1>1 DEF VectorInv, Handled
<1>3. /\ kind \in {"std::vector", "Vec", "ThinVector", "String", "std::string"} /\ size \in Nat
      /\ (~ Iterated => size = 1)
      /\ begin = block /\ block \in Nat /\ len \in Nat /\ cap \in Nat /\ len <= cap
      /\ len * size \in Nat /\ cap * size \in Nat
  BY <1>2, ReadFacts
<1>4. Vector!Chars = 24
  BY DEF Vector!Chars, Vector!Self
<1>5. (block = 24 => kind = "std::string") /\ (block # 24 /\ kind = "std::string" => block \in Blocks /\ cap > 0)
  <2>1. block \in Blocks => block # 24
    BY <1>2, <1>3, SizeFacts DEF Written
  <2>2. block \in Blocks \/ block = Vector!Nowhere(kind)
    BY <1>2 DEF Written, Held
  <2>3. Vector!Nowhere(kind) = 24 <=> kind = "std::string"
    BY <1>3, <1>4 DEF Vector!Nowhere, Vector!Null, Vector!Dangling
  <2>4. kind = "std::string" /\ block # 24 => cap > Inline /\ Inline \in Nat
    BY <1>2, <2>2, <2>3, VectorAssumed DEF Written, Held, Vector!Room
  <2>5. QED
    BY <1>3, <2>1, <2>2, <2>3, <2>4
<1>6. CASE Looped /\ kind = "ThinVector"
  <2>1. claims = <<<<block, cap * size>>>>
    <3>1. claims = <<<<begin, alloc_end - begin>>>> /\ alloc_end = block + cap * size
      BY <1>2, <1>6 DEF Looped, ReadWords
    <3>2. alloc_end - begin = cap * size
      BY <1>3, <3>1
    <3>3. QED
      BY <1>3, <3>1, <3>2
  <2>2. DOMAIN claims = {1} /\ claims[1][1] = block /\ claims[1][2] = cap * size
    BY <2>1
  <2>3. Vector!Owned = Vector!Bytes(block, cap * size)
    BY <1>4, <1>5, <1>6 DEF Vector!Owned
  <2>4. QED
    BY <2>2, <2>3
<1>7. CASE Looped /\ kind # "ThinVector"
  <2>1. /\ DOMAIN claims = 1 .. len /\ size > 0
        /\ \A k \in 1 .. len : claims[k] = <<block + (k - 1) * size, size>>
    <3>1. Len(given) = len
      BY <1>2, <1>7 DEF Looped, StringDone
    <3>2. /\ Len(claims) = len /\ size # 0 /\ begin = block
          /\ \A k \in 1 .. Len(given) : claims[k] = <<begin + (k - 1) * size, size>>
      BY <1>3, <1>7, <3>1 DEF Looped
    <3>3. QED
      BY <1>2, <1>3, <3>1, <3>2
  <2>2. \A k \in 1 .. len : Vector!Bytes(claims[k][1], claims[k][2]) = Vector!Bytes(block + (k - 1) * size, size)
    BY <2>1
  <2>3. Vector!Owned = Vector!Bytes(block, len * size)
    BY <1>4, <1>5, <1>7 DEF Vector!Owned, Looped, Iterated
  <2>4. \A x : x \in UNION {Vector!Bytes(claims[k][1], claims[k][2]) : k \in DOMAIN claims}
                 <=> \E k \in 1 .. len : x \in Vector!Bytes(block + (k - 1) * size, size)
    BY <2>1, <2>2
  <2>5. UNION {Vector!Bytes(claims[k][1], claims[k][2]) : k \in DOMAIN claims} = Vector!Owned
    BY <1>3, <2>1, <2>3, <2>4, AreasOfItems
  <2>6. \A j, k \in 1 .. len : j < k => Vector!Bytes(block + (j - 1) * size, size) \cap Vector!Bytes(block + (k - 1) * size, size) = {}
    BY <1>3, <2>1, AreasOfItems
  <2>7. QED
    BY <2>1, <2>2, <2>5, <2>6
<1>8. CASE StringDone
  <2>1. ~ Iterated /\ size = 1 /\ end - begin = len /\ len * size = len
    BY <1>2, <1>3, <1>8 DEF StringDone, ReadWords, Iterated
  <2>2. claims = IF block = 24 THEN <<>> ELSE <<<<block, len>>>>
    <3>1. CASE kind = "String"
      BY <1>3, <1>5, <1>8, <2>1, <3>1 DEF StringDone
    <3>2. CASE kind = "std::string"
      <4>1. alloc_end = begin <=> block = 24
        BY <1>1, <1>2, <1>3, <1>5, <3>2 DEF ReadWords
      <4>2. QED
        BY <1>3, <1>8, <2>1, <3>2, <4>1 DEF StringDone
    <3>3. QED
      BY <1>3, <2>1, <3>1, <3>2 DEF Iterated
  <2>3. CASE block = 24
    <3>1. Vector!Owned = {}
      BY <1>4, <1>5, <2>3 DEF Vector!Owned
    <3>2. claims = <<>>
      BY <2>2, <2>3
    <3>3. DOMAIN claims = {}
      BY <3>2
    <3>4. QED
      BY <3>1, <3>3
  <2>4. CASE block # 24
    <3>1. DOMAIN claims = {1} /\ claims[1][1] = block /\ claims[1][2] = len
      BY <2>2, <2>4
    <3>2. Vector!Owned = Vector!Bytes(block, len)
      BY <1>4, <2>1, <2>4 DEF Vector!Owned, Iterated
    <3>3. QED
      BY <3>1, <3>2
  <2>5. QED
    BY <2>3, <2>4
<1>9. QED
  BY <1>2, <1>6, <1>7, <1>8

LEMMA VectorCauses == VectorInv => Vector!FailsOnlyWithCause /\ Vector!PanicsOnlyWithCause
<1> SUFFICES ASSUME VectorInv PROVE Vector!FailsOnlyWithCause /\ Vector!PanicsOnlyWithCause
  OBVIOUS
<1>1. phase = "failed" => lost # {} \/ Vector!Mixed \/ (kind = "String" /\ block = 1)
  BY DEF VectorInv, Handled
<1>2. phase = "panicked" => Vector!PanicsOnlyWithCause
  BY DEF VectorInv, Handled
<1>3. QED
  BY <1>1, <1>2 DEF Vector!FailsOnlyWithCause, Vector!PanicsOnlyWithCause, Vector!Dangling

(* The visit of a contiguous container implements Iteration.                *)
ItemsInMemory == Vector!Items \subseteq Nat
LEMMA VectorItems == Written => ItemsInMemory
<1> SUFFICES ASSUME Written PROVE Vector!Items \subseteq Nat
  BY DEF ItemsInMemory
<1>1. size \in Nat /\ block \in Nat /\ len \in Nat
  BY SizeFacts, SlotsFacts DEF Written, Held
<1>2. \A n \in 0 .. len - 1 : n * size \in Nat
  BY <1>1
<1>3. QED
  BY <1>1, <1>2 DEF Vector!Items

LEMMA VectorAbstracts ==
    ASSUME which = "Vector", which' = which, VectorInv, Vector!Program \/ Vector!opt_read \/ Vector!Handler
    PROVE  [Contents!Next]_(Contents!vars)
<1>1. VectorInv'
  BY VectorProgram, VectorRead, VectorHandler
<1>2. /\ Elements = Vector!Elements /\ Whole = (todo = <<>> /\ lost = {})
      /\ Given = (IF Vector!Mixed THEN <<>> ELSE given)
      /\ Stage = CASE phase \in {"read", "failing", "panicked"} -> "dumped" [] phase = "failed" -> "over" [] OTHER -> phase
  BY DEF Elements, Whole, Given, Stage, Vector!Whole, Vector!Given, Vector!Stage
<1>3. /\ Elements' = Vector!Elements' /\ Whole' = (todo' = <<>> /\ lost' = {})
      /\ Given' = (IF Vector!Mixed' THEN <<>> ELSE given')
      /\ Stage' = CASE phase' \in {"read", "failing", "panicked"} -> "dumped" [] phase' = "failed" -> "over" [] OTHER -> phase'
  BY DEF Elements, Whole, Given, Stage, Vector!Whole, Vector!Given, Vector!Stage
<1>4. Whole \in BOOLEAN /\ Whole' \in BOOLEAN /\ Elements \subseteq Nat /\ Elements' \subseteq Nat
  <2>1. Vector!Items \subseteq Nat /\ Vector!Items' \subseteq Nat
    <3>1. Written /\ Written'
      BY <1>1 DEF VectorInv
    <3>2. ItemsInMemory /\ ItemsInMemory'
      BY <3>1, VectorItems, PTL
    <3>3. QED
      BY <3>2 DEF ItemsInMemory
  <2>2. QED
    BY <1>2, <1>3, <2>1 DEF Vector!Elements
<1>5. CASE Vector!Program
  <2>1. phase = "running" /\ phase' = "running" /\ given' = given
    BY <1>5, VectorProgram DEF Vector!Program, Vector!Move, Vector!Push, Vector!Write
  <2>2. Stage = "running" /\ Stage' = "running" /\ Given' = Given
    BY <1>2, <1>3, <2>1 DEF Vector!Mixed
  <2>3. QED
    BY <1>4, <2>2 DEF Contents!Next, Contents!Change
<1>6. CASE Vector!opt_read
  <2>1. phase = "running" /\ phase' \in {"read", "failing", "panicked"} /\ given' = <<>> /\ given = <<>> /\ UNCHANGED Vector!program
    BY <1>6, VectorRead DEF VectorInv, Handled, Fresh
  <2>2. Stage = "running" /\ Stage' = "dumped" /\ Given' = Given
    BY <1>2, <1>3, <2>1
  <2>3. Elements' = Elements
    BY <1>2, <1>3, <2>1, VectorStill
  <2>4. QED
    BY <1>4, <2>2, <2>3 DEF Contents!Next, Contents!Dump
<1>7. CASE Vector!Handler
  <2>1. UNCHANGED Vector!program /\ phase # "running" /\ phase' # "running"
    BY <1>7, VectorHandler
  <2>2. /\ lost' = lost /\ (Vector!Visit \/ UNCHANGED <<cursor, given>>)
        /\ (Vector!Visit \/ phase' \in {"dumped", "panicked"} \/ phase \in {"read", "failing", "dumped"})
    BY <1>7 DEF Vector!Handler, Vector!VisitVector, Vector!VisitVec, Vector!VisitThin, Vector!VisitString, Vector!Visit, Vector!Err,
                Vector!Finish, Vector!Goto, Vector!handler
  <2>3. /\ Elements' = Elements /\ (Vector!Mixed' <=> Vector!Mixed) /\ Whole' = Whole
    <3>1. todo' = todo
      BY <2>1 DEF Vector!program
    <3>2. QED
      BY <1>2, <1>3, <2>1, <2>2, <3>1, VectorStill
  <2>4. CASE Vector!Visit
    <3>1. phase = "dumped" /\ phase' \in {"dumped", "failing"} /\ given' = Append(given, cursor) /\ cursor < end
      BY <2>4 DEF Vector!Visit, Vector!More
    <3>2. Stage = "dumped" /\ Stage' = "dumped"
      BY <1>2, <1>3, <3>1
    <3>3. CASE Vector!Mixed
      <4>1. Given' = Given
        BY <1>2, <1>3, <2>3, <3>3
      <4>2. QED
        BY <2>3, <3>2, <4>1 DEF Contents!vars
    <3>4. CASE ~ Vector!Mixed
      <4>1. /\ Looped /\ Written /\ ReadWords /\ given \in Seq(Nat) /\ {begin, end, alloc_end} \subseteq Nat
        BY <3>1 DEF VectorInv, Handled
      <4>2. PICK n \in Nat : n = Len(given)
        BY <4>1
      <4>3. /\ size \in Nat /\ size > 0 /\ begin = block /\ block \in Nat /\ len \in Nat /\ end = block + len * size
        <5>1. /\ size \in Nat /\ begin = block /\ block \in Nat /\ len \in Nat
              /\ kind \in {"Vec", "ThinVector"} \/ (kind = "std::vector" /\ todo = <<>>) => end = block + len * size
          BY <4>1, ReadFacts
        <5>2. kind \in {"Vec", "ThinVector"} \/ (kind = "std::vector" /\ todo = <<>>)
          BY <3>1, <3>4, <4>1 DEF Looped, Iterated, Vector!Mixed
        <5>3. QED
          BY <4>1, <5>1, <5>2 DEF Looped
      <4>4. cursor = block + n * size /\ n * size \in Nat /\ len * size \in Nat
        BY <4>1, <4>2, <4>3 DEF Looped
      <4>5. n < len
        BY <3>1, <4>2, <4>3, <4>4, Smaller
      <4>6. cursor \in Elements
        <5>1. n \in 0 .. len - 1
          BY <4>2, <4>3, <4>5
        <5>2. cursor \in Vector!Items
          BY <4>4, <5>1 DEF Vector!Items
        <5>3. QED
          BY <1>2, <4>1, <5>2 DEF Vector!Elements, Looped, Iterated
      <4>7. \A k \in 1 .. n : given[k] # cursor
        <5>1. TAKE k \in 1 .. n
        <5>2. PICK j \in Nat : j = k - 1 /\ j + 1 <= n
          BY <4>2
        <5>3. (j + 1) * size = j * size + size /\ (j + 1) * size <= n * size /\ j * size \in Nat
          BY <4>2, <4>3, <5>2, Smaller
        <5>4. given[k] = block + j * size
          BY <4>1, <4>2, <4>3, <5>2 DEF Looped
        <5>5. QED
          BY <4>3, <4>4, <5>3, <5>4
      <4>8. cursor \notin Contents!Range(Given)
        BY <1>2, <3>4, <4>1, <4>2, <4>7 DEF Contents!Range
      <4>9. Given' = Append(Given, cursor)
        BY <1>2, <1>3, <2>3, <3>1, <3>4
      <4>10. QED
        BY <2>3, <3>2, <4>6, <4>8, <4>9 DEF Contents!Next, Contents!Give
    <3>5. QED
      BY <3>3, <3>4
  <2>5. CASE ~ Vector!Visit
    <3>1. given' = given /\ Given' = Given
      BY <1>2, <1>3, <2>2, <2>3, <2>5
    <3>2. phase \in {"read", "failing", "dumped"} /\ phase' \in {"dumped", "panicked", "failing", "failed", "over"}
      BY <1>7, <2>5 DEF Vector!Handler, Vector!VisitVector, Vector!VisitVec, Vector!VisitThin, Vector!VisitString, Vector!Err,
                Vector!Finish, Vector!Goto
    <3>3. Stage = "dumped"
      BY <1>2, <3>2
    <3>4. CASE phase' \in {"dumped", "panicked", "failing"}
      <4>1. Stage' = "dumped"
        BY <1>3, <3>4
      <4>2. QED
        BY <2>3, <3>1, <3>3, <4>1 DEF Contents!vars
    <3>5. CASE phase' \in {"failed", "over"}
      <4>1. Stage' = "over"
        BY <1>3, <3>5
      <4>2. Contents!Range(Given) = Elements \/ ~ Whole
        <5>1. /\ Written' /\ given' \in Seq(Nat) /\ {begin, end, alloc_end}' \subseteq Nat
              /\ (Looped' => Iterated')
              /\ (phase' = "over" => ReadWords')
              /\ (phase' = "failed" => \/ lost' # {} \/ Vector!Mixed'
                                       \/ ~ Iterated' /\ given' = <<>>)
              /\ (phase' = "over" => \/ Looped' /\ (Vector!Mixed' \/ Len(given') = len')
                                     \/ Vector!Mixed'
                                     \/ ~ Iterated' /\ given' = <<>>)
          <6>1. Handled' /\ Written'
            BY <1>1 DEF VectorInv
          <6>2. (Fresh' => given' = <<>>) /\ (StringDone' => ~ Iterated' /\ given' = <<>>) /\ (Looped' => Iterated')
            BY DEF Fresh, StringDone, Looped
          <6>3. QED
            BY <6>1, <6>2 DEF Handled
        <5>2. CASE lost' # {} \/ Vector!Mixed'
          BY <1>2, <2>2, <2>3, <5>2 DEF Vector!Mixed
        <5>3. CASE ~ Iterated' /\ given' = <<>>
          <6>1. kind' = kind /\ kind \in {"std::vector", "Vec", "ThinVector", "String", "std::string"}
            BY <2>1, SizeFacts DEF VectorInv, Written, Vector!program
          <6>2. Elements = {}
            BY <1>2, <5>3, <6>1 DEF Vector!Elements, Iterated
          <6>3. Given = <<>>
            BY <1>2, <3>1, <5>3
          <6>4. Contents!Range(Given) = {}
            BY <6>3 DEF Contents!Range
          <6>5. QED
            BY <6>2, <6>4
        <5>4. CASE phase' = "over" /\ Looped' /\ Len(given') = len' /\ ~ Vector!Mixed'
          <6>1. kind' = kind /\ size' = size /\ block' = block /\ len' = len
            BY <2>1 DEF Vector!program
          <6>2. Elements = {block + n * size : n \in 0 .. len - 1} /\ Given = given /\ Len(given) = len /\ given \in Seq(Nat)
            BY <1>2, <2>3, <3>1, <5>1, <5>4, <6>1 DEF Vector!Elements, Vector!Items, Looped, Iterated
          <6>3. begin' = block /\ len \in Nat
            BY <5>1, <5>4, <6>1 DEF ReadWords, Written, Held
          <6>4. \A k \in 1 .. len : given[k] = block + (k - 1) * size
            BY <3>1, <5>4, <6>1, <6>3 DEF Looped
          <6>5. \A k \in 1 .. len : given[k] \in Elements
            <7>1. \A k \in 1 .. len : k - 1 \in 0 .. len - 1
              BY <6>3
            <7>2. QED
              BY <6>2, <6>4, <7>1
          <6>6. \A n \in 0 .. len - 1 : \E k \in 1 .. len : given[k] = block + n * size
            <7>1. TAKE n \in 0 .. len - 1
            <7>2. n + 1 \in 1 .. len /\ (n + 1) - 1 = n
              BY <6>3
            <7>3. given[n + 1] = block + n * size
              BY <6>4, <7>2
            <7>4. QED
              BY <7>2, <7>3
          <6>7. Contents!Range(Given) = {given[k] : k \in 1 .. len}
            BY <6>2 DEF Contents!Range
          <6>8. \A a \in Elements : \E k \in 1 .. len : given[k] = a
            BY <6>2, <6>6
          <6>9. QED
            BY <6>5, <6>7, <6>8
        <5>5. QED
          BY <3>5, <5>1, <5>2, <5>3, <5>4
      <4>3. QED
        BY <2>3, <3>1, <3>3, <4>1, <4>2 DEF Contents!Next, Contents!Finish
    <3>6. QED
      BY <3>2, <3>4, <3>5
  <2>6. QED
    BY <2>4, <2>5
<1>8. QED
  BY <1>5, <1>6, <1>7

-----------------------------------------------------------------------------
(* The least number of a set, and with it induction: what NatInduction says *)
(* of a predicate, said of a set.                                           *)
LEMMA Least == ASSUME NEW T \in SUBSET Nat, T # {} PROVE \E x \in T : \A y \in T : x <= y
<1>1. PICK x \in T : \A y \in T : <<y, x>> \notin OpToRel(<, Nat)
  BY WFMin, NatLessThanWellFounded, Zenon
<1>2. ASSUME NEW y \in T PROVE ~ (y < x)
  <2>1. x \in Nat /\ y \in Nat
    OBVIOUS
  <2>2. <<y, x>> \notin OpToRel(<, Nat)
    BY <1>1
  <2>3. QED
    BY <2>1, <2>2, Zenon DEF OpToRel
<1>3. \A y \in T : ~ (y < x)
  BY <1>2, Zenon
<1>4. QED
  BY <1>3

(* Induction, for a set. *)
LEMMA Induction ==
    ASSUME NEW S, 0 \in S, \A n \in Nat : n \in S => n + 1 \in S PROVE Nat \subseteq S
<1> SUFFICES ASSUME Nat \ S # {} PROVE FALSE
  OBVIOUS
<1>1. PICK x \in Nat \ S : \A y \in Nat \ S : x <= y
  BY Least
<1>2. x # 0 /\ x - 1 \in Nat /\ x - 1 \notin Nat \ S
  BY <1>1
<1>3. (x - 1) + 1 \in S
  BY <1>2
<1>4. QED
  BY <1>3

-----------------------------------------------------------------------------
(* The enums.                                                               *)
LEMMA VariantAssumed == B \in Nat \ {0, 1} /\ \A e \in Enums : Enum!EnumOK(e)
BY ContainersAssumption DEF Enum!VariantsAssumption

(* b to the power of k, up to n. *)
PowersTo(b, n, f) == f \in [0 .. n -> Nat \ {0}] /\ f[0] = 1 /\ \A k \in 1 .. n : f[k] = b * f[k - 1]

LEMMA PowersExist ==
    ASSUME NEW b \in Nat \ {0}, NEW n \in Nat PROVE \E f \in [0 .. n -> Nat \ {0}] : PowersTo(b, n, f)
<1> DEFINE S == {m \in Nat : \E f \in [0 .. m -> Nat \ {0}] : PowersTo(b, m, f)}
<1>1. 0 \in S
  <2>1. [k \in 0 .. 0 |-> 1] \in [0 .. 0 -> Nat \ {0}]
    OBVIOUS
  <2>2. PowersTo(b, 0, [k \in 0 .. 0 |-> 1])
    BY DEF PowersTo
  <2>3. QED
    BY <2>1, <2>2
<1>2. ASSUME NEW m \in Nat, m \in S PROVE m + 1 \in S
  <2>1. PICK f \in [0 .. m -> Nat \ {0}] : PowersTo(b, m, f)
    BY <1>2
  <2> DEFINE g == [k \in 0 .. m + 1 |-> IF k = m + 1 THEN b * f[m] ELSE f[k]]
  <2>2. m \in 0 .. m /\ f[m] \in Nat \ {0}
    BY <2>1
  <2>3. b * f[m] \in Nat \ {0}
    BY <2>2
  <2>4. g \in [0 .. m + 1 -> Nat \ {0}]
    BY <2>3
  <2>5. g[0] = 1
    BY <2>1 DEF PowersTo
  <2>6. ASSUME NEW k \in 1 .. m + 1 PROVE g[k] = b * g[k - 1]
    <3>1. CASE k = m + 1
      <4>1. k \in 0 .. m + 1 /\ k - 1 \in 0 .. m + 1 /\ k - 1 # m + 1 /\ k - 1 = m
        BY <3>1
      <4>2. QED
        BY <3>1, <4>1
    <3>2. CASE k # m + 1
      <4>1. k \in 1 .. m /\ k \in 0 .. m + 1 /\ k - 1 \in 0 .. m + 1 /\ k - 1 # m + 1
        BY <3>2
      <4>2. f[k] = b * f[k - 1]
        BY <2>1, <4>1 DEF PowersTo
      <4>3. QED
        BY <3>2, <4>1, <4>2
    <3>3. QED
      BY <3>1, <3>2
  <2>7. PowersTo(b, m + 1, g)
    BY <2>4, <2>5, <2>6 DEF PowersTo
  <2>8. QED
    BY <2>4, <2>7
<1>3. Nat \subseteq S
  <2> HIDE DEF S
  <2>1. \A m \in Nat : m \in S => m + 1 \in S
    BY <1>2
  <2>2. QED
    BY <1>1, <2>1, Induction
<1>4. QED
  BY <1>3

LEMMA PowersAgree ==
    ASSUME NEW b \in Nat \ {0}, NEW m \in Nat, NEW n \in Nat, NEW f, NEW g,
           PowersTo(b, m, f), PowersTo(b, n, g), NEW k \in Nat, k <= m, k <= n
    PROVE  f[k] = g[k]
<1> DEFINE S == {j \in Nat : j <= m /\ j <= n => f[j] = g[j]}
<1>1. 0 \in S
  BY DEF PowersTo
<1>2. ASSUME NEW j \in Nat, j \in S PROVE j + 1 \in S
  <2>1. CASE j + 1 <= m /\ j + 1 <= n
    <3>1. j + 1 \in 1 .. m /\ j + 1 \in 1 .. n /\ (j + 1) - 1 = j /\ j <= m /\ j <= n
      BY <2>1
    <3>2. f[j + 1] = b * f[j] /\ g[j + 1] = b * g[j]
      BY <3>1 DEF PowersTo
    <3>3. QED
      BY <1>2, <3>1, <3>2
  <2>2. QED
    BY <2>1
<1>3. Nat \subseteq S
  <2> HIDE DEF S
  <2>1. \A j \in Nat : j \in S => j + 1 \in S
    BY <1>2
  <2>2. QED
    BY <1>1, <2>1, Induction
<1>4. QED
  BY <1>3

LEMMA Powers ==
    /\ Enum!Pow \in [Nat -> Nat \ {0}] /\ Enum!Pow[0] = 1
    /\ \A n \in Nat : Enum!Pow[n + 1] = B * Enum!Pow[n]
<1> DEFINE F == [n \in Nat |-> (CHOOSE f \in [0 .. n -> Nat \ {0}] : PowersTo(B, n, f))[n]]
<1>1. B \in Nat \ {0, 1}
  BY VariantAssumed
<1>2. ASSUME NEW n \in Nat, NEW f, PowersTo(B, n, f) PROVE \A k \in 0 .. n : F[k] = f[k]
  <2>1. TAKE k \in 0 .. n
  <2>2. PICK g : g = CHOOSE h \in [0 .. k -> Nat \ {0}] : PowersTo(B, k, h)
    OBVIOUS
  <2>3. PowersTo(B, k, g)
    <3>1. B \in Nat \ {0} /\ k \in Nat
      BY <1>1
    <3>2. \E h \in [0 .. k -> Nat \ {0}] : PowersTo(B, k, h)
      BY <3>1, PowersExist
    <3>3. QED
      BY <2>2, <3>2
  <2>4. g[k] = f[k]
    <3>1. B \in Nat \ {0} /\ k \in Nat /\ n \in Nat /\ k <= k /\ k <= n
      BY <1>1
    <3>2. QED
      BY <1>2, <2>3, <3>1, PowersAgree
  <2>5. QED
    BY <2>2, <2>4
<1>3. \A n \in Nat : F[n] \in Nat \ {0} /\ F[n + 1] = B * F[n]
  <2>1. TAKE n \in Nat
  <2>2. PICK f \in [0 .. n + 1 -> Nat \ {0}] : PowersTo(B, n + 1, f)
    <3>1. B \in Nat \ {0} /\ n + 1 \in Nat
      BY <1>1
    <3>2. QED
      BY <3>1, PowersExist
  <2>3. \A k \in 0 .. n + 1 : F[k] = f[k]
    <3>1. n + 1 \in Nat
      OBVIOUS
    <3>2. QED
      BY <1>2, <2>2, <3>1
  <2>4. n \in 0 .. n + 1 /\ n + 1 \in 0 .. n + 1 /\ n + 1 \in 1 .. n + 1 /\ (n + 1) - 1 = n
    OBVIOUS
  <2>5. f[n + 1] = B * f[n] /\ f[n] \in Nat \ {0}
    BY <2>2, <2>4 DEF PowersTo
  <2>6. QED
    BY <2>3, <2>4, <2>5
<1>4. F[0] = 1
  <2>1. PICK f \in [0 .. 0 -> Nat \ {0}] : PowersTo(B, 0, f)
    BY <1>1, PowersExist
  <2>2. QED
    BY <1>2, <2>1 DEF PowersTo
<1>5. F = [n \in Nat |-> IF n = 0 THEN 1 ELSE B * F[n - 1]]
  <2> DEFINE G == [n \in Nat |-> IF n = 0 THEN 1 ELSE B * F[n - 1]]
  <2>1. ASSUME NEW n \in Nat PROVE F[n] = G[n]
    <3>1. CASE n = 0
      BY <1>4, <3>1
    <3>2. CASE n # 0
      <4>1. n - 1 \in Nat /\ (n - 1) + 1 = n
        BY <3>2
      <4>2. F[(n - 1) + 1] = B * F[n - 1]
        BY <1>3, <4>1
      <4>3. QED
        BY <3>2, <4>1, <4>2
    <3>3. QED
      BY <3>1, <3>2
  <2>2. QED
    BY <2>1
<1>6. Enum!Pow = [n \in Nat |-> IF n = 0 THEN 1 ELSE B * Enum!Pow[n - 1]]
  <2> HIDE DEF F
  <2>1. QED
    BY <1>5 DEF Enum!Pow
<1>7. Enum!Pow[0] = 1
  BY <1>6
<1>8. \A n \in Nat : Enum!Pow[n + 1] = B * Enum!Pow[n]
  <2>1. TAKE n \in Nat
  <2>2. n + 1 \in Nat /\ n + 1 # 0 /\ (n + 1) - 1 = n
    OBVIOUS
  <2>3. QED
    BY <1>6, <2>2
<1>9. \A n \in Nat : Enum!Pow[n] \in Nat \ {0}
  <2> DEFINE S == {n \in Nat : Enum!Pow[n] \in Nat \ {0}}
  <2>1. 0 \in S
    BY <1>7
  <2>2. \A n \in Nat : n \in S => n + 1 \in S
    BY <1>1, <1>8
  <2>3. QED
    <3> HIDE DEF S
    <3>1. Nat \subseteq S
      BY <2>1, <2>2, Induction
    <3>2. QED
      BY <3>1 DEF S
<1>10. Enum!Pow \in [Nat -> Nat \ {0}]
  <2>1. DOMAIN Enum!Pow = Nat
    BY <1>6
  <2>2. QED
    BY <1>6, <1>9, <2>1
<1>11. QED
  BY <1>7, <1>8, <1>10

LEMMA DivMod ==
    ASSUME NEW a \in Nat, NEW b \in Nat \ {0}
    PROVE  a \div b \in Nat /\ a % b \in 0 .. b - 1 /\ a = (b * (a \div b)) + (a % b)
BY SMT

LEMMA Division ==
    ASSUME NEW b \in Nat \ {0}, NEW q \in Nat, NEW r \in 0 .. b - 1
    PROVE  ((b * q) + r) \div b = q /\ ((b * q) + r) % b = r
BY SMT

(* The digits of a number: what is below pw, and the digit at pw.             *)
LEMMA Digit ==
    ASSUME NEW a \in Nat, NEW b \in Nat \ {0}, NEW pw \in Nat \ {0}
    PROVE  a % (b * pw) = ((a \div pw) % b) * pw + (a % pw)
<1>1. PICK q \in Nat, r \in 0 .. pw - 1 : a = (pw * q) + r /\ a \div pw = q /\ a % pw = r
  BY DivMod
<1>2. PICK s \in Nat, t \in 0 .. b - 1 : q = (b * s) + t /\ q % b = t
  BY DivMod
<1>3. a = ((b * pw) * s) + (t * pw + r)
  <2>1. pw * ((b * s) + t) = pw * (b * s) + pw * t
    OBVIOUS
  <2>2. pw * (b * s) = (b * pw) * s /\ pw * t = t * pw
    OBVIOUS
  <2>3. QED
    BY <1>1, <1>2, <2>1, <2>2
<1>4. t * pw + r \in 0 .. (b * pw) - 1 /\ b * pw \in Nat \ {0}
  <2>1. PICK e \in Nat : b = t + 1 + e
    <3>1. b - t - 1 \in Nat /\ b = t + 1 + (b - t - 1)
      OBVIOUS
    <3>2. QED
      BY <3>1
  <2>2. b * pw = t * pw + pw + e * pw /\ e * pw \in Nat /\ t * pw \in Nat
    BY <2>1
  <2>3. QED
    BY <2>2
<1>5. a % (b * pw) = t * pw + r
  BY <1>3, <1>4, Division
<1>6. QED
  BY <1>1, <1>2, <1>5

DigitAt(a, b, pw) == (a \div pw) % b
LEMMA DigitAbove ==
    ASSUME NEW a \in Nat, NEW b \in Nat \ {0}, NEW pw \in Nat \ {0}, NEW k \in Nat, NEW d, d = a + k * (b * pw)
    PROVE  DigitAt(d, b, pw) = DigitAt(a, b, pw)
<1>1. PICK q \in Nat, r \in 0 .. pw - 1 : a = (pw * q) + r /\ a \div pw = q
  BY DivMod
<1>2. PICK s \in Nat, t \in 0 .. b - 1 : q = (b * s) + t /\ q % b = t
  BY DivMod
<1>3. k * (b * pw) = pw * (b * k)
  OBVIOUS
<1>4. pw * (q + b * k) = pw * q + pw * (b * k)
  OBVIOUS
<1>5. a + k * (b * pw) = (pw * (q + b * k)) + r
  BY <1>1, <1>3, <1>4
<1>6. (a + k * (b * pw)) \div pw = q + b * k
  <2>1. q + b * k \in Nat
    OBVIOUS
  <2>2. QED
    BY <1>5, <2>1, Division
<1>7. b * (s + k) = b * s + b * k
  OBVIOUS
<1>8. q + b * k = (b * (s + k)) + t
  BY <1>2, <1>7
<1>9. (q + b * k) % b = t
  <2>1. PICK c \in Nat : c = s + k
    OBVIOUS
  <2>2. ((b * c) + t) % b = t
    BY Division
  <2>3. QED
    BY <1>8, <2>1, <2>2
<1>10. QED
  BY <1>1, <1>2, <1>6, <1>9 DEF DigitAt

-----------------------------------------------------------------------------
LEMMA BytesOf ==
    ASSUME NEW v \in Nat, NEW n \in Nat
    PROVE  /\ Enum!Encoded(v, n) \in [0 .. n - 1 -> 0 .. B - 1]
           /\ \A k \in 0 .. n - 1 : Enum!Encoded(v, n)[k] = (v \div Enum!Pow[k]) % B
<1>1. ASSUME NEW k \in Nat PROVE (v \div Enum!Pow[k]) % B \in 0 .. B - 1
  <2>1. Enum!Pow[k] \in Nat \ {0} /\ B \in Nat \ {0}
    BY Powers, VariantAssumed
  <2>2. v \div Enum!Pow[k] \in Nat
    BY <2>1, DivMod
  <2>3. QED
    BY <2>1, <2>2, DivMod
<1>2. QED
  BY <1>1 DEF Enum!Encoded

LEMMA SameNumber ==
    ASSUME NEW v \in Nat, NEW u \in Nat, NEW n \in Nat,
           \A k \in 0 .. n - 1 : (v \div Enum!Pow[k]) % B = (u \div Enum!Pow[k]) % B
    PROVE  v % Enum!Pow[n] = u % Enum!Pow[n]
<1> DEFINE S == {j \in Nat : j <= n => v % Enum!Pow[j] = u % Enum!Pow[j]}
<1>1. 0 \in S
  <2>1. v % 1 = 0 /\ u % 1 = 0
    OBVIOUS
  <2>2. QED
    BY <2>1, Powers
<1>2. ASSUME NEW j \in Nat, j \in S PROVE j + 1 \in S
  <2>1. CASE j + 1 <= n
    <3>1. j \in 0 .. n - 1 /\ v % Enum!Pow[j] = u % Enum!Pow[j]
      BY <1>2, <2>1
    <3>2. (v \div Enum!Pow[j]) % B = (u \div Enum!Pow[j]) % B
      BY <3>1
    <3>3. Enum!Pow[j] \in Nat \ {0} /\ B \in Nat \ {0} /\ Enum!Pow[j + 1] = B * Enum!Pow[j]
      BY Powers, VariantAssumed
    <3>4. v % (B * Enum!Pow[j]) = ((v \div Enum!Pow[j]) % B) * Enum!Pow[j] + (v % Enum!Pow[j])
      BY <3>3, Digit
    <3>5. u % (B * Enum!Pow[j]) = ((u \div Enum!Pow[j]) % B) * Enum!Pow[j] + (u % Enum!Pow[j])
      BY <3>3, Digit
    <3>6. QED
      BY <3>1, <3>2, <3>3, <3>4, <3>5
  <2>2. QED
    BY <2>1
<1>3. Nat \subseteq S
  <2> HIDE DEF S
  <2>1. \A j \in Nat : j \in S => j + 1 \in S
    BY <1>2
  <2>2. QED
    BY <1>1, <2>1, Induction
<1>4. QED
  BY <1>3

LEMMA PowersDivide ==
    ASSUME NEW j \in Nat, NEW n \in Nat, j < n
    PROVE  \E r \in Nat : Enum!Pow[n] = r * (B * Enum!Pow[j])
<1> DEFINE S == {m \in Nat : j < m => \E r \in Nat : Enum!Pow[m] = r * (B * Enum!Pow[j])}
<1>1. 0 \in S
  OBVIOUS
<1>2. ASSUME NEW m \in Nat, m \in S PROVE m + 1 \in S
  <2>1. Enum!Pow[m + 1] = B * Enum!Pow[m] /\ Enum!Pow[j] \in Nat /\ B \in Nat
    BY Powers, VariantAssumed
  <2>2. CASE j = m
    <3>1. Enum!Pow[m + 1] = 1 * (B * Enum!Pow[j])
      BY <2>1, <2>2
    <3>2. QED
      BY <3>1
  <2>3. CASE j < m
    <3>1. PICK r \in Nat : Enum!Pow[m] = r * (B * Enum!Pow[j])
      BY <1>2, <2>3
    <3>2. PICK x \in Nat : x = B * Enum!Pow[j]
      BY <2>1
    <3>3. Enum!Pow[m + 1] = (B * r) * x /\ B * r \in Nat
      BY <2>1, <3>1, <3>2
    <3>4. QED
      BY <3>2, <3>3
  <2>4. QED
    BY <2>2, <2>3
<1>3. Nat \subseteq S
  <2> HIDE DEF S
  <2>1. \A m \in Nat : m \in S => m + 1 \in S
    BY <1>2
  <2>2. QED
    BY <1>1, <2>1, Induction
<1>4. QED
  BY <1>3

LEMMA LowDigits ==
    ASSUME NEW v \in Nat, NEW k \in Nat, NEW n \in Nat, NEW j \in 0 .. n - 1
    PROVE  ((v + k * Enum!Pow[n]) \div Enum!Pow[j]) % B = (v \div Enum!Pow[j]) % B
<1>1. PICK r \in Nat : Enum!Pow[n] = r * (B * Enum!Pow[j])
  BY PowersDivide
<1>2. Enum!Pow[j] \in Nat \ {0} /\ B \in Nat \ {0}
  BY Powers, VariantAssumed
<1>3. PICK x \in Nat : x = B * Enum!Pow[j]
  BY <1>2
<1>4. PICK y \in Nat : y = k * r
  OBVIOUS
<1>5. k * (r * x) = (k * r) * x
  OBVIOUS
<1>6. k * Enum!Pow[n] = y * (B * Enum!Pow[j])
  BY <1>1, <1>3, <1>4, <1>5
<1>7. ((v + y * (B * Enum!Pow[j])) \div Enum!Pow[j]) % B = (v \div Enum!Pow[j]) % B
  <2>1. PICK q \in Nat \ {0} : q = Enum!Pow[j]
    BY <1>2
  <2>2. PICK c \in Nat \ {0} : c = B
    BY <1>2
  <2>3. PICK u : u = v + y * (c * q)
    OBVIOUS
  <2>4. DigitAt(u, c, q) = DigitAt(v, c, q)
    BY <2>3, DigitAbove
  <2>5. QED
    BY <2>1, <2>2, <2>3, <2>4 DEF DigitAt
<1>8. QED
  BY <1>6, <1>7

-----------------------------------------------------------------------------
(* The value that stands for the variant the program has put there.         *)
Values == IF stored = Enum!None THEN {0} ELSE IF enm.values[stored] = {} THEN Enum!Payloads(enm) ELSE enm.values[stored]
StoredInEnum ==
    /\ enm \in Enums /\ stored \in {Enum!None} \cup DOMAIN enm.values
    /\ stored = Enum!None => enm.kind = "mrustc"
    /\ \E v \in Values : bytes \in Enum!Memory(enm, v)
EnumInv ==
    /\ StoredInEnum
    /\ phase \in {"running", "dumped", "over"} /\ pos \in 0 .. Len(enm.values)
    /\ variant \in {Enum!None} \cup DOMAIN enm.values
    /\ phase = "running" => pos = 0
    /\ pos > 0 => enm.width > 0
    /\ \A j \in 1 .. pos : ~ Enum!Matches(j)
    /\ Enum!VariantFound

LEMMA EnumFacts ==
    ASSUME NEW e \in Enums
    PROVE  /\ e.kind \in {"TaggedUnion", "mrustc"} /\ e.width \in Nat /\ (e.width = 0 => e.values = <<{}>>) /\ e.smallest \in BOOLEAN
           /\ Len(e.values) \in Nat /\ DOMAIN e.values = 1 .. Len(e.values)
           /\ \A w \in DOMAIN e.values : e.values[w] # {} => \E v \in 0 .. Enum!Pow[e.width] - 1 : e.values[w] = {v}
           /\ \A w, j \in DOMAIN e.values : w # j => e.values[w] \cap e.values[j] = {} /\ e.values[w] \cup e.values[j] # {}
           /\ e.kind = "mrustc" => \A w \in DOMAIN e.values : e.values[w] = {w}
           /\ Enum!Pow[e.width] \in Nat \ {0} /\ B \in Nat \ {0, 1}
<1>1. B \in Nat \ {0, 1} /\ Enum!EnumOK(e)
  BY VariantAssumed
<1>2. Enum!Pow[e.width] \in Nat \ {0}
  BY <1>1, Powers DEF Enum!EnumOK
<1>3. e.values \in Seq({{}} \cup {{v} : v \in 0 .. Enum!Pow[e.width] - 1})
  BY <1>1 DEF Enum!EnumOK
<1>4. Len(e.values) \in Nat /\ DOMAIN e.values = 1 .. Len(e.values)
  BY <1>3
<1>5. \A w \in DOMAIN e.values : e.values[w] \in {{}} \cup {{v} : v \in 0 .. Enum!Pow[e.width] - 1}
  BY <1>3
<1>6. \A w \in DOMAIN e.values : e.values[w] # {} => \E v \in 0 .. Enum!Pow[e.width] - 1 : e.values[w] = {v}
  BY <1>5
<1>7. QED
  BY <1>1, <1>2, <1>4, <1>6 DEF Enum!EnumOK

(* The bytes of the discriminant, and their value.                          *)
ValueInMemory(v) ==
    /\ v \in 0 .. Enum!Pow[enm.width] - 1 /\ bytes \in [0 .. enm.width -> 0 .. B - 1]
    /\ \A k \in 0 .. enm.width - 1 : bytes[k] = (v \div Enum!Pow[k]) % B

LEMMA StoredBytes ==
    ASSUME StoredInEnum PROVE \E v \in Values : ValueInMemory(v)
<1>1. enm \in Enums
  BY DEF StoredInEnum
<1>2. PICK v \in Values : bytes \in Enum!Memory(enm, v)
  BY DEF StoredInEnum
<1>3. enm.width \in Nat /\ Enum!Pow[enm.width] \in Nat \ {0} /\ B \in Nat \ {0, 1}
  BY <1>1, EnumFacts
<1>4. v \in 0 .. Enum!Pow[enm.width] - 1
  <2>1. CASE stored = Enum!None
    BY <1>2, <1>3, <2>1 DEF Values
  <2>2. CASE stored # Enum!None /\ enm.values[stored] = {}
    BY <1>2, <1>3, <2>2 DEF Values, Enum!Payloads
  <2>3. CASE stored # Enum!None /\ enm.values[stored] # {}
    <3>1. stored \in DOMAIN enm.values
      BY <2>3 DEF StoredInEnum
    <3>2. v \in enm.values[stored]
      BY <1>2, <2>3 DEF Values
    <3>3. PICK x \in 0 .. Enum!Pow[enm.width] - 1 : enm.values[stored] = {x}
      BY <1>1, <2>3, <3>1, EnumFacts
    <3>4. QED
      BY <3>2, <3>3
  <2>4. QED
    BY <2>1, <2>2, <2>3
<1>5. PICK k \in 0 .. B - 1 : bytes = Enum!Encoded(v + k * Enum!Pow[enm.width], enm.width + 1)
  BY <1>2 DEF Enum!Memory
<1>6. PICK u \in Nat : u = v + k * Enum!Pow[enm.width]
  <2>1. k \in Nat /\ v \in Nat /\ k * Enum!Pow[enm.width] \in Nat
    BY <1>3, <1>4
  <2>2. QED
    BY <2>1
<1>7. /\ bytes \in [0 .. enm.width -> 0 .. B - 1]
      /\ \A j \in 0 .. enm.width : bytes[j] = (u \div Enum!Pow[j]) % B
  <2>1. PICK n \in Nat : n = enm.width + 1 /\ n - 1 = enm.width
    BY <1>3
  <2>2. bytes = Enum!Encoded(u, n)
    BY <1>5, <1>6, <2>1
  <2>3. Enum!Encoded(u, n) \in [0 .. n - 1 -> 0 .. B - 1] /\ \A j \in 0 .. n - 1 : Enum!Encoded(u, n)[j] = (u \div Enum!Pow[j]) % B
    BY BytesOf
  <2>4. QED
    BY <2>1, <2>2, <2>3
<1>8. ASSUME NEW j \in 0 .. enm.width - 1 PROVE bytes[j] = (v \div Enum!Pow[j]) % B
  <2>1. v \in Nat /\ k \in Nat /\ enm.width \in Nat /\ j \in 0 .. enm.width
    BY <1>3, <1>4
  <2>2. ((v + k * Enum!Pow[enm.width]) \div Enum!Pow[j]) % B = (v \div Enum!Pow[j]) % B
    BY <2>1, LowDigits
  <2>3. QED
    BY <1>6, <1>7, <2>1, <2>2
<1>9. QED
  BY <1>4, <1>7, <1>8 DEF ValueInMemory

(* Two numbers that fit with the same bytes are the same.                   *)
LEMMA SameValue ==
    ASSUME NEW v, NEW u, NEW n \in Nat, v \in 0 .. Enum!Pow[n] - 1, u \in 0 .. Enum!Pow[n] - 1,
           \A k \in 0 .. n - 1 : (v \div Enum!Pow[k]) % B = (u \div Enum!Pow[k]) % B
    PROVE  v = u
<1>1. Enum!Pow[n] \in Nat \ {0} /\ v \in Nat /\ u \in Nat
  BY Powers
<1>2. v % Enum!Pow[n] = u % Enum!Pow[n]
  BY <1>1, SameNumber
<1>3. v % Enum!Pow[n] = v /\ u % Enum!Pow[n] = u
  BY <1>1
<1>4. QED
  BY <1>2, <1>3

LEMMA Forms ==
    ASSUME enm \in Enums, enm.width > 0, NEW v \in 0 .. Enum!Pow[enm.width] - 1
    PROVE  Enum!FormOf(v) \in 1 .. enm.width
<1>1. enm.width \in Nat /\ Enum!Pow[enm.width] \in Nat
  BY EnumFacts
<1> DEFINE T == {n \in 1 .. enm.width : v < Enum!Pow[n]}
<1>2. enm.width \in T
  BY <1>1
<1>3. PICK n \in T : \A m \in T : n <= m
  <2>1. T \in SUBSET Nat /\ T # {}
    BY <1>2
  <2> HIDE DEF T
  <2>2. QED
    BY <2>1, Least
<1>4. \A m \in 1 .. n - 1 : v >= Enum!Pow[m]
  <2>1. TAKE m \in 1 .. n - 1
  <2>2. m \in 1 .. enm.width /\ m \notin T
    BY <1>1, <1>3
  <2>3. Enum!Pow[m] \in Nat /\ v \in Nat
    BY Powers
  <2>4. QED
    BY <2>2, <2>3
<1>5. \E k \in 1 .. enm.width : v < Enum!Pow[k] /\ \A m \in 1 .. k - 1 : v >= Enum!Pow[m]
  BY <1>3, <1>4
<1>6. QED
  BY <1>1, <1>5 DEF Enum!FormOf

-----------------------------------------------------------------------------
LEMMA EnumInit == Enum!Init => EnumInv
<1> SUFFICES ASSUME Enum!Init PROVE EnumInv
  OBVIOUS
<1>1. enm \in Enums /\ stored \in DOMAIN enm.values /\ pos = 0 /\ variant = Enum!None /\ phase = "running"
  BY DEF Enum!Init
<1>2. DOMAIN enm.values = 1 .. Len(enm.values) /\ Len(enm.values) \in Nat
  BY <1>1, EnumFacts
<1>3. stored # Enum!None
  BY <1>1, <1>2 DEF Enum!None
<1>4. PICK v \in Values : bytes \in Enum!Memory(enm, v)
  BY <1>3 DEF Enum!Init, Values
<1>5. StoredInEnum
  BY <1>1, <1>3, <1>4 DEF StoredInEnum
<1>6. Enum!VariantFound
  BY <1>1 DEF Enum!VariantFound
<1>7. \A j \in 1 .. pos : ~ Enum!Matches(j)
  BY <1>1
<1>8. QED
  BY <1>1, <1>2, <1>5, <1>6, <1>7 DEF EnumInv

LEMMA EnumProgram ==
    ASSUME EnumInv, Enum!Program PROVE EnumInv' /\ phase = "running" /\ phase' = phase
<1>1. phase = "running" /\ UNCHANGED <<enm, pos, variant, phase>> /\ pos = 0
  BY DEF Enum!Program, EnumInv
<1>2. enm \in Enums
  BY DEF EnumInv, StoredInEnum
<1>3. DOMAIN enm.values = 1 .. Len(enm.values) /\ Len(enm.values) \in Nat
  BY <1>2, EnumFacts
<1>4. stored' \in {Enum!None} \cup DOMAIN enm.values /\ (stored' = Enum!None => enm.kind = "mrustc")
  BY <1>3 DEF Enum!Program, Enum!None
<1>5. PICK v \in IF stored' = Enum!None THEN {0} ELSE IF enm.values[stored'] = {} THEN Enum!Payloads(enm) ELSE enm.values[stored'] :
          bytes' \in Enum!Memory(enm, v)
  BY DEF Enum!Program
<1>6. Values' = IF stored' = Enum!None THEN {0} ELSE IF enm.values[stored'] = {} THEN Enum!Payloads(enm) ELSE enm.values[stored']
  BY <1>1 DEF Values, Enum!None, Enum!Payloads, Enum!Used
<1>7. StoredInEnum'
  BY <1>1, <1>2, <1>4, <1>5, <1>6 DEF StoredInEnum, Enum!Memory, Enum!Encoded
<1>8. Enum!VariantFound'
  BY <1>1 DEF Enum!VariantFound
<1>9. (\A j \in 1 .. pos : ~ Enum!Matches(j))'
  BY <1>1
<1>10. QED
  BY <1>1, <1>7, <1>8, <1>9 DEF EnumInv

LEMMA EnumStill ==
    ASSUME EnumInv, UNCHANGED <<enm, stored, bytes>>
    PROVE  /\ StoredInEnum'
           /\ \A w : Enum!Matches(w)' <=> Enum!Matches(w)
           /\ \A v : Enum!FormOf(v)' = Enum!FormOf(v)
           /\ \A v : Enum!Equal(v)' <=> Enum!Equal(v)
<1>1. \A v : Enum!FormOf(v)' = Enum!FormOf(v)
  BY DEF Enum!FormOf
<1>0. \A v : Enum!Equal(v)' <=> Enum!Equal(v)
  BY <1>1 DEF Enum!Equal, Enum!Encoded
<1>2. \A w : Enum!Matches(w)' <=> Enum!Matches(w)
  BY <1>0 DEF Enum!Matches
<1>3. Values' = Values
  BY DEF Values, Enum!None, Enum!Payloads, Enum!Used
<1>4. StoredInEnum'
  BY <1>3 DEF StoredInEnum, EnumInv, Enum!Memory, Enum!Encoded, Enum!None
<1>5. QED
  BY <1>0, <1>1, <1>2, <1>4

LEMMA EnumDump ==
    ASSUME EnumInv, Enum!Dump PROVE EnumInv' /\ phase = "running" /\ phase' = "dumped"
<1>1. phase = "running" /\ phase' = "dumped" /\ UNCHANGED <<enm, stored, bytes, pos, variant>> /\ pos = 0
  BY DEF Enum!Dump, EnumInv
<1>2. StoredInEnum'
  BY <1>1, EnumStill
<1>3. Enum!VariantFound'
  BY <1>1 DEF Enum!VariantFound
<1>4. (\A j \in 1 .. pos : ~ Enum!Matches(j))'
  BY <1>1
<1>5. QED
  BY <1>1, <1>2, <1>3, <1>4 DEF EnumInv, Enum!None

(* What matches is the value stored, or one of a shorter form.              *)
LEMMA OnlyStored ==
    ASSUME EnumInv, enm.width > 0, NEW w \in DOMAIN enm.values, NEW x \in enm.values[w], Enum!Equal(x)
    PROVE  w = stored \/ Enum!FormOf(x) < enm.width
<1>1. enm \in Enums
  BY DEF EnumInv, StoredInEnum
<1>2. PICK v \in Values : ValueInMemory(v)
  BY StoredBytes DEF EnumInv
<1>3. enm.width \in Nat /\ x \in 0 .. Enum!Pow[enm.width] - 1 /\ enm.values[w] = {x}
  BY <1>1, EnumFacts
<1>4. Enum!FormOf(x) \in 1 .. enm.width
  BY <1>1, <1>3, Forms
<1>5. CASE Enum!FormOf(x) = enm.width
  <2>1. \A k \in 0 .. enm.width - 1 : bytes[k] = Enum!Encoded(x, enm.width)[k]
    BY <1>5 DEF Enum!Equal
  <2>2. \A k \in 0 .. enm.width - 1 : Enum!Encoded(x, enm.width)[k] = (x \div Enum!Pow[k]) % B
    BY <1>3, BytesOf DEF Enum!Encoded
  <2>3. \A k \in 0 .. enm.width - 1 : (x \div Enum!Pow[k]) % B = (v \div Enum!Pow[k]) % B
    BY <1>2, <2>1, <2>2 DEF ValueInMemory
  <2>4. x = v
    <3>1. v \in 0 .. Enum!Pow[enm.width] - 1
      BY <1>2 DEF ValueInMemory
    <3>2. enm.width \in Nat /\ x \in 0 .. Enum!Pow[enm.width] - 1
      BY <1>3
    <3>3. QED
      BY <2>3, <3>1, <3>2, SameValue
  <2>5. CASE stored = Enum!None
    <3>1. enm.kind = "mrustc" /\ v = 0
      BY <1>2, <2>5 DEF EnumInv, StoredInEnum, Values
    <3>2. enm.values[w] = {w} /\ w \in 1 .. Len(enm.values) /\ Len(enm.values) \in Nat
      BY <1>1, <3>1, EnumFacts
    <3>3. x = w
      BY <3>2, Zenon
    <3>4. w # 0
      BY <3>2
    <3>5. QED
      BY <2>4, <3>1, <3>3, <3>4
  <2>6. CASE stored # Enum!None /\ enm.values[stored] = {}
    <3>1. v \notin Enum!Used(enm)
      BY <1>2, <2>6 DEF Values, Enum!Payloads
    <3>2. enm.values[w] \in Enum!Range(enm.values)
      BY DEF Enum!Range
    <3>3. QED
      BY <1>3, <2>4, <3>1, <3>2 DEF Enum!Used
  <2>7. CASE stored # Enum!None /\ enm.values[stored] # {}
    <3>1. v \in enm.values[stored] /\ stored \in DOMAIN enm.values
      BY <1>2, <2>7 DEF Values, EnumInv, StoredInEnum
    <3>2. w # stored => enm.values[w] \cap enm.values[stored] = {}
      BY <1>1, <3>1, EnumFacts
    <3>3. QED
      BY <1>3, <2>4, <3>1, <3>2
  <2>8. QED
    BY <2>5, <2>6, <2>7
<1>6. QED
  BY <1>3, <1>4, <1>5

(* And the value stored matches.                                            *)
LEMMA StoredMatches ==
    ASSUME EnumInv, enm.width > 0, stored # Enum!None, enm.values[stored] # {} PROVE Enum!Matches(stored)
<1>1. enm \in Enums /\ stored \in DOMAIN enm.values
  BY DEF EnumInv, StoredInEnum
<1>2. PICK v \in Values : ValueInMemory(v)
  BY StoredBytes DEF EnumInv
<1>3. v \in enm.values[stored] /\ v \in 0 .. Enum!Pow[enm.width] - 1 /\ v \in Nat
  BY <1>2 DEF Values, ValueInMemory
<1>4. Enum!FormOf(v) \in 1 .. enm.width /\ enm.width \in Nat
  BY <1>1, <1>3, Forms, EnumFacts
<1>5. \A k \in 0 .. Enum!FormOf(v) - 1 : k \in 0 .. enm.width - 1 /\ Enum!Encoded(v, Enum!FormOf(v))[k] = (v \div Enum!Pow[k]) % B
  <2>1. Enum!FormOf(v) \in Nat
    BY <1>4
  <2>2. \A k \in 0 .. Enum!FormOf(v) - 1 : Enum!Encoded(v, Enum!FormOf(v))[k] = (v \div Enum!Pow[k]) % B
    BY DEF Enum!Encoded
  <2>3. QED
    BY <1>4, <2>1, <2>2
<1>6. Enum!Equal(v)
  BY <1>2, <1>5 DEF Enum!Equal, ValueInMemory
<1>7. QED
  BY <1>3, <1>6 DEF Enum!Matches

LEMMA EnumFinds ==
    ASSUME EnumInv, NEW w, Enum!Found(w), phase = "dumped", w \in {Enum!None} \cup DOMAIN enm.values,
           w = stored \/ (w # Enum!None /\ \E v \in enm.values[w] : Enum!FormOf(v) < enm.width /\ Enum!Equal(v))
    PROVE  EnumInv' /\ phase' = "over"
<1>1. variant' = w /\ phase' = "over" /\ UNCHANGED <<enm, stored, bytes, pos>>
  BY DEF Enum!Found
<1>2. /\ StoredInEnum' /\ \A v : Enum!FormOf(v)' = Enum!FormOf(v)
      /\ \A j : Enum!Matches(j)' <=> Enum!Matches(j)
      /\ \A v : Enum!Equal(v)' <=> Enum!Equal(v)
  BY <1>1, EnumStill
<1>3. Enum!VariantFound'
  <2>1. CASE w = stored
    BY <1>1, <2>1 DEF Enum!VariantFound
  <2>2. CASE w # Enum!None /\ \E v \in enm.values[w] : Enum!FormOf(v) < enm.width /\ Enum!Equal(v)
    <3>1. PICK v \in enm.values[w] : Enum!FormOf(v) < enm.width /\ Enum!Equal(v)
      BY <2>2
    <3>2. Enum!FormOf(v)' < enm'.width /\ v \in enm'.values[variant'] /\ variant' # Enum!None /\ Enum!Equal(v)'
      BY <1>1, <1>2, <2>2, <3>1
    <3>3. QED
      BY <3>2 DEF Enum!VariantFound, Enum!None, Enum!FormOf
  <2>3. QED
    BY <2>1, <2>2
<1>4. (\A j \in 1 .. pos : ~ Enum!Matches(j))'
  BY <1>1, <1>2 DEF EnumInv
<1>5. QED
  BY <1>1, <1>2, <1>3, <1>4 DEF EnumInv, Enum!None

LEMMA EnumHandler ==
    ASSUME EnumInv, Enum!Handler
    PROVE  EnumInv' /\ phase = "dumped" /\ phase' \in {"dumped", "over"}
<1>1. enm \in Enums /\ stored \in {Enum!None} \cup DOMAIN enm.values
  BY DEF EnumInv, StoredInEnum
<1>2. /\ enm.width \in Nat /\ Len(enm.values) \in Nat /\ DOMAIN enm.values = 1 .. Len(enm.values)
      /\ enm.kind \in {"TaggedUnion", "mrustc"}
      /\ enm.width = 0 => enm.values = <<{}>>
      /\ enm.kind = "mrustc" => \A w \in DOMAIN enm.values : enm.values[w] = {w}
  BY <1>1, EnumFacts
<1>3. enm.width = 0 => /\ enm.kind = "TaggedUnion" /\ stored = 1 /\ 1 \in DOMAIN enm.values
  <2>1. enm.width = 0 => Len(enm.values) = 1 /\ enm.values[1] = {}
    <3>1. Len(<<{}>>) = 1 /\ <<{}>>[1] = {}
      OBVIOUS
    <3>2. QED
      BY <1>2, <3>1
  <2>2. enm.width = 0 => enm.kind = "TaggedUnion"
    BY <1>2, <2>1
  <2>3. enm.width = 0 => stored # Enum!None
    BY <2>2 DEF EnumInv, StoredInEnum
  <2>4. QED
    BY <1>1, <1>2, <2>1, <2>2, <2>3
<1>4. CASE Enum!FirstVariant
  <2>1. phase = "dumped" /\ enm.width = 0 /\ Enum!Found(1)
    BY <1>4 DEF Enum!FirstVariant
  <2>2. QED
    BY <1>3, <2>1, EnumFinds
<1>5. CASE Enum!find_variant
  <2>1. phase = "dumped" /\ enm.kind = "TaggedUnion" /\ enm.width > 0 /\ pos < Len(enm.values)
    BY <1>5 DEF Enum!find_variant
  <2>2. pos \in Nat /\ pos + 1 \in DOMAIN enm.values
    BY <1>2, <2>1 DEF EnumInv
  <2>3. CASE Enum!Matches(pos + 1)
    <3>1. Enum!Found(pos + 1)
      BY <1>5, <2>3 DEF Enum!find_variant
    <3>2. PICK x \in enm.values[pos + 1] : Enum!Equal(x)
      BY <2>3 DEF Enum!Matches
    <3>3. pos + 1 = stored \/ Enum!FormOf(x) < enm.width
      BY <2>1, <2>2, <3>2, OnlyStored
    <3>4. pos + 1 # Enum!None
      BY <2>2 DEF Enum!None
    <3>5. QED
      BY <2>1, <2>2, <3>1, <3>2, <3>3, <3>4, EnumFinds
  <2>4. CASE ~ Enum!Matches(pos + 1)
    <3>1. pos' = pos + 1 /\ UNCHANGED <<enm, stored, bytes, variant, phase>>
      BY <1>5, <2>4 DEF Enum!find_variant
    <3>2. StoredInEnum' /\ \A j : Enum!Matches(j)' <=> Enum!Matches(j)
      BY <3>1, EnumStill
    <3>3. \A j \in 1 .. pos' : ~ Enum!Matches(j)
      <4>1. \A j \in 1 .. pos + 1 : j \in 1 .. pos \/ j = pos + 1
        BY <2>2
      <4>2. QED
        BY <2>4, <3>1, <4>1 DEF EnumInv
    <3>4. Enum!VariantFound'
      BY <2>1, <3>1 DEF Enum!VariantFound
    <3>5. pos' \in 0 .. Len(enm'.values) /\ enm'.width > 0
      BY <1>2, <2>1, <2>2, <3>1
    <3>6. variant' \in {Enum!None'} \cup DOMAIN enm'.values
      BY <3>1 DEF EnumInv, Enum!None
    <3>7. QED
      BY <2>1, <3>1, <3>2, <3>3, <3>4, <3>5, <3>6 DEF EnumInv, Enum!None
  <2>5. QED
    BY <2>3, <2>4
<1>6. CASE Enum!NoMatch
  <2>1. phase = "dumped" /\ enm.kind = "TaggedUnion" /\ pos = Len(enm.values)
    BY <1>6 DEF Enum!NoMatch
  <2>2. stored \in DOMAIN enm.values /\ stored # Enum!None
    BY <1>1, <2>1 DEF EnumInv, StoredInEnum
  <2>3. enm.width > 0
    <3>1. Len(enm.values) > 0
      BY <1>2, <2>2
    <3>2. QED
      BY <2>1, <3>1 DEF EnumInv
  <2>4. enm.values[stored] = {}
    <3>1. stored \in 1 .. pos
      BY <1>2, <2>1, <2>2
    <3>2. ~ Enum!Matches(stored)
      BY <3>1 DEF EnumInv
    <3>3. QED
      BY <2>2, <2>3, <3>2, StoredMatches
  <2>5. \A w \in DOMAIN enm.values : enm.values[w] = {} => w = stored
    <3>1. \A w \in DOMAIN enm.values : w # stored => enm.values[w] \cup enm.values[stored] # {}
      BY <1>1, <2>2, EnumFacts
    <3>2. QED
      BY <2>4, <3>1
  <2>6. Enum!Default = {stored}
    BY <2>2, <2>4, <2>5 DEF Enum!Default
  <2>7. Enum!Found(stored)
    <3>1. (CHOOSE w \in {stored} : \A j \in {stored} : w <= j) = stored
      <4>1. stored <= stored
        BY <1>2, <2>2
      <4>2. QED
        BY <4>1
    <3>2. QED
      BY <1>6, <2>6, <3>1 DEF Enum!NoMatch
  <2>8. QED
    BY <1>1, <2>1, <2>7, EnumFinds
<1>7. CASE Enum!opt_read
  <2>1. phase = "dumped" /\ enm.kind = "mrustc"
    BY <1>7 DEF Enum!opt_read
  <2>2. PICK tag \in 0 .. Enum!Pow[enm.width] - 1 :
          /\ \A k \in 0 .. enm.width - 1 : Enum!Encoded(tag, enm.width)[k] = bytes[k]
          /\ Enum!Found(Enum!FieldOf(tag))
    BY <1>7 DEF Enum!opt_read
  <2>3. PICK v \in Values : ValueInMemory(v)
    BY StoredBytes DEF EnumInv
  <2>4. tag = v
    <3>1. \A k \in 0 .. enm.width - 1 : Enum!Encoded(tag, enm.width)[k] = (tag \div Enum!Pow[k]) % B
      BY DEF Enum!Encoded
    <3>2. v \in 0 .. Enum!Pow[enm.width] - 1 /\ \A k \in 0 .. enm.width - 1 : (tag \div Enum!Pow[k]) % B = (v \div Enum!Pow[k]) % B
      BY <2>2, <2>3, <3>1 DEF ValueInMemory
    <3>3. enm.width \in Nat /\ tag \in 0 .. Enum!Pow[enm.width] - 1
      BY <1>2
    <3>4. QED
      BY <3>2, <3>3, SameValue
  <2>5. tag = stored
    <3>1. CASE stored = Enum!None
      BY <2>3, <2>4, <3>1 DEF Values, Enum!None
    <3>2. CASE stored # Enum!None
      <4>1. stored \in DOMAIN enm.values /\ enm.values[stored] = {stored}
        BY <1>1, <1>2, <2>1, <3>2
      <4>2. v \in {stored}
        BY <2>3, <3>2, <4>1 DEF Values
      <4>3. QED
        BY <2>4, <4>2
    <3>3. QED
      BY <3>1, <3>2
  <2>6. Enum!FieldOf(tag) = stored
    BY <1>1, <1>2, <2>5 DEF Enum!FieldOf, Enum!None
  <2>7. QED
    BY <1>1, <2>1, <2>2, <2>6, EnumFinds
<1>8. QED
  BY <1>4, <1>5, <1>6, <1>7 DEF Enum!Handler

LEMMA EnumTypes == EnumInv => Enum!TypeOK
<1> SUFFICES ASSUME EnumInv PROVE Enum!TypeOK
  OBVIOUS
<1>1. PICK v \in Values : ValueInMemory(v)
  BY StoredBytes DEF EnumInv
<1>2. QED
  BY <1>1 DEF EnumInv, StoredInEnum, ValueInMemory, Enum!TypeOK

LEMMA EnumAbstracts ==
    ASSUME which = "Enum", which' = which, given = <<>>, given' = given, EnumInv, Enum!Program \/ Enum!Dump \/ Enum!Handler
    PROVE  [Contents!Next]_(Contents!vars)
<1>1. Elements = {} /\ Whole = TRUE /\ Given = given /\ Stage = phase
  BY DEF Elements, Whole, Given, Stage
<1>2. Elements' = {} /\ Whole' = TRUE /\ Given' = given' /\ Stage' = phase'
  BY DEF Elements, Whole, Given, Stage
<1>3. CASE Enum!Program
  <2>1. phase = "running" /\ phase' = phase
    BY <1>3, EnumProgram
  <2>2. QED
    BY <1>1, <1>2, <2>1 DEF Contents!Next, Contents!Change
<1>4. CASE Enum!Dump
  <2>1. phase = "running" /\ phase' = "dumped"
    BY <1>4, EnumDump
  <2>2. QED
    BY <1>1, <1>2, <2>1 DEF Contents!Next, Contents!Dump
<1>5. CASE Enum!Handler
  <2>1. phase = "dumped" /\ phase' \in {"dumped", "over"}
    BY <1>5, EnumHandler
  <2>2. CASE phase' = "dumped"
    BY <1>1, <1>2, <2>1, <2>2 DEF Contents!vars
  <2>3. CASE phase' = "over"
    <3>1. Contents!Range(Given) = Elements
      BY <1>1 DEF Contents!Range
    <3>2. QED
      BY <1>1, <1>2, <2>1, <2>3, <3>1 DEF Contents!Next, Contents!Finish
  <2>4. QED
    BY <2>1, <2>2, <2>3
<1>6. QED
  BY <1>3, <1>4, <1>5

-----------------------------------------------------------------------------
(* All of them: the one that is visited keeps its invariant, and the others *)
(* do not move.                                                             *)
AllInv ==
    /\ which \in {"CppMap", "HashMap", "CppUnorderedMap", "Vector", "Enum"}
    /\ IF which = "CppMap" THEN Inv ELSE visited = <<>> /\ status = "done"
    /\ which = "HashMap" => HashInv
    /\ which = "CppUnorderedMap" => ListInv
    /\ which = "Vector" => VectorInv
    /\ which = "Enum" => EnumInv /\ given = <<>>

LEMMA AllInit == Start => AllInv
<1> SUFFICES ASSUME Start PROVE AllInv
  OBVIOUS
<1>1. which \in {"CppMap", "HashMap", "CppUnorderedMap", "Vector", "Enum"} /\ HashMap!Init /\ CppUnorderedMap!Init
  BY DEF Start
<1>2. which = "CppMap" => Inv
  BY InitInv DEF Start
<1>3. which # "CppMap" => visited = <<>> /\ status = "done"
  BY DEF Start, NoTree
<1>4. HashInv /\ ListInv /\ given = <<>>
  BY <1>1, HashInit, ListInit DEF HashMap!Init
<1>5. (which = "Vector" => VectorInv) /\ (which = "Enum" => EnumInv)
  BY VectorInit, EnumInit DEF Start
<1>6. QED
  BY <1>1, <1>2, <1>3, <1>4, <1>5 DEF AllInv

LEMMA HashStutters == ASSUME HashInv, UNCHANGED HashMap!vars PROVE HashInv'
<1>1. UNCHANGED HashMap!program /\ UNCHANGED <<n_buckets, ctrl_start, data_end, given, phase, ctrl, bucket_mask, known>>
  BY DEF HashMap!vars, HashMap!program, HashMap!handler
<1>2. /\ HashTable' /\ Entered' /\ HashMap!Occupied' = HashMap!Occupied
      /\ \A b : HashMap!Bucket(b)' = HashMap!Bucket(b)
      /\ HashMap!Places' = HashMap!Places
  BY <1>1, HashStill
<1>3. InTable => InTable'
  BY <1>1, <1>2 DEF InTable, VisitedIn, Passed
<1>4. QED
  BY <1>1, <1>2, <1>3 DEF HashInv

LEMMA ListStutters == ASSUME ListInv, UNCHANGED CppUnorderedMap!vars PROVE ListInv'
<1>1. PICK s : IsList(s) /\ Counted(s) /\ At(s)
  BY DEF ListInv
<1>2. UNCHANGED <<before_begin, next, element_count, counted, lost, node, i, max, given, phase>>
  BY DEF CppUnorderedMap!vars
<1>3. \A k : Follows(s, k)' = Follows(s, k)
  BY DEF Follows
<1>4. IsList(s)' /\ Counted(s)'
  BY <1>1, <1>2, <1>3 DEF IsList, Counted
<1>5. At(s)'
  BY <1>1, <1>2, <1>3 DEF At, Along, Unread, CppUnorderedMap!Places, CppUnorderedMap!Null
<1>6. QED
  BY <1>4, <1>5 DEF ListInv

LEMMA EnumStutters == ASSUME EnumInv, UNCHANGED Enum!vars PROVE EnumInv'
<1>1. UNCHANGED <<enm, stored, bytes, pos, variant, phase>>
  BY DEF Enum!vars
<1>2. /\ StoredInEnum' /\ (\A v : Enum!FormOf(v)' = Enum!FormOf(v)) /\ (\A w : Enum!Matches(w)' <=> Enum!Matches(w))
      /\ \A v : Enum!Equal(v)' <=> Enum!Equal(v)
  BY <1>1, EnumStill
<1>3. Enum!VariantFound'
  BY <1>1, <1>2 DEF EnumInv, Enum!VariantFound, Enum!None
<1>4. (\A j \in 1 .. pos : ~ Enum!Matches(j))'
  BY <1>1, <1>2 DEF EnumInv
<1>5. QED
  BY <1>1, <1>2, <1>3, <1>4 DEF EnumInv, Enum!None

LEMMA VectorStutters == ASSUME VectorInv, UNCHANGED Vector!vars PROVE VectorInv'
<1>1. /\ UNCHANGED Vector!program
      /\ UNCHANGED <<kind, size, known, block, len, cap, words, todo, begin, end, alloc_end, cursor, lost, claims, given, phase>>
  BY DEF Vector!vars, Vector!program
<1>2. Written' /\ Vector!Items' = Vector!Items /\ Vector!Parts' = Vector!Parts
  BY <1>1, VectorStill DEF VectorInv
<1>3. (Vector!Mixed' <=> Vector!Mixed) /\ (Vector!PanicsOnlyWithCause' <=> Vector!PanicsOnlyWithCause)
  BY <1>1 DEF Vector!Mixed, Vector!PanicsOnlyWithCause, Vector!Null
<1>4. (ReadWords => ReadWords') /\ (Looped => Looped') /\ (Fresh => Fresh') /\ (StringDone => StringDone')
  BY <1>1, <1>3 DEF ReadWords, Looped, Fresh, StringDone, Iterated
<1>5. Handled'
  BY <1>1, <1>2, <1>3, <1>4 DEF VectorInv, Handled, Iterated
<1>6. QED
  BY <1>2, <1>5 DEF VectorInv

LEMMA AllNext == AllInv /\ [Move]_all_vars => AllInv'
<1> SUFFICES ASSUME AllInv, [Move]_all_vars PROVE AllInv'
  OBVIOUS
<1>1. which' = which
  BY DEF Move, Program, Analyse, no_map, no_hash, no_list, no_vector, no_enum, all_vars
<1>2. CASE which = "CppMap"
  <2>1. [Next]_vars
    BY <1>2 DEF Move, Program, Analyse, all_vars
  <2>2. Inv'
    BY <1>2, <2>1, NextInv DEF AllInv
  <2>3. QED
    BY <1>1, <1>2, <2>2 DEF AllInv
<1>3. CASE which # "CppMap"
  <2>1. UNCHANGED vars
    BY <1>3 DEF Move, Program, Analyse, no_map, no_hash, no_list, no_vector, no_enum, all_vars
  <2>2. visited' = <<>> /\ status' = "done"
    BY <1>3, <2>1 DEF AllInv, vars
  <2>3. CASE which = "HashMap"
    <3>1. HashInv
      BY <2>3 DEF AllInv
    <3>2. HashMap!Program \/ HashMap!opt_read \/ HashMap!Handler \/ UNCHANGED HashMap!vars
      BY <2>3 DEF Move, Program, Analyse, all_vars, hash_vars, HashMap!vars
    <3>3. HashInv'
      BY <3>1, <3>2, HashProgram, HashHandler, HashStutters
    <3>4. QED
      BY <1>1, <2>2, <2>3, <3>3 DEF AllInv
  <2>4. CASE which = "CppUnorderedMap"
    <3>1. ListInv
      BY <2>4 DEF AllInv
    <3>2. CppUnorderedMap!Program \/ CppUnorderedMap!opt_read \/ CppUnorderedMap!Handler \/ UNCHANGED CppUnorderedMap!vars
      BY <2>4 DEF Move, Program, Analyse, all_vars, list_vars, CppUnorderedMap!vars
    <3>3. ListInv'
      BY <3>1, <3>2, ListProgram, ListHandler, ListStutters
    <3>4. QED
      BY <1>1, <2>2, <2>4, <3>3 DEF AllInv
  <2>5. CASE which = "Vector"
    <3>1. VectorInv
      BY <2>5 DEF AllInv
    <3>2. Vector!Program \/ Vector!opt_read \/ Vector!Handler \/ UNCHANGED Vector!vars
      BY <2>5 DEF Move, Program, Analyse, all_vars, vector_vars, Vector!vars
    <3>3. VectorInv'
      BY <3>1, <3>2, VectorProgram, VectorRead, VectorHandler, VectorStutters
    <3>4. QED
      BY <1>1, <2>2, <2>5, <3>3 DEF AllInv
  <2>6. CASE which = "Enum"
    <3>1. EnumInv /\ given = <<>>
      BY <2>6 DEF AllInv
    <3>2. (Enum!Program \/ Enum!Dump \/ Enum!Handler \/ UNCHANGED Enum!vars) /\ given' = given
      BY <2>6 DEF Move, Program, Analyse, no_enum, all_vars, variant_vars, Enum!vars
    <3>3. EnumInv'
      BY <3>1, <3>2, EnumProgram, EnumDump, EnumHandler, EnumStutters
    <3>4. QED
      BY <1>1, <2>2, <2>6, <3>1, <3>2, <3>3 DEF AllInv
  <2>7. QED
    BY <1>3, <2>3, <2>4, <2>5, <2>6 DEF AllInv
<1>4. QED
  BY <1>2, <1>3

LEMMA AllHolds == ContainersSpec => []AllInv
BY AllInit, AllNext, PTL DEF ContainersSpec

LEMMA AllFacts ==
    ASSUME AllInv
    PROVE  ContainerTypeOK /\ InKeyOrder /\ ClaimsAreExact /\ StopsOnlyWithCause /\ VariantFound
<1>1. which = "CppMap" => TypeOK /\ NeverNil
  BY DEF AllInv, Inv
<1>2. which = "HashMap" => HashMap!TypeOK /\ HashMap!EveryEntryOnce /\ HashMap!StopsOnlyWithCause
  BY HashFacts DEF AllInv
<1>3. which = "CppUnorderedMap" => CppUnorderedMap!TypeOK /\ CppUnorderedMap!NeverPanics
  BY ListTypes DEF AllInv
<1>4. which = "Vector" => Vector!TypeOK /\ Vector!EveryByteOnce /\ Vector!FailsOnlyWithCause /\ Vector!PanicsOnlyWithCause
  BY VectorTypes, VectorClaims, VectorCauses DEF AllInv
<1>5. which = "Enum" => Enum!TypeOK /\ Enum!VariantFound
  BY EnumTypes DEF AllInv, EnumInv
<1>6. which \in {"CppMap", "HashMap", "CppUnorderedMap", "Vector", "Enum"}
  BY DEF AllInv
<1>7. ContainerTypeOK
  BY <1>1, <1>2, <1>3, <1>4, <1>5, <1>6 DEF ContainerTypeOK
<1>8. InKeyOrder
  BY DEF AllInv, Inv, InKeyOrder
<1>9. QED
  BY <1>1, <1>2, <1>3, <1>4, <1>5, <1>7, <1>8 DEF ClaimsAreExact, StopsOnlyWithCause, VariantFound

(* All that the handlers and their containers hold is of its type, for      *)
(* every container and every enum (main.rs:499-640, 746-795).               *)
THEOREM ContainersTypeOK == ContainersSpec => []ContainerTypeOK
BY AllHolds, AllFacts, PTL

(* For every container that is whole in the dump, taken between two of the  *)
(* program's operations, or inside one of a Vec or a String: what is        *)
(* claimed is what the container owns (rust.rs:162, main.rs:504-548, 646).  *)
THEOREM ContainersClaimsAreExact == ContainersSpec => []ClaimsAreExact
BY AllHolds, AllFacts, PTL

(* For every container, whatever of it the dump has, and whether or not the *)
(* type of its items is found and has a size: a visit stops before its end  *)
(* only for one of the causes listed (main.rs:499-596, 908, rust.rs:91,     *)
(* 135, mrustc.rs:108).                                                     *)
THEOREM ContainersStopOnlyWithCause == ContainersSpec => []StopsOnlyWithCause
BY AllHolds, AllFacts, PTL

(* For every tree: the walk is in the order of the keys, also next to the   *)
(* other handlers (gnu_std_cxx.rs:218-244).                                 *)
THEOREM ContainersInKeyOrder == ContainersSpec => []InKeyOrder
BY AllHolds, AllFacts, PTL

(* For every enum whose values have a form as wide as the discriminant, for *)
(* every tagged union of mrustc, and every payload, the variant found is    *)
(* the one stored; for an enum with a value of a shorter form, the one      *)
(* stored, or one whose shorter value the low bytes are                     *)
(* (main.rs:766-795, mrustc.rs:6-51).                                       *)
THEOREM ContainersVariantFound == ContainersSpec => []VariantFound
BY AllHolds, AllFacts, PTL

-----------------------------------------------------------------------------
LEMMA AllBegin == Start => Contents!Init
<1> SUFFICES ASSUME Start PROVE Contents!Init
  OBVIOUS
<1>1. AllInv
  BY AllInit
<1>2. HashMap!Init /\ CppUnorderedMap!Init
  BY DEF Start
<1>3. CASE which = "CppMap"
  <2>1. Elements = Nodes(tree) /\ Given = (IF count > tree.n THEN <<>> ELSE visited)
        /\ Stage = (IF status \in {"done", "err"} THEN "over" ELSE "dumped")
        /\ Whole = (count = tree.n /\ mapped = Nodes(tree) \cup {Header(tree)})
    BY <1>3 DEF Elements, Whole, Given, Stage
  <2>2. Init
    BY <1>3 DEF Start
  <2>3. Nodes(tree) \subseteq Nat
    BY DEF Nodes
  <2>4. QED
    BY <2>1, <2>2, <2>3 DEF Contents!Init, Init
<1>4. CASE which = "HashMap"
  <2>1. /\ Elements = {HashMap!Bucket(b) : b \in HashMap!Occupied} /\ Given = given
        /\ Whole = (ctrl # EmptyGroup \/ EmptyGroupDumped)
        /\ Stage = CASE phase = "failed" -> "over" [] phase = "panicked" -> "dumped" [] OTHER -> phase
    BY <1>4 DEF Elements, Whole, Given, Stage, HashMap!Elements, HashMap!Whole, HashMap!Stage
  <2>2. Elements \subseteq Nat
    BY <1>1, <1>4, <2>1, HashInMemory DEF AllInv, InMemory
  <2>3. QED
    BY <1>2, <2>1, <2>2, SizesOK DEF Contents!Init, HashMap!Init
<1>5. CASE which = "CppUnorderedMap"
  <2>1. /\ Elements = {n + DataOfs : n \in DOMAIN next} /\ Whole = (lost = {}) /\ Given = given
        /\ Stage = IF phase \in {"failed", "panicked"} THEN "over" ELSE phase
    BY <1>5 DEF Elements, Whole, Given, Stage, CppUnorderedMap!Elements, CppUnorderedMap!Whole, CppUnorderedMap!Stage, CppUnorderedMap!Linked
  <2>2. Elements = {}
    BY <1>2, <2>1 DEF CppUnorderedMap!Init
  <2>3. QED
    BY <1>2, <2>1, <2>2 DEF Contents!Init, CppUnorderedMap!Init
<1>6. CASE which = "Vector"
  <2>1. /\ Elements = Vector!Elements /\ Whole = (todo = <<>> /\ lost = {})
        /\ Given = (IF Vector!Mixed THEN <<>> ELSE given)
        /\ Stage = CASE phase \in {"read", "failing", "panicked"} -> "dumped" [] phase = "failed" -> "over" [] OTHER -> phase
    BY <1>6 DEF Elements, Whole, Given, Stage, Vector!Whole, Vector!Given, Vector!Stage
  <2>2. Written
    BY <1>1, <1>6 DEF AllInv, VectorInv
  <2>3. Elements \subseteq Nat
    BY <2>1, <2>2, VectorItems DEF ItemsInMemory, Vector!Elements
  <2>4. QED
    BY <1>2, <2>1, <2>3 DEF Contents!Init, HashMap!Init
<1>7. CASE which = "Enum"
  <2>1. Elements = {} /\ Whole = TRUE /\ Given = given /\ Stage = phase
    BY <1>7 DEF Elements, Whole, Given, Stage
  <2>2. QED
    BY <1>2, <2>1 DEF Contents!Init, HashMap!Init
<1>8. QED
  BY <1>1, <1>3, <1>4, <1>5, <1>6, <1>7 DEF AllInv

LEMMA AllStutters == UNCHANGED all_vars => UNCHANGED Contents!vars
<1> SUFFICES ASSUME UNCHANGED all_vars PROVE UNCHANGED Contents!vars
  OBVIOUS
<1>1. /\ which' = which /\ UNCHANGED vars /\ UNCHANGED hash_vars /\ UNCHANGED list_vars /\ UNCHANGED vector_vars
      /\ UNCHANGED variant_vars /\ lost' = lost /\ given' = given /\ phase' = phase
  BY DEF all_vars
<1>2. HashMap!Elements' = HashMap!Elements /\ HashMap!Whole' = HashMap!Whole /\ HashMap!Stage' = HashMap!Stage
  <2>1. UNCHANGED <<tags, ctrl, bucket_mask>>
    BY <1>1 DEF hash_vars
  <2>2. HashMap!Table' = HashMap!Table /\ (\A b : HashMap!Bucket(b)' = HashMap!Bucket(b)) /\ (\A b : HashMap!Tag(b)' = HashMap!Tag(b))
    BY <2>1 DEF HashMap!Table, HashMap!Bucket, HashMap!Tag
  <2>3. HashMap!Occupied' = HashMap!Occupied
    BY <2>2 DEF HashMap!Occupied, HashMap!Full
  <2>4. HashMap!Elements' = HashMap!Elements
    BY <2>2, <2>3 DEF HashMap!Elements
  <2>5. QED
    BY <1>1, <2>1, <2>4 DEF HashMap!Whole, HashMap!Stage
<1>3. /\ CppUnorderedMap!Elements' = CppUnorderedMap!Elements /\ CppUnorderedMap!Whole' = CppUnorderedMap!Whole
      /\ CppUnorderedMap!Stage' = CppUnorderedMap!Stage
  BY <1>1 DEF list_vars, CppUnorderedMap!Elements, CppUnorderedMap!Whole, CppUnorderedMap!Stage, CppUnorderedMap!Linked
<1>4. Vector!Elements' = Vector!Elements /\ Vector!Whole' = Vector!Whole /\ Vector!Given' = Vector!Given /\ Vector!Stage' = Vector!Stage
  BY <1>1 DEF vector_vars, Vector!Elements, Vector!Whole, Vector!Given, Vector!Stage, Vector!Items, Vector!Mixed
<1>5. Elements' = Elements /\ Whole' = Whole
  BY <1>1, <1>2, <1>3, <1>4 DEF vars, Elements, Whole, Nodes, Header
<1>6. Given' = Given /\ Stage' = Stage
  BY <1>1, <1>2, <1>3, <1>4 DEF vars, Given, Stage
<1>7. QED
  BY <1>5, <1>6 DEF Contents!vars

LEMMA AllAbstracts == AllInv /\ [Move]_all_vars => [Contents!Next]_(Contents!vars)
<1> SUFFICES ASSUME AllInv, Move PROVE [Contents!Next]_(Contents!vars)
  BY AllStutters
<1>1. which' = which
  BY DEF Move, Program, Analyse, no_map, no_hash, no_list, no_vector, no_enum
<1>2. CASE which = "CppMap"
  BY <1>1, <1>2, TreeAbstracts DEF AllInv, Move, Program, Analyse
<1>3. CASE which = "HashMap"
  <2>1. HashInv /\ (HashMap!Program \/ HashMap!opt_read \/ HashMap!Handler)
    BY <1>3 DEF AllInv, Move, Program, Analyse
  <2>2. QED
    BY <1>1, <1>3, <2>1, HashAbstracts
<1>4. CASE which = "CppUnorderedMap"
  <2>1. ListInv /\ (CppUnorderedMap!Program \/ CppUnorderedMap!opt_read \/ CppUnorderedMap!Handler)
    BY <1>4 DEF AllInv, Move, Program, Analyse
  <2>2. QED
    BY <1>1, <1>4, <2>1, ListAbstracts
<1>5. CASE which = "Vector"
  <2>1. VectorInv /\ (Vector!Program \/ Vector!opt_read \/ Vector!Handler)
    BY <1>5 DEF AllInv, Move, Program, Analyse
  <2>2. QED
    BY <1>1, <1>5, <2>1, VectorAbstracts
<1>6. CASE which = "Enum"
  <2>1. EnumInv /\ given = <<>> /\ given' = given /\ (Enum!Program \/ Enum!Dump \/ Enum!Handler)
    BY <1>6 DEF AllInv, Move, Program, Analyse, no_enum
  <2>2. QED
    BY <1>1, <1>6, <2>1, EnumAbstracts
<1>7. QED
  BY <1>2, <1>3, <1>4, <1>5, <1>6 DEF AllInv

(* Every container implements Iteration: in a dump taken between any two    *)
(* steps of the program, each element is visited once and nothing else      *)
(* (main.rs:534-611).                                                       *)
THEOREM ContainersImplementIteration == ContainersSpec => ImplementsIteration
<1>1. ContainersSpec => Contents!Init /\ [][Contents!Next]_(Contents!vars)
  BY AllBegin, AllHolds, AllAbstracts, PTL DEF ContainersSpec
<1>2. QED
  BY <1>1, PTL DEF ImplementsIteration, Contents!Spec
=============================================================================
