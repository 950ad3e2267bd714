----------------------------- MODULE MCContainers -----------------------------
(***************************************************************************)
(* Every shape of tree of up to MaxItems items with every set of nodes     *)
(* missing from the dump; hash tables of two and of four buckets, of       *)
(* entries of three bytes; lists of up to four nodes; two blocks for up to *)
(* three items or six characters, of a type that the debug information has *)
(* or does not have; enums of up to three variants with a                  *)
(* discriminant of one or two bytes, of two values each.                   *)
(***************************************************************************)
EXTENDS Containers, FiniteSetsExt, TLC

CONSTANTS k1, k2, k3
CONSTANT MaxItems

(* Every shape of search tree is that of the heap of some priorities.       *)
Priorities(n) == {f \in [1 .. n -> 1 .. n] : \A x, y \in 1 .. n : f[x] = f[y] => x = y}
Lo(f, x) == Min({l \in 1 .. x : \A y \in l .. x : f[y] >= f[x]})
Hi(f, x) == Max({h \in x .. Len(f) : \A y \in x .. h : f[y] >= f[x]})
Highest(f, S) == IF S = {} THEN 0 ELSE CHOOSE x \in S : \A y \in S : f[x] <= f[y]
TreeOf(n, f) ==
    LET left  == [x \in 1 .. n |-> Highest(f, Lo(f, x) .. x - 1)]
        right == [x \in 1 .. n |-> Highest(f, x + 1 .. Hi(f, x))]
        above(x) == {y \in 1 .. n : x \in {left[y], right[y]}}
    IN [n |-> n, left |-> left, right |-> right,
        parent |-> [x \in 1 .. n |-> IF above(x) = {} THEN n + 1 ELSE CHOOSE y \in above(x) : TRUE],
        lo |-> [x \in 1 .. n |-> Lo(f, x)], hi |-> [x \in 1 .. n |-> Hi(f, x)],
        root |-> Highest(f, 1 .. n)]
MCTrees == UNION {{TreeOf(n, f) : f \in Priorities(n)} : n \in 0 .. MaxItems}

TableSizes == {2, 4}
CtrlAt == (2 :> 20) @@ (4 :> 60)
NodeAddrs == {10, 20, 30, 40}

SizesOf ==
    [c \in {"std::vector", "Vec", "ThinVector", "String", "std::string"} |->
        CASE c \in {"std::vector", "ThinVector"} -> {6, 8, 24}
          [] c = "Vec" -> {0, 8}
          [] OTHER -> {1}]
AllKinds == DOMAIN SizesOf

Values(w) == {{}} \cup {{v} : v \in 0..2^w - 1}
Different(f) == \A a, b \in DOMAIN f : a # b => f[a] # f[b]
RustEnums ==
    UNION {[kind : {"TaggedUnion"}, width : {w}, smallest : BOOLEAN, values : {f \in [1..n -> Values(w)] : Different(f)}] :
              w \in {1, 2}, n \in 1..3}
Unions == {[kind |-> "mrustc", width |-> 2, smallest |-> FALSE, values |-> [v \in 1..n |-> {v}]] : n \in 1..3}
NoDiscriminant == [kind |-> "TaggedUnion", width |-> 0, smallest |-> FALSE, values |-> <<{}>>]
SmallEnums == RustEnums \cup Unions \cup {NoDiscriminant}
=============================================================================
