----------------------------- MODULE OutputLog ------------------------------
(***************************************************************************)
(* Output with the claims made so far kept in a history variable: the      *)
(* tables the report prints against what a reader would compute from that  *)
(* history.                                                                *)
(***************************************************************************)
EXTENDS Output

VARIABLE log      \* the claims made, in order

logvars == <<vars, log>>

Typed(path, addr, ty, size) ==
    [path |-> path, addr |-> addr, ty |-> ty, size |-> size, assoc |-> TRUE]
Raw(path, addr, size, assoc) ==
    [path |-> path, addr |-> addr, ty |-> "raw", size |-> size, assoc |-> assoc]

LogInit == Init /\ log = <<>>

LogRaw ==
    \E path \in Paths, addr \in Addrs, size \in Sizes, assoc \in BOOLEAN :
        /\ \/ ClaimRaw(path, addr, size, assoc)
           \/ ~assoc /\ InsertAndClaimRaw(path, addr, size)
        /\ log' = Append(log, Raw(path, addr, size, assoc))
LogTyped ==
    \E path \in Paths, addr \in Addrs, size \in Sizes, ty \in Types :
        /\ \/ Claim(path, addr, ty, size)
           \/ InsertAndClaim(path, addr, ty, size)
        /\ log' = Append(log, Typed(path, addr, ty, size))

(* The operations that claim nothing.                                       *)
LogNothing ==
    /\ \/ \E addr \in Addrs : InsertShared(addr)
       \/ \E enm \in Types, variant \in Node : CountVariant(enm, variant)
    /\ UNCHANGED log

LogNext == LogRaw \/ LogTyped \/ LogNothing

LogSpec == LogInit /\ [][LogNext]_logvars

-----------------------------------------------------------------------------
(* What a claim adds to a path: its size if it is an associated claim at or *)
(* below the path, and the path has a line of its own.                      *)
Below(path, p) == Len(p) <= Len(path) /\ \A n \in DOMAIN p : path[n] = p[n]
CountsAt(p, c) == c.assoc /\ Len(p) <= PREFIX_LEVELS /\ Below(c.path, p)
Parts(claims, p) ==
    [i \in DOMAIN claims |-> IF CountsAt(p, claims[i]) THEN claims[i].size ELSE 0]
SumOf(v) == LET sum[n \in 0 .. Len(v)] == IF n = 0 THEN 0 ELSE sum[n - 1] + v[n] IN sum[Len(v)]

(* The usage of a path is what `du` would print for it (main.rs:366): the   *)
(* sizes of all the associated claims made at or below the path, for the    *)
(* empty path and for every path down to the fourth level, whatever the     *)
(* order of the claims (claim_raw, main.rs:418-446).                        *)
UsageIsDu ==
    \A p \in Paths \cup {<<>>} \cup DOMAIN usage :
        IF \E i \in DOMAIN log : CountsAt(p, log[i])
          THEN p \in DOMAIN usage /\ usage[p] = SumOf(Parts(log, p))
          ELSE p \notin DOMAIN usage

(* Every byte of every claim is covered by the bitmap (mark_area,           *)
(* main.rs:315-335), and no bit is set further than one atom away from a    *)
(* claim, as long as the area ends inside the address space.                *)
Inside(c) == c.addr + c.size + COVERAGE_PER_BIT <= U64
Touches(a, c) ==
    /\ a * COVERAGE_PER_BIT < c.addr + c.size + COVERAGE_PER_BIT
    /\ (a + 1) * COVERAGE_PER_BIT > c.addr
CoverageIsUnionOfClaims ==
    /\ \A i \in DOMAIN log : Inside(log[i]) =>
          \A b \in log[i].addr .. log[i].addr + log[i].size - 1 :
             b \div COVERAGE_PER_BIT \in used_memory
    /\ \A a \in used_memory : \E i \in DOMAIN log : Touches(a, log[i])
=============================================================================
