---------------------------- MODULE MCStackWalk ----------------------------
(***************************************************************************)
(* Stacks of a small program for StackWalk: `start` calls `main`, which    *)
(* calls `f`, `g` and `lib`, which call each other.  What each activation  *)
(* has is worked out from the calls, not from the unwind tables.           *)
(***************************************************************************)
EXTENDS StackWalk, SequencesExt

RBX == 3
RBP == 6
Top == 40
RegistersUsed == {RBX, RBP, RSP, PC}

Rule1(kind, n) == [kind |-> kind, n |-> n]
RowOf(reg, n, rules) == [cfa |-> [reg |-> reg, n |-> n], rules |-> (PC :> Rule1("Offset", -1)) @@ rules]
At(op, reg, n, deref) == [op |-> op, reg |-> reg, n |-> n, deref |-> deref]
Saved == Rule1("Offset", -2)
OfCfa == At("cfa", RSP, 0, FALSE)

(* The code: `main` and `g` keep a frame pointer, `f` pushes RBX only, and  *)
(* `lib` has neither a symbol nor a function.                               *)
Code == [start |-> 1..3, main |-> 4..11, f |-> 12..17, g |-> 18..22, lib |-> 23..24, jit |-> 30..30]
NameAt(pc) == CHOOSE c \in DOMAIN Code : pc \in Code[c]
Framed(pc) == pc \in 6..10 \cup 20..21
SizeAt(pc) ==
    CASE pc \in Code.start -> 0
      [] pc \in {5, 13, 19} -> 2
      [] pc \in 6..10 -> 4
      [] pc \in 14..15 \cup 20..21 -> 3
      [] OTHER -> 1

StartRow == [cfa |-> [reg |-> RSP, n |-> 0], rules |-> (PC :> Rule1("Undefined", 0))]
FirstFile ==
    [pc \in 1..17 |->
        IF pc \in Code.start THEN StartRow
        ELSE IF Framed(pc) THEN RowOf(RBP, 2, RBP :> Saved)
        ELSE IF pc = 5 THEN RowOf(RSP, 2, RBP :> Saved)
        ELSE IF pc \in 13..15 THEN RowOf(RSP, SizeAt(pc), (RBX :> Saved) @@ (RBP :> Rule1("SameValue", 0)))
        ELSE RowOf(RSP, 1, RSP :> Rule1("ValOffset", 0))]
SecondFile ==
    [pc \in 18..24 |->
        IF Framed(pc) THEN RowOf(RBP, 2, RBP :> Saved)
        ELSE RowOf(RSP, SizeAt(pc), IF pc = 19 THEN RBP :> Saved ELSE RBX :> Rule1("SameValue", 0))]
UnwindTables == <<FirstFile, SecondFile>>
SymbolTable == [pc \in 1..22 |-> NameAt(pc)]

Fn(name, frame_base, variables) ==
    [name |-> name, pc_range |-> {<<CHOOSE p \in Code[name] : p - 1 \notin Code[name],
                                    1 + CHOOSE p \in Code[name] : p + 1 \notin Code[name]>>},
     frame_base |-> frame_base, variables |-> variables]
Range1(lo, hi, position) == [pc_range |-> {<<lo, hi>>}, position |-> position]
Var(ranges) == [ranges |-> ranges]
\* Two blocks of `main` have an x each.
FunctionRecords == {
    Fn("main", OfCfa, ("x" :> Var(<<Range1(6, 8, At("fbreg", RSP, -3, FALSE)), Range1(8, 10, At("fbreg", RSP, -4, FALSE))>>)) @@
                      ("y" :> Var(<<Range1(4, 12, At("fixed", RSP, 50, FALSE))>>))),
    Fn("f", OfCfa, "z" :> Var(<<Range1(12, 18, At("fbreg", RSP, -3, FALSE))>>)),
    Fn("g", At("reg", RBP, 0, FALSE),
        ("w" :> Var(<<Range1(18, 23, At("fbreg", RSP, -1, FALSE))>>)) @@
        ("r" :> Var(<<Range1(18, 23, At("fbreg", RSP, -1, TRUE))>>)) @@
        ("k" :> Var(<<Range1(18, 23, At("reg", RBX, 0, FALSE))>>)) @@
        ("o" :> Var(<<Range1(18, 23, At("none", RSP, 0, FALSE))>>)))}

-----------------------------------------------------------------------------
(* The stack of a sequence of program counters, outermost first: each call  *)
(* pushes its return address and a register, and has words for its locals.  *)
Locals(name, pc, cfa, k) ==
    CASE name = "main" -> ("y" :> 50) @@ (IF pc \in 6..7 THEN "x" :> cfa - 3
                                           ELSE IF pc \in 8..9 THEN "x" :> cfa - 4 ELSE <<>>)
      [] name = "f" -> "z" :> cfa - 3
      [] name = "g" -> ("w" :> cfa - 3) @@ ("r" :> 60 + k)
      [] OTHER -> <<>>
Push(chain, pc) ==
    LET caller == Head(chain)
        cfa == caller.regs[RSP]
        k   == Len(chain)
        name == NameAt(pc)
        words == <<caller.regs[PC], IF name = "f" THEN caller.regs[RBX] ELSE caller.regs[RBP], 60 + k, 60 + k>>
    IN  <<[regs |-> (RBX :> IF pc \in 14..15 THEN 100 + k ELSE caller.regs[RBX]) @@
                    (RBP :> IF Framed(pc) THEN cfa - 2 ELSE caller.regs[RBP]) @@
                    (RSP :> cfa - SizeAt(pc)) @@ (PC :> pc),
           symbol |-> IF name \in {"lib", "jit"} THEN NoSymbol ELSE name,
           memory |-> [a \in cfa - SizeAt(pc)..cfa - 1 |-> words[cfa - a]] @@ caller.memory,
           locals |-> Locals(name, pc, cfa, k)]>> \o
        \* A caller is in its call, not after it.
        <<[caller EXCEPT !.locals = Locals(caller.symbol, caller.regs[PC] - 1, cfa + SizeAt(caller.regs[PC]), k - 1)]>> \o Tail(chain)
Outside == [regs |-> (RBX :> 7) @@ (RBP :> 0) @@ (RSP :> Top) @@ (PC :> 0), symbol |-> NoSymbol,
            memory |-> <<>>, locals |-> <<>>]

ProcessOf(pcs, args, lost) ==
    LET chain == FoldLeft(Push, <<Outside>>, pcs)
        memory == Head(chain).memory
    IN  [regs |-> Head(chain).regs, memory |-> [a \in DOMAIN memory \ lost |-> memory[a]], args |-> args,
         chain |-> [j \in 1..Len(pcs) |-> [f \in {"regs", "symbol", "locals"} |-> chain[j][f]]],
         complete |-> lost = {} /\ 30 \notin {pcs[k] : k \in DOMAIN pcs}]

Ask(fcn, var) == [fcn |-> fcn, var |-> var]
Questions == {
    <<Ask("main", "x")>>, <<Ask("main", "y"), Ask("f", "z")>>, <<Ask("f", "z"), Ask("main", "x")>>,
    <<Ask("g", "r"), Ask("g", "w")>>, <<Ask("f", "z"), Ask("g", "w")>>, <<Ask("g", "k")>>, <<Ask("g", "o")>>,
    <<Ask("f", "x")>>, <<Ask("start", "x"), Ask("main", "x")>>, <<>>}
Calls(n) == UNION {[1..k -> {15, 21, 24}] : k \in 0..n}
Ends == {4, 5, 8, 11, 12, 13, 14, 17, 20, 23, 30}
Stacks(mains, n) ==
    {<<2>> \o m \o c \o <<e>> : m \in mains, c \in Calls(n), e \in Ends}
\* In these the return addresses are in the blocks of their calls.
Stored ==
    LET stacks == {s \in Stacks({<<7>>, <<9>>}, 2) : s[Len(s)] \notin Code.main} \cup {<<2, e>> : e \in {4, 5, 8, 11}}
        keys == stacks \X Questions \X {{}} \cup
                {s \in stacks : Len(s) = 4 /\ s[2] = 7} \X {<<Ask("main", "x")>>, <<Ask("g", "r"), Ask("g", "w")>>} \X {{a} : a \in 30..39}
    IN  [k \in keys |-> ProcessOf(k[1], k[2], k[3])] @@ <<>>
StackCases == Stored
=============================================================================
