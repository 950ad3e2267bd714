------------------------------ MODULE StackWalk ------------------------------
(***************************************************************************)
(* The loop over the call frames (src/src/main.rs, 110-146): get_caller    *)
(* recovers the registers of each caller from the unwind tables and the    *)
(* stack, get_variable evaluates where a variable is (src/src/debug_info/  *)
(* dwarf.rs, 216-360, 453-459).  The unwind rows and the positions are     *)
(* what gimli makes of the files; addresses count words of the stack.      *)
(***************************************************************************)
EXTENDS Integers, Sequences, FiniteSets

CONSTANTS
    Unwind,     \* the rows of the unwind tables of each file, by the PC
    Functions,  \* the function records
    Symbols,    \* the symbol that holds a PC
    Processes,  \* of each process: the registers, the memory, the command line
    Registers,  \* the registers that matter, by their DWARF numbers
    NoSymbol    \* no symbol

VARIABLES
    process,
    state,      \* the registers of the frame reached
    frame,      \* history: how far from the innermost, up to the end
    arg,        \* the requested variable reached
    visited,    \* the requested variables marked visited
    located,    \* history: the visits, as in Backtrace
    loop        \* "running", "done" or "panicked"

stackvars == <<process, state, frame, arg, visited, located, loop>>

RSP == 7
PC == 16
State == [Registers -> Int]

ASSUME RegistersAssumption == {RSP, PC} \subseteq Registers /\ Registers \subseteq 0..16

-----------------------------------------------------------------------------
(* What the unwind tables and the functions hold.                           *)
Rule == [kind : {"Undefined", "SameValue", "Offset", "ValOffset", "Register", "Constant"}, n : Int]
Position == [op : {"none", "fixed", "reg", "breg", "cfa", "fbreg"}, reg : Registers, n : Int, deref : BOOLEAN]
InRanges(ranges, pc) == \E r \in ranges : r[1] <= pc /\ pc < r[2]

(* get_unwind: the row of the first file that has one.                      *)
Rows(pc) == {k \in DOMAIN Unwind : pc \in DOMAIN Unwind[k]}
HasRow(pc) == Rows(pc) # {}
Row(pc) == Unwind[CHOOSE k \in Rows(pc) : \A j \in Rows(pc) : k <= j][pc]
Readable(memory, addr) == addr \in DOMAIN memory

(* get_cfa, and the value of each register in the caller.                   *)
Cfa(s) == s[Row(s[PC]).cfa.reg] + Row(s[PC]).cfa.n
Mutant_UndefinedIsSame(s, memory, rule, r) ==
    IF rule.kind \in {"Undefined", "SameValue"} THEN s[r]
    ELSE IF rule.kind = "ValOffset" THEN Cfa(s) + rule.n ELSE memory[Cfa(s) + rule.n]
Restored(s, memory, rule, r) ==
    CASE rule.kind = "Undefined" -> 0
      [] rule.kind = "SameValue" -> s[r]
      [] rule.kind = "Offset"    -> memory[Cfa(s) + rule.n]
      [] rule.kind = "ValOffset" -> Cfa(s) + rule.n
      [] rule.kind = "Register"  -> s[rule.n]
      [] rule.kind = "Constant"  -> rule.n
Mutant_RspKept(s, memory) ==
    [r \in Registers |-> IF r \in DOMAIN Row(s[PC]).rules THEN Restored(s, memory, Row(s[PC]).rules[r], r) ELSE s[r]]
Caller(s, memory) ==
    [r \in Registers |->
        IF r = RSP THEN Cfa(s)
        ELSE IF r \in DOMAIN Row(s[PC]).rules THEN Restored(s, memory, Row(s[PC]).rules[r], r) ELSE s[r]]
Unreadable(s, memory) ==
    \E r \in DOMAIN Row(s[PC]).rules :
        LET rule == Row(s[PC]).rules[r] IN rule.kind = "Offset" /\ ~Readable(memory, Cfa(s) + rule.n)

-----------------------------------------------------------------------------
(* evaluate_position: what it returns, or nothing where it panics.  The     *)
(* frame base is a position too, and a register that holds it will do.      *)
Value(s, pos, bases) ==
    CASE pos.op = "fixed" -> {pos.n}
      [] pos.op = "breg"  -> {s[pos.reg] + pos.n}
      [] pos.op = "cfa"   -> IF HasRow(s[PC]) THEN {Cfa(s) + pos.n} ELSE {}
      [] pos.op = "fbreg" -> {b + pos.n : b \in bases}
      [] OTHER            -> {}
Place(s, memory, pos, bases) ==
    IF pos.op = "reg" THEN {[kind |-> "IntegerRegister", at |-> s[pos.reg]]}
    ELSE {[kind |-> "Memory", at |-> IF pos.deref THEN memory[v] ELSE v] :
            v \in {v \in Value(s, pos, bases) : pos.deref => Readable(memory, v)}}
evaluate_position(s, memory, pos, fcn_rec) ==
    Place(s, memory, pos, {base.at : base \in Place(s, memory, fcn_rec.frame_base, {})})

(* get_variable, in any of the functions that hold the pc: they are found   *)
(* in the order of a hash map.                                              *)
FunctionsAt(pc) == {f \in Functions : InRanges(f.pc_range, pc)}
Mutant_AnyScope(s, ranges) == DOMAIN ranges
InScope(s, ranges) == {k \in DOMAIN ranges : InRanges(ranges[k].pc_range, s[PC])}
get_variable(s, memory, f, name) ==
    IF name \notin DOMAIN f.variables THEN {}
    ELSE LET ranges == f.variables[name].ranges
         IN  UNION {evaluate_position(s, memory, ranges[k].position, f) :
                       k \in {k \in InScope(s, ranges) : \A j \in InScope(s, ranges) : k <= j}}

SymbolAt(pc) == IF pc \in DOMAIN Symbols THEN Symbols[pc] ELSE NoSymbol

-----------------------------------------------------------------------------
(* What compilers, linkers and calling conventions promise (external).      *)
(*                                                                          *)
(* A register of the caller is where the rule of the row says, as DWARF     *)
(* defines the rules, and the CFA is the stack pointer before the call.     *)
Means(s, memory, rule, r, value) ==
    \/ rule.kind = "SameValue" /\ value = s[r]
    \/ rule.kind = "Offset" /\ (Readable(memory, Cfa(s) + rule.n) => value = memory[Cfa(s) + rule.n])
    \/ rule.kind = "ValOffset" /\ value = Cfa(s) + rule.n
    \/ rule.kind = "Register" /\ value = s[rule.n]
    \/ rule.kind = "Constant" /\ value = rule.n
ReturnsTo(caller, s, memory) ==
    LET rules == Row(s[PC]).rules
    IN  /\ caller[RSP] = Cfa(s)
        /\ \A r \in Registers \ {RSP} :
              IF r \in DOMAIN rules THEN Means(s, memory, rules[r], r, caller[r]) ELSE caller[r] = s[r]

(* The return address of the outermost call is undefined.                   *)
Outermost(s) == PC \in DOMAIN Row(s[PC]).rules /\ Row(s[PC]).rules[PC].kind = "Undefined"

(* Where the first range that holds the pc puts a variable in memory, there *)
(* the activation has it; if all is in the dump, it can be found there.     *)
FirstHolds(k, ranges, pc) ==
    /\ k \in DOMAIN ranges /\ InRanges(ranges[k].pc_range, pc)
    /\ \A j \in DOMAIN ranges : InRanges(ranges[j].pc_range, pc) => k <= j
Describes(f, a, p, var) ==
    LET ranges == f.variables[var].ranges
        PlacesIn(k) == {loc \in evaluate_position(a.regs, p.memory, ranges[k].position, f) : loc.kind = "Memory"}
    IN  /\ var \in DOMAIN f.variables =>
              \A k \in DOMAIN ranges : FirstHolds(k, ranges, a.regs[PC]) =>
                  \A loc \in PlacesIn(k) : var \in DOMAIN a.locals /\ loc.at = a.locals[var]
        /\ p.complete /\ var \in DOMAIN a.locals =>
              /\ var \in DOMAIN f.variables
              /\ \E k \in DOMAIN ranges : FirstHolds(k, ranges, a.regs[PC]) /\ PlacesIn(k) # {}

IsSequence(s) == s \in Seq({s[k] : k \in DOMAIN s})
WellCompiled(p) ==
    LET last == Len(p.chain)  pc(k) == p.chain[k].regs[PC]
    IN  /\ p.memory \in [DOMAIN p.memory -> Int]
        /\ IsSequence(p.chain) /\ p.chain # <<>> /\ p.chain[1].regs = p.regs
        /\ \A k \in 1..last : p.chain[k].regs \in State /\ p.chain[k].symbol = SymbolAt(pc(k))
        /\ \A k \in 1..last - 1 : IF HasRow(pc(k)) THEN ReturnsTo(p.chain[k + 1].regs, p.chain[k].regs, p.memory) ELSE ~p.complete
        /\ HasRow(pc(last)) => Outermost(p.chain[last].regs)
        /\ p.complete => \A k \in 1..last : HasRow(pc(k)) => ~Unreadable(p.chain[k].regs, p.memory)
        /\ IsSequence(p.args) /\ \A i \in DOMAIN p.args : p.args[i].fcn # NoSymbol
        /\ \A k \in 1..last : \A i \in {i \in DOMAIN p.args : p.args[i].fcn = p.chain[k].symbol} :
              LET a == p.chain[k]  var == p.args[i].var
              IN  /\ a.locals \in [DOMAIN a.locals -> Int]
                  /\ \A f \in FunctionsAt(pc(k)) : Describes(f, a, p, var)
                  /\ p.complete /\ var \in DOMAIN a.locals => FunctionsAt(pc(k)) # {}

UnwindRow(row) ==
    /\ row.cfa \in [reg : Registers, n : Int]
    /\ \A r \in DOMAIN row.rules :
          row.rules[r] \in Rule /\ (row.rules[r].kind = "Register" => row.rules[r].n \in Registers)

(* Nothing is at address 0.                                                 *)
ASSUME TablesAssumption ==
    /\ IsSequence(Unwind) /\ SymbolAt(0) = NoSymbol /\ ~HasRow(0)
    /\ \A k \in DOMAIN Unwind : \A pc \in DOMAIN Unwind[k] : UnwindRow(Unwind[k][pc])
ASSUME ProcessesAssumption == \A name \in DOMAIN Processes : WellCompiled(Processes[name])

-----------------------------------------------------------------------------
(* The loop of main.                                                        *)
Dump == Processes[process]
Here == SymbolAt(state[PC])
ArgsLeft == loop = "running" /\ Here # NoSymbol /\ arg <= Len(Dump.args)
Wanted == Dump.args[arg].fcn = Here
Panic == loop' = "panicked" /\ UNCHANGED <<process, state, frame, arg, visited, located>>

VisitVariable ==
    /\ ArgsLeft /\ Wanted
    /\ \E f \in FunctionsAt(state[PC]) : \E loc \in get_variable(state, Dump.memory, f, Dump.args[arg].var) :
          /\ loc.kind = "Memory"
          /\ located' = located \cup {<<frame, arg, loc.at>>}
    /\ visited' = visited \cup {arg} /\ arg' = arg + 1
    /\ UNCHANGED <<process, state, frame, loop>>

\* No function, no such variable, none in scope, or a value that is not in memory.
NoPlace ==
    /\ ArgsLeft /\ Wanted
    /\ \/ FunctionsAt(state[PC]) = {}
       \/ \E f \in FunctionsAt(state[PC]) :
             \A loc \in get_variable(state, Dump.memory, f, Dump.args[arg].var) : loc.kind # "Memory"
    /\ Panic

Mutant_SkipVisits ==
    /\ ArgsLeft /\ ~Wanted
    /\ arg' = arg + 1 /\ visited' = visited \cup {arg}
    /\ UNCHANGED <<process, state, frame, located, loop>>
SkipVariable ==
    /\ ArgsLeft /\ ~Wanted
    /\ arg' = arg + 1
    /\ UNCHANGED <<process, state, frame, visited, located, loop>>

ArgsDone == loop = "running" /\ (Here = NoSymbol \/ arg > Len(Dump.args))
Enough == Here # NoSymbol /\ visited = DOMAIN Dump.args

NextFrame ==
    /\ ArgsDone /\ ~Enough /\ HasRow(state[PC])
    /\ IF Unreadable(state, Dump.memory) THEN Panic
       ELSE /\ state' = Caller(state, Dump.memory) /\ arg' = 1
            /\ frame' = IF frame > Len(Dump.chain) THEN frame ELSE frame + 1
            /\ UNCHANGED <<process, visited, located, loop>>

Break ==
    /\ ArgsDone /\ (Enough \/ ~HasRow(state[PC]))
    /\ loop' = "done"
    /\ UNCHANGED <<process, state, frame, arg, visited, located>>

StackInit ==
    /\ process \in DOMAIN Processes /\ state = Dump.regs
    /\ frame = 1 /\ arg = 1 /\ visited = {} /\ located = {} /\ loop = "running"
StackNext == VisitVariable \/ NoPlace \/ SkipVariable \/ NextFrame \/ Break
StackSpec == StackInit /\ [][StackNext]_stackvars
FairSpec == StackSpec /\ WF_stackvars(StackNext)

-----------------------------------------------------------------------------
StackTypeOK ==
    /\ state \in State /\ frame \in Nat \ {0}
    /\ arg \in 1..Len(Dump.args) + 1 /\ visited \subseteq DOMAIN Dump.args
    /\ located \subseteq Nat \X (DOMAIN Dump.args) \X Int
    /\ visited = {a[2] : a \in located}
    /\ loop \in {"running", "done", "panicked"}

(* The registers of a frame are those its activation had, so that what is   *)
(* read through them is of that call and not of another of the same         *)
(* function; past the last activation nothing is run.                       *)
FramesAreCallers ==
    IF frame <= Len(Dump.chain) THEN state = Dump.chain[frame].regs
    ELSE frame = Len(Dump.chain) + 1 /\ Here = NoSymbol /\ ~HasRow(state[PC])

(* The loop finds what it is for (main.rs:110-146).                         *)
Abstract == INSTANCE Backtrace WITH
    None <- NoSymbol,
    frame <- IF frame > Len(Dump.chain) THEN Len(Dump.chain) ELSE frame,
    over <- loop # "running"
ImplementsBacktrace == Abstract!Spec

(* The loop ends, whatever is asked for: the stack is walked, not cycled.   *)
Unwinds == <>(loop # "running")
=============================================================================
