------------------------------- MODULE Variants -------------------------------
(***************************************************************************)
(* An enum in memory, and how the walk finds which variant it is: a Rust   *)
(* enum, whose values of the discriminant DWARF gives                      *)
(* (src/src/main.rs, 746-795), and a TAGGED_UNION of mrustc, whose tag     *)
(* counts the fields of its union (src/src/type_handlers/mrustc.rs, 6-51). *)
(***************************************************************************)
EXTENDS Integers, Sequences, Functions

CONSTANTS
    B,          \* values of a byte
    Enums       \* the enums: see EnumOK

VARIABLES
    enm,        \* the enum
    stored,     \* the variant the program has put there
    bytes,      \* memory: the bytes of the discriminant or tag, and the one after it
    pos,        \* the number of variants find_variant has passed
    variant,    \* what was found: the index of a variant, or None
    phase       \* "running", "dumped" or "over"

vars == <<enm, stored, bytes, pos, variant, phase>>

None == 0

\* The number of values that n bytes can hold.
Pow[n \in Nat] == IF n = 0 THEN 1 ELSE B * Pow[n - 1]

\* values: the discriminant of each variant, {} for the one that has the rest
\* (its payload lies there), width: of the discriminant, in bytes, 0 for an
\* enum without one (discr_ofs is None), smallest: the compiler writes a value
\* in the smallest form that holds it.
EnumOK(e) ==
    /\ e.kind \in {"TaggedUnion", "mrustc"} /\ e.width \in Nat /\ (e.width = 0 => e.values = <<{}>>) /\ e.smallest \in BOOLEAN
    /\ e.values \in Seq({{}} \cup {{v} : v \in 0..Pow[e.width] - 1})
    /\ \A i, j \in DOMAIN e.values : i # j => e.values[i] \cap e.values[j] = {} /\ e.values[i] \cup e.values[j] # {}
    /\ e.kind = "mrustc" => \A i \in DOMAIN e.values : e.values[i] = {i}

VariantsAssumption == B \in Nat \ {0, 1} /\ \A e \in Enums : EnumOK(e)

\* Numbers are stored with the lowest byte first.
Encoded(v, n) == [k \in 0..n - 1 |-> (v \div Pow[k]) % B]

-----------------------------------------------------------------------------
(* The program (external).  A TAGGED_UNION that was moved from has tag 0.   *)
Used(e) == UNION Range(e.values)
Payloads(e) == 0..Pow[e.width] - 1 \ Used(e)
Memory(e, v) == {Encoded(v + k * Pow[e.width], e.width + 1) : k \in 0..B - 1}

Program ==
    /\ phase = "running"
    /\ \/ stored' \in DOMAIN enm.values
       \/ enm.kind = "mrustc" /\ stored' = None
    /\ \E v \in IF stored' = None THEN {0} ELSE IF enm.values[stored'] = {} THEN Payloads(enm) ELSE enm.values[stored'] :
          bytes' \in Memory(enm, v)
    /\ UNCHANGED <<enm, pos, variant, phase>>

\* The form of a value: Data1, Data2, ... by its own size, or by the discriminant's.
FormOf(v) == IF enm.smallest THEN CHOOSE n \in 1..enm.width : v < Pow[n] /\ \A m \in 1..n - 1 : v >= Pow[m] ELSE enm.width

-----------------------------------------------------------------------------
(* The walk.                                                                *)
Dump ==
    /\ phase = "running"
    /\ phase' = "dumped"
    /\ UNCHANGED <<enm, stored, bytes, pos, variant>>

Found(i) == variant' = i /\ phase' = "over" /\ UNCHANGED <<enm, stored, bytes, pos>>

\* VariantDiscr::SingleU(v, s): as many bytes as the form has are compared.
Mutant_LowByte(v) == bytes[0] = Encoded(v, FormOf(v))[0]
Equal(v) == \A k \in 0..FormOf(v) - 1 : bytes[k] = Encoded(v, FormOf(v))[k]

Matches(i) == \E v \in enm.values[i] : Equal(v)
find_variant ==
    /\ phase = "dumped" /\ enm.kind = "TaggedUnion" /\ enm.width > 0 /\ pos < Len(enm.values)
    /\ IF Matches(pos + 1) THEN Found(pos + 1)
       ELSE pos' = pos + 1 /\ UNCHANGED <<enm, stored, bytes, variant, phase>>

FirstVariant == phase = "dumped" /\ enm.width = 0 /\ Found(1)

\* The first variant without a value, if any.
Default == {i \in DOMAIN enm.values : enm.values[i] = {}}
NoMatch ==
    /\ phase = "dumped" /\ enm.kind = "TaggedUnion" /\ pos = Len(enm.values)
    /\ Found(IF Default = {} THEN None ELSE CHOOSE i \in Default : \A j \in Default : i <= j)

FieldOf(tag) == IF tag = 0 \/ tag > Len(enm.values) THEN None ELSE tag
opt_read ==
    /\ phase = "dumped" /\ enm.kind = "mrustc"
    /\ \E tag \in 0..Pow[enm.width] - 1 :
          /\ \A k \in 0..enm.width - 1 : Encoded(tag, enm.width)[k] = bytes[k]
          /\ Found(FieldOf(tag))

Init ==
    /\ enm \in Enums /\ stored \in DOMAIN enm.values
    /\ bytes \in UNION {Memory(enm, v) : v \in IF enm.values[stored] = {} THEN Payloads(enm) ELSE enm.values[stored]}
    /\ pos = 0 /\ variant = None /\ phase = "running"
Handler == FirstVariant \/ find_variant \/ NoMatch \/ opt_read

-----------------------------------------------------------------------------
TypeOK ==
    /\ enm \in Enums /\ {stored, variant} \subseteq {None} \cup DOMAIN enm.values
    /\ bytes \in [0..enm.width -> 0..B - 1]
    /\ pos \in 0..Len(enm.values) /\ phase \in {"running", "dumped", "over"}

(* The variant that is counted and visited is the one the program stored,   *)
(* whatever else lies in the memory that the variants share: main.rs:378    *)
(* says of the counts that they are the instances of each enum variant.     *)
(* This is so where the values have a form as wide as the discriminant: of  *)
(* a shorter one only the low bytes are compared, and a payload or another  *)
(* value that has the same is taken for it (main.rs:773).                   *)
VariantFound ==
    phase = "over" =>
        \/ variant = stored
        \/ variant # None /\ \E v \in enm.values[variant] : FormOf(v) < enm.width /\ Equal(v)
=============================================================================
