------------------------------ MODULE MCDumps ------------------------------
(***************************************************************************)
(* Building blocks for the dumps of the model-checked instances of Walk.   *)
(***************************************************************************)
EXTENDS Walk

Blank == [kind |-> "prim", addr |-> 8, size |-> 8, ty |-> "T", readable |-> "ok",
          sound |-> TRUE, named |-> TRUE, sized |-> TRUE, overflows |-> FALSE,
          vptr |-> FALSE, view |-> "v", parts |-> <<>>, target |-> Null, count |-> Null,
          len |-> 0, sane |-> TRUE,
          buf |-> [addr |-> 0, len |-> 0, cap |-> 0, readable |-> "ok"],
          variant |-> Null, outer |-> 0]

Member(name, c) == [path |-> <<Field(name)>>, cell |-> c, link |-> "ok"]
Struct(self, parts, addr, size) ==
    [Blank EXCEPT !.kind = "struct", !.parts = parts, !.addr = addr, !.size = size, !.view = self]
Pointer(self, kind, target, ok) ==
    [Blank EXCEPT !.kind = kind, !.target = target, !.readable = ok, !.view = self]

Locals(name, c) == [n \in FieldNames |-> IF n = name THEN c ELSE Null]
MainFrames == <<[sym |-> "f", local |-> Locals("y", Null)],
                [sym |-> Null, local |-> Locals("y", Null)],
                [sym |-> "main", local |-> Locals("crate", "v")]>>
MainArgs == <<[fcn_name |-> "main", var_name |-> "crate"]>>
=============================================================================
