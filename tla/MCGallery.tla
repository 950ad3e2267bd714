----------------------------- MODULE MCGallery -----------------------------
(***************************************************************************)
(* Walk on one dump with a member for every type handler, on the same dump *)
(* with one place unreadable or malformed at a time, and under several     *)
(* call stacks and command lines.                                          *)
(***************************************************************************)
EXTENDS MCDumps, WalkRequirements

GalleryCells ==
    {"v", "w", "prim", "str", "inl", "vec", "e1", "e2", "pay", "map", "m1", "m2", "hash",
     "h1", "h2", "astr", "avec", "a1", "brown", "b1", "b2", "rc", "o1", "tu", "rs1", "rs2",
     "thin", "t1", "o2", "O2", "shared", "o3", "ctl", "box", "o4", "raw", "ptr", "o5"}

Item(c) == [path |-> <<>>, cell |-> c, link |-> "ok"]
Container(kind, self, items) ==
    [Blank EXCEPT !.kind = kind, !.view = self, !.parts = items, !.len = Len(items)]
Buf(addr, len, cap) == [addr |-> addr, len |-> len, cap |-> cap, readable |-> "ok"]
At16(n) == [Blank EXCEPT !.addr = 16 * n]

(* Members in the order main visits them.                                   *)
Members == <<"prim", "str", "inl", "vec", "map", "hash", "astr", "avec", "brown", "rc",
             "tu", "thin", "shared", "box", "raw", "ptr">>

Gallery == [c \in Cells |->
    CASE c = "v" -> Struct("v", [i \in DOMAIN Members |-> Member("x", Members[i])], 0, 160)
      [] c = "w" -> Struct("w", <<Member("x", "rs2")>>, 208, 8)
      [] c = "str" -> [Blank EXCEPT !.kind = "CppString", !.view = c, !.buf = Buf(512, 5, 15)]
      [] c = "inl" -> [Blank EXCEPT !.kind = "CppString", !.view = c, !.buf = Buf(40, 3, 0)]
      [] c = "vec" -> Container("CppVector", c, <<Item("e1"), Item("e2")>>)
      [] c = "e1" -> [At16(20) EXCEPT !.kind = "TaggedUnion", !.view = c, !.ty = "Enum",
                        !.size = 24, !.variant = "x", !.parts = <<Member("y", "pay")>>]
      [] c = "e2" -> [At16(21) EXCEPT !.kind = "TaggedUnion", !.view = c, !.ty = "Enum",
                        !.size = 24]
      [] c = "map" -> Container("CppMap", c, <<Item("m1"), Item("m2")>>)
      [] c = "hash" -> Container("CppUnorderedMap", c, <<Item("h1"), Item("h2")>>)
      [] c = "astr" -> [Blank EXCEPT !.kind = "AllocString", !.view = c, !.buf = Buf(544, 9, 9)]
      [] c = "avec" -> Container("AllocVec", c, <<Item("a1")>>)
      [] c = "brown" -> Container("HashbrownMap", c, <<Item("b1"), Item("b2")>>)
      [] c = "rc" -> Pointer(c, "AllocRc", "o1", "ok")
      [] c = "o1" -> [At16(30) EXCEPT !.view = c, !.size = 32]
      [] c = "tu" -> [Blank EXCEPT !.kind = "MrTaggedUnion", !.view = c, !.ty = "Union",
                        !.variant = "y", !.parts = <<Member("y", "rs1")>>]
      [] c \in {"rs1", "rs2"} -> [Blank EXCEPT !.kind = "RcString", !.view = c,
                                     !.buf = Buf(608, 4, 0)]
      [] c = "thin" -> [Container("ThinVector", c, <<Item("t1")>>) EXCEPT !.buf = Buf(640, 1, 16)]
      [] c = "t1" -> Pointer(c, "unique_ptr", "o2", "ok")
      [] c = "o2" -> [At16(45) EXCEPT !.kind = "struct", !.vptr = TRUE, !.view = "O2"]
      [] c = "O2" -> [At16(45) EXCEPT !.kind = "struct", !.view = "O2", !.ty = "Derived",
                        !.size = 48]
      [] c = "shared" -> [Pointer(c, "CppSharedPtr", "o3", "ok") EXCEPT !.count = "ctl"]
      [] c = "o3" -> [At16(50) EXCEPT !.view = c, !.size = 16]
      [] c = "ctl" -> [At16(51) EXCEPT !.view = c, !.size = 16]
      [] c = "box" -> Pointer(c, "box", "o4", "ok")
      [] c = "o4" -> [At16(52) EXCEPT !.view = c, !.size = 16]
      [] c = "raw" -> Pointer(c, "pointer", "o4", "ok")
      [] c = "ptr" -> Pointer(c, "rc_ptr", "o5", "ok")
      [] c = "o5" -> [At16(54) EXCEPT !.view = c, !.size = 16]
      [] c \in {"m1", "m2", "h1", "h2", "a1", "b1", "b2"} ->
            [At16(CASE c = "m1" -> 22 [] c = "m2" -> 23 [] c = "h1" -> 24 [] c = "h2" -> 25
                    [] c = "a1" -> 26 [] c = "b1" -> 27 [] c = "b2" -> 28)
               EXCEPT !.view = c, !.size = 8]
      [] OTHER -> [Blank EXCEPT !.view = c]]

Standard(cells) == [cells |-> cells, frames |-> MainFrames, args |-> MainArgs]

(* One thing wrong at a time: a place that cannot be read, or runs into the *)
(* end of its area; words out of order, a count that is off; types the      *)
(* handlers cannot use.                                                     *)
Reading == {"str", "vec", "e1", "e2", "map", "hash", "astr", "avec", "brown", "rc", "tu",
            "rs1", "thin", "t1", "o2", "shared", "box", "raw", "ptr"}
Failures == {"err", "panic"}
Damaged ==
    {Standard([Gallery EXCEPT ![c].readable = how]) : c \in Reading, how \in Failures}
    \cup {Standard([Gallery EXCEPT ![c].buf.readable = how]) :
            c \in {"str", "astr", "rs1", "thin", "brown"}, how \in Failures}
    \cup {Standard([Gallery EXCEPT ![c].parts[i].link = how]) :
            c \in {"map", "hash", "brown"}, i \in {1, 2}, how \in Failures}
    \cup {Standard([Gallery EXCEPT ![c].parts[1].link = "panic"]) : c \in {"v", "e1", "O2"}}
    \cup {Standard([Gallery EXCEPT ![c].sane = FALSE, ![c].overflows = checked]) :
            c \in {"str", "vec", "avec"}, checked \in BOOLEAN}
    \cup {Standard([Gallery EXCEPT ![c].len = n]) : c \in {"map", "hash"}, n \in {0, 1, 3}}
    \cup {Standard([Gallery EXCEPT !["pay"].kind = "array"])}
    \cup {Standard([Gallery EXCEPT ![c].sound = FALSE]) : c \in {"e1", "map", "brown", "rs1"}}
    \cup {Standard([Gallery EXCEPT ![c].named = FALSE]) : c \in {"avec", "brown", "o2"}}
    \cup {Standard([Gallery EXCEPT ![c].sized = FALSE]) : c \in {"vec", "avec", "thin"}}
    \cup {Standard([Gallery EXCEPT !["vec"].sane = FALSE, !["vec"].sized = FALSE])}

(* Other call stacks and command lines.                                     *)
OneFrame(sym, locals) == [sym |-> sym, local |-> locals]
Request(fcn, var) == [fcn_name |-> fcn, var_name |-> var]
CommandLines ==
    {[cells |-> Gallery, frames |-> frames, args |-> args] :
        frames \in {<<OneFrame("g", Locals("y", "w")), OneFrame("main", Locals("crate", "v"))>>,
                    <<OneFrame("main", Locals("crate", "v")), OneFrame("g", Locals("y", "w"))>>,
                    <<OneFrame("g", Locals("y", "w")), OneFrame("g", Locals("y", "w")),
                      OneFrame("main", Locals("crate", "v"))>>},
        args \in {<<Request("main", "crate"), Request("g", "y")>>,
                  <<Request("g", "y"), Request("main", "crate")>>,
                  <<Request("g", "x")>>, <<Request("f", "y")>>}}

GalleryDumps == {Standard(Gallery)} \cup Damaged \cup CommandLines

(* Two owners of the Rc kind for one object.                                *)
RcDumps == {Standard([Gallery EXCEPT !["box"].kind = "AllocRc", !["box"].target = "o1"])}
=============================================================================
