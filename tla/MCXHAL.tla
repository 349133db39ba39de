-------------------------------- MODULE MCXHAL --------------------------------
(***************************************************************************)
(* An instance of XHALInterface for TLC: words of four bits, 64 addresses.   *)
(***************************************************************************)
EXTENDS XHALInterface

Num(n) == [base |-> "dec", val |-> n]
Bin(n) == [base |-> "bin", val |-> n]

I == -2
J == -3
MCVars == {I, J}

Element(id, address, mask, children) ==
  [id |-> id, address |-> address, mask |-> mask, size |-> Absent, step |-> Absent,
   var |-> Plain, children |-> children]

Generated(e, size, step, var) == [e EXCEPT !.size = size, !.step = Num(step), !.var = var]

Top(children) == Element(<<"top", Plain>>, Absent, Absent, children)

-----------------------------------------------------------------------------
(* The table the programs use: one register with two fields side by side, one of *)
(* two separate bits that overlaps both, a field whose mask reads as 0, the      *)
(* register as a whole, and a register nobody can access.                        *)

Field(stem, mask) == Element(<<stem, Plain>>, Num(1), mask, <<>>)

FieldDoc ==
  <<Top(<<2, 3, 4, 5, 6, 7>>),
    Field("LOW", Num({0, 1})), Field("HIGH", Num({2, 3})), Field("BOTH", Num({0, 2})),
    Field("NONE", Bin({1})), Field("WORD", Absent),
    Element(<<"AWAY", Plain>>, Num(60), Absent, <<>>)>>

NameOf(stem) == <<<<"top", Plain>>, <<stem, Plain>>>>

MCReads == {NameOf(s) : s \in {"LOW", "HIGH"}}

Write(stem, value) == [name |-> NameOf(stem), value |-> value]

MCWrites ==
  {Write("LOW", {0}), Write("HIGH", {0, 1, 3}), Write("BOTH", {0, 2}), Write("NONE", {0}),
   Write("WORD", {1, 2}), Write("AWAY", {0})}

MCInitWords == {{1}}

-----------------------------------------------------------------------------
(* Tables for the parser: two levels that may both be generated, with their own *)
(* or the same variable, variables used outside their generator, zero copies,   *)
(* nodes without an address, sums that wrap around, and names that occur twice. *)

Level(e, var, size, step) ==
  {e, Generated(e, size, step, var)}

TreeDocs ==
  {<<Top(<<2, 4>>), a, b, c>> :
     a \in UNION {Level(Element(id, address, Absent, <<3>>), I, size, 3) :
                    id \in {<<"A", Plain>>, <<"A", I>>}, address \in {Absent, Num(1), Num(60)},
                    size \in {Num(2), Bin(2)}},
     b \in UNION {Level(Element(id, Num(2), Num({1}), <<>>), var, Num(2), 1) :
                    id \in {<<"B", Plain>>, <<"B", I>>, <<"B", J>>}, var \in {I, J}},
     c \in {Element(id, Num(5), Absent, <<>>) : id \in {<<"A", Plain>>, <<"A", 1>>}}}

MCDocs == {FieldDoc} \cup TreeDocs
=============================================================================
