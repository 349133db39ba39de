------------------------------ MODULE XMLParser -------------------------------
(***************************************************************************)
(* The address table of XHALInterface (xhalcore XHALXMLParser.cpp): parseXML *)
(* walks the elements of an XML document and stores one node per register    *)
(* name.  An element with generate="true" stands for generate_size copies of *)
(* itself and of everything below it, with an index in place of its          *)
(* variable in the names and addresses a step apart.                         *)
(*                                                                         *)
(* makeTree is recursive and passes its arguments by value; here each of its *)
(* calls is a frame on an explicit stack, and one step runs one call up to   *)
(* the calls it makes, which it puts on top.                                 *)
(*                                                                         *)
(* A document is the sequence of its elements, each a record; the root is    *)
(* element 1.  A name is a sequence of components <<stem, index>>: the index *)
(* is Plain for an id without number, a number as it is printed, or a        *)
(* variable standing for "${...}".  A word is the set of its one bits, an    *)
(* address is a number.  Attribute values are numerals: a base and what they *)
(* denote.                                                                   *)
(***************************************************************************)
EXTENDS Integers, Sequences

CONSTANTS
  Docs,          \* the address tables init() may be given
  Vars,          \* the names of index variables, negative numbers
  Width,         \* bits of a uint32_t
  AddrMod,       \* number of uint32_t values, for addresses
  AddrOffset,    \* 0x64000000
  StoiTakes0b    \* the C library's strtol accepts "0b" in base 2

Bits == 0..(Width - 1)

Plain == -1

ASSUME ParserAssumption ==
  /\ Width \in Nat \ {0}
  /\ AddrMod \in Nat \ {0}
  /\ AddrMod % 4 = 0
  /\ AddrOffset \in 0..(AddrMod - 1)
  /\ Vars \subseteq {v \in Int : v < Plain}
  /\ StoiTakes0b \in BOOLEAN

VARIABLES
  doc,      \* the document
  phase,    \* parseXML: "walk", "parsed" or "failed"
  stack,    \* the calls of makeTree still to be made, the next one first
  nodes     \* m_nodes: names and their nodes

parserVars == <<doc, phase, stack, nodes>>

-----------------------------------------------------------------------------
(* Attributes *)

Absent == [base |-> "none"]

\* std::stoi takes a binary numeral of up to 31 digits; of a longer one it throws
\* std::out_of_range, which neither parseXML nor init catches.
Takes(num) == num.base = "bin" => num.val < AddrMod \div 2
TakesMask(num) == num.base = "bin" => Width - 1 \notin num.val

\* What Xerces hands over: the elements in document order, a root first and each
\* one before its children, with attributes that are numerals of 32 bits.  A
\* generated element has a size, a step and a variable.  Bound: no numeral makes
\* std::stoi throw.
WellFormed(d) ==
  /\ Len(d) \in Nat \ {0}
  /\ DOMAIN d = 1..Len(d)
  /\ \A x \in DOMAIN d :
       /\ d[x].id \in {d[y].id[1] : y \in DOMAIN d} \X Int
       /\ d[x].address = Absent \/ (d[x].address.val \in 0..(AddrMod - 1) /\ Takes(d[x].address))
       /\ d[x].mask = Absent \/ (d[x].mask.val \subseteq Bits /\ TakesMask(d[x].mask))
       /\ \/ d[x].size = Absent
          \/ /\ d[x].size.val \in 0..(AddrMod - 1) /\ Takes(d[x].size)
             /\ d[x].step.val \in 0..(AddrMod - 1) /\ Takes(d[x].step)
             /\ d[x].var \in Vars
       /\ d[x].children \in Seq(DOMAIN d)
       /\ \A k \in DOMAIN d[x].children : x < d[x].children[k]

ASSUME DocsAssumption == \A d \in Docs : WellFormed(d)

Unread(num) == num.base = "bin" /\ ~StoiTakes0b

\* parseInt, of a number and of a mask.  std::stoi stops at the "b" of "0b...".
ParseInt(num) == IF Unread(num) THEN 0 ELSE num.val
ParseMask(num) == IF Unread(num) THEN {} ELSE num.val

\* The map vars of a call: the value of each variable, or Plain.
NoVars == [v \in Vars |-> Plain]

\* substituteVars, over the whole name: what an outer call left is replaced too.
SubstituteVars(name, vars) ==
  [i \in DOMAIN name |->
     IF name[i][2] \in Vars /\ vars[name[i][2]] # Plain
     THEN <<name[i][1], vars[name[i][2]]>>
     ELSE name[i]]

-----------------------------------------------------------------------------
(* makeTree *)

Frame(element, baseName, baseAddress, vars, isGenerated) ==
  [element |-> element, baseName |-> baseName, baseAddress |-> baseAddress,
   vars |-> vars, isGenerated |-> isGenerated]

Generates(e) == e.size # Absent

\* The calls for the copies of an element.
Copies(f, e) ==
  [i \in 1..ParseInt(e.size) |->
     Frame(f.element, f.baseName,
           (f.baseAddress + ParseInt(e.step) * (i - 1)) % AddrMod,
           [f.vars EXCEPT ![e.var] = i - 1], TRUE)]

\* The address the children of an element start from.
Address(f, e) ==
  IF e.address = Absent THEN f.baseAddress ELSE (f.baseAddress + ParseInt(e.address)) % AddrMod

\* Mutant: the byte address is not cut to 32 bits.
NewNodeUncut(f, e) ==
  [real |-> IF e.address = Absent THEN 0 ELSE 4 * Address(f, e) + AddrOffset,
   mask |-> IF e.mask = Absent THEN Bits ELSE ParseMask(e.mask)]

\* The node of an element: one without an address attribute has address 0, and a
\* real address of 0 too.
NewNode(f, e) ==
  [real |-> IF e.address = Absent THEN 0
            ELSE (4 * (Address(f, e) % (AddrMod \div 4)) + AddrOffset) % AddrMod,
   mask |-> IF e.mask = Absent THEN Bits ELSE ParseMask(e.mask)]

\* The calls for the children of an element.
Children(f, e, name) ==
  [i \in DOMAIN e.children |->
     Frame(e.children[i], name, Address(f, e), f.vars, FALSE)]

\* Mutant: the later node of a name replaces the earlier one.
InsertReplacing(name, node) ==
  [n \in DOMAIN nodes \cup {name} |-> IF n = name THEN node ELSE nodes[n]]

\* insert of an unordered_map: a name that is there keeps its node.
Insert(name, node) ==
  [n \in DOMAIN nodes \cup {name} |-> IF n \in DOMAIN nodes THEN nodes[n] ELSE node]

ParserInit ==
  /\ doc \in Docs
  /\ phase = "walk"
  /\ stack = <<Frame(1, <<>>, 0, NoVars, FALSE)>>
  /\ nodes = [n \in {} |-> {}]

\* One call of makeTree.
MakeTree ==
  /\ phase = "walk"
  /\ stack # <<>>
  /\ LET f == Head(stack)
         e == doc[f.element]
         name == SubstituteVars(Append(f.baseName, e.id), f.vars)
     IN IF ~f.isGenerated /\ Generates(e)
        THEN /\ stack' = Copies(f, e) \o Tail(stack)
             /\ UNCHANGED nodes
        ELSE /\ stack' = Children(f, e, name) \o Tail(stack)
             /\ nodes' = Insert(name, NewNode(f, e))
  /\ UNCHANGED <<doc, phase>>

\* The root's call has returned.
ParseDone ==
  /\ phase = "walk"
  /\ stack = <<>>
  /\ phase' = "parsed"
  /\ UNCHANGED <<doc, stack, nodes>>

\* Xerces cannot be set up or the file cannot be parsed: an Exception.
ParseFails ==
  /\ phase = "walk"
  /\ nodes = [n \in {} |-> {}]
  /\ phase' = "failed"
  /\ stack' = <<>>
  /\ UNCHANGED <<doc, nodes>>

ParserNext == MakeTree \/ ParseDone \/ ParseFails

-----------------------------------------------------------------------------
(* Types *)

Nodes == [real : 0..(AddrMod - 1), mask : SUBSET Bits]

Ids(d) == {d[x].id[1] : x \in DOMAIN d} \X Int

Frames(d) ==
  [element : DOMAIN d, baseName : Seq(Ids(d)), baseAddress : 0..(AddrMod - 1),
   vars : [Vars -> Int], isGenerated : BOOLEAN]

\* The calls of makeTree are for elements of the document, and every node of the
\* table has an address and a mask of 32 bits.
ParserTypes ==
  /\ doc \in Docs
  /\ stack \in Seq(Frames(doc))
  /\ \A n \in DOMAIN nodes : nodes[n] \in Nodes

-----------------------------------------------------------------------------
(* What a document means, register by register *)

\* An instance of a register is the way to it from the root: elements, each with
\* the number of its copy (0 for an element that is not generated).
CopyNumbers(d, x) == 0..(IF Generates(d[x]) THEN ParseInt(d[x].size) - 1 ELSE 0)

Places(d) == UNION {{<<x, i>> : i \in CopyNumbers(d, x)} : x \in DOMAIN d}

IsChild(d, x, y) == \E k \in DOMAIN d[x].children : d[x].children[k] = y

Instances(d) ==
  {w \in UNION {[1..n -> Places(d)] : n \in 1..Len(d)} :
     /\ w[1][1] = 1
     /\ \A i \in 1..(Len(w) - 1) : IsChild(d, w[i][1], w[i + 1][1])}

\* The steps of w that give variable v a value, up to step k.
Binders(d, w, v, k) == {j \in 1..k : Generates(d[w[j][1]]) /\ d[w[j][1]].var = v}

Highest(S) == CHOOSE j \in S : \A k \in S : k <= j
Lowest(S) == CHOOSE j \in S : \A k \in S : j <= k

\* A variable in the id of step j has the value of the innermost generator around
\* it, and if there is none, of the outermost one further down the way.
RefIndex(d, w, j) ==
  LET v == d[w[j][1]].id[2] IN
  IF v \notin Vars \/ Binders(d, w, v, Len(w)) = {} THEN v
  ELSE IF Binders(d, w, v, j) # {} THEN w[Highest(Binders(d, w, v, j))][2]
  ELSE w[Lowest(Binders(d, w, v, Len(w)))][2]

RefName(d, w) == [j \in DOMAIN w |-> <<d[w[j][1]].id[1], RefIndex(d, w, j)>>]

\* The sum of the addresses and steps along the way.
Gain(d, place) ==
  LET e == d[place[1]] IN
  (IF Generates(e) THEN ParseInt(e.step) * place[2] ELSE 0)
    + (IF e.address = Absent THEN 0 ELSE ParseInt(e.address))

Sums(d, w) ==
  LET sum[j \in 0..Len(w)] == IF j = 0 THEN 0 ELSE sum[j - 1] + Gain(d, w[j])
  IN  sum

RefAddress(d, w) == Sums(d, w)[Len(w)]

RefNode(d, w) ==
  LET e == d[w[Len(w)][1]] IN
  [real |-> IF e.address = Absent THEN 0 ELSE (4 * RefAddress(d, w) + AddrOffset) % AddrMod,
   mask |-> IF e.mask = Absent THEN Bits ELSE ParseMask(e.mask)]

\* Document order: at the first difference the earlier child, or the lower copy.
Before(d, w, u) ==
  \E i \in DOMAIN w \cap DOMAIN u :
    /\ \A j \in 1..(i - 1) : w[j] = u[j]
    /\ \/ w[i][1] = u[i][1] /\ w[i][2] < u[i][2]
       \/ /\ i > 1
          /\ LET children == d[w[i - 1][1]].children IN
             \E k, l \in DOMAIN children :
               k < l /\ children[k] = w[i][1] /\ children[l] = u[i][1]

\* No other instance of its name comes before w.
IsFirst(d, w) == \A u \in Instances(d) : RefName(d, u) = RefName(d, w) => ~Before(d, u, w)

\* When the root's call returns, the table has one node for every register of the
\* document, generated ones at every level included, under its full name and with its
\* own address and mask; where a name occurs several times it is the first one's.
TableMatches ==
  phase = "walk" /\ stack = <<>> =>
    /\ DOMAIN nodes = {RefName(doc, w) : w \in Instances(doc)}
    /\ \A w \in Instances(doc) :
         IsFirst(doc, w) => nodes[RefName(doc, w)] = RefNode(doc, w)
=============================================================================
