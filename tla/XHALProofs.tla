------------------------------ MODULE XHALProofs ------------------------------
(***************************************************************************)
(* Proofs about XHALInterface for every address table, every set of programs *)
(* and registers, every word width and any number of calls.                  *)
(***************************************************************************)
EXTENDS XHALInterface, SequenceTheorems, WellFoundedInduction, TLAPS

\* A merged word has the bits of the read one outside the mask.
LEMMA MergedOutside ==
  ASSUME NEW s, NEW m, NEW w, NEW b, b \notin m
  PROVE  b \in Merged(s, m, w) <=> b \in w
  BY DEF Merged

\* A program's memory.write leaves every bit that is not lost as the fields say.
LEMMA StoreKeeps ==
  ASSUME IInv, NEW c \in Clients, pc[c] = "write", At(c) \in Registers,
         NEW word \in Words(c), Store(c, word)
  PROVE  FieldsKept'
<1> DEFINE a == At(c)
<1>1. SUFFICES ASSUME NEW r \in Registers, NEW b \in Bits, b \notin lost'[r]
               PROVE  b \in reg'[r] <=> b \in field'[r]
  BY DEF FieldsKept, Bits
<1>2. CASE r # a
  BY <1>1, <1>2 DEF IInv, Shape, FieldsKept, Store
<1>3. CASE r = a
  <2>1. /\ reg'[a] = word
        /\ field'[a] = (Mask(c) \cap word) \cup (field[a] \ Mask(c))
        /\ lost'[a] = (lost[a] \cup since[c]) \ Mask(c)
    BY DEF IInv, Shape, Store
  <2>2. CASE b \in Mask(c)
    BY <1>3, <2>1, <2>2
  <2>3. CASE b \notin Mask(c)
    <3>1. Mask(c) # Bits
      BY <1>1, <2>3
    <3>2. b \in word <=> b \in cur[c]
      BY <3>1, <2>3, MergedOutside DEF Words
    <3>3. b \notin lost[a] /\ b \notin since[c]
      BY <1>1, <1>3, <2>1, <2>3
    <3>4. b \in cur[c] <=> b \in field[a]
      BY <1>1, <2>3, <3>3 DEF IInv, CurrentKnown
    <3> QED
      BY <1>3, <2>1, <2>3, <3>2, <3>4
  <2> QED
    BY <2>2, <2>3
<1> QED
  BY <1>2, <1>3

\* It leaves the other programs that are between their calls knowing what they
\* knew, but for the bits it wrote.
LEMMA StoreKnown ==
  ASSUME IInv, NEW c \in Clients, pc[c] = "write", At(c) \in Registers,
         NEW word \in Words(c), Store(c, word),
         NEW d \in Clients, d # c, pc[d] = "write", At(d) \in Registers,
         NEW b \in Bits, b \notin Mask(d), b \notin since'[d], b \notin lost'[At(d)]
  PROVE  b \in cur[d] <=> b \in field'[At(d)]
<1>1. CASE At(d) # At(c)
  <2>1. since'[d] = since[d] /\ lost'[At(d)] = lost[At(d)] /\ field'[At(d)] = field[At(d)]
    BY <1>1 DEF IInv, Shape, Store
  <2> QED
    BY <2>1 DEF IInv, CurrentKnown
<1>2. CASE At(d) = At(c)
  <2>1. /\ since'[d] = since[d] \cup Mask(c)
        /\ lost'[At(d)] = (lost[At(d)] \cup since[c]) \ Mask(c)
        /\ field'[At(d)] = (Mask(c) \cap word) \cup (field[At(d)] \ Mask(c))
    BY <1>2 DEF IInv, Shape, Store
  <2>2. b \notin Mask(c) /\ b \notin since[d] /\ b \notin lost[At(d)]
    BY <2>1
  <2>3. b \in cur[d] <=> b \in field[At(d)]
    BY <2>2 DEF IInv, CurrentKnown
  <2> QED
    BY <2>1, <2>2, <2>3
<1> QED
  BY <1>1, <1>2

\* After a write the program that made it is not between two calls any more.
LEMMA StoreInductive ==
  ASSUME IInv, NEW c \in Clients, pc[c] = "write", At(c) \in Registers,
         NEW word \in Words(c), Store(c, word),
         NEW to \in {"ready", "dead"}, pc' = [pc EXCEPT ![c] = to],
         job' = [job EXCEPT ![c] = NoJob], cur' = [cur EXCEPT ![c] = {}]
  PROVE  IInv'
<1>1. Shape'
  BY DEF IInv, Shape, Store
<1>2. FieldsKept'
  BY StoreKeeps
<1>3. CurrentKnown'
  <2>1. SUFFICES ASSUME NEW d \in Clients, pc'[d] = "write", At(d)' \in Registers,
                        NEW b \in Bits, b \notin Mask(d)', b \notin since'[d],
                        b \notin lost'[At(d)']
                 PROVE  b \in cur'[d] <=> b \in field'[At(d)']
    BY DEF CurrentKnown, Bits
  <2>2. d # c /\ pc[d] = "write" /\ job'[d] = job[d] /\ cur'[d] = cur[d]
    BY <2>1 DEF IInv, Shape
  <2>3. At(d)' = At(d) /\ Mask(d)' = Mask(d)
    BY <2>2 DEF At, Mask
  <2> QED
    BY <2>1, <2>2, <2>3, StoreKnown
<1> QED
  BY <1>1, <1>2, <1>3 DEF IInv

\* A step that leaves the card alone and moves program c to where it makes no
\* masked write, or leaves its write as it is, keeps the invariant.
LEMMA QuietInductive ==
  ASSUME IInv, NEW c \in Clients, Shape', UNCHANGED <<reg, field, lost>>,
         \A d \in Clients \ {c} : /\ pc'[d] = pc[d] /\ job'[d] = job[d]
                                  /\ cur'[d] = cur[d] /\ since'[d] = since[d],
         pc'[c] = "write" => job'[c].node.mask = Bits
  PROVE  IInv'
<1>2. FieldsKept'
  BY DEF IInv, FieldsKept
<1>3. CurrentKnown'
  <2>1. SUFFICES ASSUME NEW d \in Clients, pc'[d] = "write", At(d)' \in Registers,
                        NEW b \in Bits, b \notin Mask(d)', b \notin since'[d],
                        b \notin lost'[At(d)']
                 PROVE  b \in cur'[d] <=> b \in field'[At(d)']
    BY DEF CurrentKnown, Bits
  <2>2. CASE d = c
    <3>1. Mask(d)' = Bits
      BY <2>1, <2>2 DEF Mask
    <3> QED
      BY <2>1, <3>1
  <2>3. CASE d # c
    <3>1. pc'[d] = pc[d] /\ job'[d] = job[d] /\ cur'[d] = cur[d] /\ since'[d] = since[d]
      BY <2>3
    <3>2. At(d)' = At(d) /\ Mask(d)' = Mask(d)
      BY <3>1 DEF At, Mask
    <3> QED
      BY <2>1, <3>1, <3>2 DEF IInv, CurrentKnown
  <2> QED
    BY <2>2, <2>3
<1> QED
  BY <1>2, <1>3 DEF IInv

\* memory.read gives a masked write the whole register, with nothing written since.
LEMMA ReadInductive ==
  ASSUME IInv, NEW c \in Clients, ReadServed(c)
  PROVE  IInv'
<1>1. Shape'
  BY DEF IInv, Shape, ReadServed
<1>2. FieldsKept'
  BY DEF IInv, FieldsKept, ReadServed
<1>3. CurrentKnown'
  <2>1. SUFFICES ASSUME NEW d \in Clients, pc'[d] = "write", At(d)' \in Registers,
                        NEW b \in Bits, b \notin Mask(d)', b \notin since'[d],
                        b \notin lost'[At(d)']
                 PROVE  b \in cur'[d] <=> b \in field'[At(d)']
    BY DEF CurrentKnown, Bits
  <2>2. job' = job /\ field' = field /\ lost' = lost
    BY DEF ReadServed
  <2>3. At(d)' = At(d) /\ Mask(d)' = Mask(d)
    BY <2>2 DEF At, Mask
  <2>4. CASE d = c
    <3>1. job[c].kind = "write"
      BY <2>1, <2>4 DEF ReadServed, IInv, Shape
    <3>2. cur'[c] = reg[At(c)]
      BY <3>1 DEF ReadServed, IInv, Shape
    <3> QED
      BY <2>1, <2>2, <2>3, <2>4, <3>2 DEF IInv, FieldsKept
  <2>5. CASE d # c
    <3>1. pc'[d] = pc[d] /\ cur'[d] = cur[d] /\ since'[d] = since[d]
      BY <2>5 DEF ReadServed, IInv, Shape
    <3> QED
      BY <2>1, <2>2, <2>3, <3>1 DEF IInv, CurrentKnown
  <2> QED
    BY <2>4, <2>5
<1> QED
  BY <1>1, <1>2, <1>3 DEF IInv

\* Nothing changes what the invariant speaks of.
LEMMA IdleInductive ==
  ASSUME IInv, UNCHANGED <<reg, field, lost, pc, job, cur, since>>
  PROVE  IInv'
  BY DEF IInv, Shape, FieldsKept, CurrentKnown, At, Mask

\* The initial states satisfy the inductive invariant.
LEMMA InitInductive == Init => IInv
  BY DEF Init, IInv, Shape, FieldsKept, CurrentKnown

\* The step of every action keeps it.
LEMMA NextInductive == IInv /\ [Next]_vars => IInv'
<1> SUFFICES ASSUME IInv, [Next]_vars PROVE IInv'
  OBVIOUS
<1> USE DEF cardVars, clientVars
<1>1. CASE ParserNext /\ UNCHANGED <<clientVars, cardVars>>
  BY <1>1, IdleInductive
<1>2. ASSUME NEW c \in Clients, Connect(c) \/ InitFails(c) PROVE IInv'
  <2>1. Shape'
    BY <1>2 DEF Connect, InitFails, IInv, Shape
  <2>2. pc'[c] # "write"
    BY <1>2 DEF Connect, InitFails, IInv, Shape
  <2>3. \A d \in Clients \ {c} : pc'[d] = pc[d]
    BY <1>2 DEF Connect, InitFails, IInv, Shape
  <2>4. UNCHANGED <<reg, field, lost, job, cur, since>>
    BY <1>2 DEF Connect, InitFails
  <2> QED
    BY <2>1, <2>2, <2>3, <2>4, QuietInductive
<1>3. ASSUME NEW c \in Clients, LoadModule(c) PROVE IInv'
  <2>1. CASE UNCHANGED pc
    BY <1>3, <2>1, IdleInductive DEF LoadModule
  <2>2. CASE pc' = [pc EXCEPT ![c] = "dead"]
    <3>1. Shape'
      BY <1>3, <2>2 DEF LoadModule, IInv, Shape
    <3>2. pc'[c] # "write" /\ \A d \in Clients \ {c} : pc'[d] = pc[d]
      BY <2>2 DEF IInv, Shape
    <3>3. UNCHANGED <<reg, field, lost, job, cur, since>>
      BY <1>3 DEF LoadModule
    <3> QED
      BY <3>1, <3>2, <3>3, QuietInductive
  <2> QED
    BY <1>3, <2>1, <2>2 DEF LoadModule
<1>4. ASSUME NEW c \in Clients, ReadReg(c) \/ ReadRegAddress(c) \/ WriteReg(c) PROVE IInv'
  <2>1. UNCHANGED <<reg, field, lost, cur, since>>
    BY <1>4 DEF ReadReg, ReadRegAddress, WriteReg, Begin
  <2>2. PICK j : job' = [job EXCEPT ![c] = j]
    BY <1>4 DEF ReadReg, ReadRegAddress, WriteReg
  <2>3. PICK p : pc' = [pc EXCEPT ![c] = p]
    BY <1>4 DEF ReadReg, ReadRegAddress, WriteReg
  <2>4. Shape'
    BY <2>1, <2>2, <2>3 DEF IInv, Shape
  <2>5. \A d \in Clients \ {c} : pc'[d] = pc[d] /\ job'[d] = job[d]
    BY <2>2, <2>3 DEF IInv, Shape
  <2>6. pc'[c] = "write" => job'[c].node.mask = Bits
    <3>1. CASE ReadReg(c) \/ ReadRegAddress(c)
      BY <3>1 DEF ReadReg, ReadRegAddress, IInv, Shape
    <3>2. CASE WriteReg(c)
      BY <3>2 DEF WriteReg, IInv, Shape
    <3> QED
      BY <1>4, <3>1, <3>2
  <2> QED
    BY <2>1, <2>4, <2>5, <2>6, QuietInductive
<1>5. ASSUME NEW c \in Clients, NotFound(c) \/ CallFails(c) \/ Return(c) PROVE IInv'
  <2>1. PICK to \in {"ready", "dead"} :
          /\ pc' = [pc EXCEPT ![c] = to] /\ job' = [job EXCEPT ![c] = NoJob]
          /\ cur' = [cur EXCEPT ![c] = {}]
    BY <1>5 DEF NotFound, CallFails, Return, Throw
  <2>2. UNCHANGED <<reg, field, lost>>
    BY <1>5 DEF NotFound, CallFails, Return, Begin
  <2>3. since' = since \/ since' = [since EXCEPT ![c] = {}]
    BY <1>5 DEF NotFound, CallFails, Return
  <2>4. Shape'
    BY <2>1, <2>2, <2>3 DEF IInv, Shape
  <2>5. \A d \in Clients \ {c} : /\ pc'[d] = pc[d] /\ job'[d] = job[d]
                                 /\ cur'[d] = cur[d] /\ since'[d] = since[d]
    BY <2>1, <2>3 DEF IInv, Shape
  <2>6. pc'[c] # "write"
    BY <2>1 DEF IInv, Shape
  <2> QED
    BY <2>2, <2>4, <2>5, <2>6, QuietInductive
<1>6. ASSUME NEW c \in Clients, ReadServed(c) PROVE IInv'
  BY <1>6, ReadInductive
<1>7. ASSUME NEW c \in Clients, WriteServed(c) \/ AnswerLost(c) PROVE IInv'
  <2>1. pc[c] = "write" /\ At(c) \in Registers
    BY <1>7 DEF WriteServed, AnswerLost, Served
  <2>2. PICK word \in Words(c) : Store(c, word)
    BY <1>7 DEF WriteServed, AnswerLost
  <2>3. PICK to \in {"ready", "dead"} :
          /\ pc' = [pc EXCEPT ![c] = to] /\ job' = [job EXCEPT ![c] = NoJob]
          /\ cur' = [cur EXCEPT ![c] = {}]
    BY <1>7 DEF WriteServed, AnswerLost, Throw
  <2> QED
    BY <2>1, <2>2, <2>3, StoreInductive
<1>8. CASE UNCHANGED vars
  BY <1>8, IdleInductive DEF vars
<1> QED
  BY <1>1, <1>2, <1>3, <1>4, <1>5, <1>6, <1>7, <1>8 DEF Next, Program

\* For every table, every number of programs and registers and every word width:
\* a field changes only by writes to it, except for the bits a masked write puts
\* back because another program wrote them between its two remote calls.
THEOREM FieldsSafe == Spec => []FieldsKept
<1>1. IInv => FieldsKept
  BY DEF IInv
<1> QED
  BY <1>1, InitInductive, NextInductive, PTL DEF Spec

-----------------------------------------------------------------------------
(* The address table *)

\* A number modulo the number of addresses is an address.
LEMMA Wraps ==
  ASSUME NEW n \in Nat
  PROVE  n % AddrMod \in 0..(AddrMod - 1)
  BY ParserAssumption

\* The attributes of a document that was handed over.
LEMMA Attributes ==
  ASSUME ParserTypes, NEW x \in DOMAIN doc
  PROVE  /\ doc[x].id \in Ids(doc)
         /\ doc[x].address # Absent => ParseInt(doc[x].address) \in Nat
         /\ doc[x].mask # Absent => ParseMask(doc[x].mask) \in SUBSET Bits
         /\ Generates(doc[x]) => /\ ParseInt(doc[x].size) \in Nat
                                 /\ ParseInt(doc[x].step) \in Nat
                                 /\ doc[x].var \in Vars
         /\ doc[x].children \in Seq(DOMAIN doc)
<1>1. WellFormed(doc)
  BY DocsAssumption DEF ParserTypes
<1>2. 0..(AddrMod - 1) \subseteq Nat
  BY ParserAssumption
<1> QED
  BY <1>1, <1>2 DEF WellFormed, Ids, ParseInt, ParseMask, Generates

\* The address of an element, and its node.
LEMMA NodeTypes ==
  ASSUME ParserTypes, NEW f \in Frames(doc)
  PROVE  /\ Address(f, doc[f.element]) \in 0..(AddrMod - 1)
         /\ NewNode(f, doc[f.element]) \in Nodes
<1> DEFINE e == doc[f.element]
           a == Address(f, e)
<1>1. f.element \in DOMAIN doc /\ f.baseAddress \in Nat /\ f.baseAddress \in 0..(AddrMod - 1)
  BY ParserAssumption DEF Frames
<1>2. /\ e.address # Absent => ParseInt(e.address) \in Nat
      /\ e.mask # Absent => ParseMask(e.mask) \in SUBSET Bits
  BY <1>1, Attributes
<1>3. a \in 0..(AddrMod - 1)
  <2>1. CASE e.address = Absent
    BY <1>1, <2>1 DEF Address
  <2>2. CASE e.address # Absent
    <3>1. f.baseAddress + ParseInt(e.address) \in Nat
      BY <1>1, <1>2, <2>2
    <3> QED
      BY <2>2, <3>1, Wraps DEF Address
  <2> QED
    BY <2>1, <2>2
<1>4. (4 * (a % (AddrMod \div 4)) + AddrOffset) % AddrMod \in 0..(AddrMod - 1)
  <2>1. AddrMod \div 4 \in Nat \ {0} /\ AddrOffset \in Nat
    BY ParserAssumption
  <2>2. a \in Nat
    BY <1>3, ParserAssumption
  <2> HIDE DEF a
  <2>3. a % (AddrMod \div 4) \in Nat
    BY <2>1, <2>2
  <2>4. 4 * (a % (AddrMod \div 4)) + AddrOffset \in Nat
    BY <2>1, <2>3
  <2> QED
    BY <2>4, Wraps
<1>5. 0 \in 0..(AddrMod - 1) /\ Bits \in SUBSET Bits
  BY ParserAssumption
<1>6. NewNode(f, e) = [real |-> IF e.address = Absent THEN 0
                                ELSE (4 * (a % (AddrMod \div 4)) + AddrOffset) % AddrMod,
                       mask |-> IF e.mask = Absent THEN Bits ELSE ParseMask(e.mask)]
  BY DEF NewNode
<1> HIDE DEF a, e
<1>7. NewNode(f, e) \in Nodes
  BY <1>2, <1>4, <1>5, <1>6 DEF Nodes
<1> QED
  BY <1>3, <1>7 DEF a, e

\* The names makeTree puts together.
LEMMA NameTypes ==
  ASSUME NEW d, NEW name \in Seq(Ids(d)), NEW vals \in [Vars -> Int]
  PROVE  SubstituteVars(name, vals) \in Seq(Ids(d))
<1> DEFINE new == SubstituteVars(name, vals)
<1>1. new = [i \in 1..Len(name) |->
               IF name[i][2] \in Vars /\ vals[name[i][2]] # Plain
               THEN <<name[i][1], vals[name[i][2]]>> ELSE name[i]]
  BY DEF SubstituteVars
<1>2. ASSUME NEW i \in 1..Len(name)
      PROVE  (IF name[i][2] \in Vars /\ vals[name[i][2]] # Plain
              THEN <<name[i][1], vals[name[i][2]]>> ELSE name[i]) \in Ids(d)
  <2>1. name[i] \in Ids(d)
    OBVIOUS
  <2> QED
    BY <2>1 DEF Ids
<1>3. Len(name) \in Nat
  OBVIOUS
<1> QED
  BY <1>1, <1>2, <1>3

\* The calls for the copies and for the children of an element.
LEMMA CallTypes ==
  ASSUME ParserTypes, NEW f \in Frames(doc)
  PROVE  /\ Generates(doc[f.element]) => Copies(f, doc[f.element]) \in Seq(Frames(doc))
         /\ \A name \in Seq(Ids(doc)) :
              Children(f, doc[f.element], name) \in Seq(Frames(doc))
<1> DEFINE e == doc[f.element]
<1>1. /\ f.element \in DOMAIN doc /\ f.baseName \in Seq(Ids(doc)) /\ f.baseAddress \in Nat
      /\ f.vars \in [Vars -> Int]
  BY ParserAssumption DEF Frames
<1>2. /\ Generates(e) => /\ ParseInt(e.size) \in Nat /\ ParseInt(e.step) \in Nat
                         /\ e.var \in Vars
      /\ e.children \in Seq(DOMAIN doc)
  BY <1>1, Attributes
<1>3. Address(f, e) \in 0..(AddrMod - 1)
  BY NodeTypes
<1> HIDE DEF e
<1>4. ASSUME Generates(e) PROVE Copies(f, e) \in Seq(Frames(doc))
  <2> DEFINE call(i) == Frame(f.element, f.baseName,
                              (f.baseAddress + ParseInt(e.step) * (i - 1)) % AddrMod,
                              [f.vars EXCEPT ![e.var] = i - 1], TRUE)
             n == ParseInt(e.size)
  <2>1. ASSUME NEW i \in 1..n PROVE call(i) \in Frames(doc)
    <3>1. \A j, k \in Nat : j * k \in Nat
      OBVIOUS
    <3>2. i - 1 \in Nat /\ ParseInt(e.step) \in Nat
      BY <1>2, <1>4
    <3>3. f.baseAddress + ParseInt(e.step) * (i - 1) \in Nat
      BY <1>1, <3>1, <3>2
    <3>4. (f.baseAddress + ParseInt(e.step) * (i - 1)) % AddrMod \in 0..(AddrMod - 1)
      BY <3>3, Wraps
    <3>5. [f.vars EXCEPT ![e.var] = i - 1] \in [Vars -> Int]
      BY <1>1, <1>2, <1>4
    <3> QED
      BY <1>1, <3>4, <3>5 DEF Frame, Frames
  <2>2. Copies(f, e) = [i \in 1..n |-> call(i)] /\ n \in Nat
    BY <1>2, <1>4 DEF Copies
  <2> HIDE DEF call, n
  <2>3. [i \in 1..n |-> call(i)] \in Seq(Frames(doc))
    BY <2>1, <2>2
  <2> QED
    BY <2>2, <2>3
<1>5. ASSUME NEW name \in Seq(Ids(doc)) PROVE Children(f, e, name) \in Seq(Frames(doc))
  <2>1. DOMAIN e.children = 1..Len(e.children) /\ Len(e.children) \in Nat
        /\ \A i \in 1..Len(e.children) : e.children[i] \in DOMAIN doc
    BY <1>2
  <2> DEFINE call(i) == Frame(e.children[i], name, Address(f, e), f.vars, FALSE)
             n == Len(e.children)
  <2>2. ASSUME NEW i \in 1..n PROVE call(i) \in Frames(doc)
    BY <1>1, <1>3, <2>1 DEF Frame, Frames
  <2>3. Children(f, e, name) = [i \in 1..n |-> call(i)] /\ n \in Nat
    BY <2>1 DEF Children
  <2> HIDE DEF call, n
  <2>4. [i \in 1..n |-> call(i)] \in Seq(Frames(doc))
    BY <2>2, <2>3
  <2> QED
    BY <2>3, <2>4
<1> QED
  BY <1>4, <1>5 DEF e

\* The parser keeps its types, and never takes a node back.
LEMMA ParserInductive ==
  ASSUME ParserTypes, ParserNext
  PROVE  /\ ParserTypes'
         /\ \A n \in DOMAIN nodes : n \in DOMAIN nodes' /\ nodes'[n] = nodes[n]
<1>1. CASE ParseDone \/ ParseFails
  <2>1. doc' = doc /\ nodes' = nodes /\ (stack' = stack \/ stack' = <<>>)
    BY <1>1 DEF ParseDone, ParseFails
  <2>2. Frames(doc)' = Frames(doc)
    BY <2>1 DEF Frames, Ids
  <2>3. <<>> \in Seq(Frames(doc))
    OBVIOUS
  <2> QED
    BY <2>1, <2>2, <2>3 DEF ParserTypes
<1>2. CASE MakeTree
  <2> DEFINE f == Head(stack)
             e == doc[f.element]
             name == SubstituteVars(Append(f.baseName, e.id), f.vars)
  <2>1. stack \in Seq(Frames(doc)) /\ stack # <<>> /\ doc' = doc
    BY <1>2 DEF MakeTree, ParserTypes
  <2>2. f \in Frames(doc) /\ Tail(stack) \in Seq(Frames(doc))
    BY <2>1
  <2>3. f.element \in DOMAIN doc /\ f.baseName \in Seq(Ids(doc)) /\ f.vars \in [Vars -> Int]
    BY <2>2 DEF Frames
  <2>4. IF ~f.isGenerated /\ Generates(e)
        THEN /\ stack' = Copies(f, e) \o Tail(stack)
             /\ UNCHANGED nodes
        ELSE /\ stack' = Children(f, e, name) \o Tail(stack)
             /\ nodes' = Insert(name, NewNode(f, e))
    BY <1>2 DEF MakeTree
  <2> HIDE DEF f
  <2>5. name \in Seq(Ids(doc))
    <3>1. e.id \in Ids(doc)
      BY <2>3, Attributes
    <3>2. Append(f.baseName, e.id) \in Seq(Ids(doc))
      BY <2>3, <3>1
    <3> QED
      BY <2>3, <3>2, NameTypes
  <2>6. /\ Generates(e) => Copies(f, e) \in Seq(Frames(doc))
        /\ Children(f, e, name) \in Seq(Frames(doc))
        /\ NewNode(f, e) \in Nodes
    BY <2>2, <2>5, CallTypes, NodeTypes
  <2> HIDE DEF e, name
  <2>7. stack' \in Seq(Frames(doc))
    <3> DEFINE F == Frames(doc)
    <3>1. Tail(stack) \in Seq(F)
      BY <2>2
    <3> HIDE DEF F
    <3>2. ASSUME NEW s \in Seq(F) PROVE s \o Tail(stack) \in Seq(F)
      BY <3>1
    <3>3. \/ stack' = Copies(f, e) \o Tail(stack) /\ Copies(f, e) \in Seq(F)
          \/ stack' = Children(f, e, name) \o Tail(stack) /\ Children(f, e, name) \in Seq(F)
      BY <2>4, <2>6 DEF F
    <3>4. stack' \in Seq(F)
      BY <3>2, <3>3, Zenon
    <3> QED
      BY <3>4 DEF F
  <2>8. /\ \A n \in DOMAIN nodes : n \in DOMAIN nodes' /\ nodes'[n] = nodes[n]
        /\ \A n \in DOMAIN nodes' : nodes'[n] \in Nodes
    <3>1. \A n \in DOMAIN nodes : nodes[n] \in Nodes
      BY DEF ParserTypes
    <3> QED
      BY <2>4, <2>6, <3>1 DEF Insert
  <2>9. Frames(doc)' = Frames(doc)
    BY <2>1 DEF Frames, Ids
  <2> QED
    BY <2>1, <2>7, <2>8, <2>9 DEF ParserTypes
<1> QED
  BY <1>1, <1>2 DEF ParserNext

-----------------------------------------------------------------------------
(* Types *)

\* What a write sends is a word.
LEMMA WordsType ==
  ASSUME TypeIInv, NEW c \in Clients, pc[c] = "write", NEW word \in Words(c)
  PROVE  word \subseteq Bits
<1>1. Mask(c) \subseteq Bits /\ cur[c] \subseteq Bits /\ job[c].value \subseteq Bits
  BY DEF TypeIInv, TypeOK, Named, Nodes, Mask
<1> QED
  BY <1>1 DEF Words, Merged

\* A program whose call is over, or that keeps its call, still knows its node.
LEMMA NamedKept ==
  ASSUME TypeIInv, NEW d \in Clients,
         \A n \in DOMAIN nodes : n \in DOMAIN nodes' /\ nodes'[n] = nodes[n],
         \/ pc'[d] \notin {"read", "write"}
         \/ pc'[d] = pc[d] /\ job'[d] = job[d]
  PROVE  /\ Named(d)'
         /\ pc'[d] \in {"read", "write"} => job'[d].node \in Nodes
<1>1. Named(d) /\ (pc[d] \in {"read", "write"} => job[d].node \in Nodes)
  BY DEF TypeIInv, TypeOK
<1>2. CASE pc'[d] \notin {"read", "write"}
  BY <1>2 DEF Named
<1>3. CASE pc'[d] = pc[d] /\ job'[d] = job[d]
  BY <1>1, <1>3 DEF Named, Bits
<1> QED
  BY <1>2, <1>3

\* The parts of the types that are not about calls.
LEMMA TypesFrom ==
  ASSUME ParserTypes', Shape',
         \A d \in Clients : /\ Named(d)'
                            /\ pc'[d] \in {"read", "write"} => job'[d].node \in Nodes,
         pc' \in [Clients -> {"new", "ready", "out", "dead", "read", "write", "return"}],
         loaded' \in [Clients -> BOOLEAN],
         cur' \in [Clients -> SUBSET Bits], since' \in [Clients -> SUBSET Bits],
         reg' \in [Registers -> SUBSET Bits], field' \in [Registers -> SUBSET Bits],
         lost' \in [Registers -> SUBSET Bits]
  PROVE  TypeIInv'
  BY DEF TypeIInv, TypeOK, Bits, Nodes

LEMMA TypeInitInductive == Init => TypeIInv
<1> SUFFICES ASSUME Init PROVE TypeIInv
  OBVIOUS
<1>1. ParserTypes
  <2>1. 1 \in DOMAIN doc /\ doc \in Docs
    BY DocsAssumption DEF Init, ParserInit, WellFormed
  <2>2. Frame(1, <<>>, 0, NoVars, FALSE) \in Frames(doc)
    <3>1. NoVars \in [Vars -> Int] /\ <<>> \in Seq(Ids(doc)) /\ 0 \in 0..(AddrMod - 1)
      <4>1. NoVars \in [Vars -> Int]
        BY DEF NoVars, Plain
      <4>2. <<>> \in Seq(Ids(doc))
        OBVIOUS
      <4>3. 0 \in 0..(AddrMod - 1)
        BY ParserAssumption
      <4> QED
        BY <4>1, <4>2, <4>3
    <3> QED
      BY <2>1, <3>1 DEF Frame, Frames
  <2>3. stack \in Seq(Frames(doc))
    <3> DEFINE f == Frame(1, <<>>, 0, NoVars, FALSE)
    <3>1. stack = <<f>> /\ f \in Frames(doc)
      BY <2>2 DEF Init, ParserInit
    <3> HIDE DEF f
    <3> QED
      BY <3>1
  <2> QED
    BY <2>1, <2>3 DEF Init, ParserInit, ParserTypes
<1>2. TypeOK
  BY InterfaceAssumption DEF Init, TypeOK
<1>3. Shape
  BY DEF Init, Shape
<1>4. \A c \in Clients : Named(c)
  BY DEF Init, Named
<1> QED
  BY <1>1, <1>2, <1>3, <1>4 DEF TypeIInv

LEMMA TypeNextInductive == TypeIInv /\ [Next]_vars => TypeIInv'
<1> SUFFICES ASSUME TypeIInv, [Next]_vars PROVE TypeIInv'
  OBVIOUS
<1> USE DEF cardVars, clientVars
<1> DEFINE Pcs == {"new", "ready", "out", "dead", "read", "write", "return"}
<1>1. /\ ParserTypes /\ Shape /\ pc \in [Clients -> Pcs] /\ loaded \in [Clients -> BOOLEAN]
      /\ cur \in [Clients -> SUBSET Bits] /\ since \in [Clients -> SUBSET Bits]
      /\ reg \in [Registers -> SUBSET Bits] /\ field \in [Registers -> SUBSET Bits]
      /\ lost \in [Registers -> SUBSET Bits]
  BY DEF TypeIInv, TypeOK
<1>2. CASE ParserNext /\ UNCHANGED <<clientVars, cardVars>>
  <2>1. /\ ParserTypes'
        /\ \A n \in DOMAIN nodes : n \in DOMAIN nodes' /\ nodes'[n] = nodes[n]
    BY <1>1, <1>2, ParserInductive
  <2>2. \A d \in Clients : /\ Named(d)'
                           /\ pc'[d] \in {"read", "write"} => job'[d].node \in Nodes
    BY <1>2, <2>1, NamedKept
  <2>3. Shape'
    BY <1>1, <1>2 DEF Shape
  <2> QED
    BY <1>1, <1>2, <2>1, <2>2, <2>3, TypesFrom
<1>3. ASSUME UNCHANGED parserVars
      PROVE  /\ ParserTypes'
             /\ \A n \in DOMAIN nodes : n \in DOMAIN nodes' /\ nodes'[n] = nodes[n]
  BY <1>1, <1>3 DEF parserVars, ParserTypes, Frames, Ids
<1>4. ASSUME NEW c \in Clients, UNCHANGED <<parserVars, reg, field, lost>>,
             NEW p \in Pcs, p \notin {"read", "write"}, pc' = [pc EXCEPT ![c] = p],
             loaded' = loaded \/ loaded' = [loaded EXCEPT ![c] = TRUE],
             job' = job \/ job' = [job EXCEPT ![c] = NoJob],
             NEW w \in SUBSET Bits, cur' = cur \/ cur' = [cur EXCEPT ![c] = w],
             since' = since \/ since' = [since EXCEPT ![c] = {}]
      PROVE  TypeIInv'
  <2>1. ParserTypes' /\ \A n \in DOMAIN nodes : n \in DOMAIN nodes' /\ nodes'[n] = nodes[n]
    BY <1>3, <1>4
  <2>2. Shape'
    BY <1>1, <1>4 DEF Shape
  <2>3. ASSUME NEW d \in Clients
        PROVE  pc'[d] \notin {"read", "write"} \/ (pc'[d] = pc[d] /\ job'[d] = job[d])
    <3>1. CASE d = c
      <4>1. pc'[c] = p
        BY <1>1, <1>4
      <4> QED
        BY <1>4, <3>1, <4>1
    <3>2. CASE d # c
      BY <1>1, <1>4, <3>2 DEF Shape
    <3> QED
      BY <3>1, <3>2
  <2>4. \A d \in Clients : /\ Named(d)'
                           /\ pc'[d] \in {"read", "write"} => job'[d].node \in Nodes
    BY <2>1, <2>3, NamedKept
  <2>5. pc' \in [Clients -> Pcs] /\ loaded' \in [Clients -> BOOLEAN]
    BY <1>1, <1>4
  <2>6. cur' \in [Clients -> SUBSET Bits] /\ since' \in [Clients -> SUBSET Bits]
    BY <1>1, <1>4
  <2> QED
    BY <1>1, <1>4, <2>1, <2>2, <2>4, <2>5, <2>6, TypesFrom
<1>5. ASSUME NEW c \in Clients, Connect(c) \/ InitFails(c) PROVE TypeIInv'
  <2>1. PICK p \in {"ready", "out", "dead"} : pc' = [pc EXCEPT ![c] = p]
    BY <1>5 DEF Connect, InitFails
  <2>2. UNCHANGED <<parserVars, reg, field, lost, loaded, job, cur, since>>
    BY <1>5 DEF Connect, InitFails
  <2> QED
    BY <1>4, <2>1, <2>2
<1>6. ASSUME NEW c \in Clients, LoadModule(c) PROVE TypeIInv'
  <2>1. pc[c] = "ready" /\ UNCHANGED <<parserVars, reg, field, lost, job, cur, since>>
    BY <1>6 DEF LoadModule
  <2>2. CASE loaded' = [loaded EXCEPT ![c] = TRUE] /\ UNCHANGED pc
    <3>1. pc' = [pc EXCEPT ![c] = "ready"]
      BY <1>1, <2>1, <2>2
    <3> QED
      BY <1>4, <2>1, <2>2, <3>1
  <2>3. CASE pc' = [pc EXCEPT ![c] = "dead"] /\ UNCHANGED loaded
    BY <1>4, <2>1, <2>3
  <2> QED
    BY <1>6, <2>2, <2>3 DEF LoadModule
<1>7. ASSUME NEW c \in Clients, NotFound(c) \/ CallFails(c) \/ Return(c) PROVE TypeIInv'
  <2>1. PICK p \in {"ready", "dead"} :
          /\ pc' = [pc EXCEPT ![c] = p] /\ job' = [job EXCEPT ![c] = NoJob]
          /\ cur' = [cur EXCEPT ![c] = {}]
    BY <1>7 DEF NotFound, CallFails, Return, Throw
  <2>2. UNCHANGED <<parserVars, reg, field, lost, loaded>>
    BY <1>7 DEF NotFound, CallFails, Return, Begin
  <2>3. since' = since \/ since' = [since EXCEPT ![c] = {}]
    BY <1>7 DEF NotFound, CallFails, Return
  <2>4. {} \in SUBSET Bits
    OBVIOUS
  <2> QED
    BY <1>4, <2>1, <2>2, <2>3, <2>4
<1>8. ASSUME NEW c \in Clients, ReadReg(c) \/ ReadRegAddress(c) \/ WriteReg(c) PROVE TypeIInv'
  <2>1. UNCHANGED <<parserVars, reg, field, lost, loaded, cur, since>>
    BY <1>8 DEF ReadReg, ReadRegAddress, WriteReg, Begin
  <2> DEFINE j == job'[c]
             p == pc'[c]
  <2>2. /\ job' = [job EXCEPT ![c] = j] /\ pc' = [pc EXCEPT ![c] = p] /\ p \in {"read", "write"}
        /\ j.kind \in {"read", "raw", "write"}
        /\ p = "write" => j.kind = "write"
        /\ j.kind \in {"read", "write"} => j.name \in DOMAIN nodes /\ j.node = nodes[j.name]
        /\ j.kind = "write" => j.value \subseteq Bits
        /\ j.node \in Nodes
    <3>1. CASE ReadReg(c)
      <4>1. PICK n \in Reads \cap DOMAIN nodes :
              job' = [job EXCEPT ![c] = [kind |-> "read", name |-> n, node |-> nodes[n]]]
        BY <3>1 DEF ReadReg
      <4>2. nodes[n] \in Nodes /\ pc' = [pc EXCEPT ![c] = "read"]
        BY <1>1, <3>1 DEF ParserTypes, ReadReg
      <4> DEFINE r == [kind |-> "read", name |-> n, node |-> nodes[n]]
      <4>3. job' = [job EXCEPT ![c] = r] /\ pc' = [pc EXCEPT ![c] = "read"]
        BY <4>1, <4>2
      <4> HIDE DEF r
      <4>4. j = r /\ p = "read"
        BY <1>1, <4>3 DEF Shape
      <4> HIDE DEF j, p
      <4>5. job' = [job EXCEPT ![c] = j] /\ pc' = [pc EXCEPT ![c] = p] /\ p \in {"read", "write"}
        BY <4>3, <4>4
      <4>6. /\ j.kind \in {"read", "raw", "write"}
            /\ p = "write" => j.kind = "write"
            /\ j.kind \in {"read", "write"} => j.name \in DOMAIN nodes /\ j.node = nodes[j.name]
            /\ j.kind = "write" => j.value \subseteq Bits
            /\ j.node \in Nodes
        BY <4>2, <4>4 DEF r
      <4> QED
        BY <4>5, <4>6
    <3>2. CASE ReadRegAddress(c)
      <4>1. PICK a \in RawReads :
              job' = [job EXCEPT ![c] = [kind |-> "raw", node |-> [real |-> a, mask |-> Bits]]]
        BY <3>2 DEF ReadRegAddress
      <4>2. [real |-> a, mask |-> Bits] \in Nodes /\ pc' = [pc EXCEPT ![c] = "read"]
        BY <3>2, InterfaceAssumption DEF Nodes, ReadRegAddress
      <4> DEFINE r == [kind |-> "raw", node |-> [real |-> a, mask |-> Bits]]
      <4>3. job' = [job EXCEPT ![c] = r] /\ pc' = [pc EXCEPT ![c] = "read"]
        BY <4>1, <4>2
      <4> HIDE DEF r
      <4>4. j = r /\ p = "read"
        BY <1>1, <4>3 DEF Shape
      <4> HIDE DEF j, p
      <4>5. job' = [job EXCEPT ![c] = j] /\ pc' = [pc EXCEPT ![c] = p] /\ p \in {"read", "write"}
        BY <4>3, <4>4
      <4>6. /\ j.kind \in {"read", "raw", "write"}
            /\ p = "write" => j.kind = "write"
            /\ j.kind \in {"read", "write"} => j.name \in DOMAIN nodes /\ j.node = nodes[j.name]
            /\ j.kind = "write" => j.value \subseteq Bits
            /\ j.node \in Nodes
        BY <4>2, <4>4 DEF r
      <4> QED
        BY <4>5, <4>6
    <3>3. CASE WriteReg(c)
      <4>1. PICK w \in Writes :
              /\ w.name \in DOMAIN nodes
              /\ job' = [job EXCEPT ![c] = [kind |-> "write", name |-> w.name, value |-> w.value,
                                            node |-> nodes[w.name]]]
              /\ pc' = [pc EXCEPT ![c] = IF nodes[w.name].mask = Bits THEN "write" ELSE "read"]
        BY <3>3 DEF WriteReg
      <4>2. nodes[w.name] \in Nodes /\ w.value \subseteq Bits
        BY <1>1, <4>1, InterfaceAssumption DEF ParserTypes
      <4> DEFINE q == IF nodes[w.name].mask = Bits THEN "write" ELSE "read"
      <4> DEFINE r == [kind |-> "write", name |-> w.name, value |-> w.value,
                       node |-> nodes[w.name]]
      <4>3. job' = [job EXCEPT ![c] = r] /\ pc' = [pc EXCEPT ![c] = q] /\ q \in {"read", "write"}
        BY <4>1
      <4> HIDE DEF q, r
      <4>4. j = r /\ p = q
        BY <1>1, <4>3 DEF Shape
      <4> HIDE DEF j, p
      <4>5. job' = [job EXCEPT ![c] = j] /\ pc' = [pc EXCEPT ![c] = p] /\ p \in {"read", "write"}
        BY <4>3, <4>4
      <4>6. /\ j.kind \in {"read", "raw", "write"}
            /\ p = "write" => j.kind = "write"
            /\ j.kind \in {"read", "write"} => j.name \in DOMAIN nodes /\ j.node = nodes[j.name]
            /\ j.kind = "write" => j.value \subseteq Bits
            /\ j.node \in Nodes
        BY <4>1, <4>2, <4>4 DEF r
      <4> QED
        BY <4>5, <4>6
    <3> QED
      BY <1>8, <3>1, <3>2, <3>3
  <2>3. ParserTypes' /\ \A n \in DOMAIN nodes : n \in DOMAIN nodes' /\ nodes'[n] = nodes[n]
    BY <1>3, <2>1
  <2>4. ASSUME NEW d \in Clients
        PROVE  /\ Named(d)'
               /\ pc'[d] \in {"read", "write"} => job'[d].node \in Nodes
    <3>1. CASE d # c
      <4>1. pc'[d] = pc[d] /\ job'[d] = job[d]
        BY <1>1, <2>2, <3>1 DEF Shape
      <4> QED
        BY <2>3, <4>1, NamedKept
    <3>2. CASE d = c
      <4>1. nodes' = nodes
        BY <2>1 DEF parserVars
      <4> QED
        BY <2>2, <3>2, <4>1 DEF Named, Bits
    <3> QED
      BY <3>1, <3>2
  <2>5. Shape'
    BY <1>1, <2>1, <2>2 DEF Shape
  <2>6. pc' \in [Clients -> Pcs]
    BY <1>1, <2>2
  <2> QED
    BY <1>1, <2>1, <2>3, <2>4, <2>5, <2>6, TypesFrom
<1>9. ASSUME NEW c \in Clients, ReadServed(c) PROVE TypeIInv'
  <2>1. /\ UNCHANGED <<parserVars, loaded, job, reg, field, lost>>
        /\ pc[c] = "read" /\ At(c) \in Registers
        /\ since' = [since EXCEPT ![c] = {}]
    BY <1>9 DEF ReadServed, Served
  <2>2. PICK w \in SUBSET Bits : cur' = [cur EXCEPT ![c] = w]
    <3>1. Extract(reg[At(c)], Mask(c)) \in SUBSET Bits /\ reg[At(c)] \in SUBSET Bits
      BY <1>1, <2>1 DEF Extract
    <3> QED
      BY <1>9, <3>1 DEF ReadServed
  <2>3. CASE job[c].kind = "write"
    <3>1. pc' = [pc EXCEPT ![c] = "write"]
      BY <1>9, <2>3 DEF ReadServed
    <3>2. ParserTypes' /\ \A n \in DOMAIN nodes : n \in DOMAIN nodes' /\ nodes'[n] = nodes[n]
      BY <1>3, <2>1
    <3>3. ASSUME NEW d \in Clients
          PROVE  /\ Named(d)'
                 /\ pc'[d] \in {"read", "write"} => job'[d].node \in Nodes
      <4>1. CASE d # c
        <5>1. pc'[d] = pc[d] /\ job'[d] = job[d]
          BY <1>1, <2>1, <3>1, <4>1 DEF Shape
        <5> QED
          BY <3>2, <5>1, NamedKept
      <4>2. CASE d = c
        <5>1. Named(c) /\ job[c].node \in Nodes
          BY <2>1 DEF TypeIInv, TypeOK
        <5>2. nodes' = nodes /\ job' = job
          BY <2>1 DEF parserVars
        <5> QED
          BY <2>1, <2>3, <4>2, <5>1, <5>2 DEF Named, Bits
      <4> QED
        BY <4>1, <4>2
    <3>4. Shape'
      BY <1>1, <2>1, <2>2, <3>1 DEF Shape
    <3>5. /\ pc' \in [Clients -> Pcs] /\ cur' \in [Clients -> SUBSET Bits]
          /\ since' \in [Clients -> SUBSET Bits]
      BY <1>1, <2>1, <2>2, <3>1
    <3> QED
      BY <1>1, <2>1, <3>2, <3>3, <3>4, <3>5, TypesFrom
  <2>4. CASE job[c].kind # "write"
    <3>1. pc' = [pc EXCEPT ![c] = "return"]
      BY <1>9, <2>4 DEF ReadServed
    <3> QED
      BY <1>4, <2>1, <2>2, <3>1
  <2> QED
    BY <2>3, <2>4
<1>10. ASSUME NEW c \in Clients, WriteServed(c) \/ AnswerLost(c) PROVE TypeIInv'
  <2>1. pc[c] = "write" /\ UNCHANGED <<parserVars, loaded>>
    BY <1>10 DEF WriteServed, AnswerLost
  <2>2. PICK word \in Words(c) : Store(c, word)
    BY <1>10 DEF WriteServed, AnswerLost
  <2>3. PICK to \in {"ready", "dead"} :
          /\ pc' = [pc EXCEPT ![c] = to] /\ job' = [job EXCEPT ![c] = NoJob]
          /\ cur' = [cur EXCEPT ![c] = {}]
    BY <1>10 DEF WriteServed, AnswerLost, Throw
  <2>4. word \in SUBSET Bits /\ Mask(c) \in SUBSET Bits
    BY <2>1, WordsType DEF TypeIInv, TypeOK, Nodes, Mask
  <2>5. ParserTypes' /\ \A n \in DOMAIN nodes : n \in DOMAIN nodes' /\ nodes'[n] = nodes[n]
    BY <1>3, <2>1
  <2>6. \A d \in Clients : /\ Named(d)'
                           /\ pc'[d] \in {"read", "write"} => job'[d].node \in Nodes
    <3>1. ASSUME NEW d \in Clients
          PROVE  pc'[d] \notin {"read", "write"} \/ (pc'[d] = pc[d] /\ job'[d] = job[d])
      <4>1. CASE d = c
        <5>1. pc'[c] = to
          BY <1>1, <2>3
        <5> QED
          BY <2>3, <4>1, <5>1
      <4>2. CASE d # c
        BY <1>1, <2>3, <4>2 DEF Shape
      <4> QED
        BY <4>1, <4>2
    <3> QED
      BY <2>5, <3>1, NamedKept
  <2>7. Shape'
    BY <1>1, <2>2, <2>3 DEF Shape, Store
  <2>8. /\ reg' \in [Registers -> SUBSET Bits] /\ field' \in [Registers -> SUBSET Bits]
        /\ lost' \in [Registers -> SUBSET Bits]
    BY <1>1, <2>2, <2>4 DEF Store
  <2>9. since' \in [Clients -> SUBSET Bits]
    BY <1>1, <2>2, <2>4 DEF Store
  <2>10. pc' \in [Clients -> Pcs] /\ cur' \in [Clients -> SUBSET Bits]
    BY <1>1, <2>3
  <2> QED
    BY <1>1, <2>1, <2>5, <2>6, <2>7, <2>8, <2>9, <2>10, TypesFrom
<1>11. CASE UNCHANGED vars
  <2>1. UNCHANGED <<parserVars, clientVars, cardVars>>
    BY <1>11 DEF vars
  <2>2. ParserTypes' /\ \A n \in DOMAIN nodes : n \in DOMAIN nodes' /\ nodes'[n] = nodes[n]
    BY <1>3, <2>1
  <2>3. \A d \in Clients : /\ Named(d)'
                           /\ pc'[d] \in {"read", "write"} => job'[d].node \in Nodes
    BY <2>1, <2>2, NamedKept
  <2>4. Shape'
    BY <1>1, <2>1 DEF Shape
  <2> QED
    BY <1>1, <2>1, <2>2, <2>3, <2>4, TypesFrom
<1> QED
  BY <1>2, <1>5, <1>6, <1>7, <1>8, <1>9, <1>10, <1>11 DEF Next, Program

\* The node every register call works with has an address and a mask of 32 bits,
\* for every address table, and so have the words that are read and written.
THEOREM TypeCorrect == Spec => []TypeOK
<1>1. TypeIInv => TypeOK
  BY DEF TypeIInv
<1> QED
  BY <1>1, TypeInitInductive, TypeNextInductive, PTL DEF Spec

-----------------------------------------------------------------------------
(* What a read returns *)

\* A mask that is not 0 has a lowest bit: the loops stop there.
LEMMA LowestBit ==
  ASSUME NEW mask \in SUBSET Bits, mask # {}
  PROVE  /\ ShiftAmount(mask) \in mask
         /\ ShiftAmount(mask) \in Nat /\ ShiftAmount(mask) < Width
         /\ \A b \in mask : ShiftAmount(mask) <= b
<1>1. mask \subseteq Nat /\ \A b \in mask : b < Width
  BY ParserAssumption DEF Bits
<1>2. PICK x \in mask : \A y \in mask : <<y, x>> \notin OpToRel(<, Nat)
  BY <1>1, WFMin, NatLessThanWellFounded, Zenon
<1>3. \A y \in mask : <<y, x>> \in Nat \X Nat
  BY <1>1
<1>4. \A y \in mask : ~(y < x)
  BY <1>2, <1>3 DEF OpToRel
<1>5. \A y \in mask : x <= y
  BY <1>1, <1>4
<1>6. /\ ShiftAmount(mask) \in mask
      /\ \A b \in mask : ShiftAmount(mask) <= b
  BY <1>5 DEF ShiftAmount
<1> QED
  BY <1>1, <1>6

\* readReg looks at the bits of the mask only.
LEMMA ExtractMasked ==
  ASSUME NEW mask, NEW f, NEW g, f \cap mask = g \cap mask
  PROVE  Extract(f, mask) = Extract(g, mask)
  BY DEF Extract

\* The shift of readReg undoes the shift of writeReg, on the bits that fit.
LEMMA ShiftsAgree ==
  ASSUME NEW mask \in SUBSET Bits, mask # {}, NEW value \in SUBSET Bits,
         NEW s \in Shifted(value, mask)
  PROVE  Extract(s, mask) = Fitting(value, mask)
<1> DEFINE k == ShiftAmount(mask)
<1>1. k \in Nat /\ k < Width
  BY LowestBit
<1>2. s = {b \in Bits : b - k \in value}
  BY <1>1 DEF Shifted
<1>3. Bits \subseteq Int
  BY DEF Bits
<1> HIDE DEF k
<1>4. ASSUME NEW b \in Bits
      PROVE  b + k \in s \cap mask <=> b \in value /\ b + k \in mask
  <2>1. PICK x \in Int : x = b + k /\ x - k = b
    BY <1>1, <1>3
  <2>2. x \in s <=> x \in Bits /\ x - k \in value
    BY <1>2
  <2> QED
    BY <2>1, <2>2
<1>5. {b \in Bits : b + k \in s \cap mask} = {b \in value : b + k \in mask}
  BY <1>4
<1> QED
  BY <1>5 DEF Extract, Fitting, k

\* The field of a name whose writeReg was served reads back as the value it was given.
LEMMA WriteReadsBack ==
  ASSUME TypeIInv, NEW c \in Clients, pc[c] = "write", NEW word \in Words(c),
         NEW f, f \cap Mask(c) = word \cap Mask(c)
  PROVE  Extract(f, Mask(c)) = Fitting(job[c].value, Mask(c))
<1> DEFINE mask == Mask(c)
           value == job[c].value
<1>1. mask \in SUBSET Bits /\ value \in SUBSET Bits
  BY DEF TypeIInv, TypeOK, Named, Nodes, Mask
<1> HIDE DEF mask, value
<1> SUFFICES Extract(f, mask) = Fitting(value, mask)
  BY DEF mask, value
<1>2. Extract(f, mask) = Extract(word, mask)
  BY ExtractMasked DEF mask
<1>3. CASE mask = {}
  BY <1>2, <1>3 DEF Extract, Fitting
<1>4. CASE mask = Bits /\ mask # {}
  <2>1. word = value
    BY <1>4 DEF Words, mask, value
  <2>2. 0 \in Bits /\ Bits \subseteq Nat
    BY ParserAssumption DEF Bits
  <2>3. ShiftAmount(mask) = 0
    BY <1>1, <1>4, <2>2, LowestBit
  <2>4. \A b \in Bits : b + 0 = b
    BY <2>2
  <2> QED
    BY <1>1, <1>2, <1>4, <2>1, <2>3, <2>4 DEF Extract, Fitting
<1>5. CASE mask # Bits /\ mask # {}
  <2>1. PICK s \in Shifted(value, mask) : word = Merged(s, mask, cur[c])
    BY <1>5 DEF Words, mask, value
  <2>2. word \cap mask = s \cap mask
    BY <2>1 DEF Merged
  <2>3. Extract(word, mask) = Extract(s, mask)
    BY <2>2, ExtractMasked
  <2> QED
    BY <1>1, <1>2, <1>5, <2>3, ShiftsAgree
<1> QED
  BY <1>3, <1>4, <1>5

\* What a served write leaves known about the names.
LEMMA StoreLast ==
  ASSUME TypeIInv, LastKnown, NEW c \in Clients, pc[c] = "write", At(c) \in Registers,
         NEW word \in Words(c), Store(c, word), nodes' = nodes
  PROVE  LastKnown'
<1> DEFINE a == At(c)
<1>1. /\ job[c].name \in DOMAIN nodes /\ job[c].node = nodes[job[c].name]
  BY DEF TypeIInv, Named
<1>2. /\ field'[a] = (Mask(c) \cap word) \cup (field[a] \ Mask(c))
      /\ \A r \in Registers \ {a} : field'[r] = field[r]
  BY DEF TypeIInv, Shape, Store
<1>3. DOMAIN last' = DOMAIN last
  BY DEF Store
<1>4. ASSUME NEW n \in DOMAIN last, last'[n].known
      PROVE  /\ n \in DOMAIN nodes /\ nodes[n].real \in Registers
             /\ last'[n].value = Extract(field'[nodes[n].real], nodes[n].mask)
  <2>1. CASE n = job[c].name
    <3>1. last'[n] = [known |-> TRUE, value |-> Fitting(job[c].value, Mask(c))]
      BY <2>1 DEF Store
    <3>2. nodes[n].real = a /\ nodes[n].mask = Mask(c)
      BY <1>1, <2>1 DEF At, Mask
    <3>3. field'[a] \cap Mask(c) = word \cap Mask(c)
      BY <1>2
    <3>4. Extract(field'[a], Mask(c)) = Fitting(job[c].value, Mask(c))
      BY <3>3, WriteReadsBack
    <3> QED
      BY <1>1, <2>1, <3>1, <3>2, <3>4
  <2>2. CASE n # job[c].name
    <3>1. n \notin Overlapping(c) /\ last'[n] = last[n]
      <4>1. n \in Overlapping(c) => last'[n] = Unknown
        BY <2>2 DEF Store
      <4>2. n \notin Overlapping(c) => last'[n] = last[n]
        BY <2>2 DEF Store
      <4> QED
        BY <1>4, <4>1, <4>2 DEF Unknown
    <3>2. /\ n \in DOMAIN nodes /\ nodes[n].real \in Registers
          /\ last[n].value = Extract(field[nodes[n].real], nodes[n].mask)
      BY <1>4, <3>1 DEF LastKnown
    <3>3. nodes[n].real # a \/ nodes[n].mask \cap Mask(c) = {}
      BY <3>1, <3>2 DEF Overlapping
    <3>4. field'[nodes[n].real] \cap nodes[n].mask = field[nodes[n].real] \cap nodes[n].mask
      BY <1>2, <3>2, <3>3
    <3> QED
      BY <3>1, <3>2, <3>4, ExtractMasked
  <2> QED
    BY <2>1, <2>2
<1> QED
  BY <1>3, <1>4 DEF LastKnown, Extract, Bits

\* No other step changes the fields or what is known about the names, and the
\* parser never takes a node back.
LEMMA QuietLast ==
  ASSUME LastKnown, UNCHANGED <<field, last>>,
         \A n \in DOMAIN nodes : n \in DOMAIN nodes' /\ nodes'[n] = nodes[n]
  PROVE  LastKnown'
<1>1. ASSUME NEW n \in DOMAIN last, last[n].known
      PROVE  /\ n \in DOMAIN nodes' /\ nodes'[n].real \in Registers
             /\ last[n].value = Extract(field[nodes'[n].real], nodes'[n].mask)
  <2>1. /\ n \in DOMAIN nodes /\ nodes[n].real \in Registers
        /\ last[n].value = Extract(field[nodes[n].real], nodes[n].mask)
    BY <1>1 DEF LastKnown
  <2> QED
    BY <2>1
<1> QED
  BY <1>1 DEF LastKnown, Extract, Bits

LEMMA ReadsInitInductive == Init => ReadsIInv
<1>1. Init => LastKnown
  BY DEF Init, LastKnown, Unknown
<1> QED
  BY <1>1, InitInductive, TypeInitInductive DEF ReadsIInv

LEMMA ReadsNextInductive == ReadsIInv /\ [Next]_vars => ReadsIInv'
<1> SUFFICES ASSUME ReadsIInv, [Next]_vars PROVE LastKnown'
  BY NextInductive, TypeNextInductive DEF ReadsIInv
<1> USE DEF cardVars, clientVars
<1>1. TypeIInv /\ LastKnown /\ ParserTypes
  BY DEF ReadsIInv, TypeIInv
<1>2. ASSUME UNCHANGED <<parserVars, field, last>> PROVE LastKnown'
  <2>1. UNCHANGED <<nodes, field, last>>
    BY <1>2 DEF parserVars
  <2> QED
    BY <1>1, <2>1, QuietLast
<1>3. CASE ParserNext /\ UNCHANGED <<clientVars, cardVars>>
  BY <1>1, <1>3, ParserInductive, QuietLast
<1>4. ASSUME NEW c \in Clients, WriteServed(c) \/ AnswerLost(c) PROVE LastKnown'
  <2>1. /\ pc[c] = "write" /\ At(c) \in Registers /\ UNCHANGED parserVars
    BY <1>4 DEF WriteServed, AnswerLost, Served
  <2>2. PICK word \in Words(c) : Store(c, word)
    BY <1>4 DEF WriteServed, AnswerLost
  <2>3. nodes' = nodes
    BY <2>1 DEF parserVars
  <2> QED
    BY <1>1, <2>1, <2>2, <2>3, StoreLast
<1>5. ASSUME NEW c \in Clients, Connect(c) \/ InitFails(c) \/ LoadModule(c) PROVE LastKnown'
  BY <1>2, <1>5 DEF Connect, InitFails, LoadModule
<1>6. ASSUME NEW c \in Clients, ReadReg(c) \/ ReadRegAddress(c) \/ WriteReg(c) \/ NotFound(c)
      PROVE  LastKnown'
  BY <1>2, <1>6 DEF ReadReg, ReadRegAddress, WriteReg, NotFound, Begin
<1>7. ASSUME NEW c \in Clients, ReadServed(c) \/ Return(c) \/ CallFails(c) PROVE LastKnown'
  BY <1>2, <1>7 DEF ReadServed, Return, CallFails
<1>8. CASE UNCHANGED vars
  BY <1>2, <1>8 DEF vars
<1> QED
  BY <1>3, <1>4, <1>5, <1>6, <1>7, <1>8 DEF Next, Program

\* A call goes from its memory.read to its return by an answer only.
LEMMA ReadAnswered ==
  ASSUME Shape, Next, NEW c \in Clients, pc[c] = "read", pc'[c] = "return"
  PROVE  ReadServed(c)
<1> USE DEF cardVars, clientVars
<1>1. ~(ParserNext /\ UNCHANGED <<clientVars, cardVars>>)
  OBVIOUS
<1>2. PICK d \in Clients : Program(d)
  BY <1>1 DEF Next
<1>3. PICK p : pc' = [pc EXCEPT ![d] = p] \/ pc' = pc
  <2>1. CASE Connect(d) \/ InitFails(d) \/ LoadModule(d)
    BY <2>1 DEF Connect, InitFails, LoadModule
  <2>2. CASE ReadReg(d) \/ ReadRegAddress(d) \/ WriteReg(d) \/ NotFound(d)
    BY <2>2 DEF ReadReg, ReadRegAddress, WriteReg, NotFound, Throw
  <2>3. CASE ReadServed(d) \/ Return(d) \/ WriteServed(d) \/ AnswerLost(d) \/ CallFails(d)
    BY <2>3 DEF ReadServed, Return, WriteServed, AnswerLost, CallFails, Throw
  <2> QED
    BY <1>2, <2>1, <2>2, <2>3 DEF Program
<1>4. d = c
  BY <1>3 DEF Shape
<1>5. ~(Connect(c) \/ InitFails(c) \/ LoadModule(c))
  BY DEF Connect, InitFails, LoadModule
<1>6. ~(ReadReg(c) \/ ReadRegAddress(c) \/ WriteReg(c) \/ NotFound(c))
  BY DEF ReadReg, ReadRegAddress, WriteReg, NotFound, Begin
<1>7. ~(Return(c) \/ WriteServed(c) \/ AnswerLost(c))
  BY DEF Return, WriteServed, AnswerLost
<1>8. ~CallFails(c)
  BY DEF CallFails, Throw, Shape
<1> QED
  BY <1>2, <1>4, <1>5, <1>6, <1>7, <1>8 DEF Program

\* readReg returns what writeReg was last given for the name, as far as it fits the
\* field, for every mask and every interleaving of programs; unless another name's
\* field overlaps it, or a masked write put one of its bits back.
THEOREM ReadsSafe == Spec => ReadsBack
<1>1. ASSUME ReadsIInv, [Next]_vars, NEW c \in Clients,
             pc[c] = "read", job[c].kind = "read", pc'[c] = "return",
             job[c].name \in DOMAIN last, last[job[c].name].known,
             lost[At(c)] \cap Mask(c) = {}
      PROVE  cur'[c] = last[job[c].name].value
  <2> USE DEF cardVars, clientVars
  <2>1. TypeIInv /\ IInv /\ LastKnown /\ Shape
    BY <1>1 DEF ReadsIInv, TypeIInv
  <2>2. ReadServed(c)
    <3>1. ~UNCHANGED vars
      BY <1>1 DEF vars
    <3> QED
      BY <1>1, <2>1, <3>1, ReadAnswered
  <2>3. At(c) \in Registers /\ cur'[c] = Extract(reg[At(c)], Mask(c))
    BY <1>1, <2>1, <2>2 DEF ReadServed, Served, Shape
  <2>4. job[c].node = nodes[job[c].name] /\ job[c].node \in Nodes
    BY <1>1, <2>1 DEF TypeIInv, TypeOK, Named
  <2>5. Mask(c) \subseteq Bits /\ Mask(c) = nodes[job[c].name].mask
        /\ At(c) = nodes[job[c].name].real
    BY <2>4 DEF Mask, At, Nodes
  <2>6. reg[At(c)] \cap Mask(c) = field[At(c)] \cap Mask(c)
    BY <1>1, <2>1, <2>3, <2>5 DEF IInv, FieldsKept
  <2>7. Extract(reg[At(c)], Mask(c)) = Extract(field[At(c)], Mask(c))
    BY <2>6, ExtractMasked
  <2> QED
    BY <1>1, <2>1, <2>3, <2>5, <2>7 DEF LastKnown
<1>2. ReadsIInv /\ [Next]_vars =>
        \A c \in Clients :
          /\ pc[c] = "read"
          /\ job[c].kind = "read"
          /\ pc'[c] = "return"
          /\ job[c].name \in DOMAIN last
          /\ last[job[c].name].known
          /\ lost[At(c)] \cap Mask(c) = {}
          => cur'[c] = last[job[c].name].value
  BY <1>1
<1> QED
  BY <1>2, ReadsInitInductive, ReadsNextInductive, PTL DEF Spec, ReadsBack

-----------------------------------------------------------------------------
(* The address table against the instances of the document.  A way is a path of *)
(* places from the root, or no place at all.  Each call on the stack has a      *)
(* ghost: the way to its parent and the copies it stands for; the instances     *)
(* below them are its region.  The regions of the stack and the instances done  *)
(* partition the instances of the document, in its order.                       *)

\* The ways of a document, the empty one included.
Ways(d) == Instances(d) \cup {<<>>}

\* w is the way p and one more place.
Adds(p, q, w) ==
  /\ Len(w) = Len(p) + 1
  /\ \A i \in 1..Len(p) : w[i] = p[i]
  /\ w[Len(p) + 1] = q

\* The value a variable has at the end of a way.
VarOf(d, w, v) ==
  IF Binders(d, w, v, Len(w)) = {} THEN Plain ELSE w[Highest(Binders(d, w, v, Len(w)))][2]

VarsOf(d, w) == [v \in Vars |-> VarOf(d, w, v)]

LeadsTo(d, p, x) == IF p = <<>> THEN x = 1 ELSE IsChild(d, p[Len(p)][1], x)

\* A set of numbers has a least one.
LEMMA Least ==
  ASSUME NEW T, T \subseteq Nat, T # {}
  PROVE  \E m \in T : \A n \in T : m <= n
<1>1. PICK m \in T : \A n \in T : <<n, m>> \notin OpToRel(<, Nat)
  BY WFMin, NatLessThanWellFounded, Zenon
<1>2. \A n \in T : <<n, m>> \in Nat \X Nat
  OBVIOUS
<1>3. \A n \in T : ~(n < m)
  BY <1>1, <1>2 DEF OpToRel
<1> QED
  BY <1>3

\* A set of steps has a highest and a lowest one.
LEMMA Ends ==
  ASSUME NEW n \in Nat, NEW S \in SUBSET (1..n), S # {}
  PROVE  /\ Highest(S) \in S /\ \A k \in S : k <= Highest(S)
         /\ Lowest(S) \in S /\ \A k \in S : Lowest(S) <= k
<1>1. S \subseteq Nat
  OBVIOUS
<1>2. \E j \in S : \A k \in S : j <= k
  BY <1>1, Least
<1>3. \E j \in S : \A k \in S : k <= j
  <2> DEFINE T == {n - k : k \in S}
  <2>1. T \subseteq Nat /\ T # {}
    <3>1. \A k \in S : n - k \in Nat
      OBVIOUS
    <3>2. T \subseteq Nat
      BY <3>1
    <3>3. T # {}
      OBVIOUS
    <3> QED
      BY <3>2, <3>3
  <2>2. \A k \in S : n - k \in T
    OBVIOUS
  <2>3. \A m \in T : \E k \in S : m = n - k
    OBVIOUS
  <2> HIDE DEF T
  <2>4. PICK m \in T : \A k \in T : m <= k
    BY <2>1, Least
  <2>5. PICK j \in S : m = n - j
    BY <2>3
  <2>6. \A k \in S : n - j <= n - k
    BY <2>2, <2>4, <2>5
  <2> QED
    BY <2>5, <2>6
<1> QED
  BY <1>2, <1>3 DEF Highest, Lowest

\* The highest and the lowest one are the only ones of their kind.
LEMMA EndsUnique ==
  ASSUME NEW n \in Nat, NEW S \in SUBSET (1..n), NEW j \in S
  PROVE  /\ (\A k \in S : k <= j) => Highest(S) = j
         /\ (\A k \in S : j <= k) => Lowest(S) = j
<1>1. /\ Highest(S) \in S /\ \A k \in S : k <= Highest(S)
      /\ Lowest(S) \in S /\ \A k \in S : Lowest(S) <= k
  BY Ends
<1>2. \A k \in S : k \in Int
  OBVIOUS
<1>3. j \in Int /\ Highest(S) \in Int /\ Lowest(S) \in Int
  BY <1>1, <1>2
<1>4. ASSUME \A k \in S : k <= j PROVE Highest(S) = j
  <2>1. Highest(S) <= j /\ j <= Highest(S)
    BY <1>1, <1>4
  <2> QED
    BY <1>3, <2>1
<1>5. ASSUME \A k \in S : j <= k PROVE Lowest(S) = j
  <2>1. Lowest(S) <= j /\ j <= Lowest(S)
    BY <1>1, <1>5
  <2> QED
    BY <1>3, <2>1
<1> QED
  BY <1>4, <1>5

-----------------------------------------------------------------------------
(* The instances of a document *)

\* The attributes of a document that was handed over.
LEMMA Elements ==
  ASSUME NEW d, WellFormed(d), NEW x \in DOMAIN d
  PROVE  /\ d[x].id = <<d[x].id[1], d[x].id[2]>> /\ d[x].id[2] \in Int
         /\ d[x].address # Absent => ParseInt(d[x].address) \in Nat
         /\ Generates(d[x]) => /\ ParseInt(d[x].size) \in Nat
                               /\ ParseInt(d[x].step) \in Nat
                               /\ d[x].var \in Vars
         /\ d[x].children \in Seq(DOMAIN d)
         /\ \A k \in DOMAIN d[x].children : x < d[x].children[k]
         /\ x \in Nat /\ x <= Len(d) /\ Len(d) \in Nat
<1>1. 0..(AddrMod - 1) \subseteq Nat
  BY ParserAssumption
<1>2. d[x].id \in {d[y].id[1] : y \in DOMAIN d} \X Int
  BY DEF WellFormed
<1>3. d[x].id = <<d[x].id[1], d[x].id[2]>> /\ d[x].id[2] \in Int
  BY <1>2
<1> QED
  BY <1>1, <1>3 DEF WellFormed, ParseInt, Generates

\* The numbers of copies.
LEMMA CopyTypes ==
  ASSUME NEW d, WellFormed(d), NEW x \in DOMAIN d
  PROVE  CopyNumbers(d, x) \subseteq Nat
  BY Elements DEF CopyNumbers

\* The places of a document.
LEMMA PlacesDef ==
  ASSUME NEW d, WellFormed(d)
  PROVE  /\ \A x \in DOMAIN d : \A c \in CopyNumbers(d, x) : <<x, c>> \in Places(d)
         /\ \A q \in Places(d) : /\ q = <<q[1], q[2]>> /\ q[1] \in DOMAIN d
                                 /\ q[2] \in CopyNumbers(d, q[1]) /\ q[2] \in Nat
<1>1. \A x \in DOMAIN d : CopyNumbers(d, x) \subseteq Nat
  BY CopyTypes
<1>2. \A x \in DOMAIN d : \A c \in CopyNumbers(d, x) : <<x, c>> \in Places(d)
  BY DEF Places
<1>3. \A q \in Places(d) : \E x \in DOMAIN d : \E c \in CopyNumbers(d, x) : q = <<x, c>>
  BY DEF Places
<1> QED
  BY <1>1, <1>2, <1>3

\* An instance is a sequence of places, each a child of the one before.
LEMMA InstancesDef ==
  ASSUME NEW d, WellFormed(d), NEW w
  PROVE  w \in Instances(d) <=>
           /\ w \in Seq(Places(d)) /\ Len(w) \in 1..Len(d)
           /\ w[1][1] = 1
           /\ \A i \in 1..(Len(w) - 1) : IsChild(d, w[i][1], w[i + 1][1])
<1> DEFINE P == Places(d)
           U == UNION {[1..n -> P] : n \in 1..Len(d)}
<1>0. Len(d) \in Nat
  BY DEF WellFormed
<1>1. ASSUME w \in U PROVE w \in Seq(P) /\ Len(w) \in 1..Len(d)
  <2>1. PICK n \in 1..Len(d) : w \in [1..n -> P]
    BY <1>1
  <2>2. n \in Nat
    BY <1>0
  <2> HIDE DEF P
  <2>3. w \in Seq(P) /\ Len(w) = n
    BY <2>1, <2>2
  <2> QED
    BY <2>3
<1>2. ASSUME w \in Seq(P), Len(w) \in 1..Len(d) PROVE w \in U
  <2> HIDE DEF P
  <2>1. w \in [1..Len(w) -> P]
    BY <1>2
  <2> QED
    BY <1>2, <2>1
<1> QED
  BY <1>1, <1>2 DEF Instances

\* A way is a sequence of places of elements.
LEMMA WayTypes ==
  ASSUME NEW d, WellFormed(d), NEW w \in Ways(d)
  PROVE  /\ w \in Seq(Places(d)) /\ Len(w) \in Nat /\ DOMAIN w = 1..Len(w)
         /\ \A i \in 1..Len(w) : /\ w[i] \in Places(d)
                                 /\ w[i] = <<w[i][1], w[i][2]>> /\ w[i][1] \in DOMAIN d
                                 /\ w[i][2] \in CopyNumbers(d, w[i][1]) /\ w[i][2] \in Nat
         /\ w # <<>> => w \in Instances(d)
<1>1. w \in Seq(Places(d)) /\ (w # <<>> => w \in Instances(d))
  <2>1. <<>> \in Seq(Places(d))
    OBVIOUS
  <2>2. w \in Instances(d) => w \in Seq(Places(d))
    BY InstancesDef
  <2> QED
    BY <2>1, <2>2, Zenon DEF Ways
<1> DEFINE P == Places(d)
<1>2. w \in Seq(P)
  BY <1>1
<1> HIDE DEF P
<1>3. Len(w) \in Nat /\ DOMAIN w = 1..Len(w) /\ \A i \in 1..Len(w) : w[i] \in P
  BY <1>2
<1>4. \A q \in P : /\ q = <<q[1], q[2]>> /\ q[1] \in DOMAIN d
                   /\ q[2] \in CopyNumbers(d, q[1]) /\ q[2] \in Nat
  BY PlacesDef DEF P
<1>5. \A i \in 1..Len(w) : /\ w[i] \in P
                           /\ w[i] = <<w[i][1], w[i][2]>> /\ w[i][1] \in DOMAIN d
                           /\ w[i][2] \in CopyNumbers(d, w[i][1]) /\ w[i][2] \in Nat
  BY <1>3, <1>4
<1> QED
  BY <1>1, <1>3, <1>5 DEF P

\* A sequence with one more element.
LEMMA Appended ==
  ASSUME NEW S, NEW p \in Seq(S), NEW q \in S
  PROVE  /\ Append(p, q) \in Seq(S) /\ Len(Append(p, q)) = Len(p) + 1
         /\ DOMAIN Append(p, q) = 1..(Len(p) + 1)
         /\ \A i \in 1..Len(p) : Append(p, q)[i] = p[i]
         /\ Append(p, q)[Len(p) + 1] = q
  OBVIOUS

\* A way goes on to the elements it leads to.
LEMMA Extended ==
  ASSUME NEW d, WellFormed(d), NEW p \in Ways(d), NEW x \in DOMAIN d, LeadsTo(d, p, x),
         Len(p) < x, NEW c \in CopyNumbers(d, x)
  PROVE  Append(p, <<x, c>>) \in Instances(d) /\ Adds(p, <<x, c>>, Append(p, <<x, c>>))
<1> DEFINE w == Append(p, <<x, c>>)
<1>1. p \in Seq(Places(d)) /\ Len(p) \in Nat /\ <<x, c>> \in Places(d)
  BY WayTypes, PlacesDef
<1>2. /\ w \in Seq(Places(d)) /\ Len(w) = Len(p) + 1
      /\ \A i \in 1..Len(p) : w[i] = p[i]
      /\ w[Len(p) + 1] = <<x, c>>
  BY <1>1, Appended
<1> HIDE DEF w
<1>3. Len(w) \in 1..Len(d)
  BY <1>1, <1>2, Elements
<1>4. w[1][1] = 1 /\ \A i \in 1..(Len(w) - 1) : IsChild(d, w[i][1], w[i + 1][1])
  <2>1. CASE p = <<>>
    <3>1. Len(p) = 0
      BY <2>1
    <3> QED
      BY <1>2, <2>1, <3>1 DEF LeadsTo
  <2>2. CASE p # <<>>
    <3>1. /\ Len(p) \in 1..Len(d) /\ p[1][1] = 1
          /\ \A i \in 1..(Len(p) - 1) : IsChild(d, p[i][1], p[i + 1][1])
      BY <2>2, WayTypes, InstancesDef
    <3>2. IsChild(d, p[Len(p)][1], x)
      BY <2>2 DEF LeadsTo
    <3>3. ASSUME NEW i \in 1..Len(p) PROVE IsChild(d, w[i][1], w[i + 1][1])
      <4>1. CASE i = Len(p)
        BY <1>2, <3>2, <4>1
      <4>2. CASE i # Len(p)
        <5>1. i \in 1..(Len(p) - 1) /\ i + 1 \in 1..Len(p)
          BY <1>1, <4>2
        <5> QED
          BY <1>2, <3>1, <5>1
      <4> QED
        BY <4>1, <4>2
    <3>4. Len(w) - 1 = Len(p) /\ 1 \in 1..Len(p)
      BY <1>1, <1>2, <3>1
    <3> QED
      BY <1>2, <3>1, <3>3, <3>4
  <2> QED
    BY <2>1, <2>2
<1> QED
  BY <1>2, <1>3, <1>4, InstancesDef DEF w, Adds

\* An instance goes on to a child.
LEMMA Continued ==
  ASSUME NEW d, WellFormed(d), NEW u \in Instances(d), NEW w \in Instances(d),
         Len(w) < Len(u), \A i \in 1..Len(w) : u[i] = w[i]
  PROVE  \E k \in DOMAIN d[w[Len(w)][1]].children : d[w[Len(w)][1]].children[k] = u[Len(w) + 1][1]
<1>1. /\ Len(u) \in Nat /\ Len(w) \in Nat /\ Len(w) >= 1
      /\ \A i \in 1..(Len(u) - 1) : IsChild(d, u[i][1], u[i + 1][1])
  BY InstancesDef
<1>2. IsChild(d, u[Len(w)][1], u[Len(w) + 1][1]) /\ u[Len(w)] = w[Len(w)]
  BY <1>1
<1> QED
  BY <1>2 DEF IsChild
-----------------------------------------------------------------------------
(* Variables and names *)

\* The binders of a way with one more place.
LEMMA BindersNext ==
  ASSUME NEW d, WellFormed(d), NEW p \in Ways(d), NEW w \in Instances(d), NEW x, NEW c,
         Adds(p, <<x, c>>, w), NEW v
  PROVE  /\ \A k \in 0..Len(p) : Binders(d, w, v, k) = Binders(d, p, v, k)
         /\ Binders(d, w, v, Len(w)) =
              Binders(d, p, v, Len(p))
                \cup (IF Generates(d[x]) /\ d[x].var = v THEN {Len(w)} ELSE {})
<1>1. Len(p) \in Nat
  BY WayTypes
<1>2. Len(w) = Len(p) + 1 /\ w[Len(w)][1] = x /\ \A i \in 1..Len(p) : w[i] = p[i]
  BY DEF Adds
<1>3. \A k \in 0..Len(p) : Binders(d, w, v, k) = Binders(d, p, v, k)
  BY <1>1, <1>2 DEF Binders
<1>4. \A j \in 1..Len(w) : j \in 1..Len(p) \/ j = Len(w)
  BY <1>1, <1>2
<1>5. \A j \in 1..Len(p) : j \in 1..Len(w)
  BY <1>1, <1>2
<1>6. Len(w) \in 1..Len(w)
  BY <1>1, <1>2
<1> DEFINE binds(j) == Generates(d[w[j][1]]) /\ d[w[j][1]].var = v
<1>7. \A j \in 1..Len(p) : binds(j) <=> Generates(d[p[j][1]]) /\ d[p[j][1]].var = v
  BY <1>2
<1>8. binds(Len(w)) <=> Generates(d[x]) /\ d[x].var = v
  BY <1>2
<1>9. /\ Binders(d, w, v, Len(w)) = {j \in 1..Len(w) : binds(j)}
      /\ Binders(d, p, v, Len(p)) = {j \in 1..Len(p) : binds(j)}
  BY <1>7 DEF Binders
<1> HIDE DEF binds
<1> QED
  BY <1>3, <1>4, <1>5, <1>6, <1>8, <1>9

\* Binders are steps of the way.
LEMMA BindersTypes ==
  ASSUME NEW d, WellFormed(d), NEW w \in Ways(d), NEW v, NEW k \in 0..Len(w)
  PROVE  /\ Binders(d, w, v, k) \in SUBSET (1..Len(w)) /\ Len(w) \in Nat
         /\ Binders(d, w, v, k) \in SUBSET (1..k)
         /\ Binders(d, w, v, k) \subseteq Binders(d, w, v, Len(w))
         /\ Binders(d, w, v, k) # {} =>
              /\ Highest(Binders(d, w, v, k)) \in Binders(d, w, v, k)
              /\ w[Highest(Binders(d, w, v, k))][2] \in Nat
              /\ Lowest(Binders(d, w, v, k)) \in Binders(d, w, v, k)
              /\ w[Lowest(Binders(d, w, v, k))][2] \in Nat
<1> DEFINE B == Binders(d, w, v, k)
<1>1. Len(w) \in Nat /\ \A i \in 1..Len(w) : w[i][2] \in Nat
  BY WayTypes
<1>2. 1..k \subseteq 1..Len(w)
  BY <1>1
<1>3. B \in SUBSET (1..k)
  BY DEF Binders
<1>4. B \in SUBSET (1..Len(w))
  BY <1>2, <1>3
<1>5. B \subseteq Binders(d, w, v, Len(w))
  BY <1>2 DEF Binders
<1> HIDE DEF B
<1>6. B # {} => Highest(B) \in B /\ Lowest(B) \in B
  BY <1>1, <1>4, Ends
<1>7. B # {} => w[Highest(B)][2] \in Nat /\ w[Lowest(B)][2] \in Nat
  BY <1>1, <1>4, <1>6
<1> QED
  BY <1>1, <1>3, <1>4, <1>5, <1>6, <1>7 DEF B

\* The value of a variable behind one more place.
LEMMA VarNext ==
  ASSUME NEW d, WellFormed(d), NEW p \in Ways(d), NEW w \in Instances(d), NEW x, NEW c,
         Adds(p, <<x, c>>, w), NEW v
  PROVE  VarOf(d, w, v) = IF Generates(d[x]) /\ d[x].var = v THEN c ELSE VarOf(d, p, v)
<1> DEFINE B == Binders(d, p, v, Len(p))
           C == Binders(d, w, v, Len(w))
<1>1. Len(p) \in Nat /\ Len(w) \in Nat /\ w \in Ways(d) /\ Len(p) \in 0..Len(p) /\ Len(w) \in 0..Len(w)
  BY WayTypes DEF Ways
<1>2. /\ Len(w) = Len(p) + 1 /\ w[Len(w)][2] = c
      /\ \A i \in 1..Len(p) : w[i] = p[i]
  BY DEF Adds
<1>3. C = B \cup (IF Generates(d[x]) /\ d[x].var = v THEN {Len(w)} ELSE {})
  BY BindersNext
<1>4. B \in SUBSET (1..Len(p)) /\ C \in SUBSET (1..Len(w))
  BY <1>1, BindersTypes
<1>5. VarOf(d, w, v) = IF C = {} THEN Plain ELSE w[Highest(C)][2]
  BY DEF VarOf
<1>6. VarOf(d, p, v) = IF B = {} THEN Plain ELSE p[Highest(B)][2]
  BY DEF VarOf
<1>7. B # {} => Highest(B) \in B
  BY <1>1, BindersTypes
<1> HIDE DEF B, C
<1>8. CASE Generates(d[x]) /\ d[x].var = v
  <2>1. Len(w) \in C /\ \A k \in C : k <= Len(w)
    BY <1>1, <1>3, <1>4, <1>8
  <2>2. Highest(C) = Len(w)
    BY <1>1, <1>4, <2>1, EndsUnique
  <2> QED
    BY <1>2, <1>5, <1>8, <2>1, <2>2
<1>9. CASE ~(Generates(d[x]) /\ d[x].var = v)
  <2>1. C = B
    BY <1>3, <1>9
  <2> QED
    BY <1>2, <1>4, <1>5, <1>6, <1>7, <1>9, <2>1
<1> QED
  BY <1>8, <1>9

\* The map vars of the calls behind one more place.
LEMMA VarsNext ==
  ASSUME NEW d, WellFormed(d), NEW p \in Ways(d), NEW w \in Instances(d), NEW x \in DOMAIN d, NEW c,
         Adds(p, <<x, c>>, w)
  PROVE  /\ Generates(d[x]) => VarsOf(d, w) = [VarsOf(d, p) EXCEPT ![d[x].var] = c]
         /\ ~Generates(d[x]) => VarsOf(d, w) = VarsOf(d, p)
<1>1. \A v : VarOf(d, w, v) = IF Generates(d[x]) /\ d[x].var = v THEN c ELSE VarOf(d, p, v)
  BY VarNext
<1>2. Generates(d[x]) => d[x].var \in Vars
  BY Elements
<1> QED
  BY <1>1, <1>2 DEF VarsOf

\* What substituteVars does to an index: what was left of an outer call is replaced.
LEMMA IndexNext ==
  ASSUME NEW d, WellFormed(d), NEW p \in Ways(d), NEW w \in Instances(d), NEW x, NEW c \in Nat,
         Adds(p, <<x, c>>, w), NEW j \in 1..Len(p)
  PROVE  RefIndex(d, w, j) =
           IF RefIndex(d, p, j) \in Vars /\ VarOf(d, w, RefIndex(d, p, j)) # Plain
           THEN VarOf(d, w, RefIndex(d, p, j)) ELSE RefIndex(d, p, j)
<1> DEFINE v == d[w[j][1]].id[2]
           B == Binders(d, p, v, Len(p))
           C == Binders(d, w, v, Len(w))
           I == Binders(d, p, v, j)
<1>1. Len(p) \in Nat /\ Len(w) \in Nat /\ w \in Ways(d) /\ Len(p) \in 0..Len(p) /\ j \in 0..Len(p)
      /\ Len(w) \in 0..Len(w)
  BY WayTypes DEF Ways
<1>2. /\ Len(w) = Len(p) + 1 /\ w[Len(w)][2] = c
      /\ \A i \in 1..Len(p) : w[i] = p[i]
  BY DEF Adds
<1>3. C = B \cup (IF Generates(d[x]) /\ d[x].var = v THEN {Len(w)} ELSE {})
  BY BindersNext
<1>4. Binders(d, w, v, j) = I
  BY <1>1, BindersNext
<1>5. /\ B \in SUBSET (1..Len(p)) /\ C \in SUBSET (1..Len(w)) /\ I \subseteq B
      /\ B # {} => Lowest(B) \in B /\ p[Lowest(B)][2] \in Nat
      /\ I # {} => Highest(I) \in I /\ p[Highest(I)][2] \in Nat
  BY <1>1, BindersTypes
<1>6. RefIndex(d, p, j) = IF v \notin Vars \/ B = {} THEN v
                          ELSE IF I # {} THEN p[Highest(I)][2] ELSE p[Lowest(B)][2]
  BY <1>2 DEF RefIndex
<1>7. RefIndex(d, w, j) = IF v \notin Vars \/ C = {} THEN v
                          ELSE IF I # {} THEN w[Highest(I)][2] ELSE w[Lowest(C)][2]
  BY <1>4 DEF RefIndex
<1>8. \A n \in Nat : n \notin Vars /\ n # Plain
  BY ParserAssumption DEF Plain
<1>9. VarOf(d, w, v) = IF C = {} THEN Plain ELSE w[Highest(C)][2]
  BY DEF VarOf
<1> HIDE DEF v, B, C, I
<1>10. CASE v \notin Vars
  BY <1>6, <1>7, <1>10
<1>11. CASE v \in Vars /\ B # {}
  <2>1. B = C \/ C = B \cup {Len(w)}
    BY <1>3
  <2>2. Lowest(C) = Lowest(B)
    <3>1. /\ Lowest(B) \in B /\ \A k \in B : Lowest(B) <= k
      BY <1>1, <1>5, <1>11, Ends
    <3>2. Lowest(B) <= Len(w) /\ Lowest(B) \in C
      <4>1. Lowest(B) \in 1..Len(p)
        BY <1>5, <3>1
      <4>2. Lowest(B) <= Len(w)
        BY <1>1, <1>2, <4>1
      <4> QED
        BY <2>1, <3>1, <4>2
    <3>3. \A k \in C : Lowest(B) <= k
      BY <2>1, <3>1, <3>2
    <3> QED
      BY <1>1, <1>5, <3>2, <3>3, EndsUnique
  <2>3. RefIndex(d, w, j) = RefIndex(d, p, j) /\ RefIndex(d, p, j) \in Nat
    <3>1. CASE I # {}
      <4>1. w[Highest(I)] = p[Highest(I)]
        BY <1>2, <1>5, <3>1
      <4> QED
        BY <1>5, <1>6, <1>7, <1>11, <2>1, <3>1, <4>1
    <3>2. CASE I = {}
      <4>1. w[Lowest(B)] = p[Lowest(B)]
        BY <1>2, <1>5, <1>11
      <4> QED
        BY <1>5, <1>6, <1>7, <1>11, <2>1, <2>2, <3>2, <4>1
    <3> QED
      BY <3>1, <3>2
  <2> QED
    BY <1>8, <2>3
<1>12. CASE v \in Vars /\ B = {}
  <2>1. RefIndex(d, p, j) = v /\ I = {}
    BY <1>5, <1>6, <1>12
  <2>2. CASE C = {}
    BY <1>7, <1>9, <1>12, <2>1, <2>2
  <2>3. CASE C # {}
    <3>1. C = {Len(w)}
      BY <1>3, <1>12, <2>3
    <3>2. Lowest(C) = Len(w) /\ Highest(C) = Len(w)
      <4>1. Len(w) \in C /\ \A k \in C : k <= Len(w) /\ Len(w) <= k
        BY <1>1, <3>1
      <4> QED
        BY <1>1, <1>5, <4>1, EndsUnique
    <3> QED
      BY <1>2, <1>7, <1>8, <1>9, <1>12, <2>1, <2>3, <3>2
  <2> QED
    BY <2>2, <2>3
<1> QED
  BY <1>10, <1>11, <1>12

\* The index of the place a way ends with.
LEMMA IndexLast ==
  ASSUME NEW d, WellFormed(d), NEW w \in Instances(d), NEW v, v = d[w[Len(w)][1]].id[2]
  PROVE  RefIndex(d, w, Len(w)) =
           IF v \in Vars /\ VarOf(d, w, v) # Plain THEN VarOf(d, w, v) ELSE v
<1> DEFINE C == Binders(d, w, v, Len(w))
<1>1. Len(w) \in Nat /\ Len(w) \in 0..Len(w) /\ w \in Ways(d)
  BY WayTypes DEF Ways
<1>2. C # {} => w[Highest(C)][2] \in Nat
  BY <1>1, BindersTypes
<1>3. RefIndex(d, w, Len(w)) = IF v \notin Vars \/ C = {} THEN v
                               ELSE IF C # {} THEN w[Highest(C)][2] ELSE w[Lowest(C)][2]
  BY DEF RefIndex
<1>4. VarOf(d, w, v) = IF C = {} THEN Plain ELSE w[Highest(C)][2]
  BY DEF VarOf
<1>5. \A n \in Nat : n # Plain
  BY DEF Plain
<1> HIDE DEF C
<1> QED
  BY <1>2, <1>3, <1>4, <1>5

\* The name of an instance is what substituteVars makes of the name above it and its id.
LEMMA NameNext ==
  ASSUME NEW d, WellFormed(d), NEW p \in Ways(d), NEW w \in Instances(d), NEW x \in DOMAIN d,
         NEW c \in Nat, Adds(p, <<x, c>>, w)
  PROVE  SubstituteVars(Append(RefName(d, p), d[x].id), VarsOf(d, w)) = RefName(d, w)
<1> DEFINE name == Append(RefName(d, p), d[x].id)
           n == Len(p)
           vals == VarsOf(d, w)
           stem(j) == d[w[j][1]].id[1]
           index(j) == IF name[j][2] \in Vars /\ vals[name[j][2]] # Plain
                       THEN vals[name[j][2]] ELSE name[j][2]
<1>1. n \in Nat /\ DOMAIN p = 1..n /\ DOMAIN w = 1..(n + 1)
  BY WayTypes DEF Adds, Ways
<1>2. Len(w) = n + 1 /\ w[n + 1] = <<x, c>> /\ \A i \in 1..n : w[i] = p[i]
  BY DEF Adds
<1>3. /\ DOMAIN RefName(d, p) = 1..n
      /\ \A j \in 1..n : RefName(d, p)[j] = <<d[p[j][1]].id[1], RefIndex(d, p, j)>>
  BY <1>1 DEF RefName
<1>4. /\ DOMAIN name = 1..(n + 1)
      /\ \A j \in 1..n : name[j] = RefName(d, p)[j]
      /\ name[n + 1] = d[x].id
  <2> DEFINE T == {RefName(d, p)[j] : j \in 1..n} \cup {d[x].id}
  <2>1. RefName(d, p) = [j \in 1..n |-> RefName(d, p)[j]]
    BY <1>1 DEF RefName
  <2>2. \A j \in 1..n : RefName(d, p)[j] \in T
    OBVIOUS
  <2>3. d[x].id \in T
    OBVIOUS
  <2> HIDE DEF T
  <2>4. RefName(d, p) \in [1..n -> T]
    BY <2>1, <2>2
  <2>5. RefName(d, p) \in Seq(T) /\ Len(RefName(d, p)) = n
    BY <1>1, <2>4
  <2> QED
    BY <2>3, <2>5, Appended
<1> HIDE DEF name
<1>5. \A v \in Vars : vals[v] = VarOf(d, w, v)
  BY DEF VarsOf
<1> HIDE DEF vals
<1>6. ASSUME NEW j \in 1..(n + 1)
      PROVE  name[j] = <<stem(j), name[j][2]>> /\ index(j) = RefIndex(d, w, j)
  <2>1. CASE j = n + 1
    <3>1. name[j] = d[x].id /\ d[w[j][1]] = d[x]
      BY <1>2, <1>4, <2>1
    <3>2. d[x].id = <<d[x].id[1], d[x].id[2]>>
      BY Elements
    <3>3. RefIndex(d, w, j) = IF d[x].id[2] \in Vars /\ VarOf(d, w, d[x].id[2]) # Plain
                              THEN VarOf(d, w, d[x].id[2]) ELSE d[x].id[2]
      BY <1>2, <2>1, <3>1, IndexLast
    <3> QED
      BY <1>5, <3>1, <3>2, <3>3
  <2>2. CASE j # n + 1
    <3>1. j \in 1..n
      BY <1>1, <2>2
    <3>2. name[j] = <<stem(j), RefIndex(d, p, j)>>
      BY <1>2, <1>3, <1>4, <3>1
    <3>3. RefIndex(d, w, j) =
            IF RefIndex(d, p, j) \in Vars /\ VarOf(d, w, RefIndex(d, p, j)) # Plain
            THEN VarOf(d, w, RefIndex(d, p, j)) ELSE RefIndex(d, p, j)
      BY <3>1, IndexNext
    <3>4. name[j][2] = RefIndex(d, p, j)
      BY <3>2
    <3> QED
      BY <1>5, <3>2, <3>3, <3>4
  <2> QED
    BY <2>1, <2>2
<1>7. SubstituteVars(name, vals) =
        [j \in 1..(n + 1) |-> IF name[j][2] \in Vars /\ vals[name[j][2]] # Plain
                             THEN <<name[j][1], vals[name[j][2]]>> ELSE name[j]]
  BY <1>4 DEF SubstituteVars
<1>8. RefName(d, w) = [j \in 1..(n + 1) |-> <<stem(j), RefIndex(d, w, j)>>]
  BY <1>1 DEF RefName
<1>9. ASSUME NEW j \in 1..(n + 1)
      PROVE  (IF name[j][2] \in Vars /\ vals[name[j][2]] # Plain
              THEN <<name[j][1], vals[name[j][2]]>> ELSE name[j]) = <<stem(j), RefIndex(d, w, j)>>
  <2>1. name[j][1] = stem(j)
    BY <1>6
  <2> QED
    BY <1>6, <2>1
<1> HIDE DEF stem
<1>10. SubstituteVars(name, vals) = RefName(d, w)
  BY <1>7, <1>8, <1>9
<1> QED
  BY <1>10 DEF name, vals

-----------------------------------------------------------------------------
(* Addresses *)

\* Multiples of the modulus do not count.
LEMMA ModSum ==
  ASSUME NEW m \in Nat \ {0}, NEW n \in Nat, NEW k \in Nat
  PROVE  (n + m * k) % m = n % m
<1> DEFINE q == n \div m
           r == n % m
           s == (n + m * k) \div m
           t == (n + m * k) % m
<1>1. n = m * q + r /\ q \in Int /\ r \in 0..(m - 1)
  OBVIOUS
<1>2. n + m * k \in Nat
  OBVIOUS
<1>3. n + m * k = m * s + t /\ s \in Int /\ t \in 0..(m - 1)
  BY <1>2
<1> HIDE DEF q, r, s, t
<1>4. m * (q + k - s) = t - r
  BY <1>1, <1>3
<1>5. q + k - s = 0
  <2> DEFINE z == q + k - s
  <2>1. z \in Int /\ m * z = t - r /\ t - r < m /\ t - r > -m
    BY <1>1, <1>3, <1>4
  <2> HIDE DEF z
  <2>2. ~(z >= 1)
    BY <2>1
  <2>3. ~(z <= -1)
    BY <2>1
  <2>4. z = 0
    BY <2>1, <2>2, <2>3
  <2> QED
    BY <2>4 DEF z
<1>6. t = r
  BY <1>1, <1>3, <1>4, <1>5
<1> QED
  BY <1>6 DEF t, r

\* A sum may be cut before or after.
LEMMA ModAdd ==
  ASSUME NEW m \in Nat \ {0}, NEW n \in Nat, NEW k \in Nat
  PROVE  ((n % m) + k) % m = (n + k) % m
<1> DEFINE q == n \div m
           r == n % m
<1>1. n = m * q + r /\ q \in Nat /\ r \in Nat
  OBVIOUS
<1> HIDE DEF q, r
<1>2. r + k \in Nat /\ n + k = (r + k) + m * q
  BY <1>1
<1>3. ((r + k) + m * q) % m = (r + k) % m
  BY <1>1, <1>2, ModSum
<1> QED
  BY <1>2, <1>3 DEF r

\* The byte address of a word address that was cut twice.
LEMMA ModBytes ==
  ASSUME NEW n \in Nat
  PROVE  (4 * ((n % AddrMod) % (AddrMod \div 4)) + AddrOffset) % AddrMod
           = (4 * n + AddrOffset) % AddrMod
<1> DEFINE m == AddrMod \div 4
<1>1. m \in Nat \ {0} /\ AddrMod = 4 * m /\ AddrOffset \in Nat /\ AddrMod \in Nat \ {0}
  BY ParserAssumption
<1> DEFINE r == n % AddrMod
           q == n \div AddrMod
           s == r % m
           t == r \div m
<1>2. n = AddrMod * q + r /\ q \in Nat /\ r \in Nat
  BY <1>1
<1> HIDE DEF m, r, q
<1>3. r = m * t + s /\ t \in Nat /\ s \in Nat
  BY <1>1, <1>2
<1> HIDE DEF s, t
<1> DEFINE k == 4 * q + t
           a == 4 * s + AddrOffset
<1>4. k \in Nat /\ a \in Nat
  BY <1>1, <1>2, <1>3
<1>5. 4 * n + AddrOffset = a + AddrMod * k
  <2>1. n = (4 * m) * q + (m * t + s)
    BY <1>1, <1>2, <1>3
  <2>2. 4 * n = (4 * m) * (4 * q) + (4 * m) * t + 4 * s
    BY <1>1, <1>2, <1>3, <2>1
  <2>3. (4 * m) * (4 * q) + (4 * m) * t = (4 * m) * k
    BY <1>1, <1>2, <1>3
  <2> QED
    BY <1>1, <1>2, <1>3, <2>2, <2>3
<1> HIDE DEF k, a
<1>6. (a + AddrMod * k) % AddrMod = a % AddrMod
  BY <1>1, <1>4, ModSum
<1> QED
  BY <1>5, <1>6 DEF a, s, r, m

\* s holds the sums along the first n places of a way.
IsSum(s, d, w, n) == s = [j \in 0..n |-> IF j = 0 THEN 0 ELSE s[j - 1] + Gain(d, w[j])]

\* There is such a function.
LEMMA SumExists ==
  ASSUME NEW d, NEW w, NEW len \in Nat
  PROVE  \E s : IsSum(s, d, w, len)
<1> DEFINE T == {n \in 0..len : ~\E s : IsSum(s, d, w, n)}
<1>1. T = {}
  <2>1. SUFFICES ASSUME T # {} PROVE FALSE
    OBVIOUS
  <2>2. PICK m \in T : \A n \in T : m <= n
    <3>1. T \subseteq Nat
      OBVIOUS
    <3> HIDE DEF T
    <3> QED
      BY <2>1, <3>1, Least
  <2>3. m \in 0..len /\ ~\E s : IsSum(s, d, w, m)
    OBVIOUS
  <2>4. CASE m = 0
    <3> DEFINE e == [j \in 0..0 |-> 0]
    <3>1. e = [j \in 0..0 |-> IF j = 0 THEN 0 ELSE e[j - 1] + Gain(d, w[j])]
      OBVIOUS
    <3> HIDE DEF e
    <3> QED
      BY <2>3, <2>4, <3>1 DEF IsSum
  <2>5. CASE m # 0
    <3> DEFINE a == m - 1
    <3>1. a \in 0..len /\ ~(m <= a) /\ m = a + 1 /\ a \in Nat
      BY <2>3, <2>5
    <3>2. PICK e : IsSum(e, d, w, a)
      BY <2>2, <3>1
    <3> HIDE DEF a
    <3> DEFINE f == [j \in 0..m |-> IF j = m THEN e[a] + Gain(d, w[m]) ELSE e[j]]
    <3>3. \A j \in 0..a : e[j] = IF j = 0 THEN 0 ELSE e[j - 1] + Gain(d, w[j])
      BY <3>2 DEF IsSum
    <3>4. ASSUME NEW j \in 0..m PROVE f[j] = IF j = 0 THEN 0 ELSE f[j - 1] + Gain(d, w[j])
      <4>1. CASE j = m
        <5>1. a \in 0..m /\ a # m /\ j - 1 = a /\ j # 0
          BY <3>1, <4>1
        <5> QED
          BY <4>1, <5>1
      <4>2. CASE j # m
        <5>1. j \in 0..a
          BY <3>1, <4>2
        <5>2. j # 0 => j - 1 \in 0..m /\ j - 1 # m
          BY <3>1
        <5> QED
          BY <3>3, <4>2, <5>1, <5>2
      <4> QED
        BY <4>1, <4>2
    <3>5. f = [j \in 0..m |-> f[j]]
      OBVIOUS
    <3> HIDE DEF f
    <3>6. f = [j \in 0..m |-> IF j = 0 THEN 0 ELSE f[j - 1] + Gain(d, w[j])]
      BY <3>4, <3>5
    <3>7. IsSum(f, d, w, m)
      BY <3>6, Zenon DEF IsSum
    <3> QED
      BY <2>3, <3>7
  <2> QED
    BY <2>4, <2>5
<1>2. len \in 0..len
  OBVIOUS
<1> QED
  BY <1>1, <1>2

\* So Sums is what it is defined to be.
LEMMA SumsDef ==
  ASSUME NEW d, NEW w, Len(w) \in Nat
  PROVE  /\ Sums(d, w)[0] = 0
         /\ \A j \in 1..Len(w) : Sums(d, w)[j] = Sums(d, w)[j - 1] + Gain(d, w[j])
<1>1. \E s : IsSum(s, d, w, Len(w))
  BY SumExists
<1>2. IsSum(Sums(d, w), d, w, Len(w))
  BY <1>1 DEF Sums, IsSum
<1> DEFINE s == Sums(d, w)
<1> HIDE DEF s
<1>3. s = [j \in 0..Len(w) |-> IF j = 0 THEN 0 ELSE s[j - 1] + Gain(d, w[j])]
  BY <1>2 DEF IsSum, s
<1>4. 0 \in 0..Len(w) /\ \A j \in 1..Len(w) : j \in 0..Len(w) /\ j # 0
  OBVIOUS
<1>5. s[0] = 0 /\ \A j \in 1..Len(w) : s[j] = s[j - 1] + Gain(d, w[j])
  BY <1>3, <1>4
<1> QED
  BY <1>5 DEF s

\* The sums along a way are those along a longer one, as far as it goes.
LEMMA SumsAgree ==
  ASSUME NEW d, NEW p, NEW w, Len(p) \in Nat, Len(w) = Len(p) + 1,
         \A i \in 1..Len(p) : w[i] = p[i]
  PROVE  \A j \in 0..Len(p) : Sums(d, w)[j] = Sums(d, p)[j]
<1> DEFINE r == Sums(d, w)
           s == Sums(d, p)
           T == {j \in 0..Len(p) : r[j] # s[j]}
<1>1. /\ r[0] = 0 /\ s[0] = 0
      /\ \A j \in 1..Len(p) : r[j] = r[j - 1] + Gain(d, w[j]) /\ s[j] = s[j - 1] + Gain(d, p[j])
  <2>1. Len(w) \in Nat /\ \A j \in 1..Len(p) : j \in 1..Len(w)
    OBVIOUS
  <2> QED
    BY <2>1, SumsDef
<1> HIDE DEF r, s
<1>2. ASSUME T # {} PROVE FALSE
  <2>1. PICK n \in T : \A j \in T : n <= j
    <3>1. T \subseteq Nat
      OBVIOUS
    <3> HIDE DEF T
    <3> QED
      BY <1>2, <3>1, Least
  <2>2. n \in 1..Len(p) /\ n - 1 \in 0..Len(p) /\ ~(n <= n - 1) /\ r[n] # s[n]
    <3>1. n \in 0..Len(p) /\ r[n] # s[n]
      OBVIOUS
    <3>2. n # 0
      BY <1>1, <3>1
    <3> QED
      BY <3>1, <3>2
  <2>3. r[n - 1] = s[n - 1]
    BY <2>1, <2>2
  <2> QED
    BY <1>1, <2>2, <2>3
<1> QED
  BY <1>2 DEF r, s

\* What a place adds is a number.
LEMMA GainTypes ==
  ASSUME NEW d, WellFormed(d), NEW x \in DOMAIN d, NEW c \in Nat
  PROVE  Gain(d, <<x, c>>) \in Nat
<1>1. \A j, k \in Nat : j * k \in Nat /\ j + k \in Nat
  OBVIOUS
<1> DEFINE a == IF Generates(d[x]) THEN ParseInt(d[x].step) * c ELSE 0
           b == IF d[x].address = Absent THEN 0 ELSE ParseInt(d[x].address)
<1>2. a \in Nat /\ b \in Nat
  BY <1>1, Elements
<1>3. Gain(d, <<x, c>>) = a + b
  BY DEF Gain
<1> HIDE DEF a, b
<1> QED
  BY <1>1, <1>2, <1>3

\* The address of an instance is a number.
LEMMA AddressTypes ==
  ASSUME NEW d, WellFormed(d), NEW w \in Ways(d)
  PROVE  RefAddress(d, w) \in Nat
<1> DEFINE s == Sums(d, w)
           T == {j \in 0..Len(w) : s[j] \notin Nat}
<1>1. Len(w) \in Nat
  BY WayTypes
<1>2. s[0] = 0 /\ \A j \in 1..Len(w) : s[j] = s[j - 1] + Gain(d, w[j])
  BY <1>1, SumsDef
<1>3. \A j \in 1..Len(w) : Gain(d, w[j]) \in Nat
  <2>1. \A j \in 1..Len(w) : w[j] = <<w[j][1], w[j][2]>> /\ w[j][1] \in DOMAIN d /\ w[j][2] \in Nat
    BY WayTypes
  <2>2. \A j \in 1..Len(w) : Gain(d, <<w[j][1], w[j][2]>>) \in Nat
    BY <2>1, GainTypes
  <2> QED
    BY <2>1, <2>2
<1> HIDE DEF s
<1>4. ASSUME T # {} PROVE FALSE
  <2>1. PICK n \in T : \A j \in T : n <= j
    <3>1. T \subseteq Nat
      OBVIOUS
    <3> HIDE DEF T
    <3> QED
      BY <1>4, <3>1, Least
  <2>2. n \in 1..Len(w) /\ n - 1 \in 0..Len(w) /\ ~(n <= n - 1) /\ s[n] \notin Nat
    <3>1. n \in 0..Len(w) /\ s[n] \notin Nat
      OBVIOUS
    <3>2. n # 0
      BY <1>2, <3>1
    <3> QED
      BY <1>1, <3>1, <3>2
  <2>3. s[n - 1] \in Nat
    BY <2>1, <2>2
  <2> QED
    BY <1>2, <1>3, <2>2, <2>3
<1>5. Len(w) \in 0..Len(w)
  BY <1>1
<1> QED
  BY <1>4, <1>5 DEF RefAddress, s

\* The address of a way with one more place.
LEMMA AddressNext ==
  ASSUME NEW d, WellFormed(d), NEW p \in Ways(d), NEW w \in Instances(d), NEW x, NEW c,
         Adds(p, <<x, c>>, w)
  PROVE  RefAddress(d, w) = RefAddress(d, p) + Gain(d, <<x, c>>)
<1>1. Len(p) \in Nat
  BY WayTypes
<1>2. Len(w) = Len(p) + 1 /\ w[Len(w)] = <<x, c>> /\ \A i \in 1..Len(p) : w[i] = p[i]
  BY DEF Adds
<1>3. Len(w) \in Nat /\ Len(w) \in 1..Len(w) /\ Len(w) - 1 = Len(p) /\ Len(p) \in 0..Len(p)
  BY <1>1, <1>2
<1>4. Sums(d, w)[Len(w)] = Sums(d, w)[Len(p)] + Gain(d, <<x, c>>)
  BY <1>2, <1>3, SumsDef
<1>5. Sums(d, w)[Len(p)] = Sums(d, p)[Len(p)]
  BY <1>1, <1>2, <1>3, SumsAgree
<1> QED
  BY <1>4, <1>5 DEF RefAddress

-----------------------------------------------------------------------------
(* The calls on the stack and the instances they stand for *)

\* What the proof knows of a call: the way to the element above, and the numbers of the
\* copies the call is for.
Ghosts(d) == [above : Ways(d), copies : SUBSET Nat]

\* The arguments of a call are those of its way.
Fits(d, f, g) ==
  /\ f.element \in DOMAIN d
  /\ LeadsTo(d, g.above, f.element)
  /\ Len(g.above) < f.element
  /\ f.baseName = RefName(d, g.above)
  /\ \/ /\ ~f.isGenerated
        /\ g.copies = CopyNumbers(d, f.element)
        /\ f.vars = VarsOf(d, g.above)
        /\ f.baseAddress = RefAddress(d, g.above) % AddrMod
     \/ /\ f.isGenerated
        /\ Generates(d[f.element])
        /\ \E c \in CopyNumbers(d, f.element) :
             /\ g.copies = {c}
             /\ f.vars = VarsOf(d, Append(g.above, <<f.element, c>>))
             /\ f.baseAddress = (RefAddress(d, g.above) + ParseInt(d[f.element].step) * c) % AddrMod

\* The instances a call will store: those of the copies of its element, and what is below.
Region(d, x, g) ==
  {u \in Instances(d) :
     /\ Len(u) > Len(g.above)
     /\ \A i \in 1..Len(g.above) : u[i] = g.above[i]
     /\ u[Len(g.above) + 1][1] = x
     /\ u[Len(g.above) + 1][2] \in g.copies}

RegionAt(d, st, W, i) == Region(d, st[i].element, W[i])

Precedes(d, S, T) == \A w \in S, u \in T : Len(w) = Len(u) => Before(d, w, u)

\* The calls come in document order, those of D have been made, and none is missing.
Ordered(d, st, W, D) ==
  /\ W \in Seq(Ghosts(d)) /\ Len(W) = Len(st) /\ D \subseteq Instances(d)
  /\ \A i \in 1..Len(st) : Fits(d, st[i], W[i]) /\ Precedes(d, D, RegionAt(d, st, W, i))
  /\ \A i, j \in 1..Len(st) :
       i < j => Precedes(d, RegionAt(d, st, W, i), RegionAt(d, st, W, j))
  /\ \A u \in Instances(d) : u \in D \/ \E i \in 1..Len(st) : u \in RegionAt(d, st, W, i)

\* The first element of a sequence is replaced by a sequence.
LEMMA Spliced ==
  ASSUME NEW S, NEW a \in Seq(S), NEW b \in Seq(S), b # <<>>
  PROVE  /\ a \o Tail(b) \in Seq(S) /\ Len(a \o Tail(b)) = Len(a) + Len(b) - 1
         /\ \A i \in 1..Len(a) : (a \o Tail(b))[i] = a[i]
         /\ \A i \in 2..Len(b) : (a \o Tail(b))[Len(a) + i - 1] = b[i]
<1> DEFINE t == Tail(b)
<1>1. t \in Seq(S) /\ Len(t) = Len(b) - 1 /\ \A i \in 1..Len(t) : t[i] = b[i + 1]
  OBVIOUS
<1>2. Len(a) \in Nat /\ Len(b) \in Nat
  OBVIOUS
<1> HIDE DEF t
<1>3. /\ a \o t \in Seq(S) /\ Len(a \o t) = Len(a) + Len(t)
      /\ \A i \in 1..Len(a) : (a \o t)[i] = a[i]
      /\ \A i \in 1..Len(t) : (a \o t)[Len(a) + i] = t[i]
  <2>1. a \o t \in Seq(S) /\ Len(a \o t) = Len(a) + Len(t) /\ Len(t) \in Nat
    BY <1>1, ConcatProperties
  <2>2. ASSUME NEW i \in 1..Len(a) PROVE (a \o t)[i] = a[i]
    BY <1>1, <1>2
  <2>3. ASSUME NEW i \in 1..Len(t) PROVE (a \o t)[Len(a) + i] = t[i]
    <3>1. /\ Len(a) + i \in 1..(Len(a) + Len(t)) /\ ~(Len(a) + i <= Len(a))
          /\ Len(a) + i - Len(a) = i
      BY <1>2, <2>1
    <3> QED
      BY <1>1, <1>2, <3>1
  <2> QED
    BY <2>1, <2>2, <2>3
<1>4. ASSUME NEW i \in 2..Len(b) PROVE (a \o t)[Len(a) + i - 1] = b[i]
  <2>1. i - 1 \in 1..Len(t) /\ (i - 1) + 1 = i /\ Len(a) + (i - 1) = Len(a) + i - 1
    BY <1>1, <1>2
  <2>2. (a \o t)[Len(a) + (i - 1)] = t[i - 1] /\ t[i - 1] = b[(i - 1) + 1]
    BY <1>1, <1>3, <2>1
  <2> QED
    BY <2>1, <2>2
<1> QED
  BY <1>1, <1>2, <1>3, <1>4 DEF t

\* What is put in the place of a call stands for its instances, in order.
Replaces(d, parts, V, N, R) ==
  /\ V \in Seq(Ghosts(d)) /\ Len(V) = Len(parts) /\ N \subseteq R
  /\ \A i \in 1..Len(parts) :
       /\ Fits(d, parts[i], V[i])
       /\ RegionAt(d, parts, V, i) \subseteq R
       /\ Precedes(d, N, RegionAt(d, parts, V, i))
  /\ \A i, j \in 1..Len(parts) :
       i < j => Precedes(d, RegionAt(d, parts, V, i), RegionAt(d, parts, V, j))
  /\ \A u \in R : u \in N \/ \E i \in 1..Len(parts) : u \in RegionAt(d, parts, V, i)

LEMMA OrderedNext ==
  ASSUME NEW d, NEW F, NEW st \in Seq(F), st # <<>>, NEW parts \in Seq(F), NEW D, NEW N,
         NEW W \in Seq(Ghosts(d)), NEW V \in Seq(Ghosts(d)),
         Ordered(d, st, W, D), Replaces(d, parts, V, N, RegionAt(d, st, W, 1))
  PROVE  Ordered(d, parts \o Tail(st), V \o Tail(W), D \cup N)
<1> DEFINE s == parts \o Tail(st)
           X == V \o Tail(W)
           n == Len(parts)
           m == Len(st)
           R(i) == RegionAt(d, st, W, i)
           P(i) == RegionAt(d, parts, V, i)
           Q(i) == RegionAt(d, s, X, i)
           E == D \cup N
<1>1. n \in Nat /\ m \in Nat /\ m >= 1
  OBVIOUS
<1>2. W \in Seq(Ghosts(d)) /\ V \in Seq(Ghosts(d)) /\ Len(W) = m /\ Len(V) = n
  BY DEF Ordered, Replaces
<1>3. W # <<>>
  BY <1>1, <1>2
<1>4. /\ s \in Seq(F) /\ Len(s) = n + m - 1
      /\ \A i \in 1..n : s[i] = parts[i]
      /\ \A i \in 2..m : s[n + i - 1] = st[i]
  BY Spliced
<1>5. /\ X \in Seq(Ghosts(d)) /\ Len(X) = n + m - 1
      /\ \A i \in 1..n : X[i] = V[i]
      /\ \A i \in 2..m : X[n + i - 1] = W[i]
  <2>1. /\ X \in Seq(Ghosts(d)) /\ Len(X) = Len(V) + Len(W) - 1
        /\ \A i \in 1..Len(V) : X[i] = V[i]
        /\ \A i \in 2..Len(W) : X[Len(V) + i - 1] = W[i]
    BY <1>3, Spliced
  <2> HIDE DEF X
  <2> QED
    BY <1>2, <2>1
<1> HIDE DEF s, X
<1>6. ASSUME NEW i \in 1..Len(s)
      PROVE  \/ i \in 1..n /\ s[i] = parts[i] /\ X[i] = V[i] /\ Q(i) = P(i)
             \/ /\ i \notin 1..n /\ i - n + 1 \in 2..m
                /\ s[i] = st[i - n + 1] /\ X[i] = W[i - n + 1] /\ Q(i) = R(i - n + 1)
  <2>1. CASE i \in 1..n
    BY <1>4, <1>5, <2>1 DEF RegionAt
  <2>2. CASE i \notin 1..n
    <3> DEFINE k == i - n + 1
    <3>1. k \in 2..m /\ n + k - 1 = i
      BY <1>1, <1>4, <2>2
    <3> HIDE DEF k
    <3>2. s[i] = st[k] /\ X[i] = W[k]
      BY <1>4, <1>5, <3>1
    <3>3. Q(i) = R(k)
      BY <3>2 DEF RegionAt
    <3> QED
      BY <2>2, <3>1, <3>2, <3>3 DEF k
  <2> QED
    BY <2>1, <2>2
<1>7. /\ D \subseteq Instances(d)
      /\ \A i \in 1..m : Fits(d, st[i], W[i]) /\ Precedes(d, D, R(i))
      /\ \A i, j \in 1..m : i < j => Precedes(d, R(i), R(j))
      /\ \A u \in Instances(d) : u \in D \/ \E i \in 1..m : u \in R(i)
  BY DEF Ordered
<1>8. /\ N \subseteq R(1)
      /\ \A i \in 1..n : Fits(d, parts[i], V[i]) /\ P(i) \subseteq R(1) /\ Precedes(d, N, P(i))
      /\ \A i, j \in 1..n : i < j => Precedes(d, P(i), P(j))
      /\ \A u \in R(1) : u \in N \/ \E i \in 1..n : u \in P(i)
  BY DEF Replaces
<1>9. \A i : R(i) \subseteq Instances(d)
  BY DEF RegionAt, Region
<1>10. \A i \in 1..n : Q(i) = P(i) /\ i \in 1..Len(s)
  BY <1>1, <1>4, <1>6
<1>11. ASSUME NEW i \in 2..m PROVE n + i - 1 \in 1..Len(s) /\ Q(n + i - 1) = R(i)
  <2>1. n + i - 1 \in 1..Len(s) /\ n + i - 1 \notin 1..n /\ (n + i - 1) - n + 1 = i
    BY <1>1, <1>4
  <2> QED
    BY <1>6, <2>1
<1>12. \A S, T, U : Precedes(d, S, U) /\ T \subseteq S => Precedes(d, T, U)
  BY DEF Precedes
<1>13. \A S, T, U : Precedes(d, U, S) /\ T \subseteq S => Precedes(d, U, T)
  BY DEF Precedes
<1>14. \A S, T, U : Precedes(d, S, U) /\ Precedes(d, T, U) => Precedes(d, S \cup T, U)
  BY DEF Precedes
<1>15. 1 \in 1..m /\ \A i \in 2..m : i \in 1..m /\ 1 < i
  BY <1>1
<1> HIDE DEF R, P, Q, n, m
<1>16. E \subseteq Instances(d)
  BY <1>7, <1>8, <1>9
<1>17. ASSUME NEW i \in 1..Len(s) PROVE Fits(d, s[i], X[i]) /\ Precedes(d, E, Q(i))
  <2>1. CASE i \in 1..n
    <3>1. Fits(d, s[i], X[i]) /\ Q(i) = P(i)
      BY <1>6, <1>8, <2>1
    <3>2. Precedes(d, D, P(i)) /\ Precedes(d, N, P(i))
      BY <1>7, <1>8, <1>13, <1>15, <2>1
    <3> QED
      BY <1>14, <3>1, <3>2
  <2>2. CASE i \notin 1..n
    <3>1. PICK k \in 2..m : s[i] = st[k] /\ X[i] = W[k] /\ Q(i) = R(k)
      BY <1>6, <2>2
    <3>2. Fits(d, s[i], X[i]) /\ Precedes(d, D, R(k)) /\ Precedes(d, R(1), R(k))
      BY <1>7, <1>15, <3>1
    <3>3. Precedes(d, N, R(k))
      BY <1>8, <1>12, <3>2
    <3> QED
      BY <1>14, <3>1, <3>2, <3>3
  <2> QED
    BY <2>1, <2>2
<1>18. ASSUME NEW i \in 1..Len(s), NEW j \in 1..Len(s), i < j PROVE Precedes(d, Q(i), Q(j))
  <2>1. CASE j \in 1..n
    <3>1. i \in 1..n
      BY <1>1, <1>18, <2>1
    <3> QED
      BY <1>8, <1>10, <1>18, <2>1, <3>1
  <2>2. CASE j \notin 1..n /\ i \in 1..n
    <3>1. PICK l \in 2..m : Q(j) = R(l)
      BY <1>6, <2>2
    <3>2. Precedes(d, R(1), R(l)) /\ P(i) \subseteq R(1) /\ Q(i) = P(i)
      BY <1>7, <1>8, <1>10, <1>15, <2>2
    <3> QED
      BY <1>12, <3>1, <3>2
  <2>3. CASE j \notin 1..n /\ i \notin 1..n
    <3>1. /\ i - n + 1 \in 2..m /\ Q(i) = R(i - n + 1)
          /\ j - n + 1 \in 2..m /\ Q(j) = R(j - n + 1)
      BY <1>6, <2>3
    <3>2. i - n + 1 < j - n + 1
      BY <1>1, <1>18
    <3> QED
      BY <1>7, <1>15, <3>1, <3>2
  <2> QED
    BY <2>1, <2>2, <2>3
<1>19. ASSUME NEW u \in Instances(d) PROVE u \in E \/ \E i \in 1..Len(s) : u \in Q(i)
  <2>1. CASE u \in D
    BY <2>1
  <2>2. CASE u \in R(1)
    BY <1>8, <1>10, <2>2
  <2>3. ASSUME NEW i \in 2..m, u \in R(i) PROVE \E k \in 1..Len(s) : u \in Q(k)
    BY <1>11, <2>3
  <2>4. \A i \in 1..m : i = 1 \/ i \in 2..m
    BY <1>1
  <2> QED
    BY <1>7, <2>1, <2>2, <2>3, <2>4
<1> QED
  BY <1>4, <1>5, <1>16, <1>17, <1>18, <1>19 DEF Ordered, s, X, Q

\* Lower copies and earlier children come first.
LEMMA CopyBefore ==
  ASSUME NEW d, WellFormed(d), NEW u \in Instances(d), NEW w \in Instances(d), NEW m \in Nat,
         Len(u) > m, Len(w) > m, \A i \in 1..m : u[i] = w[i],
         u[m + 1][1] = w[m + 1][1], u[m + 1][2] < w[m + 1][2]
  PROVE  Before(d, u, w)
<1>1. /\ Len(u) \in Nat /\ DOMAIN u = 1..Len(u) /\ Len(w) \in Nat /\ DOMAIN w = 1..Len(w)
  BY WayTypes DEF Ways
<1>2. m + 1 \in DOMAIN u \cap DOMAIN w /\ (m + 1) - 1 = m
  BY <1>1
<1>3. \A j \in 1..((m + 1) - 1) : u[j] = w[j]
  BY <1>2
<1> QED
  BY <1>2, <1>3 DEF Before

LEMMA ChildBefore ==
  ASSUME NEW d, WellFormed(d), NEW u \in Instances(d), NEW w \in Instances(d), NEW v \in Instances(d),
         Len(u) > Len(v), Len(w) > Len(v), \A i \in 1..Len(v) : u[i] = v[i] /\ w[i] = v[i],
         NEW k \in DOMAIN d[v[Len(v)][1]].children, NEW l \in DOMAIN d[v[Len(v)][1]].children, k < l,
         d[v[Len(v)][1]].children[k] = u[Len(v) + 1][1],
         d[v[Len(v)][1]].children[l] = w[Len(v) + 1][1]
  PROVE  Before(d, u, w)
<1> DEFINE m == Len(v)
<1>1. /\ Len(u) \in Nat /\ DOMAIN u = 1..Len(u) /\ Len(w) \in Nat /\ DOMAIN w = 1..Len(w)
      /\ m \in Nat
  BY WayTypes DEF Ways
<1>2. m >= 1
  BY InstancesDef
<1>3. m + 1 \in DOMAIN u \cap DOMAIN w /\ (m + 1) - 1 = m /\ m + 1 > 1 /\ m \in 1..m
  BY <1>1, <1>2
<1>4. \A j \in 1..((m + 1) - 1) : u[j] = w[j]
  BY <1>3
<1>5. u[(m + 1) - 1] = v[m]
  BY <1>3
<1> HIDE DEF m
<1>6. \E a, b \in DOMAIN d[u[(m + 1) - 1][1]].children :
        /\ a < b /\ d[u[(m + 1) - 1][1]].children[a] = u[m + 1][1]
        /\ d[u[(m + 1) - 1][1]].children[b] = w[m + 1][1]
  BY <1>5 DEF m
<1> QED
  BY <1>3, <1>4, <1>6 DEF Before

\* The calls for the copies of an element.
CopyGhosts(p, n) == [i \in 1..n |-> [above |-> p, copies |-> {i - 1}]]

LEMMA CopiesReplace ==
  ASSUME NEW d, WellFormed(d), NEW f, NEW g \in Ghosts(d), Fits(d, f, g),
         ~f.isGenerated, Generates(d[f.element]), NEW e, e = d[f.element]
  PROVE  /\ CopyGhosts(g.above, ParseInt(e.size)) \in Seq(Ghosts(d))
         /\ Replaces(d, Copies(f, e), CopyGhosts(g.above, ParseInt(e.size)), {},
                     Region(d, f.element, g))
<1> DEFINE x == f.element
           p == g.above
           n == ParseInt(e.size)
           V == CopyGhosts(p, n)
           parts == Copies(f, e)
           part(i) == Frame(x, f.baseName, (f.baseAddress + ParseInt(e.step) * (i - 1)) % AddrMod,
                            [f.vars EXCEPT ![e.var] = i - 1], TRUE)
           ghost(i) == [above |-> p, copies |-> {i - 1}]
           R == Region(d, x, g)
           P(i) == RegionAt(d, parts, V, i)
<1>1. /\ x \in DOMAIN d /\ LeadsTo(d, p, x) /\ Len(p) < x /\ f.baseName = RefName(d, p)
      /\ g.copies = CopyNumbers(d, x) /\ f.vars = VarsOf(d, p)
      /\ f.baseAddress = RefAddress(d, p) % AddrMod
  BY DEF Fits
<1>2. p \in Ways(d) /\ Len(p) \in Nat
  BY WayTypes DEF Ghosts
<1>3. n \in Nat /\ ParseInt(e.step) \in Nat /\ e.var \in Vars /\ CopyNumbers(d, x) = 0..(n - 1)
  BY <1>1, Elements DEF CopyNumbers
<1>4. parts = [i \in 1..n |-> part(i)]
  BY DEF Copies
<1>5. V = [i \in 1..n |-> ghost(i)]
  BY DEF CopyGhosts
<1>6. ASSUME NEW i \in 1..n PROVE ghost(i) \in Ghosts(d)
  BY <1>2 DEF Ghosts
<1> HIDE DEF part, ghost, parts, V
<1>7. Len(parts) = n /\ \A i \in 1..n : parts[i] = part(i) /\ V[i] = ghost(i)
  BY <1>3, <1>4, <1>5
<1>8. V \in Seq(Ghosts(d)) /\ Len(V) = n
  <2>1. V \in [1..n -> Ghosts(d)]
    BY <1>5, <1>6
  <2> QED
    BY <1>3, <2>1
<1>9. ASSUME NEW i \in 1..n PROVE Fits(d, part(i), ghost(i))
  <2> DEFINE c == i - 1
             w == Append(p, <<x, c>>)
  <2>1. c \in CopyNumbers(d, x) /\ c \in Nat
    BY <1>3
  <2>2. w \in Instances(d) /\ Adds(p, <<x, c>>, w)
    BY <1>1, <1>2, <2>1, Extended
  <2>3. VarsOf(d, w) = [VarsOf(d, p) EXCEPT ![e.var] = c]
    BY <1>1, <1>2, <2>2, VarsNext
  <2>4. (f.baseAddress + ParseInt(e.step) * c) % AddrMod
          = (RefAddress(d, p) + ParseInt(e.step) * c) % AddrMod
    <3>1. RefAddress(d, p) \in Nat /\ AddrMod \in Nat \ {0}
      BY <1>2, AddressTypes, ParserAssumption
    <3>2. \A j, k \in Nat : j * k \in Nat
      OBVIOUS
    <3>3. ParseInt(e.step) * c \in Nat
      BY <1>3, <2>1, <3>2
    <3> DEFINE a == RefAddress(d, p)
               s == ParseInt(e.step) * c
    <3>4. f.baseAddress = a % AddrMod
      BY <1>1
    <3> HIDE DEF a, s
    <3>5. ((a % AddrMod) + s) % AddrMod = (a + s) % AddrMod
      BY <3>1, <3>3, ModAdd DEF a, s
    <3>6. (f.baseAddress + s) % AddrMod = (a + s) % AddrMod
      BY <3>4, <3>5
    <3> QED
      BY <3>6 DEF a, s
  <2> HIDE DEF c
  <2>5. /\ part(i).element = x /\ part(i).baseName = f.baseName /\ part(i).isGenerated = TRUE
        /\ part(i).baseAddress = (f.baseAddress + ParseInt(e.step) * c) % AddrMod
        /\ part(i).vars = [f.vars EXCEPT ![e.var] = c]
    BY DEF part, Frame, c
  <2>6. ghost(i).above = p /\ ghost(i).copies = {c}
    BY DEF ghost, c
  <2> QED
    BY <1>1, <2>1, <2>3, <2>4, <2>5, <2>6 DEF Fits
<1>10. ASSUME NEW i \in 1..n, NEW u
       PROVE  u \in P(i) <=> u \in R /\ u[Len(p) + 1][2] = i - 1
  <2>1. parts[i].element = x /\ V[i].above = p /\ V[i].copies = {i - 1} /\ i - 1 \in CopyNumbers(d, x)
    <3>1. part(i).element = x
      BY DEF part, Frame
    <3>2. ghost(i).above = p /\ ghost(i).copies = {i - 1}
      BY DEF ghost
    <3>3. i - 1 \in CopyNumbers(d, x)
      BY <1>3
    <3> QED
      BY <1>7, <3>1, <3>2, <3>3
  <2> QED
    BY <1>1, <2>1 DEF RegionAt, Region
<1>11. ASSUME NEW i \in 1..n, NEW j \in 1..n, i < j PROVE Precedes(d, P(i), P(j))
  <2>1. SUFFICES ASSUME NEW u \in P(i), NEW w \in P(j) PROVE Before(d, u, w)
    BY DEF Precedes
  <2>2. u \in R /\ w \in R /\ u[Len(p) + 1][2] = i - 1 /\ w[Len(p) + 1][2] = j - 1
    BY <1>10
  <2>3. /\ u \in Instances(d) /\ w \in Instances(d) /\ Len(u) > Len(p) /\ Len(w) > Len(p)
        /\ \A k \in 1..Len(p) : u[k] = w[k]
        /\ u[Len(p) + 1][1] = w[Len(p) + 1][1]
    BY <2>2 DEF Region
  <2>4. i - 1 < j - 1
    BY <1>3, <1>11
  <2> QED
    BY <1>2, <2>2, <2>3, <2>4, CopyBefore
<1>12. ASSUME NEW u \in R PROVE \E i \in 1..n : u \in P(i)
  <2>1. u[Len(p) + 1][2] \in 0..(n - 1)
    BY <1>1, <1>3 DEF Region
  <2>2. u[Len(p) + 1][2] + 1 \in 1..n /\ (u[Len(p) + 1][2] + 1) - 1 = u[Len(p) + 1][2]
    BY <1>3, <2>1
  <2> QED
    BY <1>10, <2>2
<1> HIDE DEF R, P
<1>13. /\ \A i \in 1..Len(parts) : Fits(d, parts[i], V[i]) /\ P(i) \subseteq R /\ Precedes(d, {}, P(i))
  <2>1. \A i \in 1..n : Fits(d, parts[i], V[i])
    BY <1>7, <1>9
  <2>2. \A i \in 1..n : P(i) \subseteq R
    BY <1>10
  <2>3. \A S : Precedes(d, {}, S)
    BY DEF Precedes
  <2> QED
    BY <1>7, <2>1, <2>2, <2>3
<1> QED
  BY <1>7, <1>8, <1>11, <1>12, <1>13 DEF Replaces, P, R, V, parts

\* The call f with ghost g makes the node of the instance w, copy c of f's element.
Makes(d, f, g, c, w) ==
  LET e == d[f.element]
  IN /\ g.copies = {c}
     /\ Adds(g.above, <<f.element, c>>, w)
     /\ SubstituteVars(Append(f.baseName, e.id), f.vars) = RefName(d, w)
     /\ f.vars = VarsOf(d, w)
     /\ Address(f, e) = RefAddress(d, w) % AddrMod
     /\ NewNode(f, e) = RefNode(d, w)

\* A call that makes a node is for one instance, and its arguments are those of the
\* instance's way.
LEMMA NodeInstance ==
  ASSUME NEW d, WellFormed(d), NEW f, NEW g \in Ghosts(d), Fits(d, f, g),
         f.isGenerated \/ ~Generates(d[f.element]), NEW e, e = d[f.element]
  PROVE  \E c \in CopyNumbers(d, f.element), w \in Instances(d) : Makes(d, f, g, c, w)
<1> DEFINE x == f.element
           p == g.above
           step(c) == IF Generates(e) THEN ParseInt(e.step) * c ELSE 0
<1>1. x \in DOMAIN d /\ LeadsTo(d, p, x) /\ Len(p) < x /\ f.baseName = RefName(d, p)
  BY DEF Fits
<1>2. p \in Ways(d) /\ Len(p) \in Nat
  BY WayTypes DEF Ghosts
<1>3. PICK c \in CopyNumbers(d, x) :
        /\ g.copies = {c}
        /\ f.vars = VarsOf(d, Append(p, <<x, c>>))
        /\ f.baseAddress = (RefAddress(d, p) + step(c)) % AddrMod
  <2>1. CASE f.isGenerated
    BY <2>1 DEF Fits
  <2>2. CASE ~f.isGenerated
    <3>1. /\ g.copies = CopyNumbers(d, x) /\ f.vars = VarsOf(d, p)
          /\ f.baseAddress = RefAddress(d, p) % AddrMod
      BY <2>2 DEF Fits
    <3>2. CopyNumbers(d, x) = {0}
      BY <2>2 DEF CopyNumbers
    <3>3. 0 \in CopyNumbers(d, x)
      BY <3>2
    <3>4. Append(p, <<x, 0>>) \in Instances(d) /\ Adds(p, <<x, 0>>, Append(p, <<x, 0>>))
      BY <1>1, <1>2, <3>3, Extended
    <3>5. VarsOf(d, Append(p, <<x, 0>>)) = VarsOf(d, p)
      BY <1>1, <1>2, <2>2, <3>4, VarsNext
    <3>6. RefAddress(d, p) + step(0) = RefAddress(d, p)
      <4>1. RefAddress(d, p) \in Nat
        BY <1>2, AddressTypes
      <4> QED
        BY <2>2, <4>1
    <3> QED
      BY <3>1, <3>2, <3>3, <3>5, <3>6
  <2> QED
    BY <2>1, <2>2
<1> DEFINE w == Append(p, <<x, c>>)
<1>4. w \in Instances(d) /\ Adds(p, <<x, c>>, w)
  BY <1>1, <1>2, Extended
<1>5. c \in Nat
  BY <1>1, CopyTypes
<1> HIDE DEF w
<1>6. f.vars = VarsOf(d, w)
  BY <1>3 DEF w
<1>7. SubstituteVars(Append(f.baseName, e.id), f.vars) = RefName(d, w)
  BY <1>1, <1>2, <1>4, <1>5, <1>6, NameNext
<1>8. RefAddress(d, w) = RefAddress(d, p) + Gain(d, <<x, c>>) /\ RefAddress(d, p) \in Nat
      /\ RefAddress(d, w) \in Nat
  BY <1>2, <1>4, AddressNext, AddressTypes DEF Ways
<1>9. step(c) \in Nat /\ (e.address # Absent => ParseInt(e.address) \in Nat)
  <2>1. \A j, k \in Nat : j * k \in Nat
    OBVIOUS
  <2> QED
    BY <1>1, <1>5, <2>1, Elements
<1>10. Gain(d, <<x, c>>) = step(c) + (IF e.address = Absent THEN 0 ELSE ParseInt(e.address))
  BY DEF Gain
<1> DEFINE s == step(c)
           a == RefAddress(d, p)
           i == ParseInt(e.address)
<1>11. Address(f, e) = RefAddress(d, w) % AddrMod
  <2>1. AddrMod \in Nat \ {0}
    BY ParserAssumption
  <2>2. s \in Nat /\ a \in Nat /\ f.baseAddress = (a + s) % AddrMod
    BY <1>3, <1>8, <1>9
  <2>3. CASE e.address = Absent
    <3>1. Address(f, e) = f.baseAddress
      BY <2>3 DEF Address
    <3>2. RefAddress(d, w) = a + (s + 0)
      BY <1>8, <1>10, <2>3
    <3> HIDE DEF s, a
    <3>3. a + (s + 0) = a + s
      BY <2>2
    <3> QED
      BY <2>2, <3>1, <3>2, <3>3
  <2>4. CASE e.address # Absent
    <3>1. Address(f, e) = (((a + s) % AddrMod) + i) % AddrMod
      BY <2>2, <2>4 DEF Address
    <3>2. RefAddress(d, w) = a + (s + i) /\ i \in Nat
      BY <1>8, <1>9, <1>10, <2>4
    <3> HIDE DEF s, a, i
    <3>3. a + (s + i) = (a + s) + i /\ a + s \in Nat
      BY <2>2, <3>2
    <3>4. (((a + s) % AddrMod) + i) % AddrMod = ((a + s) + i) % AddrMod
      BY <2>1, <3>2, <3>3, ModAdd
    <3> QED
      BY <3>1, <3>2, <3>3, <3>4
  <2> QED
    BY <2>3, <2>4
<1>12. NewNode(f, e) = RefNode(d, w)
  <2>1. d[w[Len(w)][1]] = e
    BY <1>4 DEF Adds
  <2>2. (4 * (Address(f, e) % (AddrMod \div 4)) + AddrOffset) % AddrMod
          = (4 * RefAddress(d, w) + AddrOffset) % AddrMod
    BY <1>8, <1>11, ModBytes
  <2> QED
    BY <2>1, <2>2 DEF NewNode, RefNode
<1>13. Makes(d, f, g, c, w)
  BY <1>3, <1>4, <1>6, <1>7, <1>11, <1>12 DEF Makes
<1> QED
  BY <1>4, <1>13

\* The calls for the children of an element.
ChildGhosts(d, w, children) ==
  [k \in DOMAIN children |-> [above |-> w, copies |-> CopyNumbers(d, children[k])]]

LEMMA ChildrenReplace ==
  ASSUME NEW d, WellFormed(d), NEW f, NEW g \in Ghosts(d), Fits(d, f, g), NEW e, e = d[f.element],
         NEW c \in CopyNumbers(d, f.element), NEW w \in Instances(d),
         g.copies = {c}, Adds(g.above, <<f.element, c>>, w),
         NEW name, name = RefName(d, w),
         f.vars = VarsOf(d, w), Address(f, e) = RefAddress(d, w) % AddrMod
  PROVE  /\ ChildGhosts(d, w, e.children) \in Seq(Ghosts(d))
         /\ Replaces(d, Children(f, e, name), ChildGhosts(d, w, e.children), {w},
                     Region(d, f.element, g))
<1> DEFINE x == f.element
           p == g.above
           m == Len(w)
           ch == e.children
           n == Len(ch)
           V == ChildGhosts(d, w, ch)
           parts == Children(f, e, name)
           part(k) == Frame(ch[k], name, Address(f, e), f.vars, FALSE)
           ghost(k) == [above |-> w, copies |-> CopyNumbers(d, ch[k])]
           R == Region(d, x, g)
           P(k) == RegionAt(d, parts, V, k)
<1>1. x \in DOMAIN d /\ Len(p) < x
  BY DEF Fits
<1>2. p \in Ways(d) /\ Len(p) \in Nat /\ w \in Ways(d) /\ m \in Nat
  BY WayTypes DEF Ghosts, Ways
<1>3. /\ m = Len(p) + 1 /\ w[m] = <<x, c>> /\ \A i \in 1..Len(p) : w[i] = p[i]
  BY DEF Adds
<1>4. d[w[m][1]] = e
  BY <1>3
<1>5. /\ ch \in Seq(DOMAIN d) /\ \A k \in DOMAIN ch : x < ch[k]
      /\ x \in Nat
  BY <1>1, Elements
<1>6. /\ n \in Nat /\ DOMAIN ch = 1..n /\ \A k \in 1..n : ch[k] \in DOMAIN d
  BY <1>5
<1>7. \A k \in 1..n : CopyNumbers(d, ch[k]) \subseteq Nat
  BY <1>6, CopyTypes
<1>8. parts = [k \in 1..n |-> part(k)]
  BY <1>6 DEF Children
<1>9. V = [k \in 1..n |-> ghost(k)]
  BY <1>6 DEF ChildGhosts
<1>10. ASSUME NEW k \in 1..n PROVE ghost(k) \in Ghosts(d)
  BY <1>2, <1>7 DEF Ghosts
<1> HIDE DEF part, ghost, parts, V, ch, n
<1>11. Len(parts) = n /\ \A k \in 1..n : parts[k] = part(k) /\ V[k] = ghost(k)
  BY <1>6, <1>8, <1>9
<1>12. V \in Seq(Ghosts(d)) /\ Len(V) = n
  <2>1. V \in [1..n -> Ghosts(d)]
    BY <1>9, <1>10
  <2> QED
    BY <1>6, <2>1
<1>13. ASSUME NEW k \in 1..n
       PROVE  /\ part(k).element = ch[k] /\ part(k).baseName = name /\ part(k).isGenerated = FALSE
              /\ part(k).baseAddress = Address(f, e) /\ part(k).vars = f.vars
              /\ ghost(k).above = w /\ ghost(k).copies = CopyNumbers(d, ch[k])
  BY DEF part, ghost, Frame
<1>14. ASSUME NEW k \in 1..n PROVE Fits(d, part(k), ghost(k))
  <2>1. w # <<>>
    BY <1>2, <1>3
  <2>2. LeadsTo(d, w, ch[k])
    BY <1>4, <1>6, <2>1 DEF LeadsTo, IsChild, ch
  <2>3. Len(w) < ch[k]
    <3>1. ch[k] \in Nat /\ x < ch[k]
      BY <1>5, <1>6, Elements
    <3> QED
      BY <1>1, <1>2, <1>3, <1>5, <3>1
  <2> QED
    BY <1>6, <1>13, <2>2, <2>3 DEF Fits
<1>15. ASSUME NEW k \in 1..n, NEW u
       PROVE  u \in P(k) <=> /\ u \in Instances(d) /\ Len(u) > m
                             /\ \A i \in 1..m : u[i] = w[i]
                             /\ u[m + 1][1] = ch[k]
  <2>1. parts[k].element = ch[k] /\ V[k].above = w /\ V[k].copies = CopyNumbers(d, ch[k])
    BY <1>11, <1>13
  <2>2. u \in P(k) <=> /\ u \in Instances(d) /\ Len(u) > m
                       /\ \A i \in 1..m : u[i] = w[i]
                       /\ u[m + 1][1] = ch[k] /\ u[m + 1][2] \in CopyNumbers(d, ch[k])
    BY <2>1 DEF RegionAt, Region
  <2>3. ASSUME u \in Instances(d), Len(u) > m PROVE u[m + 1][2] \in CopyNumbers(d, u[m + 1][1])
    <3>1. u \in Ways(d)
      BY <2>3 DEF Ways
    <3>2. Len(u) \in Nat /\ m + 1 \in 1..Len(u)
      BY <1>2, <2>3, <3>1, WayTypes
    <3> QED
      BY <3>1, <3>2, WayTypes
  <2> QED
    BY <2>2, <2>3
<1>16. ASSUME NEW u
       PROVE  u \in R <=> /\ u \in Instances(d) /\ Len(u) >= m
                          /\ \A i \in 1..m : u[i] = w[i]
  <2>1. u \in R <=> /\ u \in Instances(d) /\ Len(u) > Len(p)
                    /\ \A i \in 1..Len(p) : u[i] = w[i]
                    /\ u[m][1] = x /\ u[m][2] = c
    BY <1>3 DEF Region
  <2>2. ASSUME u \in Instances(d), Len(u) >= m
        PROVE  (\A i \in 1..Len(p) : u[i] = w[i]) /\ u[m][1] = x /\ u[m][2] = c
                 <=> \A i \in 1..m : u[i] = w[i]
    <3>1. u \in Ways(d)
      BY <2>2 DEF Ways
    <3>2. Len(u) \in Nat /\ m \in 1..Len(u)
      BY <1>2, <1>3, <2>2, <3>1, WayTypes
    <3>3. u[m] = <<u[m][1], u[m][2]>>
      BY <3>1, <3>2, WayTypes
    <3>4. \A i \in 1..m : i = m \/ i \in 1..Len(p)
      BY <1>2, <1>3
    <3>5. m \in 1..m /\ \A i \in 1..Len(p) : i \in 1..m
      BY <1>2, <1>3
    <3> QED
      BY <1>3, <3>3, <3>4, <3>5, SMTT(60)
  <2>3. u \in Instances(d) => (Len(u) > Len(p) <=> Len(u) >= m)
    <3>1. u \in Instances(d) => Len(u) \in Nat
      BY WayTypes DEF Ways
    <3> QED
      BY <1>2, <1>3, <3>1
  <2> QED
    BY <2>1, <2>2, <2>3
<1>17. w \in R
  BY <1>2, <1>16
<1>18. ASSUME NEW k \in 1..n PROVE P(k) \subseteq R /\ Precedes(d, {w}, P(k))
  <2>1. ASSUME NEW u \in P(k) PROVE u \in R /\ Len(w) # Len(u)
    <3>1. u \in Instances(d) /\ Len(u) > m /\ \A i \in 1..m : u[i] = w[i]
      BY <1>15, <2>1
    <3>2. Len(u) \in Nat
      BY <3>1, WayTypes DEF Ways
    <3> QED
      BY <1>2, <1>16, <3>1, <3>2
  <2> QED
    BY <2>1 DEF Precedes
<1>19. ASSUME NEW k \in 1..n, NEW l \in 1..n, k < l PROVE Precedes(d, P(k), P(l))
  <2>1. SUFFICES ASSUME NEW u \in P(k), NEW v \in P(l) PROVE Before(d, u, v)
    BY DEF Precedes
  <2>2. /\ u \in Instances(d) /\ Len(u) > m /\ u[m + 1][1] = ch[k]
        /\ v \in Instances(d) /\ Len(v) > m /\ v[m + 1][1] = ch[l]
        /\ \A i \in 1..m : u[i] = w[i] /\ v[i] = w[i]
    BY <1>15
  <2>3. d[w[Len(w)][1]].children = ch /\ k \in DOMAIN ch /\ l \in DOMAIN ch
    BY <1>4, <1>6 DEF ch
  <2> QED
    BY <1>19, <2>2, <2>3, ChildBefore
<1>20. ASSUME NEW u \in R PROVE u \in {w} \/ \E k \in 1..n : u \in P(k)
  <2>1. u \in Instances(d) /\ Len(u) >= m /\ \A i \in 1..m : u[i] = w[i]
    BY <1>16
  <2>2. u \in Seq(Places(d)) /\ w \in Seq(Places(d)) /\ Len(u) \in Nat
    BY <2>1, WayTypes DEF Ways
  <2>3. CASE Len(u) = m
    <3> DEFINE S == Places(d)
    <3>1. u \in Seq(S) /\ w \in Seq(S)
      BY <2>2
    <3> HIDE DEF S
    <3>2. u = w
      BY <2>1, <2>3, <3>1, SeqEqual
    <3> QED
      BY <3>2
  <2>4. CASE Len(u) # m
    <3>1. Len(w) < Len(u)
      BY <1>2, <2>1, <2>2, <2>4
    <3>2. PICK k \in DOMAIN d[w[Len(w)][1]].children :
            d[w[Len(w)][1]].children[k] = u[Len(w) + 1][1]
      BY <2>1, <3>1, Continued
    <3>3. k \in 1..n /\ u[m + 1][1] = ch[k] /\ Len(u) > m
      BY <1>2, <1>4, <1>6, <2>2, <3>1, <3>2 DEF ch
    <3> QED
      BY <1>15, <2>1, <3>3
  <2> QED
    BY <2>3, <2>4
<1> HIDE DEF R, P
<1>21. \A k \in 1..Len(parts) : Fits(d, parts[k], V[k])
  BY <1>11, <1>14
<1> QED
  BY <1>11, <1>12, <1>17, <1>18, <1>19, <1>20, <1>21 DEF Replaces, P, R, V, parts, ch

-----------------------------------------------------------------------------
(* The table *)

\* The nodes are those of the instances of D, the first of each name.
Stored(d, nd, D) ==
  /\ DOMAIN nd = {RefName(d, w) : w \in D}
  /\ \A w \in D : IsFirst(d, w) => nd[RefName(d, w)] = RefNode(d, w)

\* While the document is walked, the calls to be made stand for what is not in the table
\* yet, in document order.
TableIInv ==
  phase = "walk" => \E W, D : Ordered(doc, stack, W, D) /\ Stored(doc, nodes, D)

\* insert keeps the first node of a name.
LEMMA StoredNext ==
  ASSUME NEW d, WellFormed(d), NEW D \in SUBSET Instances(d), NEW w \in Instances(d),
         \A u \in D : Len(u) = Len(w) => Before(d, u, w),
         NEW nd, Stored(d, nd, D), NEW name, name = RefName(d, w),
         NEW nx, DOMAIN nx = DOMAIN nd \cup {name}, \A n \in DOMAIN nd : nx[n] = nd[n],
         name \notin DOMAIN nd => nx[name] = RefNode(d, w)
  PROVE  Stored(d, nx, D \cup {w})
<1>1. DOMAIN nx = {RefName(d, u) : u \in D \cup {w}}
  BY DEF Stored
<1>2. ASSUME NEW u \in D, IsFirst(d, u) PROVE nx[RefName(d, u)] = RefNode(d, u)
  BY <1>2 DEF Stored
<1>3. ASSUME IsFirst(d, w) PROVE nx[name] = RefNode(d, w)
  <2>1. SUFFICES ASSUME name \in DOMAIN nd PROVE FALSE
    OBVIOUS
  <2>2. PICK u \in D : RefName(d, u) = name
    BY <2>1 DEF Stored
  <2>3. DOMAIN u = DOMAIN w
    BY <2>2 DEF RefName
  <2>4. Len(u) = Len(w)
    <3>1. /\ Len(u) \in Nat /\ DOMAIN u = 1..Len(u) /\ Len(w) \in Nat /\ DOMAIN w = 1..Len(w)
      BY WayTypes DEF Ways
    <3>2. Len(u) >= 1 /\ Len(w) >= 1
      BY InstancesDef
    <3> DEFINE a == Len(u)
               b == Len(w)
    <3>3. a \in 1..b /\ b \in 1..a
      <4>1. a \in DOMAIN u /\ b \in DOMAIN w
        BY <3>1, <3>2
      <4> QED
        BY <2>3, <3>1, <4>1
    <3>4. a \in Nat /\ b \in Nat
      BY <3>1
    <3> HIDE DEF a, b
    <3>5. a = b
      BY <3>3, <3>4
    <3> QED
      BY <3>5 DEF a, b
  <2>5. Before(d, u, w) /\ u \in Instances(d)
    BY <2>4
  <2> QED
    BY <1>3, <2>2, <2>5 DEF IsFirst
<1> QED
  BY <1>1, <1>2, <1>3 DEF Stored

\* One call of makeTree keeps the invariant.
LEMMA TableMakes ==
  ASSUME ParserTypes, TableIInv, MakeTree
  PROVE  TableIInv'
<1> DEFINE d == doc
           F == Frames(d)
           f == Head(stack)
           e == d[f.element]
           name == SubstituteVars(Append(f.baseName, e.id), f.vars)
<1>1. WellFormed(d) /\ stack \in Seq(F)
  BY DocsAssumption DEF ParserTypes
<1>2. phase = "walk" /\ stack # <<>> /\ doc' = doc /\ phase' = phase
  BY DEF MakeTree
<1>3. IF ~f.isGenerated /\ Generates(e)
      THEN stack' = Copies(f, e) \o Tail(stack) /\ UNCHANGED nodes
      ELSE stack' = Children(f, e, name) \o Tail(stack) /\ nodes' = Insert(name, NewNode(f, e))
  BY DEF MakeTree
<1>4. PICK W, D : Ordered(d, stack, W, D) /\ Stored(d, nodes, D)
  BY <1>2 DEF TableIInv
<1>5. f = stack[1] /\ f \in F /\ 1 \in 1..Len(stack)
  BY <1>1, <1>2
<1> DEFINE g == W[1]
           R == Region(d, f.element, g)
<1>6. W \in Seq(Ghosts(d)) /\ D \subseteq Instances(d) /\ Len(W) = Len(stack)
  BY <1>4 DEF Ordered
<1>7. g \in Ghosts(d)
  BY <1>5, <1>6
<1>8. Fits(d, f, g) /\ Precedes(d, D, R) /\ RegionAt(d, stack, W, 1) = R
  BY <1>4, <1>5 DEF Ordered, RegionAt
<1> HIDE DEF f, g
<1>9. SUFFICES \E X, E : Ordered(d, stack', X, E) /\ Stored(d, nodes', E)
  BY <1>2 DEF TableIInv
<1>10. CASE ~f.isGenerated /\ Generates(e)
  <2> DEFINE V == CopyGhosts(g.above, ParseInt(e.size))
  <2>1. V \in Seq(Ghosts(d)) /\ Replaces(d, Copies(f, e), V, {}, R)
    BY <1>1, <1>7, <1>8, <1>10, CopiesReplace
  <2>2. Copies(f, e) \in Seq(F)
    BY <1>5, <1>10, CallTypes
  <2> HIDE DEF V, R, F, e
  <2>3. Ordered(d, Copies(f, e) \o Tail(stack), V \o Tail(W), D \cup {})
    BY <1>1, <1>2, <1>4, <1>6, <1>8, <2>1, <2>2, OrderedNext
  <2>4. stack' = Copies(f, e) \o Tail(stack) /\ nodes' = nodes
    BY <1>3, <1>10
  <2>5. D \cup {} = D
    OBVIOUS
  <2> QED
    BY <1>4, <2>3, <2>4, <2>5
<1>11. CASE f.isGenerated \/ ~Generates(e)
  <2>1. f.isGenerated \/ ~Generates(d[f.element])
    BY <1>11
  <2>2. Fits(d, f, g)
    BY <1>8
  <2>3. \E c \in CopyNumbers(d, f.element), w \in Instances(d) : Makes(d, f, g, c, w)
    <3> HIDE DEF d
    <3> QED
      BY <1>1, <1>7, <2>1, <2>2, NodeInstance
  <2>4. PICK c \in CopyNumbers(d, f.element), w \in Instances(d) : Makes(d, f, g, c, w)
    BY <2>3
  <2>5. /\ g.copies = {c}
        /\ Adds(g.above, <<f.element, c>>, w)
        /\ name = RefName(d, w)
        /\ f.vars = VarsOf(d, w)
        /\ Address(f, e) = RefAddress(d, w) % AddrMod
        /\ NewNode(f, e) = RefNode(d, w)
    BY <2>4 DEF Makes
  <2> DEFINE V == ChildGhosts(d, w, e.children)
  <2>6. V \in Seq(Ghosts(d)) /\ Replaces(d, Children(f, e, name), V, {w}, R)
    BY <1>1, <1>7, <1>8, <2>5, ChildrenReplace
  <2>7. Children(f, e, name) \in Seq(F)
    <3>1. /\ e.id \in Ids(d) /\ f.baseName \in Seq(Ids(d)) /\ f.vars \in [Vars -> Int]
      BY <1>5, Attributes DEF Frames
    <3>2. Append(f.baseName, e.id) \in Seq(Ids(d))
      BY <3>1
    <3>3. name \in Seq(Ids(d))
      BY <3>1, <3>2, NameTypes
    <3> QED
      BY <1>5, <3>3, CallTypes
  <2> HIDE DEF V, F, e, name
  <2>8. w \in R /\ \A u \in D : Len(u) = Len(w) => Before(d, u, w)
    <3>1. w \in R
      BY <2>6 DEF Replaces
    <3> QED
      BY <1>8, <3>1 DEF Precedes
  <2>9. Ordered(d, Children(f, e, name) \o Tail(stack), V \o Tail(W), D \cup {w})
    BY <1>1, <1>2, <1>4, <1>6, <1>8, <2>6, <2>7, OrderedNext
  <2>10. stack' = Children(f, e, name) \o Tail(stack) /\ nodes' = Insert(name, NewNode(f, e))
    BY <1>3, <1>11
  <2>11. /\ DOMAIN nodes' = DOMAIN nodes \cup {name}
         /\ \A n \in DOMAIN nodes : nodes'[n] = nodes[n]
         /\ name \notin DOMAIN nodes => nodes'[name] = RefNode(d, w)
    BY <2>5, <2>10 DEF Insert
  <2>12. Stored(d, nodes', D \cup {w})
    BY <1>1, <1>4, <1>6, <2>5, <2>8, <2>11, StoredNext
  <2> QED
    BY <2>9, <2>10, <2>12
<1> QED
  BY <1>10, <1>11

\* The call for the root.
LEMMA TableInit ==
  ASSUME ParserInit
  PROVE  TableIInv
<1> DEFINE d == doc
           f == Frame(1, <<>>, 0, NoVars, FALSE)
           g == [above |-> <<>>, copies |-> CopyNumbers(d, 1)]
           W == <<g>>
<1>1. WellFormed(d) /\ stack = <<f>> /\ nodes = [n \in {} |-> {}]
  BY DocsAssumption DEF ParserInit
<1>2. 1 \in DOMAIN d
  BY <1>1 DEF WellFormed
<1>3. g \in Ghosts(d)
  BY <1>1, <1>2, CopyTypes DEF Ghosts, Ways
<1>4. RefName(d, <<>>) = <<>> /\ VarsOf(d, <<>>) = NoVars /\ RefAddress(d, <<>>) % AddrMod = 0
  <2>1. Len(<<>>) = 0 /\ DOMAIN <<>> = {}
    OBVIOUS
  <2>2. RefName(d, <<>>) = <<>>
    BY <2>1 DEF RefName
  <2>3. \A v : Binders(d, <<>>, v, Len(<<>>)) = {}
    BY <2>1 DEF Binders
  <2>4. \A v : VarOf(d, <<>>, v) = Plain
    BY <2>3 DEF VarOf
  <2>5. RefAddress(d, <<>>) = 0
    BY <2>1, SumsDef DEF RefAddress
  <2> QED
    BY <2>2, <2>4, <2>5, ParserAssumption DEF VarsOf, NoVars
<1>5. /\ f.element = 1 /\ f.baseName = <<>> /\ f.baseAddress = 0 /\ f.vars = NoVars
      /\ f.isGenerated = FALSE /\ g.above = <<>> /\ g.copies = CopyNumbers(d, 1)
  BY DEF Frame
<1> HIDE DEF f, g
<1>6. Fits(d, f, g)
  <2>1. LeadsTo(d, <<>>, 1) /\ Len(<<>>) < 1
    BY DEF LeadsTo
  <2> QED
    BY <1>2, <1>4, <1>5, <2>1 DEF Fits
<1>7. \A u \in Instances(d) : u \in Region(d, 1, g)
  <2>1. SUFFICES ASSUME NEW u \in Instances(d) PROVE u \in Region(d, 1, g)
    OBVIOUS
  <2>2. Len(u) >= 1 /\ u[1][1] = 1 /\ Len(u) \in Nat
    BY <1>1, InstancesDef
  <2>3. u[1][2] \in CopyNumbers(d, 1)
    BY <1>1, <2>2, WayTypes DEF Ways
  <2>4. Len(g.above) = 0
    BY <1>5
  <2> QED
    BY <1>5, <2>2, <2>3, <2>4 DEF Region
<1>8. /\ W \in Seq(Ghosts(d)) /\ Len(W) = 1 /\ W[1] = g /\ Len(stack) = 1 /\ stack[1] = f
  BY <1>1, <1>3
<1> HIDE DEF W
<1>9. Ordered(d, stack, W, {})
  <2>1. \A i \in 1..1 : i = 1
    OBVIOUS
  <2>2. 1 \in 1..1
    OBVIOUS
  <2>3. \A S : Precedes(d, {}, S)
    BY DEF Precedes
  <2>4. \A i, j \in 1..1 : ~(i < j)
    OBVIOUS
  <2>5. \A u \in Instances(d) : u \in RegionAt(d, stack, W, 1)
    BY <1>5, <1>7, <1>8 DEF RegionAt
  <2> QED
    BY <1>6, <1>8, <2>1, <2>2, <2>3, <2>4, <2>5 DEF Ordered
<1>10. Stored(d, nodes, {})
  BY <1>1 DEF Stored
<1> QED
  BY <1>9, <1>10 DEF TableIInv

\* When no call is left, all instances are in the table.
LEMMA TableEnds ==
  ASSUME TableIInv
  PROVE  TableMatches
<1>1. SUFFICES ASSUME phase = "walk", stack = <<>>
               PROVE  /\ DOMAIN nodes = {RefName(doc, w) : w \in Instances(doc)}
                      /\ \A w \in Instances(doc) :
                           IsFirst(doc, w) => nodes[RefName(doc, w)] = RefNode(doc, w)
  BY DEF TableMatches
<1>2. PICK W, D : Ordered(doc, stack, W, D) /\ Stored(doc, nodes, D)
  BY <1>1 DEF TableIInv
<1>3. \A i \in 1..Len(stack) : FALSE
  BY <1>1
<1>4. D = Instances(doc)
  BY <1>2, <1>3 DEF Ordered
<1> QED
  BY <1>2, <1>4 DEF Stored

\* Every step keeps the invariant: makeTree by TableMakes, the others move no frame.
LEMMA TableNext == TypeIInv /\ TableIInv /\ [Next]_vars => TableIInv'
<1> SUFFICES ASSUME TypeIInv, TableIInv, [Next]_vars PROVE TableIInv'
  OBVIOUS
<1>1. CASE MakeTree
  BY <1>1, TableMakes DEF TypeIInv
<1>2. CASE ParseDone \/ ParseFails
  <2>1. phase' # "walk"
    BY <1>2 DEF ParseDone, ParseFails
  <2> QED
    BY <2>1 DEF TableIInv
<1>3. CASE UNCHANGED parserVars
  BY <1>3 DEF TableIInv, parserVars
<1>4. ASSUME NEW c \in Clients, Program(c) PROVE UNCHANGED parserVars
  <2>1. Connect(c) => UNCHANGED parserVars
    BY DEF Connect
  <2>2. InitFails(c) => UNCHANGED parserVars
    BY DEF InitFails
  <2>3. LoadModule(c) => UNCHANGED parserVars
    BY DEF LoadModule
  <2>4. ReadReg(c) => UNCHANGED parserVars
    BY DEF ReadReg, Begin
  <2>5. ReadRegAddress(c) => UNCHANGED parserVars
    BY DEF ReadRegAddress, Begin
  <2>6. WriteReg(c) => UNCHANGED parserVars
    BY DEF WriteReg, Begin
  <2>7. NotFound(c) => UNCHANGED parserVars
    BY DEF NotFound, Begin
  <2>8. ReadServed(c) => UNCHANGED parserVars
    BY DEF ReadServed
  <2>9. Return(c) => UNCHANGED parserVars
    BY DEF Return
  <2>10. WriteServed(c) => UNCHANGED parserVars
    BY DEF WriteServed
  <2>11. AnswerLost(c) => UNCHANGED parserVars
    BY DEF AnswerLost
  <2>12. CallFails(c) => UNCHANGED parserVars
    BY DEF CallFails
  <2> QED
    BY <1>4, <2>1, <2>2, <2>3, <2>4, <2>5, <2>6, <2>7, <2>8, <2>9, <2>10, <2>11, <2>12 DEF Program
<1> QED
  BY <1>1, <1>2, <1>3, <1>4 DEF Next, ParserNext, vars

\* When the walk of the root's makeTree ends, for every document and every nesting of
\* generated elements, the table has exactly the names of the document's instances,
\* and a name has the node of its first instance in document order: the sum of the
\* offsets along the way as its address, and its element's mask.
THEOREM TableSafe == Spec => []TableMatches
<1>1. Init => TableIInv
  BY TableInit DEF Init
<1>2. TypeIInv /\ TableIInv /\ [Next]_vars => TableIInv'
  BY TableNext
<1>3. TableIInv => TableMatches
  BY TableEnds
<1> QED
  BY <1>1, <1>2, <1>3, TypeInitInductive, TypeNextInductive, PTL DEF Spec
=============================================================================
