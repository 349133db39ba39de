---------------------------- MODULE XHALInterface -----------------------------
(***************************************************************************)
(* xhal::XHALInterface (xhalcore XHALInterface.cpp): programs on control PCs *)
(* read and write the registers of one card by name.  Each program parses    *)
(* the address table (one parse stands for all: they use the same file),     *)
(* connects to the card's RPC service and loads its memory module.  A name   *)
(* stands for a field, the bits of a mask in a register.                     *)
(*                                                                         *)
(* The RPC service is external: it executes one memory.read or memory.write  *)
(* at a time, and a call may fail before or after it took effect, be         *)
(* answered by "error", or by an answer without the data.  writeReg of a     *)
(* field makes two calls; anything may happen on the card in between.        *)
(***************************************************************************)
EXTENDS XMLParser

CONSTANTS
  Clients,       \* the programs
  Registers,     \* byte addresses the memory module can access
  InitWords,     \* what the registers may hold at the start
  Reads,         \* the names programs read
  RawReads,      \* the addresses they read without a name
  Writes,        \* the names and values they write
  MaxCalls       \* bound: register calls of one program

ASSUME InterfaceAssumption ==
  /\ InitWords \subseteq SUBSET Bits
  /\ RawReads \subseteq 0..(AddrMod - 1)
  /\ \A w \in Writes : w.value \subseteq Bits
  /\ MaxCalls \in Nat

VARIABLES
  pc,       \* what each program is doing
  loaded,   \* the memory module is loaded for this program's connection
  job,      \* the register call: its kind, m_node, and the name and value given
  cur,      \* current_val of a masked write, or result of a read
  calls,    \* number of register calls begun
  reg,      \* the registers of the card
  field,    \* history: the registers, had every write changed its field at once
  since,    \* history: bits other programs wrote since this one's read
  lost,     \* history: bits a masked write has put back
  last      \* history: names and what was last written to them, while known

clientVars == <<pc, loaded, job, cur, calls>>
cardVars == <<reg, field, since, lost, last>>
vars == <<parserVars, clientVars, cardVars>>

-----------------------------------------------------------------------------
(* Masks and shifts *)

\* The number of turns of the shift loops: 32 for a mask of 0.
ShiftAmount(mask) ==
  IF mask = {} THEN Width ELSE CHOOSE b \in mask : \A c \in mask : b <= c

\* Mutant: the loop shifts the mask and forgets the result.
ExtractUnshifted(word, mask) == word \cap mask

\* readReg: the bits of the mask, shifted down.
Extract(word, mask) == {b \in Bits : b + ShiftAmount(mask) \in word \cap mask}

\* value << shift_amount; by 32 it may be any word.
Shifted(value, mask) ==
  IF ShiftAmount(mask) < Width THEN {{b \in Bits : b - ShiftAmount(mask) \in value}}
  ELSE SUBSET Bits

\* Mutant: the other bits of the register are not kept.
MergedAlone(shifted, mask, current) == shifted \cap mask

\* (val_to_write & mask) | (current_val & ~mask)
Merged(shifted, mask, current) == (shifted \cap mask) \cup (current \ mask)

\* What a read of the field gives back after value was written to it.
Fitting(value, mask) == {b \in value : b + ShiftAmount(mask) \in mask}

-----------------------------------------------------------------------------
NoJob == [kind |-> "none"]

Unknown == [known |-> FALSE]

Init ==
  /\ ParserInit
  /\ pc = [c \in Clients |-> "new"]
  /\ loaded = [c \in Clients |-> FALSE]
  /\ job = [c \in Clients |-> NoJob]
  /\ cur = [c \in Clients |-> {}]
  /\ calls = [c \in Clients |-> 0]
  /\ reg \in [Registers -> InitWords]
  /\ field = reg
  /\ since = [c \in Clients |-> {}]
  /\ lost = [a \in Registers |-> {}]
  /\ last = [n \in {w.name : w \in Writes} |-> Unknown]

\* An exception leaves the call.  Where its text is made by strcat onto a string
\* literal, that write is undefined: it kills the program, or goes unnoticed.
Throw(c, to) ==
  /\ pc' = [pc EXCEPT ![c] = to]
  /\ job' = [job EXCEPT ![c] = NoJob]
  /\ cur' = [cur EXCEPT ![c] = {}]

-----------------------------------------------------------------------------
(* init and loadModule *)

\* init: parseXML, then rpc.connect.
Connect(c) ==
  /\ pc[c] = "new"
  /\ phase = "parsed"
  /\ \E to \in {"ready", "out", "dead"} : pc' = [pc EXCEPT ![c] = to]
  /\ UNCHANGED <<parserVars, cardVars, loaded, job, cur, calls>>

\* parseXML threw.
InitFails(c) ==
  /\ pc[c] = "new"
  /\ phase = "failed"
  /\ pc' = [pc EXCEPT ![c] = "out"]
  /\ UNCHANGED <<parserVars, cardVars, loaded, job, cur, calls>>

\* loadModule: load_module says yes; or it throws, which the program survives
\* without the module or, by the text of the exception, does not.
LoadModule(c) ==
  /\ pc[c] = "ready"
  /\ ~loaded[c]
  /\ \/ /\ loaded' = [loaded EXCEPT ![c] = TRUE]
        /\ UNCHANGED pc
     \/ /\ pc' = [pc EXCEPT ![c] = "dead"]
        /\ UNCHANGED loaded
  /\ UNCHANGED <<parserVars, cardVars, job, cur, calls>>

-----------------------------------------------------------------------------
(* readReg and writeReg *)

Begin(c) ==
  /\ pc[c] = "ready"
  /\ calls[c] < MaxCalls
  /\ calls' = [calls EXCEPT ![c] = @ + 1]
  /\ UNCHANGED <<parserVars, loaded, reg, field, lost, last>>

\* The name is looked up; m_node is the node found.
ReadReg(c) ==
  /\ Begin(c)
  /\ \E n \in Reads \cap DOMAIN nodes :
       job' = [job EXCEPT ![c] = [kind |-> "read", name |-> n, node |-> nodes[n]]]
  /\ pc' = [pc EXCEPT ![c] = "read"]
  /\ UNCHANGED <<cur, since>>

\* The overload for addresses: no mask.
ReadRegAddress(c) ==
  /\ Begin(c)
  /\ \E a \in RawReads :
       job' = [job EXCEPT ![c] = [kind |-> "raw", node |-> [real |-> a, mask |-> Bits]]]
  /\ pc' = [pc EXCEPT ![c] = "read"]
  /\ UNCHANGED <<cur, since>>

WriteReg(c) ==
  /\ Begin(c)
  /\ \E w \in Writes :
       /\ w.name \in DOMAIN nodes
       /\ job' = [job EXCEPT ![c] = [kind |-> "write", name |-> w.name, value |-> w.value,
                                     node |-> nodes[w.name]]]
       /\ pc' = [pc EXCEPT ![c] = IF nodes[w.name].mask = Bits THEN "write" ELSE "read"]
  /\ UNCHANGED <<cur, since>>

\* A name that is not in the table.
NotFound(c) ==
  /\ Begin(c)
  /\ \E n \in (Reads \cup {w.name : w \in Writes}) : n \notin DOMAIN nodes
  /\ \E to \in {"ready", "dead"} : Throw(c, to)
  /\ UNCHANGED since

-----------------------------------------------------------------------------
(* The calls to the RPC service *)

At(c) == job[c].node.real
Mask(c) == job[c].node.mask

Served(c) == loaded[c] /\ At(c) \in Registers

\* memory.read is executed and its answer arrives: a read returns the field, a
\* masked write goes on with current_val.
ReadServed(c) ==
  /\ pc[c] = "read"
  /\ Served(c)
  /\ since' = [since EXCEPT ![c] = {}]
  /\ cur' = [cur EXCEPT ![c] = IF job[c].kind = "read" THEN Extract(reg[At(c)], Mask(c))
                              ELSE reg[At(c)]]
  /\ pc' = [pc EXCEPT ![c] = IF job[c].kind = "write" THEN "write" ELSE "return"]
  /\ UNCHANGED <<parserVars, loaded, job, calls, reg, field, lost, last>>

\* readReg or writeReg is back in the program.
Return(c) ==
  /\ pc[c] = "return"
  /\ pc' = [pc EXCEPT ![c] = "ready"]
  /\ job' = [job EXCEPT ![c] = NoJob]
  /\ cur' = [cur EXCEPT ![c] = {}]
  /\ UNCHANGED <<parserVars, loaded, calls, cardVars>>

\* The names whose field shares a bit with the mask of c's node.
Overlapping(c) ==
  {n \in DOMAIN last \cap DOMAIN nodes :
     nodes[n].real = At(c) /\ nodes[n].mask \cap Mask(c) # {}}

\* memory.write of word is executed on the card.
Store(c, word) ==
  LET a == At(c)
      bits == Mask(c) \cap word
  IN
  /\ reg' = [reg EXCEPT ![a] = word]
  /\ field' = [field EXCEPT ![a] = bits \cup (@ \ Mask(c))]
  /\ lost' = [lost EXCEPT ![a] = (@ \cup since[c]) \ Mask(c)]
  /\ since' = [d \in Clients |->
                 IF d = c THEN {}
                 ELSE IF pc[d] = "write" /\ At(d) = a THEN since[d] \cup Mask(c)
                 ELSE since[d]]
  /\ last' = [n \in DOMAIN last |->
                IF n = job[c].name THEN [known |-> TRUE, value |-> Fitting(job[c].value, Mask(c))]
                ELSE IF n \in Overlapping(c) THEN Unknown ELSE last[n]]

\* What a write sends: the value itself for a full mask, otherwise the field
\* merged into current_val.
Words(c) ==
  IF Mask(c) = Bits THEN {job[c].value}
  ELSE {Merged(s, Mask(c), cur[c]) : s \in Shifted(job[c].value, Mask(c))}

\* memory.write is executed and its answer arrives.
WriteServed(c) ==
  /\ pc[c] = "write"
  /\ Served(c)
  /\ \E word \in Words(c) : Store(c, word)
  /\ pc' = [pc EXCEPT ![c] = "ready"]
  /\ job' = [job EXCEPT ![c] = NoJob]
  /\ cur' = [cur EXCEPT ![c] = {}]
  /\ UNCHANGED <<parserVars, loaded, calls>>

\* The write is executed, and the connection breaks before the answer.
AnswerLost(c) ==
  /\ pc[c] = "write"
  /\ Served(c)
  /\ \E word \in Words(c) : Store(c, word)
  /\ \E to \in {"ready", "dead"} : Throw(c, to)
  /\ UNCHANGED <<parserVars, loaded, calls>>

\* The call fails and nothing changed: an exception of call_method, "error" in the
\* answer (all there is for an address nobody can access), an answer without data.
CallFails(c) ==
  /\ pc[c] \in {"read", "write"}
  /\ \E to \in {"ready", "dead"} : Throw(c, to)
  /\ since' = [since EXCEPT ![c] = {}]
  /\ UNCHANGED <<parserVars, loaded, calls, reg, field, lost, last>>

-----------------------------------------------------------------------------
Program(c) ==
  \/ Connect(c) \/ InitFails(c) \/ LoadModule(c)
  \/ ReadReg(c) \/ ReadRegAddress(c) \/ WriteReg(c) \/ NotFound(c)
  \/ ReadServed(c) \/ Return(c) \/ WriteServed(c) \/ AnswerLost(c) \/ CallFails(c)

Next ==
  \/ ParserNext /\ UNCHANGED <<clientVars, cardVars>>
  \/ \E c \in Clients : Program(c)

Spec == Init /\ [][Next]_vars

-----------------------------------------------------------------------------
(* Properties *)

TypeOK ==
  /\ pc \in [Clients -> {"new", "ready", "out", "dead", "read", "write", "return"}]
  /\ loaded \in [Clients -> BOOLEAN]
  /\ \A c \in Clients : pc[c] \in {"read", "write"} => job[c].node \in Nodes
  /\ cur \in [Clients -> SUBSET Bits]
  /\ reg \in [Registers -> SUBSET Bits]
  /\ field \in [Registers -> SUBSET Bits]
  /\ since \in [Clients -> SUBSET Bits]
  /\ lost \in [Registers -> SUBSET Bits]

\* Every field of every register holds what was last written to it, by whichever
\* program: a masked write changes no bit outside its mask, except that it may put
\* back bits another program wrote between its memory.read and its memory.write.
FieldsKept ==
  \A a \in Registers : \A b \in Bits \ lost[a] : b \in reg[a] <=> b \in field[a]

\* readReg of a name returns the value writeReg was last given for it, cut to the
\* width of the field, unless the field was also written under another name or a
\* bit of it was put back.
ReadsBack ==
  [][\A c \in Clients :
       /\ pc[c] = "read"
       /\ job[c].kind = "read"
       /\ pc'[c] = "return"
       /\ job[c].name \in DOMAIN last
       /\ last[job[c].name].known
       /\ lost[At(c)] \cap Mask(c) = {}
       => cur'[c] = last[job[c].name].value]_vars

\* A masked write that is between its two calls knows all bits outside its mask,
\* except those others wrote meanwhile and those already lost.
CurrentKnown ==
  \A c \in Clients : pc[c] = "write" /\ At(c) \in Registers =>
    \A b \in Bits \ (Mask(c) \cup since[c] \cup lost[At(c)]) :
      b \in cur[c] <=> b \in field[At(c)]

\* The histories and registers are functions on the programs and registers.
Shape ==
  /\ pc = [c \in Clients |-> pc[c]]
  /\ job = [c \in Clients |-> job[c]]
  /\ cur = [c \in Clients |-> cur[c]]
  /\ since = [c \in Clients |-> since[c]]
  /\ reg = [a \in Registers |-> reg[a]]
  /\ field = [a \in Registers |-> field[a]]
  /\ lost = [a \in Registers |-> lost[a]]

\* The inductive invariant behind FieldsKept.
IInv == Shape /\ FieldsKept /\ CurrentKnown

\* A call knows the node of its name, which the parser never takes back.
Named(c) ==
  pc[c] \in {"read", "write"} =>
    /\ job[c].kind \in {"read", "raw", "write"}
    /\ pc[c] = "write" => job[c].kind = "write"
    /\ job[c].kind \in {"read", "write"} =>
         job[c].name \in DOMAIN nodes /\ job[c].node = nodes[job[c].name]
    /\ job[c].kind = "write" => job[c].value \subseteq Bits

\* What is known to have been written to a name is in its field.
LastKnown ==
  \A n \in DOMAIN last : last[n].known =>
    /\ n \in DOMAIN nodes
    /\ nodes[n].real \in Registers
    /\ last[n].value = Extract(field[nodes[n].real], nodes[n].mask)

\* The inductive invariants behind TypeOK and, with IInv, behind ReadsBack.
TypeIInv == ParserTypes /\ TypeOK /\ Shape /\ \A c \in Clients : Named(c)
ReadsIInv == TypeIInv /\ IInv /\ LastKnown
=============================================================================
