----------------------------- MODULE IPbusPacket ------------------------------
(***************************************************************************)
(* The packet processor of the IPbus server (xcompile/ipbus/Client.cpp,     *)
(* process_frame and below).  A request is a deque of words: a packet       *)
(* header, then transactions, each a header word followed by its address    *)
(* and data.  Nothing but the position tells a header from data: whatever   *)
(* a transaction leaves on the deque is parsed as the next header.          *)
(*                                                                         *)
(* A word is a natural number below WordMod with the field layout of        *)
(* IPBusTxnHdr; the packet header, of which only single bytes are tested,   *)
(* is a tuple of four bytes.  The memory bus is a range of registers; each  *)
(* memhub call is one step, as Memhub shows it may be taken, and each may   *)
(* fail when the bridge to the registers goes down.                         *)
(***************************************************************************)
EXTENDS Integers, Sequences

CONSTANTS
  WordMod,        \* the number of uint32_t values: 2^32, scaled down for TLC
  AddrOffset,     \* 0x64000000, what modifyAddress adds
  MemStart,       \* first byte of the memory range behind memhub
  MemEnd,         \* last byte of it, as libmemsvc's configuration gives it
  ReadOnly,       \* the registers in a readonly range
  BusFaults,      \* the range is behind a Chip2Chip bridge, which goes down at any time
  InitMem,        \* the values the registers start with
  BitAnd(_, _),      \* bitwise and of two words
  BitOr(_, _),       \* bitwise or of two words
  Packets,        \* the packets clients send: header bytes and transactions
  OtherWrites     \* what other processes may write: register and value

Words == 0..(WordMod - 1)

\* The values of a header field of n bits.
Field(n) == 0..(2 ^ n - 1)

\* A transaction as a client means it, with the fields of IPBusTxnHdr.
Transactions ==
  [type : Field(4), id : Field(12), words : Field(8), addr : Words, data : Seq(Words)]

ASSUME PacketAssumption ==
  /\ WordMod \in Nat \ {0}
  /\ WordMod % 4 = 0
  /\ AddrOffset \in Words
  /\ AddrOffset % 4 = 0
  /\ MemStart \in 1..(WordMod - 1)
  /\ MemEnd \in MemStart..(WordMod - 1)
  /\ BusFaults \in BOOLEAN
  /\ InitMem \subseteq Words
  /\ \A p \in Packets : p.txns \in Seq(Transactions)
  /\ OtherWrites \subseteq ((MemStart..MemEnd) \ ReadOnly) \X Words

VARIABLES
  packet,   \* history: the packet being processed
  req,      \* the deque request
  rsp,      \* the deque response
  at,       \* where the processor is
  hdr,      \* transaction_header of the current transaction
  base,     \* base_addr of the current transaction
  acc,      \* rspdata, or predata of a read-modify-write
  left,     \* turns left in a loop over words
  mem,      \* the registers
  mem0,     \* history: the registers before the packet
  reply,    \* the frame handed to the connection, once there is one
  other,    \* history: the write of another process during this packet, if any
  torn,     \* history: what that write fell into the middle of
  fate      \* history: how far each transaction came that is over

vars == <<packet, req, rsp, at, hdr, base, acc, left, mem, mem0, reply, other, torn, fate>>
otherVars == <<other, torn>>
txnVars == <<hdr, base, acc, left>>

-----------------------------------------------------------------------------
(* Transaction headers: class IPBusTxnHdr *)

SUCCESS == 0
BAD_HEADER == 1
BUSERR_READ == 4
BUSERR_WRITE == 5
REQUEST == 15

Pow2(n) == 2 ^ n

Decode(w) ==
  [version |-> (w \div Pow2(28)) % 16,
   id      |-> (w \div Pow2(16)) % Pow2(12),
   words   |-> (w \div Pow2(8)) % Pow2(8),
   type    |-> (w \div Pow2(4)) % 16,
   info    |-> w % 16]

Serialize(h) ==
  h.version * Pow2(28) + h.id * Pow2(16) + h.words * Pow2(8) + h.type * Pow2(4) + h.info

Answer(code) == Serialize([hdr EXCEPT !.info = code])

NoHeader == Decode(0)

-----------------------------------------------------------------------------
(* The memory bus behind memhub *)

\* Mutant: the word address is not turned into a byte address.
ModifyAddressUnshifted(a) == (a + AddrOffset) % WordMod

\* base_addr << 2, plus the offset of the register space, in 32 bits.
ModifyAddress(a) == ((4 * (a % (WordMod \div 4))) + AddrOffset) % WordMod

Registers == {a \in MemStart..MemEnd : a % 4 = 0}

\* memhub_read accepts blocks inside the range; memhub_write also needs the range
\* to be writable.
Readable(a, n) == a \in MemStart..MemEnd /\ a % 4 = 0 /\ (a + 4 * n) % WordMod <= MemEnd

Writable(a, n) == Readable(a, n) /\ a \notin ReadOnly

\* A block read samples its first register once per word, a block write leaves
\* the last word there: libmemsvc does not advance the address.
Samples(a, n) == [i \in 1..n |-> mem[a]]

Stored(a, block) == IF block = <<>> THEN mem ELSE [mem EXCEPT ![a] = block[Len(block)]]

\* A call returns -1 for a block it does not accept, when it finds the bridge
\* offline, and when the bridge is lost under it: memsvc_read catches the SIGBUS.
ReadFails(a, n) == BusFaults \/ ~Readable(a, n)

\* A failing write of n words has stored the first m of them.
WriteFails(a, n, m) ==
  /\ BusFaults \/ ~Writable(a, n)
  /\ m = 0 \/ (m < n /\ Writable(a, n))

\* memsvc_write has no landing point for the SIGBUS: it ends the process, or jumps
\* into the frame of an earlier read, which returns -1 or crashes.
WriteKills(a, n, m) == BusFaults /\ Writable(a, n) /\ m < n

-----------------------------------------------------------------------------
(* Packets on the wire *)

TxnWord(t) ==
  Serialize([version |-> 2, id |-> t.id, words |-> t.words, type |-> t.type,
             info |-> REQUEST])

\* What a client puts on the wire for a transaction: header, address, data.
TxnWords(t) == <<TxnWord(t), t.addr>> \o t.data

\* The words of a sequence of transactions: those behind the first i of them.
Behind(txns) ==
  LET n == Len(txns)
      behind[i \in 0..n] == IF i = n THEN <<>> ELSE TxnWords(txns[i + 1]) \o behind[i + 1]
  IN  behind

Encode(txns) == Behind(txns)[0]

Init ==
  /\ packet \in Packets
  /\ req = <<>>
  /\ rsp = <<>>
  /\ at = "frame"
  /\ hdr = NoHeader
  /\ base = 0
  /\ acc = <<>>
  /\ left = 0
  /\ mem \in [Registers -> InitMem]
  /\ mem0 = mem
  /\ reply = <<>>
  /\ other = <<>>
  /\ torn = "nothing"
  /\ fate = <<>>

-----------------------------------------------------------------------------
(* process_frame *)

StandardEndian(b) == b[1] = 32 /\ b[4] \div 16 = 15

\* The test for a byte-swapped header as the code has it: the low half of the
\* first byte and the whole last byte.
ReverseEndian(b) == ~StandardEndian(b) /\ b[1] % 16 = 15 /\ b[4] = 32

\* packet_header & 0x0f, after the swap of a reversed header.
PacketType(b) == IF ReverseEndian(b) THEN b[1] % 16 ELSE b[4] % 16

\* A packet is taken up if its header is valid and says "control"; status,
\* resend and unknown packets are answered by an empty frame.
Frame ==
  /\ at = "frame"
  /\ LET b == packet.header IN
     IF b # <<>> /\ (StandardEndian(b) \/ ReverseEndian(b)) /\ PacketType(b) = 0
     THEN req' = Encode(packet.txns) /\ at' = "next"
     ELSE req' = <<>> /\ at' = "reply"
  /\ UNCHANGED <<packet, mem0, otherVars, rsp, txnVars, mem, reply, fate>>

\* The reply is the packet header and the response, or an empty frame when the
\* packet was ignored.
Reply ==
  /\ at = "reply"
  /\ reply' = IF rsp = <<>> THEN <<>> ELSE <<packet.header>> \o rsp
  /\ at' = "done"
  /\ UNCHANGED <<packet, mem0, otherVars, req, rsp, txnVars, mem, fate>>

-----------------------------------------------------------------------------
(* process_control_packet *)

NextTxn ==
  /\ at = "next"
  /\ req # <<>>
  /\ LET h == Decode(Head(req)) IN
     /\ h.version = 2
     /\ h.info = REQUEST
     /\ hdr' = h
  /\ req' = Tail(req)
  /\ at' = "txn"
  /\ UNCHANGED <<packet, mem0, otherVars, rsp, base, acc, left, mem, reply, fate>>

\* Mutant: an invalid header is skipped over, but not taken off the deque.
InvalidHeaderContinue ==
  /\ at = "next"
  /\ req # <<>>
  /\ LET h == Decode(Head(req)) IN h.version # 2 \/ h.info # REQUEST
  /\ rsp' = <<>>
  /\ UNCHANGED <<packet, mem0, otherVars, req, at, txnVars, mem, reply, fate>>

\* A word that is not a request header of version 2 drops the whole packet.
InvalidHeader ==
  /\ at = "next"
  /\ req # <<>>
  /\ LET h == Decode(Head(req)) IN h.version # 2 \/ h.info # REQUEST
  /\ req' = Tail(req)
  /\ rsp' = <<>>
  /\ at' = "reply"
  /\ UNCHANGED <<packet, mem0, otherVars, txnVars, mem, reply, fate>>

EndOfPacket ==
  /\ at = "next"
  /\ req = <<>>
  /\ at' = "reply"
  /\ UNCHANGED <<packet, mem0, otherVars, req, rsp, txnVars, mem, reply, fate>>

-----------------------------------------------------------------------------
(* The transactions *)

READ == 0
WRITE == 1
NIREAD == 2
NIWRITE == 3
RMWBITS == 4
RMWSUM == 5
CFGREAD == 6
CFGWRITE == 7

\* The words a transaction needs on the deque after its header.
Need(h) ==
  CASE h.type \in {READ, NIREAD, CFGREAD} -> 1
    [] h.type \in {WRITE, NIWRITE, CFGWRITE} -> 1 + h.words
    [] h.type = RMWBITS -> 3
    [] h.type = RMWSUM -> 2
    [] OTHER -> 0

Malformed(h) ==
  \/ h.type > CFGWRITE
  \/ Len(req) < Need(h)
  \/ h.type \in {RMWBITS, RMWSUM} /\ h.words # 1

\* The current transaction is of this type and has its words.
Run(type) == at = "txn" /\ hdr.type = type /\ ~Malformed(hdr)

\* The words after the first n.
Drop(n) == SubSeq(req, n + 1, Len(req))

\* A transaction that was not cut short.
All == -1

\* The transaction is over: its answer goes on the response.  The bus carried n
\* words of it before a call failed, or all of them.
Respond(code, words, n) ==
  /\ rsp' = rsp \o <<Answer(code)>> \o words
  /\ at' = "next"
  /\ fate' = Append(fate, n)

Succeed(words) == Respond(SUCCESS, words, All)

\* The process dies on the bus, n words into the transaction.
Die(n) ==
  /\ at' = "dead"
  /\ fate' = Append(fate, n)
  /\ UNCHANGED rsp

\* A transaction of unknown type, without its words or with a wrong word count:
\* what it should have taken stays on the deque.
BadHeader ==
  /\ at = "txn"
  /\ Malformed(hdr)
  /\ Respond(BAD_HEADER, <<>>, All)
  /\ UNCHANGED <<packet, mem0, otherVars, req, txnVars, mem, reply>>

ReadTxn ==
  /\ Run(READ)
  /\ req' = Drop(1)
  /\ LET a == ModifyAddress(req[1]) IN
     \/ Readable(a, hdr.words) /\ Succeed(Samples(a, hdr.words))
     \/ ReadFails(a, hdr.words) /\ Respond(BUSERR_READ, <<>>, 0)
  /\ UNCHANGED <<packet, mem0, otherVars, txnVars, mem, reply>>

\* Mutant: one data word too few is taken from the request.
WriteTxnShort ==
  /\ Run(WRITE)
  /\ req' = Drop(IF hdr.words = 0 THEN 1 ELSE hdr.words)
  /\ LET a == ModifyAddress(req[1]) IN
     \/ /\ Writable(a, hdr.words)
        /\ mem' = Stored(a, SubSeq(req, 2, hdr.words + 1))
        /\ Succeed(<<>>)
     \/ \E n \in 0..hdr.words :
          /\ mem' = Stored(a, SubSeq(req, 2, n + 1))
          /\ \/ WriteFails(a, hdr.words, n) /\ Respond(BUSERR_READ, <<>>, n)
             \/ WriteKills(a, hdr.words, n) /\ Die(n)
  /\ UNCHANGED <<packet, mem0, otherVars, txnVars, reply>>

\* A failed block write is reported as a read error.
WriteTxn ==
  /\ Run(WRITE)
  /\ req' = Drop(1 + hdr.words)
  /\ LET a == ModifyAddress(req[1]) IN
     \/ /\ Writable(a, hdr.words)
        /\ mem' = Stored(a, SubSeq(req, 2, hdr.words + 1))
        /\ Succeed(<<>>)
     \/ \E n \in 0..hdr.words :
          /\ mem' = Stored(a, SubSeq(req, 2, n + 1))
          /\ \/ WriteFails(a, hdr.words, n) /\ Respond(BUSERR_READ, <<>>, n)
             \/ WriteKills(a, hdr.words, n) /\ Die(n)
  /\ UNCHANGED <<packet, mem0, otherVars, txnVars, reply>>

\* The non-incrementing transactions and the read-modify-writes take their
\* address, then make one memhub call per step.
BeginNi ==
  /\ Run(NIREAD) \/ Run(NIWRITE)
  /\ base' = ModifyAddress(req[1])
  /\ req' = Drop(1)
  /\ acc' = <<>>
  /\ left' = hdr.words
  /\ at' = IF hdr.type = NIREAD THEN "niread" ELSE "niwrite"
  /\ UNCHANGED <<packet, mem0, otherVars, rsp, hdr, mem, reply, fate>>

NiReadWord ==
  /\ at = "niread"
  /\ left > 0
  /\ \/ /\ Readable(base, 1)
        /\ acc' = Append(acc, mem[base])
        /\ left' = left - 1
        /\ UNCHANGED <<rsp, at, fate>>
     \/ /\ ReadFails(base, 1)
        /\ Respond(BUSERR_READ, <<>>, hdr.words - left)
        /\ UNCHANGED <<acc, left>>
  /\ UNCHANGED <<packet, mem0, otherVars, req, hdr, base, mem, reply>>

\* A failing word ends the transaction: the data words behind it stay on the
\* deque.
NiWriteWord ==
  /\ at = "niwrite"
  /\ left > 0
  /\ req' = Drop(1)
  /\ \/ /\ Writable(base, 1)
        /\ mem' = Stored(base, <<Head(req)>>)
        /\ left' = left - 1
        /\ UNCHANGED <<rsp, at, fate>>
     \/ /\ \/ WriteFails(base, 1, 0) /\ Respond(BUSERR_WRITE, <<>>, hdr.words - left)
           \/ WriteKills(base, 1, 0) /\ Die(hdr.words - left)
        /\ UNCHANGED <<mem, left>>
  /\ UNCHANGED <<packet, mem0, otherVars, hdr, base, acc, reply>>

EndNi ==
  /\ at \in {"niread", "niwrite"}
  /\ left = 0
  /\ Succeed(acc)
  /\ UNCHANGED <<packet, mem0, otherVars, req, txnVars, mem, reply>>

\* The first half of a read-modify-write: the memhub_read.
RmwRead ==
  /\ Run(RMWBITS) \/ Run(RMWSUM)
  /\ base' = ModifyAddress(req[1])
  /\ \/ /\ Readable(base', 1)
        /\ acc' = <<mem[base']>>
        /\ req' = Drop(1)
        /\ at' = "rmw"
        /\ UNCHANGED <<rsp, fate>>
     \/ /\ ReadFails(base', 1)
        /\ Respond(BUSERR_READ, <<>>, 0)
        /\ req' = Drop(Need(hdr))
        /\ UNCHANGED acc
  /\ UNCHANGED <<packet, mem0, otherVars, hdr, left, mem, reply>>

RmwResult(pre) ==
  IF hdr.type = RMWBITS THEN BitOr(BitAnd(pre, req[1]), req[2]) ELSE (pre + req[1]) % WordMod

\* Mutant: the register is read a second time for the new value.
RmwWriteRereading ==
  /\ at = "rmw"
  /\ req' = Drop(Need(hdr) - 1)
  /\ \/ /\ Writable(base, 1)
        /\ mem' = Stored(base, <<RmwResult(mem[base])>>)
        /\ Succeed(acc)
        /\ torn' = IF torn = "rmw" THEN "lost" ELSE torn
     \/ /\ \/ WriteFails(base, 1, 0) /\ Respond(BUSERR_WRITE, <<>>, 1)
           \/ WriteKills(base, 1, 0) /\ Die(1)
        /\ torn' = IF torn = "rmw" THEN "nothing" ELSE torn
        /\ UNCHANGED mem
  /\ UNCHANGED <<packet, mem0, other, txnVars, reply>>

\* The second half: the memhub_write, and the old value as the answer.  It writes
\* over what another process wrote since the first half, unless it fails.
RmwWrite ==
  /\ at = "rmw"
  /\ req' = Drop(Need(hdr) - 1)
  /\ \/ /\ Writable(base, 1)
        /\ mem' = Stored(base, <<RmwResult(acc[1])>>)
        /\ Succeed(acc)
        /\ torn' = IF torn = "rmw" THEN "lost" ELSE torn
     \/ /\ \/ WriteFails(base, 1, 0) /\ Respond(BUSERR_WRITE, <<>>, 1)
           \/ WriteKills(base, 1, 0) /\ Die(1)
        /\ torn' = IF torn = "rmw" THEN "nothing" ELSE torn
        /\ UNCHANGED mem
  /\ UNCHANGED <<packet, mem0, other, txnVars, reply>>

\* The configuration space is not implemented: reads give zeros.
CfgRead ==
  /\ Run(CFGREAD)
  /\ req' = Drop(1)
  /\ Succeed([i \in 1..hdr.words |-> 0])
  /\ UNCHANGED <<packet, mem0, otherVars, txnVars, mem, reply>>

\* A configuration write takes its data words off the response, not off the
\* request.  Popping from an empty deque is undefined: the processor is lost.
CfgWrite ==
  /\ Run(CFGWRITE)
  /\ req' = Drop(1)
  /\ IF hdr.words <= Len(rsp)
     THEN /\ rsp' = Append(SubSeq(rsp, hdr.words + 1, Len(rsp)), Answer(SUCCESS))
          /\ at' = "next"
     ELSE /\ at' = "undefined"
          /\ UNCHANGED rsp
  /\ fate' = Append(fate, All)
  /\ UNCHANGED <<packet, mem0, otherVars, txnVars, mem, reply>>

Processor ==
  \/ Frame \/ Reply
  \/ NextTxn \/ InvalidHeader \/ EndOfPacket \/ BadHeader
  \/ ReadTxn \/ WriteTxn \/ CfgRead \/ CfgWrite
  \/ BeginNi \/ NiReadWord \/ NiWriteWord \/ EndNi
  \/ RmwRead \/ RmwWrite

-----------------------------------------------------------------------------
\* The packet is answered, or the processor is lost.
Ends == {"done", "undefined", "dead"}

\* Another process of the card writes a register, in the middle of what makes
\* several memhub calls too.  Bound: one such write per packet.
OtherWrite ==
  /\ at \notin Ends
  /\ other = <<>>
  /\ \E w \in OtherWrites :
       /\ other' = w
       /\ mem' = [mem EXCEPT ![w[1]] = w[2]]
       /\ torn' = IF w[1] = base /\ at = "rmw" THEN "rmw"
                  ELSE IF w[1] = base /\ at = "niread" /\ left \in 1..(hdr.words - 1) THEN "niread"
                  ELSE "nothing"
  /\ UNCHANGED <<packet, req, rsp, at, txnVars, mem0, reply, fate>>

Next == Processor \/ OtherWrite

\* The processor runs; nobody makes other processes write.
Spec == Init /\ [][Next]_vars /\ WF_vars(Processor)

-----------------------------------------------------------------------------
(* What a packet means, transaction by transaction *)

RefAnswer(t, code) ==
  Serialize([version |-> 2, id |-> t.id, words |-> t.words, type |-> t.type, info |-> code])

RefAddr(w) == (4 * (w % (WordMod \div 4)) + AddrOffset) % WordMod

\* The points where the bus may fail t: the words it has carried by then.
Points(t) ==
  CASE t.type = READ -> {0}
    [] t.type = WRITE -> {0} \cup (1..(t.words - 1))
    [] t.type \in {NIREAD, NIWRITE} -> 0..(t.words - 1)
    [] t.type \in {RMWBITS, RMWSUM} -> {0, 1}
    [] OTHER -> {}

\* t gets past point n as long as the bridge is up.
Passes(t, n) ==
  LET a == RefAddr(t.addr) IN
  CASE t.type = READ -> Readable(a, t.words)
    [] t.type = WRITE -> Writable(a, t.words)
    [] t.type = NIREAD -> Readable(a, 1)
    [] t.type = NIWRITE -> Writable(a, 1)
    [] t.type \in {RMWBITS, RMWSUM} -> IF n = 0 THEN Readable(a, 1) ELSE Writable(a, 1)

\* How far t may come: to the first point it cannot pass, to an earlier one if the
\* bridge goes down there, or all the way.
Fates(t) ==
  {n \in Points(t) : (BusFaults \/ ~Passes(t, n)) /\ \A m \in 0..(n - 1) : Passes(t, m)}
  \cup {n \in {All} : \A m \in Points(t) : Passes(t, m)}

\* The registers and the response after transaction t, if it came as far as n.
RefTxn(s, t, n) ==
  LET a == RefAddr(t.addr)
      done == n = All
      stored == IF done THEN t.words ELSE n
      Say(code, words) == s.rsp \o <<RefAnswer(t, code)>> \o words
      Set(v) == [s.mem EXCEPT ![a] = v]
      Values(m) == [i \in 1..m |-> s.mem[a]]
      Sum == (s.mem[a] + t.data[1]) % WordMod
      Bits == BitOr(BitAnd(s.mem[a], t.data[1]), t.data[2])
  IN
  CASE t.type \in {READ, NIREAD} ->
         [mem |-> s.mem,
          rsp |-> IF done THEN Say(SUCCESS, Values(t.words)) ELSE Say(BUSERR_READ, <<>>)]
    [] t.type \in {WRITE, NIWRITE} ->
         [mem |-> IF stored = 0 THEN s.mem ELSE Set(t.data[stored]),
          rsp |-> Say(IF done THEN SUCCESS
                      ELSE IF t.type = WRITE THEN BUSERR_READ ELSE BUSERR_WRITE, <<>>)]
    [] t.type \in {RMWBITS, RMWSUM} ->
         IF done
         THEN [mem |-> Set(IF t.type = RMWBITS THEN Bits ELSE Sum),
               rsp |-> Say(SUCCESS, Values(1))]
         ELSE [mem |-> s.mem,
               rsp |-> Say(IF n = 0 THEN BUSERR_READ ELSE BUSERR_WRITE, <<>>)]
    [] t.type = CFGREAD ->
         [mem |-> s.mem, rsp |-> Say(SUCCESS, [i \in 1..t.words |-> 0])]
    [] t.type = CFGWRITE ->
         [mem |-> s.mem, rsp |-> Say(SUCCESS, <<>>)]

RefOther(s, o) == IF o = <<>> THEN s ELSE [s EXCEPT !.mem[o[1]] = o[2]]

\* The registers and the response after the first i transactions, for each i, from
\* registers m on, when they come as far as f says and the write o of another
\* process comes right after the first k.
RefStates(m, o, txns, f, k) ==
  LET run[i \in 0..Len(txns)] ==
        LET s == IF i = 0 THEN [mem |-> m, rsp |-> <<>>] ELSE RefTxn(run[i - 1], txns[i], f[i])
        IN  IF i = k THEN RefOther(s, o) ELSE s
  IN  run

\* How far the transactions of the packet came, those yet to come all the way.
Course == [i \in 1..Len(packet.txns) |-> IF i <= Len(fate) THEN fate[i] ELSE All]

\* After the first i of them.
RefRun(i, k) == RefStates(mem0, other, packet.txns, Course, k)[i]

\* A transaction carries the data its type and word count ask for.
WellFormed(t) ==
  /\ t.type <= CFGWRITE
  /\ t.type \in {RMWBITS, RMWSUM} => t.words = 1
  /\ Len(t.data) = CASE t.type \in {READ, NIREAD, CFGREAD} -> 0
                     [] t.type \in {WRITE, NIWRITE, CFGWRITE} -> t.words
                     [] t.type = RMWBITS -> 2
                     [] t.type = RMWSUM -> 1

ControlPacket(p) ==
  /\ p.header # <<>>
  /\ StandardEndian(p.header)
  /\ p.header[4] % 16 = 0
  /\ \A i \in DOMAIN p.txns : WellFormed(p.txns[i])

\* Packets whose transactions stay in step with the deque: no configuration write.
InStep(p) == ControlPacket(p) /\ \A i \in DOMAIN p.txns : p.txns[i].type # CFGWRITE

\* A non-incrementing write of the packet failed and left data on the deque.
Astray ==
  \E i \in DOMAIN fate \cap DOMAIN packet.txns :
    LET t == packet.txns[i] IN t.type = NIWRITE /\ fate[i] # All /\ fate[i] + 1 < t.words

-----------------------------------------------------------------------------
(* Properties *)

\* The outcome is that of one transaction after the other, with the write of the
\* other process after k of them (or nowhere, if k is no number of transactions),
\* and each came as far as the bus let it.  A process that died has not answered.
Answered(k) ==
  /\ Len(fate) <= Len(packet.txns)
  /\ \A i \in 1..Len(fate) : fate[i] \in Fates(packet.txns[i])
  /\ mem = RefRun(Len(fate), k).mem
  /\ \/ at = "dead"
     \/ /\ at = "done"
        /\ Len(fate) = Len(packet.txns)
        /\ reply = IF packet.txns = <<>> THEN <<>> ELSE <<packet.header>> \o RefRun(Len(fate), k).rsp

AnsweredInOrder == \E k \in 0..Len(fate) : Answered(k)

\* The words of a packet are taken for what the client meant: every transaction
\* is executed once, in order, the ones after a failed one too, and the reply has
\* one answer for each, an error exactly if the bus failed it.  A write of another
\* process comes before or after a whole transaction, unless it tears one that
\* makes several memhub calls.  Only a non-incrementing write that fails before its
\* last word puts the processor out of step.
RepliesMatch ==
  at \in Ends /\ InStep(packet) /\ ~Astray /\ torn = "nothing" => AnsweredInOrder

\* A write of another process between the two memhub calls of a read-modify-write
\* of its register that succeeds is lost without a trace, and that is all that
\* happens: answers and registers are those of the packet alone.
TornWriteLost ==
  at \in Ends /\ InStep(packet) /\ ~Astray /\ torn = "lost"
    => Answered(Len(packet.txns) + 1)

WordSet(t) == {TxnWord(t), t.addr} \cup {t.data[j] : j \in DOMAIN t.data}
PacketWords == UNION {WordSet(packet.txns[i]) : i \in DOMAIN packet.txns}

\* Whatever is on the deque, and even when data is parsed as headers, a register
\* changes on behalf of the packet only if the packet carries its address, and a
\* readonly one never.
WritesNamed ==
  [][other' = other => \A a \in Registers : mem'[a] # mem[a] =>
       a \notin ReadOnly /\ \E w \in PacketWords : RefAddr(w) = a]_vars

\* Every packet, malformed ones included, is answered or given up: the parsing
\* loop always gets to the end of the deque.
PacketEnds == <>(at \in Ends)

\* What the comment in process_cfgwrite_txn says, "Ignore write": a packet with
\* configuration writes is answered as if they did nothing.
CfgWriteIgnored ==
  at \in Ends /\ ControlPacket(packet) /\ ~Astray => AnsweredInOrder

-----------------------------------------------------------------------------
(* What holds in every state: an inductive invariant *)

Places ==
  {"frame", "next", "txn", "niread", "niwrite", "rmw", "reply"} \cup Ends

TxnHeaders == [version : Nat, id : Nat, words : Nat, type : Nat, info : Nat]

\* The deque holds words of the packet, and the transaction under way has its
\* address from one of them.
WordsIInv ==
  /\ packet \in Packets
  /\ at \in Places
  /\ req \in Seq(PacketWords)
  /\ hdr \in TxnHeaders
  /\ mem = [a \in Registers |-> mem[a]]
  /\ at \in {"niread", "niwrite", "rmw"} => \E w \in PacketWords : base = RefAddr(w)
  /\ left \in Nat
  /\ fate \in Seq(Int)
  /\ at = "niwrite" => left <= Len(req)
  /\ at = "rmw" => hdr.type \in {RMWBITS, RMWSUM} /\ Len(req) >= Need(hdr) - 1
=============================================================================
