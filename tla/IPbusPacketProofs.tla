-------------------------- MODULE IPbusPacketProofs ---------------------------
(***************************************************************************)
(* Proofs about the packet processor of the IPbus server.  What the          *)
(* recursive functions of the model compute is found by the least number of  *)
(* transactions for which it would not hold.                                 *)
(***************************************************************************)
EXTENDS IPbusPacket, SequenceTheorems, WellFoundedInduction, TLAPS

-----------------------------------------------------------------------------
(* The words of a packet *)

\* A set of natural numbers has a least one.
LEMMA Least ==
  ASSUME NEW T, T \subseteq Nat, T # {}
  PROVE  \E m \in T : \A n \in T : m <= n
<1> DEFINE Less == {p \in Nat \X Nat : p[1] < p[2]}
<1>1. IsWellFoundedOn(Less, Nat)
  BY NatLessThanWellFounded DEF OpToRel
<1>2. \A n, m \in Nat : n < m => <<n, m>> \in Less
  OBVIOUS
<1> HIDE DEF Less
<1>3. PICK m \in T : \A n \in T : ~(<<n, m>> \in Less)
  BY <1>1, WFMin
<1>4. ASSUME NEW n \in T PROVE m <= n
  <2>1. n \in Nat /\ m \in Nat /\ ~(n < m)
    BY <1>2, <1>3
  <2> QED
    BY <2>1
<1> QED
  BY <1>4

\* behind holds the words of the transactions behind the first i, for i from n on.
IsBehind(behind, txns, n) ==
  behind = [i \in n..Len(txns) |->
              IF i = Len(txns) THEN <<>> ELSE TxnWords(txns[i + 1]) \o behind[i + 1]]

\* There is such a function.
LEMMA BehindExists ==
  ASSUME NEW txns, NEW len \in Nat, len = Len(txns)
  PROVE  \E behind : IsBehind(behind, txns, 0)
<1> DEFINE T == {n \in 0..len : ~\E behind : IsBehind(behind, txns, len - n)}
<1>1. T = {}
  <2>1. SUFFICES ASSUME T # {} PROVE FALSE
    OBVIOUS
  <2>2. PICK m \in T : \A n \in T : m <= n
    <3>1. T \subseteq Nat
      OBVIOUS
    <3> HIDE DEF T
    <3> QED
      BY <2>1, <3>1, Least
  <2>3. m \in 0..len /\ ~\E behind : IsBehind(behind, txns, len - m)
    OBVIOUS
  <2>4. CASE m = 0
    <3> DEFINE e == [i \in len..len |-> <<>>]
    <3>1. e = [i \in len..len |-> IF i = len THEN <<>> ELSE TxnWords(txns[i + 1]) \o e[i + 1]]
      OBVIOUS
    <3>2. len - m = len
      BY <2>4
    <3> HIDE DEF e
    <3> QED
      BY <2>3, <3>1, <3>2 DEF IsBehind
  <2>5. CASE m # 0
    <3> DEFINE a == len - m
    <3>1. m - 1 \in 0..len /\ ~(m <= m - 1) /\ a \in 0..len /\ a < len /\ len - (m - 1) = a + 1
      BY <2>3, <2>5
    <3>2. PICK e : IsBehind(e, txns, a + 1)
      BY <2>2, <3>1
    <3>3. ~\E behind : IsBehind(behind, txns, a)
      BY <2>3
    <3> HIDE DEF a
    <3> DEFINE f == [i \in a..len |-> IF i = a THEN TxnWords(txns[a + 1]) \o e[a + 1] ELSE e[i]]
    <3>4. \A i \in (a + 1)..len : e[i] = IF i = len THEN <<>> ELSE TxnWords(txns[i + 1]) \o e[i + 1]
      BY <3>2 DEF IsBehind
    <3>5. ASSUME NEW i \in a..len
          PROVE  f[i] = IF i = len THEN <<>> ELSE TxnWords(txns[i + 1]) \o f[i + 1]
      <4>1. CASE i = a
        <5>1. a + 1 \in a..len /\ a + 1 # a /\ i # len
          BY <3>1, <4>1
        <5> QED
          BY <4>1, <5>1
      <4>2. CASE i # a
        <5>1. i \in (a + 1)..len
          BY <3>1, <4>2
        <5>2. i # len => i + 1 \in a..len /\ i + 1 # a
          BY <3>1
        <5> QED
          BY <3>4, <4>2, <5>1, <5>2
      <4> QED
        BY <4>1, <4>2
    <3>6. f = [i \in a..len |-> IF i = len THEN <<>> ELSE TxnWords(txns[i + 1]) \o f[i + 1]]
      <4>1. f = [i \in a..len |-> f[i]]
        OBVIOUS
      <4> HIDE DEF f
      <4> QED
        BY <3>5, <4>1
    <3> HIDE DEF f
    <3>7. f = [i \in a..Len(txns) |->
                 IF i = Len(txns) THEN <<>> ELSE TxnWords(txns[i + 1]) \o f[i + 1]]
      <4>1. len = Len(txns)
        OBVIOUS
      <4> QED
        BY <3>6, <4>1, Zenon
    <3>8. IsBehind(f, txns, a)
      BY <3>7, Zenon DEF IsBehind
    <3> QED
      BY <3>3, <3>8
  <2> QED
    BY <2>4, <2>5
<1>2. len \in 0..len /\ len - len = 0
  OBVIOUS
<1> QED
  BY <1>1, <1>2

\* So Behind is what it is defined to be.
LEMMA BehindDef ==
  ASSUME NEW txns, Len(txns) \in Nat
  PROVE  /\ Behind(txns)[Len(txns)] = <<>>
         /\ \A i \in 0..(Len(txns) - 1) :
              Behind(txns)[i] = TxnWords(txns[i + 1]) \o Behind(txns)[i + 1]
<1>1. \E behind : IsBehind(behind, txns, 0)
  BY BehindExists
<1>2. IsBehind(Behind(txns), txns, 0)
  BY <1>1, Zenon DEF Behind, IsBehind
<1> DEFINE b == Behind(txns)
<1> HIDE DEF b
<1>3. b = [i \in 0..Len(txns) |-> IF i = Len(txns) THEN <<>> ELSE TxnWords(txns[i + 1]) \o b[i + 1]]
  BY <1>2 DEF IsBehind, b
<1>4. Len(txns) \in 0..Len(txns) /\ \A i \in 0..(Len(txns) - 1) : i \in 0..Len(txns) /\ i # Len(txns)
  OBVIOUS
<1>5. b[Len(txns)] = <<>> /\ \A i \in 0..(Len(txns) - 1) : b[i] = TxnWords(txns[i + 1]) \o b[i + 1]
  BY <1>3, <1>4
<1> QED
  BY <1>5, Zenon DEF b

\* The deque a packet is parsed from has the words of its transactions only.
LEMMA BehindWords ==
  ASSUME NEW S, NEW txns, Len(txns) \in Nat,
         \A i \in 1..Len(txns) : TxnWords(txns[i]) \in Seq(S)
  PROVE  \A i \in 0..Len(txns) : Behind(txns)[i] \in Seq(S)
<1> DEFINE len == Len(txns)
           b == Behind(txns)
           T == {n \in 0..len : b[len - n] \notin Seq(S)}
<1>1. b[len] = <<>> /\ \A i \in 0..(len - 1) : b[i] = TxnWords(txns[i + 1]) \o b[i + 1]
  BY BehindDef
<1>2. len \in Nat
  OBVIOUS
<1> HIDE DEF b, len
<1>3. ASSUME T # {} PROVE FALSE
  <2>1. PICK m \in T : \A n \in T : m <= n
    <3>1. T \subseteq Nat
      BY <1>2
    <3> HIDE DEF T
    <3> QED
      BY <1>3, <3>1, Least
  <2>2. m \in 0..len /\ b[len - m] \notin Seq(S)
    OBVIOUS
  <2>3. m # 0
    <3>1. <<>> \in Seq(S) /\ len - 0 = len
      BY <1>2
    <3> QED
      BY <1>1, <2>2, <3>1
  <2>4. /\ m - 1 \in 0..len /\ ~(m <= m - 1) /\ len - m \in 0..(len - 1)
        /\ len - m + 1 = len - (m - 1) /\ len - m + 1 \in 1..len
    BY <1>2, <2>2, <2>3
  <2>5. b[len - m + 1] \in Seq(S)
    <3>1. m - 1 \notin T
      BY <2>1, <2>4
    <3>2. b[len - (m - 1)] \in Seq(S)
      BY <2>4, <3>1
    <3> QED
      BY <2>4, <3>2
  <2>6. TxnWords(txns[len - m + 1]) \in Seq(S)
    BY <2>4 DEF len
  <2>7. b[len - m] = TxnWords(txns[len - m + 1]) \o b[len - m + 1]
    BY <1>1, <2>4
  <2> QED
    BY <2>2, <2>5, <2>6, <2>7, ConcatProperties
<1>4. ASSUME NEW i \in 0..len PROVE b[i] \in Seq(S)
  <2>1. len - i \in 0..len /\ len - (len - i) = i
    BY <1>2
  <2> QED
    BY <1>3, <2>1
<1> QED
  BY <1>4 DEF b, len

\* The wire holds words of the packet's transactions.
LEMMA EncodeWords ==
  ASSUME NEW S, NEW txns, Len(txns) \in Nat,
         \A i \in 1..Len(txns) : TxnWords(txns[i]) \in Seq(S)
  PROVE  Encode(txns) \in Seq(S)
<1>1. 0 \in 0..Len(txns)
  OBVIOUS
<1> QED
  BY <1>1, BehindWords DEF Encode

\* A header made of its fields is a number.
LEMMA HeaderNat ==
  ASSUME NEW i \in Nat, NEW n \in Nat, NEW y \in Nat
  PROVE  Serialize([version |-> 2, id |-> i, words |-> n, type |-> y, info |-> REQUEST]) \in Nat
<1>1. 2 * 268435456 + i * 65536 + n * 256 + y * 16 + 15 \in Nat
  BY SMT
<1> QED
  BY <1>1, SMT DEF Serialize, Pow2, REQUEST

\* A header field is a number.
LEMMA FieldNat == Field(4) \subseteq Nat /\ Field(8) \subseteq Nat /\ Field(12) \subseteq Nat
  BY SMT DEF Field

\* The words of a transaction are natural numbers.
LEMMA TransactionTypes ==
  ASSUME NEW t \in Transactions
  PROVE  t.addr \in Nat /\ t.data \in Seq(Nat) /\ TxnWord(t) \in Nat
<1>1. /\ t.addr \in Words /\ t.data \in Seq(Words)
      /\ t.type \in Field(4) /\ t.id \in Field(12) /\ t.words \in Field(8)
  BY DEF Transactions
<1>2. Words \subseteq Nat
  BY PacketAssumption DEF Words
<1>3. t.addr \in Nat
  <2>1. t.addr \in Words
    BY <1>1
  <2> QED
    BY <1>2, <2>1
<1>4. t.data \in Seq(Nat)
  <2>1. Len(t.data) \in Nat /\ DOMAIN t.data = 1..Len(t.data) /\ \A j \in 1..Len(t.data) : t.data[j] \in Words
    BY <1>1
  <2>2. \A j \in 1..Len(t.data) : t.data[j] \in Nat
    BY <1>2, <2>1
  <2> QED
    BY <1>1, <2>1, <2>2
<1>5. TxnWord(t) \in Nat
  <2>1. t.type \in Nat /\ t.id \in Nat /\ t.words \in Nat
    BY <1>1, FieldNat
  <2> QED
    BY <2>1, HeaderNat DEF TxnWord
<1> QED
  BY <1>3, <1>4, <1>5

\* The words of a transaction are numbers, and what goes on the wire for it consists of them.
LEMMA WordSetTypes ==
  ASSUME NEW t \in Transactions
  PROVE  WordSet(t) \subseteq Nat /\ TxnWords(t) \in Seq(WordSet(t))
<1>1. t.addr \in Nat /\ t.data \in Seq(Nat) /\ TxnWord(t) \in Nat
  BY TransactionTypes
<1>2. \A j \in DOMAIN t.data : t.data[j] \in Nat
  BY <1>1
<1>3. WordSet(t) \subseteq Nat
  BY <1>1, <1>2 DEF WordSet
<1>4. /\ TxnWord(t) \in WordSet(t) /\ t.addr \in WordSet(t)
      /\ \A j \in DOMAIN t.data : t.data[j] \in WordSet(t)
  BY DEF WordSet
<1>5. t.data \in Seq(WordSet(t))
  BY <1>1, <1>4
<1>6. <<TxnWord(t), t.addr>> \in Seq(WordSet(t))
  BY <1>4
<1> QED
  BY <1>3, <1>5, <1>6, ConcatProperties DEF TxnWords

\* A sequence of some things is one of more.
LEMMA SeqMonotone ==
  ASSUME NEW S, NEW T, S \subseteq T, NEW s \in Seq(S)
  PROVE  s \in Seq(T)
<1>1. Len(s) \in Nat /\ DOMAIN s = 1..Len(s) /\ \A j \in 1..Len(s) : s[j] \in S
  OBVIOUS
<1>2. \A j \in 1..Len(s) : s[j] \in T
  BY <1>1
<1> QED
  BY <1>1, <1>2

\* The words of a packet are natural numbers, and the deque has no others.
LEMMA PacketWordsTypes ==
  ASSUME packet \in Packets
  PROVE  PacketWords \subseteq Nat /\ Encode(packet.txns) \in Seq(PacketWords)
<1> DEFINE txns == packet.txns
<1>1. txns \in Seq(Transactions)
  BY PacketAssumption
<1>2. Len(txns) \in Nat /\ DOMAIN txns = 1..Len(txns) /\ \A i \in DOMAIN txns : txns[i] \in Transactions
  BY <1>1
<1>3. PacketWords = UNION {WordSet(txns[i]) : i \in DOMAIN txns}
  BY DEF PacketWords
<1> HIDE DEF txns
<1>4. \A i \in DOMAIN txns : WordSet(txns[i]) \subseteq Nat /\ TxnWords(txns[i]) \in Seq(WordSet(txns[i]))
  BY <1>2, WordSetTypes
<1>5. \A i \in DOMAIN txns : WordSet(txns[i]) \subseteq PacketWords
  BY <1>3
<1>6. PacketWords \subseteq Nat
  BY <1>3, <1>4
<1>7. \A i \in 1..Len(txns) : TxnWords(txns[i]) \in Seq(PacketWords)
  BY <1>2, <1>4, <1>5, SeqMonotone
<1>8. Encode(txns) \in Seq(PacketWords)
  BY <1>2, <1>7, EncodeWords
<1> QED
  BY <1>6, <1>8 DEF txns

\* A header that was read has the fields of a header.
LEMMA DecodeTypes ==
  ASSUME NEW w \in Nat
  PROVE  Decode(w) \in TxnHeaders
<1>1. /\ (w \div Pow2(28)) % 16 \in Nat /\ (w \div Pow2(16)) % Pow2(12) \in Nat
      /\ (w \div Pow2(8)) % Pow2(8) \in Nat /\ (w \div Pow2(4)) % 16 \in Nat /\ w % 16 \in Nat
  BY SMT DEF Pow2
<1> QED
  BY <1>1 DEF Decode, TxnHeaders

\* An idle processor has no words.
LEMMA InitWords == Init => WordsIInv
<1> SUFFICES ASSUME Init PROVE WordsIInv
  OBVIOUS
<1>1. hdr \in TxnHeaders
  BY DecodeTypes DEF Init, NoHeader
<1>2. mem = [a \in Registers |-> mem[a]]
  BY DEF Init
<1>3. packet \in Packets /\ at = "frame" /\ req = <<>> /\ left = 0 /\ fate = <<>>
  BY DEF Init
<1>4. req \in Seq(PacketWords) /\ fate \in Seq(Int)
  BY <1>3
<1> QED
  BY <1>1, <1>2, <1>3, <1>4 DEF WordsIInv, Places

\* What is left on the deque.
LEMMA DropTypes ==
  ASSUME NEW S, req \in Seq(S), NEW n \in Nat
  PROVE  /\ Drop(n) \in Seq(S)
         /\ n <= Len(req) => Len(Drop(n)) = Len(req) - n
<1>1. Len(req) \in Nat /\ \A i \in (n + 1)..Len(req) : req[i] \in S
  OBVIOUS
<1>2. n + 1 \in Int /\ Len(req) \in Int
  BY <1>1
<1>3. /\ Drop(n) \in Seq(S)
      /\ Len(Drop(n)) = IF n + 1 <= Len(req) THEN Len(req) - (n + 1) + 1 ELSE 0
  BY <1>1, <1>2, SubSeqProperties DEF Drop
<1> QED
  BY <1>1, <1>3

\* The words a transaction needs are a number, at least one where it has an address.
LEMMA NeedTypes ==
  ASSUME hdr \in TxnHeaders
  PROVE  /\ Need(hdr) \in Nat
         /\ hdr.type \in {RMWBITS, RMWSUM} => Need(hdr) - 1 \in Nat /\ Need(hdr) > 1
         /\ hdr.type <= CFGWRITE => Need(hdr) >= 1
         /\ hdr.type \in {WRITE, NIWRITE} => Need(hdr) = 1 + hdr.words
<1>1. hdr.type \in Nat /\ hdr.words \in Nat
  BY DEF TxnHeaders
<1>2. CASE hdr.type \in {READ, NIREAD, CFGREAD}
  BY <1>2 DEF Need, READ, WRITE, NIREAD, NIWRITE, RMWBITS, RMWSUM, CFGREAD, CFGWRITE
<1>3. CASE hdr.type \in {WRITE, NIWRITE, CFGWRITE}
  BY <1>1, <1>3 DEF Need, READ, WRITE, NIREAD, NIWRITE, RMWBITS, RMWSUM, CFGREAD, CFGWRITE
<1>4. CASE hdr.type \in {RMWBITS, RMWSUM}
  BY <1>4 DEF Need, READ, WRITE, NIREAD, NIWRITE, RMWBITS, RMWSUM, CFGREAD, CFGWRITE
<1>5. CASE hdr.type > 7
  BY <1>1, <1>5 DEF Need, READ, WRITE, NIREAD, NIWRITE, RMWBITS, RMWSUM, CFGREAD, CFGWRITE
<1>6. hdr.type <= 7 => hdr.type \in {0, 1, 2, 3, 4, 5, 6, 7}
  BY <1>1
<1> QED
  BY <1>1, <1>2, <1>3, <1>4, <1>5, <1>6
     DEF READ, WRITE, NIREAD, NIWRITE, RMWBITS, RMWSUM, CFGREAD, CFGWRITE

\* A transaction that runs has its address at the head of the deque.
LEMMA RunTypes ==
  ASSUME WordsIInv, NEW type \in 0..7, Run(type)
  PROVE  /\ hdr.type = type /\ Need(hdr) \in Nat /\ Len(req) >= Need(hdr) /\ Len(req) >= 1
         /\ req[1] \in PacketWords /\ hdr.words \in Nat
         /\ ModifyAddress(req[1]) = RefAddr(req[1])
         /\ \E w \in PacketWords : ModifyAddress(req[1]) = RefAddr(w)
<1>1. hdr \in TxnHeaders /\ req \in Seq(PacketWords) /\ hdr.words \in Nat /\ hdr.type = type
  BY DEF WordsIInv, Run, TxnHeaders
<1>2. Need(hdr) \in Nat /\ Need(hdr) >= 1
  BY <1>1, NeedTypes DEF CFGWRITE
<1>3. Len(req) >= Need(hdr) /\ Len(req) \in Nat
  BY <1>1, <1>2 DEF Run, Malformed
<1>4. Len(req) >= 1
  BY <1>2, <1>3
<1>5. req[1] \in PacketWords
  BY <1>1, <1>4
<1> QED
  BY <1>1, <1>2, <1>3, <1>4, <1>5 DEF ModifyAddress, RefAddr

\* A block write leaves the registers registers.
LEMMA StoredRegisters ==
  ASSUME mem = [a \in Registers |-> mem[a]], NEW a, NEW block
  PROVE  Stored(a, block) = [r \in Registers |-> Stored(a, block)[r]]
  BY DEF Stored

\* What a step does to the history of the transactions: nothing, or one more is over.
LEMMA FateStep ==
  ASSUME WordsIInv, [Next]_vars
  PROVE  fate' = fate \/ \E n \in Int : fate' = Append(fate, n)
<1>1. hdr.words \in Nat /\ left \in Nat
  BY DEF WordsIInv, TxnHeaders
<1>2. All \in Int /\ 0 \in Int /\ 1 \in Int /\ hdr.words - left \in Int
  BY <1>1 DEF All
<1>3. CASE Frame \/ Reply \/ NextTxn \/ InvalidHeader \/ EndOfPacket \/ BeginNi \/ OtherWrite
  BY <1>3 DEF Frame, Reply, NextTxn, InvalidHeader, EndOfPacket, BeginNi, OtherWrite
<1>4. CASE BadHeader \/ CfgRead \/ CfgWrite \/ EndNi
  BY <1>2, <1>4 DEF BadHeader, CfgRead, CfgWrite, EndNi, Succeed, Respond
<1>5. CASE ReadTxn \/ RmwRead
  BY <1>2, <1>5 DEF ReadTxn, RmwRead, Succeed, Respond
<1>6. CASE WriteTxn
  <2>1. \A n \in 0..hdr.words : n \in Int
    BY <1>1
  <2> QED
    BY <1>2, <1>6, <2>1 DEF WriteTxn, Succeed, Respond, Die
<1>7. CASE NiReadWord \/ NiWriteWord
  BY <1>2, <1>7 DEF NiReadWord, NiWriteWord, Respond, Die
<1>8. CASE RmwWrite
  BY <1>2, <1>8 DEF RmwWrite, Succeed, Respond, Die
<1>9. CASE UNCHANGED vars
  BY <1>9 DEF vars
<1> QED
  BY <1>3, <1>4, <1>5, <1>6, <1>7, <1>8, <1>9 DEF Next, Processor

\* Every step keeps WordsIInv.
LEMMA NextWords == WordsIInv /\ [Next]_vars => WordsIInv'
<1> SUFFICES ASSUME WordsIInv, [Next]_vars PROVE WordsIInv'
  OBVIOUS
<1>1. /\ packet \in Packets /\ at \in Places /\ req \in Seq(PacketWords) /\ hdr \in TxnHeaders
      /\ mem = [a \in Registers |-> mem[a]]
      /\ left \in Nat
  BY DEF WordsIInv
<1>2. PacketWords \subseteq Nat /\ Encode(packet.txns) \in Seq(PacketWords)
  BY <1>1, PacketWordsTypes
<1>3. ASSUME packet' = packet PROVE PacketWords' = PacketWords
  BY <1>3 DEF PacketWords
<1>0. fate' \in Seq(Int)
  <2>1. fate \in Seq(Int)
    BY DEF WordsIInv
  <2> QED
    BY <2>1, FateStep
\* A step after which no word loop is under way.
<1>4. ASSUME packet' = packet, at' \in Places \ {"niread", "niwrite", "rmw"}, req' \in Seq(PacketWords),
             hdr' \in TxnHeaders, left' \in Nat, mem' = [a \in Registers |-> mem'[a]]
      PROVE  WordsIInv'
  BY <1>0, <1>1, <1>3, <1>4 DEF WordsIInv
<1>5. ASSUME NEW n \in Nat
      PROVE  /\ Drop(n) \in Seq(PacketWords)
             /\ n <= Len(req) => Len(Drop(n)) = Len(req) - n
  BY <1>1, DropTypes
<1>6. hdr.words \in Nat /\ hdr.type \in Nat /\ Need(hdr) \in Nat /\ Len(req) \in Nat
  BY <1>1, NeedTypes DEF TxnHeaders
<1>a. CASE Frame
  <2>1. req' \in Seq(PacketWords) /\ at' \in {"next", "reply"}
    <3>1. \/ req' = Encode(packet.txns) /\ at' = "next"
          \/ req' = <<>> /\ at' = "reply"
      BY <1>a DEF Frame
    <3>2. <<>> \in Seq(PacketWords)
      OBVIOUS
    <3> QED
      BY <1>2, <3>1, <3>2
  <2> QED
    BY <1>a, <1>1, <1>4, <2>1 DEF Frame, Places, Ends, txnVars
<1>b. CASE Reply
  BY <1>b, <1>1, <1>4 DEF Reply, Places, Ends, txnVars
<1>c. CASE NextTxn
  <2>1. Head(req) \in PacketWords /\ Tail(req) \in Seq(PacketWords)
    BY <1>c, <1>1, HeadTailProperties DEF NextTxn
  <2>2. Decode(Head(req)) \in TxnHeaders
    BY <1>2, <2>1, DecodeTypes
  <2> QED
    BY <1>c, <1>1, <1>4, <2>1, <2>2 DEF NextTxn, Places, Ends
<1>d. CASE InvalidHeader
  <2>1. Tail(req) \in Seq(PacketWords)
    BY <1>d, <1>1, HeadTailProperties DEF InvalidHeader
  <2> QED
    BY <1>d, <1>1, <1>4, <2>1 DEF InvalidHeader, Places, Ends, txnVars
<1>e. CASE EndOfPacket
  BY <1>e, <1>1, <1>4 DEF EndOfPacket, Places, Ends, txnVars
<1>f. CASE BadHeader
  BY <1>f, <1>1, <1>4 DEF BadHeader, Respond, Places, Ends, txnVars
<1>g. CASE ReadTxn
  <2>1. req' = Drop(1) /\ at' = "next" /\ UNCHANGED <<packet, txnVars, mem>>
    BY <1>g DEF ReadTxn, Succeed, Respond
  <2> QED
    BY <1>1, <1>4, <1>5, <2>1 DEF Places, Ends, txnVars
<1>h. CASE WriteTxn
  <2>1. req' = Drop(1 + hdr.words) /\ at' \in {"next", "dead"} /\ UNCHANGED <<packet, txnVars>>
    BY <1>h DEF WriteTxn, Succeed, Respond, Die
  <2>2. mem' = mem \/ \E a, block : mem' = Stored(a, block)
    BY <1>h DEF WriteTxn
  <2>3. mem' = [a \in Registers |-> mem'[a]]
    BY <1>1, <2>2, StoredRegisters
  <2>4. Drop(1 + hdr.words) \in Seq(PacketWords)
    BY <1>5, <1>6, SMTT(60)
  <2> QED
    BY <1>1, <1>4, <2>1, <2>3, <2>4 DEF Places, Ends, txnVars
<1>i. CASE CfgRead
  <2>1. req' = Drop(1) /\ at' = "next" /\ UNCHANGED <<packet, txnVars, mem>>
    BY <1>i DEF CfgRead, Succeed, Respond
  <2> QED
    BY <1>1, <1>4, <1>5, <2>1 DEF Places, Ends, txnVars
<1>j. CASE CfgWrite
  <2>1. req' = Drop(1) /\ at' \in {"next", "undefined"} /\ UNCHANGED <<packet, txnVars, mem>>
    BY <1>j DEF CfgWrite
  <2> QED
    BY <1>1, <1>4, <1>5, <2>1 DEF Places, Ends, txnVars
<1>k. CASE BeginNi
  <2>1. /\ Run(NIREAD) \/ Run(NIWRITE)
        /\ base' = ModifyAddress(req[1]) /\ req' = Drop(1) /\ left' = hdr.words
        /\ at' = IF hdr.type = NIREAD THEN "niread" ELSE "niwrite"
        /\ UNCHANGED <<packet, hdr, mem>>
    BY <1>k DEF BeginNi
  <2>2. /\ \E w \in PacketWords : ModifyAddress(req[1]) = RefAddr(w)
        /\ Len(req) >= Need(hdr) /\ Len(req) >= 1 /\ hdr.type \in {NIREAD, NIWRITE}
    BY <2>1, RunTypes DEF NIREAD, NIWRITE
  <2>3. Drop(1) \in Seq(PacketWords) /\ Len(Drop(1)) = Len(req) - 1
    BY <1>5, <2>2
  <2>4. at' \in {"niread", "niwrite"} /\ (at' = "niwrite" => hdr.type = NIWRITE)
    BY <2>1, <2>2
  <2>5. at' = "niwrite" => left' <= Len(req')
    <3>1. hdr.type = NIWRITE => Need(hdr) = 1 + hdr.words
      BY <1>1, NeedTypes
    <3> QED
      BY <1>6, <2>1, <2>2, <2>3, <2>4, <3>1
  <2> QED
    BY <1>0, <1>1, <1>3, <1>6, <2>1, <2>2, <2>3, <2>4, <2>5 DEF WordsIInv, Places, Ends
<1>l. CASE NiReadWord
  <2>1. /\ at = "niread" /\ left > 0 /\ UNCHANGED <<packet, req, hdr, base, mem>>
        /\ \/ left' = left - 1 /\ at' = at
           \/ left' = left /\ at' = "next"
    BY <1>l DEF NiReadWord, Respond
  <2>2. left' \in Nat
    BY <1>1, <2>1
  <2> QED
    BY <1>0, <1>1, <1>3, <2>1, <2>2 DEF WordsIInv, Places, Ends
<1>m. CASE NiWriteWord
  <2>1. /\ at = "niwrite" /\ left > 0 /\ req' = Drop(1) /\ UNCHANGED <<packet, hdr, base>>
        /\ \/ left' = left - 1 /\ at' = at
           \/ left' = left /\ at' \in {"next", "dead"}
    BY <1>m DEF NiWriteWord, Respond, Die
  <2>2. left <= Len(req) /\ \E w \in PacketWords : base = RefAddr(w)
    BY <2>1 DEF WordsIInv
  <2>3. Drop(1) \in Seq(PacketWords) /\ Len(Drop(1)) = Len(req) - 1
    BY <1>1, <1>5, <1>6, <2>1, <2>2, SMTT(60)
  <2>4. mem' = mem \/ \E a, block : mem' = Stored(a, block)
    BY <1>m DEF NiWriteWord
  <2>5. mem' = [a \in Registers |-> mem'[a]]
    BY <1>1, <2>4, StoredRegisters
  <2>6. left' \in Nat /\ (at' = at => left' <= Len(req'))
    BY <1>1, <1>6, <2>1, <2>2, <2>3
  <2> QED
    BY <1>0, <1>1, <1>3, <2>1, <2>2, <2>3, <2>5, <2>6 DEF WordsIInv, Places, Ends
<1>n. CASE EndNi
  BY <1>n, <1>1, <1>4 DEF EndNi, Succeed, Respond, Places, Ends, txnVars
<1>o. CASE RmwRead
  <2>1. /\ Run(RMWBITS) \/ Run(RMWSUM)
        /\ base' = ModifyAddress(req[1]) /\ UNCHANGED <<packet, hdr, left, mem>>
        /\ \/ req' = Drop(1) /\ at' = "rmw"
           \/ req' = Drop(Need(hdr)) /\ at' = "next"
    BY <1>o DEF RmwRead, Respond
  <2>2. /\ \E w \in PacketWords : ModifyAddress(req[1]) = RefAddr(w)
        /\ Len(req) >= Need(hdr) /\ Len(req) >= 1 /\ hdr.type \in {RMWBITS, RMWSUM}
    BY <2>1, RunTypes DEF RMWBITS, RMWSUM
  <2>3. Drop(1) \in Seq(PacketWords) /\ Len(Drop(1)) = Len(req) - 1
    BY <1>5, <2>2
  <2>4. Drop(Need(hdr)) \in Seq(PacketWords)
    BY <1>5, <1>6
  <2>5. CASE req' = Drop(1) /\ at' = "rmw"
    <3>1. Len(req') >= Need(hdr') - 1
      BY <1>6, <2>1, <2>2, <2>3, <2>5
    <3>2. (Need(hdr))' = Need(hdr)
      BY <2>1
    <3> QED
      BY <1>0, <1>1, <1>3, <2>1, <2>2, <2>3, <2>5, <3>1, <3>2 DEF WordsIInv, Places, Ends
  <2> QED
    BY <1>1, <1>4, <2>1, <2>4, <2>5 DEF Places, Ends
<1>p. CASE RmwWrite
  <2>1. /\ at = "rmw" /\ req' = Drop(Need(hdr) - 1) /\ at' \in {"next", "dead"}
        /\ UNCHANGED <<packet, txnVars>>
    BY <1>p DEF RmwWrite, Succeed, Respond, Die
  <2>2. Need(hdr) - 1 \in Nat
    BY <1>1, <2>1, NeedTypes DEF WordsIInv
  <2>3. mem' = mem \/ \E a, block : mem' = Stored(a, block)
    BY <1>p DEF RmwWrite
  <2>4. mem' = [a \in Registers |-> mem'[a]]
    BY <1>1, <2>3, StoredRegisters
  <2> QED
    BY <1>1, <1>4, <1>5, <2>1, <2>2, <2>4 DEF Places, Ends, txnVars
<1>q. CASE OtherWrite
  <2>1. /\ UNCHANGED <<packet, req, at, hdr, base, left>>
        /\ \E w : mem' = [mem EXCEPT ![w[1]] = w[2]]
    BY <1>q DEF OtherWrite, txnVars
  <2>2. mem' = [a \in Registers |-> mem'[a]]
    BY <1>1, <2>1
  <2> QED
    BY <1>0, <1>3, <2>1, <2>2 DEF WordsIInv
<1>r. CASE UNCHANGED vars
  BY <1>0, <1>3, <1>r DEF WordsIInv, vars
<1> QED
  BY <1>a, <1>b, <1>c, <1>d, <1>e, <1>f, <1>g, <1>h, <1>i, <1>j, <1>k, <1>l, <1>m, <1>n, <1>o, <1>p,
     <1>q, <1>r DEF Next, Processor

\* A block write changes at most the register it is for.
LEMMA StoredElsewhere ==
  ASSUME mem = [a \in Registers |-> mem[a]], NEW a, NEW block, NEW r \in Registers,
         Stored(a, block)[r] # mem[r]
  PROVE  r = a
  BY DEF Stored

\* A step of the processor writes where a word of the packet says, and nothing that
\* is readonly.
LEMMA ProcessorWrites ==
  ASSUME WordsIInv, Processor, NEW a \in Registers, mem'[a] # mem[a]
  PROVE  a \notin ReadOnly /\ \E w \in PacketWords : RefAddr(w) = a
<1>1. mem = [r \in Registers |-> mem[r]]
  BY DEF WordsIInv
<1>2. ASSUME NEW b, NEW block, mem' = Stored(b, block)
      PROVE  a = b
  BY <1>1, <1>2, StoredElsewhere
<1>3. mem' # mem
  OBVIOUS
<1>4. CASE WriteTxn
  <2>1. Run(WRITE) /\ \E block : mem' = Stored(ModifyAddress(req[1]), block)
    BY <1>4 DEF WriteTxn
  <2>2. a = ModifyAddress(req[1])
    BY <1>2, <2>1
  <2>3. \E w \in PacketWords : ModifyAddress(req[1]) = RefAddr(w)
    BY <2>1, RunTypes DEF WRITE
  <2>4. Writable(ModifyAddress(req[1]), hdr.words)
    <3>1. Stored(ModifyAddress(req[1]), SubSeq(req, 2, 0 + 1)) = mem
      BY DEF Stored
    <3>2. \/ Writable(ModifyAddress(req[1]), hdr.words)
          \/ \E n \in 0..hdr.words : n = 0 /\ mem' = Stored(ModifyAddress(req[1]), SubSeq(req, 2, n + 1))
      BY <1>4 DEF WriteTxn, WriteFails, WriteKills
    <3> QED
      BY <1>3, <3>1, <3>2
  <2> QED
    BY <2>2, <2>3, <2>4 DEF Writable
<1>5. CASE NiWriteWord
  <2>1. at = "niwrite" /\ Writable(base, 1) /\ mem' = Stored(base, <<Head(req)>>)
    BY <1>3, <1>5 DEF NiWriteWord
  <2>2. a = base /\ \E w \in PacketWords : base = RefAddr(w)
    BY <1>2, <2>1 DEF WordsIInv
  <2> QED
    BY <2>1, <2>2 DEF Writable
<1>6. CASE RmwWrite
  <2>1. at = "rmw" /\ Writable(base, 1) /\ mem' = Stored(base, <<RmwResult(acc[1])>>)
    BY <1>3, <1>6 DEF RmwWrite
  <2>2. a = base /\ \E w \in PacketWords : base = RefAddr(w)
    BY <1>2, <2>1 DEF WordsIInv
  <2> QED
    BY <2>1, <2>2 DEF Writable
<1>7. ~(Frame \/ Reply \/ NextTxn \/ InvalidHeader \/ EndOfPacket \/ BadHeader)
  BY <1>3 DEF Frame, Reply, NextTxn, InvalidHeader, EndOfPacket, BadHeader
<1>8. ~(ReadTxn \/ CfgRead \/ CfgWrite \/ BeginNi \/ NiReadWord \/ EndNi \/ RmwRead)
  BY <1>3 DEF ReadTxn, CfgRead, CfgWrite, BeginNi, NiReadWord, EndNi, RmwRead
<1> QED
  BY <1>4, <1>5, <1>6, <1>7, <1>8 DEF Processor

\* The deque holds words of the packet only, whatever is parsed as a header, and a
\* loop over words works on an address from one of them.
THEOREM WordsInductive == Spec => []WordsIInv
<1>1. Init => WordsIInv
  BY InitWords
<1>2. WordsIInv /\ [Next]_vars => WordsIInv'
  BY NextWords
<1> QED
  BY <1>1, <1>2, PTL DEF Spec

\* WritesNamed: on behalf of a packet, malformed or not, process_frame and what it
\* calls change no register whose address the packet does not carry, and no
\* readonly one.
THEOREM NamedSafe == Spec => WritesNamed
<1> DEFINE Named ==
      other' = other => \A a \in Registers : mem'[a] # mem[a] =>
        a \notin ReadOnly /\ \E w \in PacketWords : RefAddr(w) = a
<1>1. ASSUME WordsIInv, [Next]_vars PROVE [Named]_vars
  <2>1. CASE Processor
    BY <1>1, <2>1, ProcessorWrites
  <2>2. CASE OtherWrite
    <3>1. other = <<>> /\ other' \in OtherWrites
      BY <2>2 DEF OtherWrite
    <3>2. \A w \in OtherWrites : w # <<>>
      <4>1. \A w \in OtherWrites : \E r, v : w = <<r, v>>
        BY PacketAssumption
      <4> QED
        BY <4>1
    <3> QED
      BY <3>1, <3>2
  <2> QED
    BY <1>1, <2>1, <2>2 DEF Next
<1> QED
  BY <1>1, WordsInductive, PTL DEF Spec, WritesNamed

-----------------------------------------------------------------------------
(* What a packet means *)

\* The state after i transactions, from the one before.
After(s, o, i, k) == IF i = k THEN RefOther(s, o) ELSE s

IsRun(run, m, o, txns, c, k, n) ==
  run = [i \in 0..n |->
           After(IF i = 0 THEN [mem |-> m, rsp |-> <<>>] ELSE RefTxn(run[i - 1], txns[i], c[i]), o, i, k)]

\* There is such a function.
LEMMA RunExists ==
  ASSUME NEW m, NEW o, NEW txns, NEW c, NEW k, NEW len \in Nat
  PROVE  \E run : IsRun(run, m, o, txns, c, k, len)
<1> DEFINE T == {n \in Nat : ~\E run : IsRun(run, m, o, txns, c, k, n)}
           s0 == [mem |-> m, rsp |-> <<>>]
<1> SUFFICES T = {}
  OBVIOUS
<1>1. SUFFICES ASSUME T # {} PROVE FALSE
  OBVIOUS
<1>2. PICK n \in T : \A j \in T : n <= j
  BY <1>1, Least
<1>3. n \in Nat /\ ~\E run : IsRun(run, m, o, txns, c, k, n)
  OBVIOUS
<1>4. CASE n = 0
  <2> DEFINE e == [i \in 0..0 |-> After(s0, o, i, k)]
  <2> HIDE DEF s0
  <2>1. e = [i \in 0..0 |-> After(IF i = 0 THEN s0 ELSE RefTxn(e[i - 1], txns[i], c[i]), o, i, k)]
    OBVIOUS
  <2> HIDE DEF e
  <2> QED
    BY <1>3, <1>4, <2>1 DEF IsRun, s0
<1>5. CASE n # 0
  <2>1. n - 1 \in Nat /\ n - 1 \notin T
    BY <1>2, <1>3, <1>5
  <2>2. PICK e : IsRun(e, m, o, txns, c, k, n - 1)
    BY <2>1
  <2> DEFINE f == [i \in 0..n |-> IF i = n THEN After(RefTxn(e[n - 1], txns[n], c[n]), o, n, k) ELSE e[i]]
             Step(g, i) == After(IF i = 0 THEN s0 ELSE RefTxn(g[i - 1], txns[i], c[i]), o, i, k)
  <2>3. \A i \in 0..(n - 1) : e[i] = Step(e, i)
    BY <2>2 DEF IsRun
  <2> HIDE DEF s0
  <2>4. ASSUME NEW i \in 0..n PROVE f[i] = Step(f, i)
    <3>1. CASE i = n
      <4>1. n - 1 \in 0..n /\ n - 1 # n /\ i # 0
        BY <1>3, <1>5, <3>1
      <4> QED
        BY <1>5, <3>1, <4>1
    <3>2. CASE i # n
      <4>1. i \in 0..(n - 1)
        BY <1>3, <3>2
      <4>2. i # 0 => i - 1 \in 0..n /\ i - 1 # n
        BY <1>3
      <4>3. Step(f, i) = Step(e, i)
        BY <4>1, <4>2
      <4> QED
        BY <2>3, <3>2, <4>1, <4>3
    <3> QED
      BY <3>1, <3>2
  <2>5. f = [i \in 0..n |-> Step(f, i)]
    <3>1. f = [i \in 0..n |-> f[i]]
      OBVIOUS
    <3> HIDE DEF f, Step
    <3> QED
      BY <2>4, <3>1
  <2> HIDE DEF f
  <2>6. IsRun(f, m, o, txns, c, k, n)
    BY <2>5 DEF IsRun, s0
  <2> QED
    BY <1>3, <2>6
<1> QED
  BY <1>4, <1>5

\* So RefStates is what it is defined to be.
LEMMA StatesDef ==
  ASSUME NEW m, NEW o, NEW txns, NEW c, Len(txns) \in Nat, NEW k
  PROVE  /\ RefStates(m, o, txns, c, k)[0] = After([mem |-> m, rsp |-> <<>>], o, 0, k)
         /\ \A i \in 1..Len(txns) :
              RefStates(m, o, txns, c, k)[i] =
                After(RefTxn(RefStates(m, o, txns, c, k)[i - 1], txns[i], c[i]), o, i, k)
<1>1. \E run : IsRun(run, m, o, txns, c, k, Len(txns))
  BY RunExists
<1>2. IsRun(RefStates(m, o, txns, c, k), m, o, txns, c, k, Len(txns))
  BY <1>1 DEF RefStates, IsRun, After
<1> DEFINE r == RefStates(m, o, txns, c, k)
           s0 == [mem |-> m, rsp |-> <<>>]
<1> HIDE DEF r, s0
<1>3. r = [i \in 0..Len(txns) |-> After(IF i = 0 THEN s0 ELSE RefTxn(r[i - 1], txns[i], c[i]), o, i, k)]
  BY <1>2 DEF IsRun, r, s0
<1>4. 0 \in 0..Len(txns) /\ \A i \in 1..Len(txns) : i \in 0..Len(txns) /\ i # 0
  OBVIOUS
<1>5. r[0] = After(s0, o, 0, k) /\ \A i \in 1..Len(txns) : r[i] = After(RefTxn(r[i - 1], txns[i], c[i]), o, i, k)
  BY <1>3, <1>4
<1> QED
  BY <1>5 DEF r, s0

\* The states after the first i transactions depend on how far these came, and on
\* whether the write of another process counts among them.
LEMMA StatesEqual ==
  ASSUME NEW m, NEW o, NEW p, NEW txns, Len(txns) \in Nat, NEW c, NEW d, NEW k, NEW l,
         NEW i \in 0..Len(txns), \A j \in 1..i : c[j] = d[j],
         \A j \in 0..i : \A s : After(s, o, j, k) = After(s, p, j, l)
  PROVE  RefStates(m, o, txns, c, k)[i] = RefStates(m, p, txns, d, l)[i]
<1> DEFINE r == RefStates(m, o, txns, c, k)
           q == RefStates(m, p, txns, d, l)
           T == {j \in 0..i : r[j] # q[j]}
           s0 == [mem |-> m, rsp |-> <<>>]
<1>1. /\ r[0] = After(s0, o, 0, k)
      /\ \A j \in 1..Len(txns) : r[j] = After(RefTxn(r[j - 1], txns[j], c[j]), o, j, k)
  BY StatesDef, SMTT(60)
<1>2. /\ q[0] = After(s0, p, 0, l)
      /\ \A j \in 1..Len(txns) : q[j] = After(RefTxn(q[j - 1], txns[j], d[j]), p, j, l)
  BY StatesDef, SMTT(60)
<1> HIDE DEF r, q, s0
<1>3. r[0] = q[0]
  <2>1. 0 \in 0..i
    OBVIOUS
  <2> QED
    BY <1>1, <1>2, <2>1
<1>4. ASSUME NEW j \in 1..i, r[j - 1] = q[j - 1] PROVE r[j] = q[j]
  <2>1. c[j] = d[j] /\ j \in 1..Len(txns) /\ j \in 0..i
    OBVIOUS
  <2> QED
    BY <1>1, <1>2, <1>4, <2>1
<1>5. ASSUME T # {} PROVE FALSE
  <2>1. PICK n \in T : \A j \in T : n <= j
    <3>1. T \subseteq Nat
      OBVIOUS
    <3> HIDE DEF T
    <3> QED
      BY <1>5, <3>1, Least
  <2>2. n \in 1..i /\ n - 1 \in 0..i /\ ~(n <= n - 1) /\ r[n] # q[n]
    <3>1. n \in 0..i /\ r[n] # q[n]
      OBVIOUS
    <3>2. n # 0
      BY <1>3, <3>1
    <3> QED
      BY <3>1, <3>2
  <2>3. r[n - 1] = q[n - 1]
    BY <2>1, <2>2
  <2> QED
    BY <1>4, <2>2, <2>3
<1>6. i \in 0..i
  OBVIOUS
<1> QED
  BY <1>5, <1>6 DEF r, q

\* Before it counts, a write of another process makes no difference, and if there is
\* none it does not matter after how many transactions it would count.
LEMMA StatesAgree ==
  ASSUME NEW m, NEW o, NEW p, NEW txns, Len(txns) \in Nat, NEW c, NEW k, NEW l, NEW i \in 0..Len(txns),
         \A j \in 0..i : (j # k \/ o = <<>>) /\ (j # l \/ p = <<>>)
  PROVE  RefStates(m, o, txns, c, k)[i] = RefStates(m, p, txns, c, l)[i]
<1>1. \A j \in 0..i : \A s : After(s, o, j, k) = After(s, p, j, l)
  BY DEF After, RefOther
<1> QED
  BY <1>1, StatesEqual

-----------------------------------------------------------------------------
(* Taking words off a deque *)

\* Taking all of a sequence off leaves what is behind it.
LEMMA CutFront ==
  ASSUME NEW S, NEW s \in Seq(S), NEW u \in Seq(S)
  PROVE  SubSeq(s \o u, Len(s) + 1, Len(s \o u)) = u
<1> DEFINE q == s \o u
           v == SubSeq(q, Len(s) + 1, Len(q))
<1>1. /\ q \in Seq(S) /\ Len(q) = Len(s) + Len(u) /\ Len(s) \in Nat /\ Len(u) \in Nat
      /\ \A i \in 1..(Len(s) + Len(u)) : q[i] = IF i <= Len(s) THEN s[i] ELSE u[i - Len(s)]
  BY ConcatProperties
<1> HIDE DEF q
<1>2. \A i \in (Len(s) + 1)..Len(q) : q[i] \in S
  BY <1>1
<1>3. Len(s) + 1 \in Int /\ Len(q) \in Int
  BY <1>1
<1>4. /\ v \in Seq(S) /\ Len(v) = IF Len(s) + 1 <= Len(q) THEN Len(q) - (Len(s) + 1) + 1 ELSE 0
      /\ \A i \in 1..(Len(q) - (Len(s) + 1) + 1) : v[i] = q[Len(s) + 1 + i - 1]
  BY <1>2, <1>3, SubSeqProperties
<1> HIDE DEF v
<1>5. Len(v) = Len(u)
  BY <1>1, <1>4
<1>6. ASSUME NEW i \in 1..Len(v) PROVE v[i] = u[i]
  <2>1. /\ i \in 1..(Len(q) - (Len(s) + 1) + 1) /\ Len(s) + 1 + i - 1 = Len(s) + i
        /\ Len(s) + i \in 1..(Len(s) + Len(u)) /\ ~(Len(s) + i <= Len(s)) /\ Len(s) + i - Len(s) = i
    BY <1>1, <1>5
  <2>2. v[i] = q[Len(s) + i]
    BY <1>4, <2>1
  <2> QED
    BY <1>1, <2>1, <2>2
<1>7. v = u
  BY <1>4, <1>5, <1>6, SeqEqual
<1> QED
  BY <1>7 DEF v, q

\* Taking the first word off.
LEMMA CutOne ==
  ASSUME NEW S, NEW x \in S, NEW u \in Seq(S)
  PROVE  LET q == <<x>> \o u
         IN  /\ q \in Seq(S) /\ q # <<>> /\ Len(q) = Len(u) + 1
             /\ Head(q) = x /\ q[1] = x /\ Tail(q) = u
             /\ SubSeq(q, 2, Len(q)) = u
<1> DEFINE q == <<x>> \o u
<1>1. <<x>> \in Seq(S) /\ Len(<<x>>) = 1 /\ <<x>>[1] = x /\ Len(u) \in Nat
  OBVIOUS
<1>2. /\ q \in Seq(S) /\ Len(q) = 1 + Len(u)
      /\ \A i \in 1..(1 + Len(u)) : q[i] = IF i <= 1 THEN <<x>>[i] ELSE u[i - 1]
  BY <1>1, ConcatProperties
<1>3. SubSeq(q, 1 + 1, Len(q)) = u
  BY <1>1, CutFront
<1> HIDE DEF q
<1>4. q # <<>> /\ q[1] = x
  <2>1. 1 \in 1..(1 + Len(u)) /\ 1 <= 1
    BY <1>1
  <2>2. q[1] = x
    BY <1>1, <1>2, <2>1
  <2> QED
    BY <1>1, <1>2, <2>2
<1>5. Tail(q) = SubSeq(q, 2, Len(q)) /\ Head(q) = q[1]
  BY <1>2, <1>4, TailIsSubSeq
<1> QED
  BY <1>1, <1>2, <1>3, <1>4, <1>5 DEF q

\* An address, its data and what is behind them.
LEMMA CutData ==
  ASSUME NEW S, NEW x \in S, NEW d \in Seq(S), NEW u \in Seq(S)
  PROVE  LET q == <<x>> \o (d \o u)
         IN  /\ SubSeq(q, 2, Len(d) + 1) = d
             /\ SubSeq(q, 1 + Len(d) + 1, Len(q)) = u
             /\ Len(q) = 1 + Len(d) + Len(u)
<1> DEFINE q == <<x>> \o (d \o u)
           v == SubSeq(q, 2, Len(d) + 1)
<1>1. /\ <<x>> \in Seq(S) /\ Len(<<x>>) = 1 /\ <<x>>[1] = x /\ Len(u) \in Nat /\ Len(d) \in Nat
      /\ d \o u \in Seq(S) /\ Len(d \o u) = Len(d) + Len(u)
      /\ \A i \in 1..(Len(d) + Len(u)) : (d \o u)[i] = IF i <= Len(d) THEN d[i] ELSE u[i - Len(d)]
  BY ConcatProperties
<1>2. q = (<<x>> \o d) \o u
  BY <1>1, ConcatAssociative
<1>3. <<x>> \o d \in Seq(S) /\ Len(<<x>> \o d) = 1 + Len(d)
  BY <1>1, ConcatProperties
<1>4. SubSeq(q, 1 + Len(d) + 1, Len(q)) = u
  BY <1>2, <1>3, CutFront
<1>5. q \in Seq(S) /\ Len(q) = 1 + (Len(d) + Len(u))
      /\ \A i \in 1..(1 + (Len(d) + Len(u))) : q[i] = IF i <= 1 THEN <<x>>[i] ELSE (d \o u)[i - 1]
  BY <1>1, ConcatProperties
<1> HIDE DEF q
<1>6. \A i \in 2..(Len(d) + 1) : q[i] \in S
  BY <1>1, <1>5
<1>7. 2 \in Int /\ Len(d) + 1 \in Int
  BY <1>1
<1>8. /\ v \in Seq(S) /\ Len(v) = IF 2 <= Len(d) + 1 THEN Len(d) + 1 - 2 + 1 ELSE 0
      /\ \A i \in 1..(Len(d) + 1 - 2 + 1) : v[i] = q[2 + i - 1]
  BY <1>6, <1>7, SubSeqProperties
<1> HIDE DEF v
<1>9. Len(v) = Len(d)
  BY <1>1, <1>8
<1>10. ASSUME NEW i \in 1..Len(v) PROVE v[i] = d[i]
  <2>1. /\ i \in 1..(Len(d) + 1 - 2 + 1) /\ 2 + i - 1 = i + 1 /\ i + 1 \in 1..(1 + (Len(d) + Len(u)))
        /\ ~(i + 1 <= 1) /\ i + 1 - 1 = i /\ i \in 1..(Len(d) + Len(u)) /\ i <= Len(d)
    BY <1>1, <1>9
  <2>2. v[i] = q[i + 1]
    BY <1>8, <2>1
  <2>3. q[i + 1] = (d \o u)[i]
    BY <1>5, <2>1
  <2> QED
    BY <1>1, <2>1, <2>2, <2>3
<1>11. v = d
  BY <1>8, <1>9, <1>10, SeqEqual
<1> QED
  BY <1>1, <1>4, <1>5, <1>11 DEF q, v

\* v holds the data up to the nth, from behind their address x.
UpTo(v, x, d, u, n) == v = SubSeq(<<x>> \o (d \o u), 2, n + 1)

\* Such data are the first n words of d, read off the deque behind the address.
LEMMA CutUpTo ==
  ASSUME NEW x \in Nat, NEW d \in Seq(Nat), NEW u \in Seq(Nat), NEW n \in 1..Len(d),
         NEW v, UpTo(v, x, d, u, n)
  PROVE  v # <<>> /\ v[Len(v)] = d[n]
<1> DEFINE q == <<x>> \o (d \o u)
<1>1. /\ <<x>> \in Seq(Nat) /\ Len(<<x>>) = 1 /\ Len(u) \in Nat /\ Len(d) \in Nat
      /\ d \o u \in Seq(Nat) /\ Len(d \o u) = Len(d) + Len(u)
      /\ \A i \in 1..(Len(d) + Len(u)) : (d \o u)[i] = IF i <= Len(d) THEN d[i] ELSE u[i - Len(d)]
  BY ConcatProperties
<1>2. /\ q \in Seq(Nat) /\ Len(q) = 1 + (Len(d) + Len(u))
      /\ \A i \in 1..(1 + (Len(d) + Len(u))) : q[i] = IF i <= 1 THEN <<x>>[i] ELSE (d \o u)[i - 1]
  BY <1>1, ConcatProperties
<1>0. v = SubSeq(q, 2, n + 1)
  BY DEF UpTo
<1> HIDE DEF q
<1>3. \A i \in 2..(n + 1) : q[i] \in Nat
  BY <1>1, <1>2, SMTT(60)
<1>4. 2 \in Int /\ n + 1 \in Int
  BY <1>1
<1>5. /\ v \in Seq(Nat) /\ Len(v) = IF 2 <= n + 1 THEN n + 1 - 2 + 1 ELSE 0
      /\ \A i \in 1..(n + 1 - 2 + 1) : v[i] = q[2 + i - 1]
  BY <1>0, <1>3, <1>4, SubSeqProperties
<1>6. /\ Len(v) = n /\ n \in 1..(n + 1 - 2 + 1) /\ 2 + n - 1 = n + 1 /\ n + 1 \in 1..(1 + (Len(d) + Len(u)))
      /\ ~(n + 1 <= 1) /\ n + 1 - 1 = n /\ n \in 1..(Len(d) + Len(u)) /\ n <= Len(d) /\ n # 0
  BY <1>1, <1>5
<1>7. v[n] = q[n + 1] /\ q[n + 1] = (d \o u)[n] /\ (d \o u)[n] = d[n]
  <2>1. v[n] = q[n + 1]
    BY <1>5, <1>6
  <2>2. q[n + 1] = (d \o u)[n]
    <3> DEFINE w == d \o u
               m == n + 1
    <3>1. \A i \in 1..(1 + (Len(d) + Len(u))) : ~(i <= 1) => q[i] = w[i - 1]
      BY <1>2
    <3>2. m \in 1..(1 + (Len(d) + Len(u))) /\ ~(m <= 1) /\ m - 1 = n
      BY <1>6
    <3> HIDE DEF w, m
    <3>3. q[m] = w[n]
      BY <3>1, <3>2
    <3> QED
      BY <3>3 DEF w, m
  <2>3. (d \o u)[n] = d[n]
    BY <1>1, <1>6
  <2> QED
    BY <2>1, <2>2, <2>3
<1>8. v # <<>> /\ v[Len(v)] = d[n]
  <2>1. v # <<>>
    BY <1>6
  <2> QED
    BY <1>6, <1>7, <2>1
<1> QED
  BY <1>8

\* The data from the nth on, and what is behind.
LEMMA CutSome ==
  ASSUME NEW S, NEW d \in Seq(S), NEW u \in Seq(S), NEW n \in 1..Len(d)
  PROVE  LET q == SubSeq(d, n, Len(d)) \o u
         IN  /\ q # <<>> /\ Head(q) = d[n]
             /\ SubSeq(q, 2, Len(q)) = SubSeq(d, n + 1, Len(d)) \o u
<1> DEFINE v == SubSeq(d, n + 1, Len(d))
<1>1. Len(d) \in Nat /\ d[n] \in S /\ n \in 1..Len(d) /\ Len(d) \in n..Len(d)
  OBVIOUS
<1>2. SubSeq(d, n, Len(d)) = <<d[n]>> \o v
  BY <1>1, SubSeqRecursiveFirst
<1>3. v \in Seq(S)
  <2>1. \A i \in (n + 1)..Len(d) : d[i] \in S
    BY <1>1
  <2>2. n + 1 \in Int /\ Len(d) \in Int
    BY <1>1
  <2> QED
    BY <2>1, <2>2, SubSeqProperties
<1> HIDE DEF v
<1>4. <<d[n]>> \in Seq(S) /\ v \o u \in Seq(S)
  BY <1>1, <1>3, ConcatProperties
<1>5. SubSeq(d, n, Len(d)) \o u = <<d[n]>> \o (v \o u)
  BY <1>2, <1>3, <1>4, ConcatAssociative, SMTT(60)
<1> DEFINE w == v \o u
<1>6. w \in Seq(S)
  BY <1>4
<1> HIDE DEF w
<1>7. <<d[n]>> \o w # <<>> /\ Head(<<d[n]>> \o w) = d[n] /\ SubSeq(<<d[n]>> \o w, 2, Len(<<d[n]>> \o w)) = w
  BY <1>1, <1>6, CutOne
<1> QED
  BY <1>5, <1>7, Zenon DEF v, w

-----------------------------------------------------------------------------
(* Headers *)

\* The widths of the header fields.
LEMMA FieldBounds ==
  /\ \A x \in Field(4) : x \in Nat /\ x < 16
  /\ \A x \in Field(8) : x \in Nat /\ x < 256
  /\ \A x \in Field(12) : x \in Nat /\ x < 4096
<1>1. ASSUME NEW x \in Field(4) PROVE x \in Nat /\ x < 16
  <2> DEFINE c == 2 ^ 4 - 1
  <2>1. c \in Nat /\ c < 16
    BY SMT
  <2>2. x \in 0..c
    BY DEF Field
  <2> HIDE DEF c
  <2>3. x \in Nat /\ x <= c
    BY <2>1, <2>2
  <2> QED
    BY <2>1, <2>3, SMT
<1>2. ASSUME NEW x \in Field(8) PROVE x \in Nat /\ x < 256
  <2> DEFINE c == 2 ^ 8 - 1
  <2>1. c \in Nat /\ c < 256
    BY SMT
  <2>2. x \in 0..c
    BY DEF Field
  <2> HIDE DEF c
  <2>3. x \in Nat /\ x <= c
    BY <2>1, <2>2
  <2> QED
    BY <2>1, <2>3, SMT
<1>3. ASSUME NEW x \in Field(12) PROVE x \in Nat /\ x < 4096
  <2> DEFINE c == 2 ^ 12 - 1
  <2>1. c \in Nat /\ c < 4096
    BY SMT
  <2>2. x \in 0..c
    BY DEF Field
  <2> HIDE DEF c
  <2>3. x \in Nat /\ x <= c
    BY <2>1, <2>2
  <2> QED
    BY <2>1, <2>3, SMT
<1> QED
  BY <1>1, <1>2, <1>3

\* A header word has its fields where IPBusTxnHdr looks for them.
LEMMA DecodeSerialize ==
  ASSUME NEW i \in Nat, i < 4096, NEW n \in Nat, n < 256, NEW y \in Nat, y < 16
  PROVE  Decode(Serialize([version |-> 2, id |-> i, words |-> n, type |-> y, info |-> REQUEST]))
           = [version |-> 2, id |-> i, words |-> n, type |-> y, info |-> REQUEST]
<1> DEFINE w == 536870912 + i * 65536 + n * 256 + y * 16 + 15
<1>1. Serialize([version |-> 2, id |-> i, words |-> n, type |-> y, info |-> REQUEST]) = w
  BY SMT DEF Serialize, Pow2, REQUEST
<1>2. w \in Nat /\ w % 16 = 15
  BY SMT
<1>3. (w \div 16) % 16 = y
  <2>1. w \div 16 = 33554432 + i * 4096 + n * 16 + y
    BY SMT
  <2>2. (33554432 + i * 4096 + n * 16 + y) % 16 = y
    BY SMT
  <2> QED
    BY <2>1, <2>2
<1>4. (w \div 256) % 256 = n
  <2>1. w \div 256 = 2097152 + i * 256 + n
    BY SMT
  <2>2. (2097152 + i * 256 + n) % 256 = n
    BY SMT
  <2> QED
    BY <2>1, <2>2
<1>5. (w \div 65536) % 4096 = i
  <2>1. w \div 65536 = 8192 + i
    BY SMT
  <2>2. (8192 + i) % 4096 = i
    BY SMT
  <2> QED
    BY <2>1, <2>2
<1>6. (w \div 268435456) % 16 = 2
  <2>1. w \div 268435456 = 2
    BY SMT
  <2> QED
    BY <2>1, SMT
<1>7. Pow2(28) = 268435456 /\ Pow2(16) = 65536 /\ Pow2(12) = 4096 /\ Pow2(8) = 256 /\ Pow2(4) = 16
  BY SMT DEF Pow2
<1> HIDE DEF w
<1>8. Decode(w) = [version |-> 2, id |-> i, words |-> n, type |-> y, info |-> 15]
  BY <1>2, <1>3, <1>4, <1>5, <1>6, <1>7 DEF Decode
<1> QED
  BY <1>1, <1>8 DEF REQUEST

\* The header a client wrote is read back.
LEMMA HeaderRead ==
  ASSUME NEW t \in Transactions, hdr = Decode(TxnWord(t))
  PROVE  /\ hdr = [version |-> 2, id |-> t.id, words |-> t.words, type |-> t.type, info |-> REQUEST]
         /\ hdr.words = t.words /\ hdr.type = t.type
         /\ \A code : Answer(code) = RefAnswer(t, code)
<1>1. t.type \in Field(4) /\ t.id \in Field(12) /\ t.words \in Field(8)
  BY DEF Transactions
<1>2. t.type \in Nat /\ t.type < 16 /\ t.id \in Nat /\ t.id < 4096 /\ t.words \in Nat /\ t.words < 256
  BY <1>1, FieldBounds
<1>3. hdr = [version |-> 2, id |-> t.id, words |-> t.words, type |-> t.type, info |-> REQUEST]
  BY <1>2, DecodeSerialize DEF TxnWord
<1> QED
  BY <1>3 DEF Answer, RefAnswer

-----------------------------------------------------------------------------
(* How far a packet is: an inductive invariant *)

\* The transactions of the packet, and registers and response after i of them.
Txns == packet.txns
Stage(i, k) == RefStates(mem0, other, Txns, Course, k)[i]

\* Two counts that come after the first i transactions give the same stage.
LEMMA StageAgree ==
  ASSUME NEW i \in 0..Len(Txns), Len(Txns) \in Nat, NEW k, NEW l, \A j \in 0..i : j # k /\ j # l
  PROVE  Stage(i, k) = Stage(i, l)
<1> DEFINE c == Course
<1> HIDE DEF c
<1>1. RefStates(mem0, other, Txns, c, k)[i] = RefStates(mem0, other, Txns, c, l)[i]
  BY StatesAgree
<1> QED
  BY <1>1, Zenon DEF Stage, c

\* A register set, and a value given n times.
Changed(m, a, v) == [m EXCEPT ![a] = v]
Copies(n, v) == [i \in 1..n |-> v]

\* A register after the first n words of d.
Put(m, a, d, n) == IF n = 0 THEN m ELSE Changed(m, a, d[n])

\* A response with one more answer: its header and its words.
Grown(r, header, words) == r \o <<header>> \o words

\* The write of the other process counts after k of the i transactions so far, or
\* after none, if there was no such write or a read-modify-write undoes it.
Counted(i, k) ==
  k \in IF other = <<>> \/ torn \in {"rmw", "lost"} THEN {Len(Txns) + 1} ELSE 0..i

\* i transactions are over, and each came as far as the bus let it.
Fated(i) ==
  /\ Len(fate) = i
  /\ \A j \in 1..i : fate[j] \in Fates(Txns[j])

\* i transactions are done and the next one has not begun.
Between(i, k) ==
  /\ at \in {"frame", "next", "reply", "done", "dead"}
  /\ Fated(i)
  /\ Counted(i, k)
  /\ mem = Stage(i, k).mem
  /\ at \notin {"done", "dead"} => rsp = Stage(i, k).rsp
  /\ at = "frame" => i = 0
  /\ at = "next" => req = Behind(Txns)[i]
  /\ at \in {"reply", "done"} => i = Len(Txns)
  /\ at = "done" => reply = IF Txns = <<>> THEN <<>> ELSE <<packet.header>> \o Stage(i, k).rsp

\* The transaction after the first i is under way, and its answer is not yet decided.
Under(i, k) ==
  /\ i < Len(Txns)
  /\ Fated(i)
  /\ Counted(i, k)
  /\ hdr = Decode(TxnWord(Txns[i + 1]))
  /\ rsp = Stage(i, k).rsp

\* Its header has been read.
Begun(i, k) ==
  /\ at = "txn"
  /\ Under(i, k)
  /\ mem = Stage(i, k).mem
  /\ req = <<Txns[i + 1].addr>> \o (Txns[i + 1].data \o Behind(Txns)[i + 1])

\* It is in a loop over words, with some of them left.  Another process may have
\* written over the words stored so far.
Looping(i, k) ==
  LET t == Txns[i + 1]
      n == t.words - left
  IN  /\ Under(i, k)
      /\ left \in 1..t.words
      /\ base = RefAddr(t.addr)
      /\ \/ /\ at = "niread"
            /\ t.type = NIREAD
            /\ left < t.words => Readable(base, 1)
            /\ mem = Stage(i, k).mem
            /\ acc = Copies(n, Stage(i, k).mem[base])
            /\ req = Behind(Txns)[i + 1]
         \/ /\ at = "niwrite"
            /\ t.type = NIWRITE
            /\ left < t.words => Writable(base, 1)
            /\ \/ mem = Put(Stage(i, k).mem, base, t.data, n)
               \/ /\ other # <<>>
                  /\ other[1] = base
                  /\ torn = "nothing"
                  /\ k = i
                  /\ mem = Stage(i, k).mem
            /\ acc = <<>>
            /\ req = SubSeq(t.data, n + 1, t.words) \o Behind(Txns)[i + 1]

\* The loop has come to its end: only the answer has to be sent.
Looped(i, k) ==
  /\ at \in {"niread", "niwrite"}
  /\ left = 0
  /\ i > 0
  /\ Fated(i - 1)
  /\ All \in Fates(Txns[i])
  /\ Counted(i, k)
  /\ mem = Stage(i, k).mem
  /\ Grown(rsp, Answer(SUCCESS), acc) = Stage(i, k).rsp
  /\ req = Behind(Txns)[i]

\* It is between the two halves of a read-modify-write.  Another process may have
\* written to its register.
Modifying(i, k) ==
  LET t == Txns[i + 1]
  IN  /\ at = "rmw"
      /\ Under(i, k)
      /\ t.type \in {RMWBITS, RMWSUM}
      /\ base = RefAddr(t.addr)
      /\ Readable(base, 1)
      /\ \/ torn # "rmw" /\ mem = Stage(i, k).mem
         \/ /\ torn = "rmw"
            /\ other # <<>>
            /\ other[1] = base
            /\ mem = Changed(Stage(i, k).mem, base, other[2])
      /\ acc = <<Stage(i, k).mem[base]>>
      /\ req = t.data \o Behind(Txns)[i + 1]

Reached(i, k) ==
  Between(i, k) \/ Begun(i, k) \/ Looping(i, k) \/ Looped(i, k) \/ Modifying(i, k)

\* As long as no other process wrote into the middle of a loop of reads, and no loop
\* of writes was cut short.
ParseIInv ==
  /\ WordsIInv
  /\ other = <<>> => torn = "nothing"
  /\ torn = "rmw" => at = "rmw"
  /\ InStep(packet) /\ ~Astray /\ torn # "niread" =>
       \E i \in 0..Len(Txns) : \E k \in 0..(Len(Txns) + 1) : Reached(i, k)

\* What InStep says of a transaction, and the types of what the deque holds of it.
LEMMA TxnFacts ==
  ASSUME packet \in Packets, InStep(packet), NEW i \in 0..(Len(Txns) - 1)
  PROVE  LET t == Txns[i + 1]
         IN  /\ Len(Txns) \in Nat /\ i + 1 \in 1..Len(Txns) /\ t \in Transactions
             /\ t.addr \in Nat /\ t.data \in Seq(Nat) /\ TxnWord(t) \in Nat /\ t.words \in Nat
             /\ t.type \in {READ, WRITE, NIREAD, NIWRITE, RMWBITS, RMWSUM, CFGREAD}
             /\ t.type \in {READ, NIREAD, CFGREAD} => t.data = <<>>
             /\ t.type \in {WRITE, NIWRITE} => Len(t.data) = t.words
             /\ t.type = RMWBITS => t.words = 1 /\ Len(t.data) = 2
             /\ t.type = RMWSUM => t.words = 1 /\ Len(t.data) = 1
             /\ Behind(Txns)[i] = TxnWords(t) \o Behind(Txns)[i + 1]
             /\ Behind(Txns)[i + 1] \in Seq(Nat)
<1> DEFINE t == Txns[i + 1]
           n == Len(Txns)
<1>1. Txns \in Seq(Transactions)
  BY PacketAssumption DEF Txns
<1>2. n \in Nat /\ i + 1 \in 1..n /\ t \in Transactions /\ DOMAIN Txns = 1..n
  BY <1>1
<1>3. t.addr \in Nat /\ t.data \in Seq(Nat) /\ TxnWord(t) \in Nat
  BY <1>2, TransactionTypes
<1>4. t.type \in Field(4) /\ t.words \in Field(8)
  BY <1>2 DEF Transactions
<1>5. t.type \in Nat /\ t.words \in Nat
  BY <1>4, FieldBounds
<1>6. WellFormed(t) /\ t.type # CFGWRITE
  BY <1>2 DEF InStep, ControlPacket, Txns
<1>7. /\ Behind(Txns)[i] = TxnWords(t) \o Behind(Txns)[i + 1]
      /\ Behind(Txns)[i + 1] \in Seq(Nat)
  <2>1. \A j \in 1..n : TxnWords(Txns[j]) \in Seq(Nat)
    <3>1. ASSUME NEW u \in Transactions PROVE TxnWords(u) \in Seq(Nat)
      <4>1. WordSet(u) \subseteq Nat /\ TxnWords(u) \in Seq(WordSet(u))
        BY WordSetTypes
      <4> QED
        BY <4>1, SeqMonotone
    <3> QED
      BY <1>1, <3>1
  <2>2. i + 1 \in 0..n
    BY <1>2
  <2> QED
    BY <1>2, <2>1, <2>2, BehindDef, BehindWords
<1> HIDE DEF t, n
<1>8. t.type \in {0, 1, 2, 3, 4, 5, 6}
  <2>1. t.type <= 7 /\ t.type # 7
    BY <1>6 DEF WellFormed, CFGWRITE
  <2> QED
    BY <1>5, <2>1
<1>9. /\ t.type \in {READ, NIREAD, CFGREAD} => Len(t.data) = 0
      /\ t.type \in {WRITE, NIWRITE} => Len(t.data) = t.words
      /\ t.type = RMWBITS => t.words = 1 /\ Len(t.data) = 2
      /\ t.type = RMWSUM => t.words = 1 /\ Len(t.data) = 1
  BY <1>6, <1>8 DEF WellFormed, READ, WRITE, NIREAD, NIWRITE, RMWBITS, RMWSUM, CFGREAD, CFGWRITE
<1>10. Len(t.data) = 0 => t.data = <<>>
  BY <1>3
<1>11. t.type \in {READ, WRITE, NIREAD, NIWRITE, RMWBITS, RMWSUM, CFGREAD}
  BY <1>8 DEF READ, WRITE, NIREAD, NIWRITE, RMWBITS, RMWSUM, CFGREAD
<1> QED
  BY <1>2, <1>3, <1>5, <1>6, <1>7, <1>9, <1>10, <1>11 DEF t, n

\* Registers m, and an answer to t behind the response so far.
Outcome(s, t, m, code, words) == [mem |-> m, rsp |-> Grown(s.rsp, RefAnswer(t, code), words)]

\* The new value of the register that t modifies, from the old one.
Modified(t, pre) ==
  IF t.type = RMWBITS THEN BitOr(BitAnd(pre, t.data[1]), t.data[2]) ELSE (pre + t.data[1]) % WordMod

\* The meaning of a transaction, type by type: a read answers the register once per
\* word.
LEMMA MeaningRead ==
  ASSUME NEW s, NEW t, t.type \in {READ, NIREAD}, NEW a, a = RefAddr(t.addr)
  PROVE  RefTxn(s, t, All) = Outcome(s, t, s.mem, SUCCESS, Copies(t.words, s.mem[a]))
  BY DEF RefTxn, Outcome, Grown, Copies, READ, WRITE, NIREAD, NIWRITE, RMWBITS, RMWSUM, CFGREAD, CFGWRITE

\* A read that the bus fails changes nothing and is answered by a read error.
LEMMA MeaningReadFails ==
  ASSUME NEW s, NEW t, t.type \in {READ, NIREAD}, NEW n, n # All
  PROVE  RefTxn(s, t, n) = Outcome(s, t, s.mem, BUSERR_READ, <<>>)
  BY DEF RefTxn, Outcome, Grown, READ, WRITE, NIREAD, NIWRITE, RMWBITS, RMWSUM, CFGREAD, CFGWRITE

\* A write leaves its last word in the register.
LEMMA MeaningWrite ==
  ASSUME NEW s, NEW t, t.type \in {WRITE, NIWRITE}, NEW a, a = RefAddr(t.addr)
  PROVE  RefTxn(s, t, All) = Outcome(s, t, Put(s.mem, a, t.data, t.words), SUCCESS, <<>>)
<1>1. CASE t.words = 0
  BY <1>1 DEF RefTxn, Outcome, Grown, Put, READ, WRITE, NIREAD, NIWRITE, RMWBITS, RMWSUM, CFGREAD, CFGWRITE
<1>2. CASE t.words # 0
  BY <1>2 DEF RefTxn, Outcome, Grown, Put, Changed, READ, WRITE, NIREAD, NIWRITE, RMWBITS, RMWSUM, CFGREAD, CFGWRITE
<1> QED
  BY <1>1, <1>2

\* A block write that is cut short is answered like a read.
WriteError(t) == IF t.type = WRITE THEN BUSERR_READ ELSE BUSERR_WRITE

\* A write that the bus fails after n words leaves the nth there.
LEMMA MeaningWriteFails ==
  ASSUME NEW s, NEW t, t.type \in {WRITE, NIWRITE}, NEW a, a = RefAddr(t.addr), NEW n, n # All
  PROVE  RefTxn(s, t, n) = Outcome(s, t, Put(s.mem, a, t.data, n), WriteError(t), <<>>)
<1>1. CASE n = 0
  BY <1>1 DEF RefTxn, Outcome, Grown, Put, WriteError, READ, WRITE, NIREAD, NIWRITE, RMWBITS, RMWSUM, CFGREAD, CFGWRITE
<1>2. CASE n # 0
  BY <1>2 DEF RefTxn, Outcome, Grown, Put, Changed, WriteError, READ, WRITE, NIREAD, NIWRITE, RMWBITS, RMWSUM, CFGREAD, CFGWRITE
<1> QED
  BY <1>1, <1>2

\* A read-modify-write sets the register and answers its old value.
LEMMA MeaningRmw ==
  ASSUME NEW s, NEW t, t.type \in {RMWBITS, RMWSUM}, NEW a, a = RefAddr(t.addr)
  PROVE  RefTxn(s, t, All) = Outcome(s, t, Changed(s.mem, a, Modified(t, s.mem[a])), SUCCESS, Copies(1, s.mem[a]))
<1>1. CASE t.type = RMWBITS
  BY <1>1 DEF RefTxn, Outcome, Grown, Changed, Copies, Modified, READ, WRITE, NIREAD, NIWRITE, RMWBITS, RMWSUM, CFGREAD, CFGWRITE
<1>2. CASE t.type = RMWSUM
  BY <1>2 DEF RefTxn, Outcome, Grown, Changed, Copies, Modified, READ, WRITE, NIREAD, NIWRITE, RMWBITS, RMWSUM, CFGREAD, CFGWRITE
<1> QED
  BY <1>1, <1>2

\* One that the bus fails leaves the register; the answer says in which half.
LEMMA MeaningRmwFails ==
  ASSUME NEW s, NEW t, t.type \in {RMWBITS, RMWSUM}, NEW n, n # All
  PROVE  RefTxn(s, t, n) = Outcome(s, t, s.mem, IF n = 0 THEN BUSERR_READ ELSE BUSERR_WRITE, <<>>)
<1>1. CASE n = 0
  BY <1>1 DEF RefTxn, Outcome, Grown, All, READ, WRITE, NIREAD, NIWRITE, RMWBITS, RMWSUM, CFGREAD, CFGWRITE
<1>2. CASE n # 0
  BY <1>2 DEF RefTxn, Outcome, Grown, READ, WRITE, NIREAD, NIWRITE, RMWBITS, RMWSUM, CFGREAD, CFGWRITE
<1> QED
  BY <1>1, <1>2

\* A configuration read answers zeros.
LEMMA MeaningCfgRead ==
  ASSUME NEW s, NEW t, t.type = CFGREAD, NEW n
  PROVE  RefTxn(s, t, n) = Outcome(s, t, s.mem, SUCCESS, Copies(t.words, 0))
  BY DEF RefTxn, Outcome, Grown, Copies, READ, WRITE, NIREAD, NIWRITE, RMWBITS, RMWSUM, CFGREAD, CFGWRITE

\* How far a transaction may come, type by type: a read fails as a whole.
LEMMA FatesRead ==
  ASSUME NEW t, t.type = READ, NEW a, a = RefAddr(t.addr)
  PROVE  /\ Readable(a, t.words) => All \in Fates(t)
         /\ ReadFails(a, t.words) => 0 \in Fates(t)
<1>1. Points(t) = {0} /\ \A m : Passes(t, m) <=> Readable(a, t.words)
  BY DEF Points, Passes, READ, WRITE, NIREAD, NIWRITE, RMWBITS, RMWSUM, CFGREAD, CFGWRITE
<1>2. 0..(0 - 1) = {}
  OBVIOUS
<1> QED
  BY <1>1, <1>2 DEF Fates, ReadFails

\* A block write fails before any of its words is stored, or before the last.
LEMMA FatesWrite ==
  ASSUME NEW t, t.type = WRITE, t.words \in Nat, NEW a, a = RefAddr(t.addr)
  PROVE  /\ Writable(a, t.words) => All \in Fates(t)
         /\ \A n \in 0..t.words :
              WriteFails(a, t.words, n) \/ WriteKills(a, t.words, n) => n \in Fates(t)
<1>1. Points(t) = {0} \cup (1..(t.words - 1)) /\ \A m : Passes(t, m) <=> Writable(a, t.words)
  BY DEF Points, Passes, READ, WRITE, NIREAD, NIWRITE, RMWBITS, RMWSUM, CFGREAD, CFGWRITE
<1>2. Writable(a, t.words) => All \in Fates(t)
  BY <1>1 DEF Fates
<1>3. ASSUME NEW n \in 0..t.words, WriteFails(a, t.words, n) \/ WriteKills(a, t.words, n)
      PROVE  n \in Fates(t)
  <2>1. /\ BusFaults \/ ~Writable(a, t.words)
        /\ n = 0 \/ (n < t.words /\ Writable(a, t.words))
    BY <1>3 DEF WriteFails, WriteKills
  <2>2. n \in {0} \cup (1..(t.words - 1))
    BY <2>1
  <2>3. ASSUME NEW m \in 0..(n - 1) PROVE Writable(a, t.words)
    BY <2>1
  <2> QED
    BY <1>1, <2>1, <2>2, <2>3 DEF Fates
<1> QED
  BY <1>2, <1>3

\* A non-incrementing read may fail at each of its words.
LEMMA FatesNiRead ==
  ASSUME NEW t, t.type = NIREAD, t.words \in Nat, NEW a, a = RefAddr(t.addr)
  PROVE  /\ Readable(a, 1) \/ t.words = 0 => All \in Fates(t)
         /\ \A n \in 0..(t.words - 1) :
              ReadFails(a, 1) /\ (n # 0 => Readable(a, 1)) => n \in Fates(t)
<1>1. Points(t) = 0..(t.words - 1) /\ \A m : Passes(t, m) <=> Readable(a, 1)
  BY DEF Points, Passes, READ, WRITE, NIREAD, NIWRITE, RMWBITS, RMWSUM, CFGREAD, CFGWRITE
<1>2. t.words = 0 => 0..(t.words - 1) = {}
  OBVIOUS
<1>3. Readable(a, 1) \/ t.words = 0 => All \in Fates(t)
  BY <1>1, <1>2 DEF Fates
<1>4. ASSUME NEW n \in 0..(t.words - 1), ReadFails(a, 1), n # 0 => Readable(a, 1)
      PROVE  n \in Fates(t)
  <2>1. ASSUME NEW m \in 0..(n - 1) PROVE Readable(a, 1)
    BY <1>4
  <2> QED
    BY <1>1, <1>4, <2>1 DEF Fates, ReadFails
<1> QED
  BY <1>3, <1>4

\* So may a non-incrementing write.
LEMMA FatesNiWrite ==
  ASSUME NEW t, t.type = NIWRITE, t.words \in Nat, NEW a, a = RefAddr(t.addr)
  PROVE  /\ Writable(a, 1) \/ t.words = 0 => All \in Fates(t)
         /\ \A n \in 0..(t.words - 1) :
              (WriteFails(a, 1, 0) \/ WriteKills(a, 1, 0)) /\ (n # 0 => Writable(a, 1)) => n \in Fates(t)
<1>1. Points(t) = 0..(t.words - 1) /\ \A m : Passes(t, m) <=> Writable(a, 1)
  BY DEF Points, Passes, READ, WRITE, NIREAD, NIWRITE, RMWBITS, RMWSUM, CFGREAD, CFGWRITE
<1>2. t.words = 0 => 0..(t.words - 1) = {}
  OBVIOUS
<1>3. Writable(a, 1) \/ t.words = 0 => All \in Fates(t)
  BY <1>1, <1>2 DEF Fates
<1>4. ASSUME NEW n \in 0..(t.words - 1), WriteFails(a, 1, 0) \/ WriteKills(a, 1, 0), n # 0 => Writable(a, 1)
      PROVE  n \in Fates(t)
  <2>1. ASSUME NEW m \in 0..(n - 1) PROVE Writable(a, 1)
    BY <1>4
  <2>2. BusFaults \/ ~Writable(a, 1)
    BY <1>4 DEF WriteFails, WriteKills
  <2> QED
    BY <1>1, <1>4, <2>1, <2>2 DEF Fates
<1> QED
  BY <1>3, <1>4

\* A read-modify-write may fail in its read and in its write.
LEMMA FatesRmw ==
  ASSUME NEW t, t.type \in {RMWBITS, RMWSUM}, NEW a, a = RefAddr(t.addr)
  PROVE  /\ Readable(a, 1) /\ Writable(a, 1) => All \in Fates(t)
         /\ ReadFails(a, 1) => 0 \in Fates(t)
         /\ Readable(a, 1) /\ (WriteFails(a, 1, 0) \/ WriteKills(a, 1, 0)) => 1 \in Fates(t)
<1>1. Points(t) = {0, 1} /\ (Passes(t, 0) <=> Readable(a, 1)) /\ (Passes(t, 1) <=> Writable(a, 1))
  <2>1. t.type \in {4, 5}
    BY DEF RMWBITS, RMWSUM
  <2>2. t.type \notin {0, 1, 2, 3}
    BY <2>1
  <2>3. Points(t) = {0, 1}
    BY <2>1, <2>2 DEF Points, READ, WRITE, NIREAD, NIWRITE, RMWBITS, RMWSUM
  <2>4. Passes(t, 0) <=> Readable(a, 1)
    BY <2>1, <2>2 DEF Passes, READ, WRITE, NIREAD, NIWRITE, RMWBITS, RMWSUM
  <2>5. Passes(t, 1) <=> Writable(a, 1)
    BY <2>1, <2>2 DEF Passes, READ, WRITE, NIREAD, NIWRITE, RMWBITS, RMWSUM
  <2> QED
    BY <2>3, <2>4, <2>5
<1>2. 0..(0 - 1) = {} /\ 0..(1 - 1) = {0}
  OBVIOUS
<1>3. Readable(a, 1) /\ Writable(a, 1) => All \in Fates(t)
  BY <1>1 DEF Fates
<1>4. ReadFails(a, 1) => 0 \in Fates(t)
  BY <1>1, <1>2 DEF Fates, ReadFails
<1>5. Readable(a, 1) /\ (WriteFails(a, 1, 0) \/ WriteKills(a, 1, 0)) => 1 \in Fates(t)
  BY <1>1, <1>2 DEF Fates, WriteFails, WriteKills
<1> QED
  BY <1>3, <1>4, <1>5

\* A configuration read does not touch the bus.
LEMMA FatesCfgRead ==
  ASSUME NEW t, t.type = CFGREAD
  PROVE  All \in Fates(t)
<1>1. Points(t) = {}
  BY DEF Points, READ, WRITE, NIREAD, NIWRITE, RMWBITS, RMWSUM, CFGREAD, CFGWRITE
<1> QED
  BY <1>1 DEF Fates

\* r is s after a transaction: registers, and a response that has grown by an answer.
Says(r, s, t) ==
  \E m, code, v : \E n \in Nat : r = Outcome(s, t, m, code, Copies(n, v))

\* Whatever its type, a transaction adds one answer.
LEMMA MeaningShape ==
  ASSUME NEW s, NEW t, t.type \in {READ, WRITE, NIREAD, NIWRITE, RMWBITS, RMWSUM, CFGREAD},
         t.words \in Nat, NEW f
  PROVE  Says(RefTxn(s, t, f), s, t)
<1>1. ASSUME NEW m, NEW code, NEW n \in Nat, NEW v
      PROVE  Says(Outcome(s, t, m, code, Copies(n, v)), s, t)
  BY Zenon DEF Says
<1>2. ASSUME NEW m, NEW code
      PROVE  Says(Outcome(s, t, m, code, <<>>), s, t)
  <2>1. Copies(0, 0) = <<>> /\ 0 \in Nat
    BY DEF Copies
  <2> QED
    BY <1>1, <2>1
<1>3. CASE t.type \in {READ, NIREAD}
  <2>1. CASE f = All
    BY <1>1, <1>3, <2>1, MeaningRead
  <2>2. CASE f # All
    <3>1. RefTxn(s, t, f) = Outcome(s, t, s.mem, BUSERR_READ, <<>>)
      BY <1>3, <2>2, MeaningReadFails
    <3> QED
      BY <1>2, <3>1, Zenon
  <2> QED
    BY <2>1, <2>2
<1>4. CASE t.type \in {WRITE, NIWRITE}
  <2>1. CASE f = All
    BY <1>2, <1>4, <2>1, MeaningWrite
  <2>2. CASE f # All
    <3> DEFINE m == Put(s.mem, RefAddr(t.addr), t.data, f)
    <3>1. RefTxn(s, t, f) = Outcome(s, t, m, WriteError(t), <<>>)
      BY <1>4, <2>2, MeaningWriteFails
    <3> HIDE DEF m
    <3> QED
      BY <1>2, <3>1, Zenon
  <2> QED
    BY <2>1, <2>2
<1>5. CASE t.type \in {RMWBITS, RMWSUM}
  <2>1. CASE f = All
    BY <1>1, <1>5, <2>1, MeaningRmw
  <2>2. CASE f # All
    <3> DEFINE code == IF f = 0 THEN BUSERR_READ ELSE BUSERR_WRITE
    <3>1. RefTxn(s, t, f) = Outcome(s, t, s.mem, code, <<>>)
      BY <1>5, <2>2, MeaningRmwFails
    <3> HIDE DEF code
    <3> QED
      BY <1>2, <3>1
  <2> QED
    BY <2>1, <2>2
<1>6. CASE t.type = CFGREAD
  BY <1>1, <1>6, MeaningCfgRead
<1> QED
  BY <1>3, <1>4, <1>5, <1>6

\* Registers and a response.
Shaped(s) == \E m, r, S : r \in Seq(S) /\ s = [mem |-> m, rsp |-> r]

\* A response that has grown is one, and is not empty.
LEMMA SaysShaped ==
  ASSUME NEW s, NEW r, NEW t, Shaped(s), Says(r, s, t)
  PROVE  Shaped(r) /\ r.rsp # <<>>
<1>1. PICK m, q, S : q \in Seq(S) /\ s = [mem |-> m, rsp |-> q]
  BY DEF Shaped
<1>2. PICK m1, code, v : \E n \in Nat :
        r = [mem |-> m1, rsp |-> Grown(s.rsp, RefAnswer(t, code), Copies(n, v))]
  BY DEF Says, Outcome
<1> DEFINE x == RefAnswer(t, code)
<1>3. PICK n \in Nat : r = [mem |-> m1, rsp |-> Grown(q, x, Copies(n, v))]
  BY <1>1, <1>2
<1> HIDE DEF x
<1> DEFINE T == S \cup {x, v}
           w == Copies(n, v)
<1>4. q \in Seq(T) /\ <<x>> \in Seq(T) /\ w \in Seq(T)
  <2>1. S \subseteq T /\ x \in T /\ v \in T
    OBVIOUS
  <2>2. q \in Seq(T)
    BY <1>1, <2>1, SeqMonotone
  <2>3. w \in [1..n -> T]
    BY <2>1 DEF Copies
  <2> HIDE DEF T
  <2>4. w \in Seq(T)
    BY <2>3
  <2> QED
    BY <2>1, <2>2, <2>4
<1> HIDE DEF T, w
<1>5. q \o <<x>> \in Seq(T) /\ Len(q \o <<x>>) = Len(q) + 1 /\ Len(q) \in Nat /\ Len(w) \in Nat
  BY <1>4
<1> DEFINE y == q \o <<x>>
<1>6. y \in Seq(T) /\ Len(y) = Len(q) + 1
  BY <1>5
<1> HIDE DEF y
<1>7. y \o w \in Seq(T) /\ Len(y \o w) = Len(y) + Len(w)
  BY <1>4, <1>6, ConcatProperties
<1>8. y \o w # <<>>
  BY <1>5, <1>6, <1>7
<1>9. r = [mem |-> m1, rsp |-> y \o w]
  BY <1>3 DEF y, w, Grown
<1> QED
  BY <1>7, <1>8, <1>9, Zenon DEF Shaped

\* A write of another process leaves the response alone.
LEMMA OtherShaped ==
  ASSUME NEW s, Shaped(s), NEW o
  PROVE  /\ Shaped(RefOther(s, o)) /\ RefOther(s, o).rsp = s.rsp
         /\ o # <<>> => RefOther(s, o).mem = Changed(s.mem, o[1], o[2])
<1>1. PICK m, q, S : q \in Seq(S) /\ s = [mem |-> m, rsp |-> q]
  BY DEF Shaped
<1>2. CASE o = <<>>
  BY <1>2 DEF RefOther
<1>3. CASE o # <<>>
  <2>1. RefOther(s, o) = [mem |-> Changed(m, o[1], o[2]), rsp |-> q]
    BY <1>1, <1>3 DEF RefOther, Changed
  <2>2. Shaped(RefOther(s, o))
    BY <1>1, <2>1, Zenon DEF Shaped
  <2> QED
    BY <1>1, <2>1, <2>2
<1> QED
  BY <1>2, <1>3

\* The state after i transactions.
LEMMA StageShaped ==
  ASSUME packet \in Packets, InStep(packet), NEW o, NEW c, NEW k, NEW i \in 0..Len(Txns)
  PROVE  LET s == RefStates(mem0, o, Txns, c, k)[i]
         IN  Shaped(s) /\ (i # 0 => s.rsp # <<>>)
<1> DEFINE r == RefStates(mem0, o, Txns, c, k)
           Good(j) == Shaped(r[j]) /\ (j # 0 => r[j].rsp # <<>>)
           T == {j \in 0..Len(Txns) : ~Good(j)}
           s0 == [mem |-> mem0, rsp |-> <<>>]
<1>1. Len(Txns) \in Nat
  <2>1. Txns \in Seq(Transactions)
    BY PacketAssumption DEF Txns
  <2> QED
    BY <2>1
<1>2. r[0] = After(s0, o, 0, k)
      /\ \A j \in 1..Len(Txns) : r[j] = After(RefTxn(r[j - 1], Txns[j], c[j]), o, j, k)
  BY <1>1, StatesDef
<1> HIDE DEF r
<1>3. ASSUME NEW s, Shaped(s), NEW j PROVE Shaped(After(s, o, j, k)) /\ After(s, o, j, k).rsp = s.rsp
  BY <1>3, OtherShaped DEF After
<1>4. Shaped(s0)
  <2>1. <<>> \in Seq({})
    OBVIOUS
  <2> QED
    BY <2>1, Zenon DEF Shaped
<1> HIDE DEF s0
<1>5. Good(0)
  BY <1>2, <1>3, <1>4
<1>6. ASSUME NEW j \in 1..Len(Txns), Good(j - 1) PROVE Good(j)
  <2> DEFINE t == Txns[j]
             q == RefTxn(r[j - 1], t, c[j])
  <2>1. j - 1 \in 0..(Len(Txns) - 1) /\ j - 1 + 1 = j
    BY <1>1
  <2>2. t.type \in {READ, WRITE, NIREAD, NIWRITE, RMWBITS, RMWSUM, CFGREAD} /\ t.words \in Nat
    BY <2>1, TxnFacts
  <2> HIDE DEF t
  <2>3. Says(q, r[j - 1], t)
    BY <2>2, MeaningShape
  <2> HIDE DEF q
  <2>4. Shaped(q) /\ q.rsp # <<>>
    BY <1>6, <2>3, SaysShaped
  <2>5. r[j] = After(q, o, j, k)
    BY <1>2 DEF q, t
  <2> QED
    BY <1>3, <2>4, <2>5
<1>7. ASSUME T # {} PROVE FALSE
  <2>1. T \subseteq Nat
    BY <1>1
  <2>2. PICK n \in T : \A j \in T : n <= j
    <3> HIDE DEF T
    <3> QED
      BY <1>7, <2>1, Least
  <2>3. n \in 0..Len(Txns) /\ ~Good(n)
    OBVIOUS
  <2> HIDE DEF Good
  <2>4. n # 0
    BY <1>5, <2>3
  <2>5. n \in 1..Len(Txns) /\ n - 1 \in 0..Len(Txns) /\ ~(n <= n - 1)
    BY <1>1, <2>3, <2>4
  <2>6. Good(n - 1)
    BY <2>2, <2>5
  <2> QED
    BY <1>6, <2>3, <2>5, <2>6
<1> QED
  BY <1>7 DEF r

\* How far the transactions came.
LEMMA CourseOf ==
  ASSUME NEW j \in 1..Len(Txns)
  PROVE  Course[j] = IF j <= Len(fate) THEN fate[j] ELSE All
  BY DEF Course, Txns

\* One more is over.
LEMMA CourseGrows ==
  ASSUME packet' = packet, fate \in Seq(Int), NEW n \in Int, fate' = Append(fate, n),
         NEW i \in Nat, Len(fate) = i, i + 1 \in 1..Len(Txns), Len(Txns) \in Nat
  PROVE  /\ Len(fate') = i + 1 /\ \A j \in 1..i : fate'[j] = fate[j]
         /\ fate'[i + 1] = n
         /\ Course'[i + 1] = n /\ \A j \in 1..i : Course'[j] = Course[j]
<1>1. Len(fate') = i + 1 /\ fate'[i + 1] = n /\ \A j \in 1..i : fate'[j] = fate[j]
  BY AppendProperties
<1>2. \A j \in 1..Len(Txns) : Course'[j] = IF j <= Len(fate') THEN fate'[j] ELSE All
  BY DEF Course, Txns
<1>3. Course'[i + 1] = n
  BY <1>1, <1>2
<1>4. ASSUME NEW j \in 1..i PROVE Course'[j] = Course[j]
  <2>1. j \in 1..Len(Txns) /\ j <= i /\ j <= i + 1
    OBVIOUS
  <2> QED
    BY <1>1, <1>2, <2>1, CourseOf
<1> QED
  BY <1>1, <1>3, <1>4

\* The state after one more transaction.
LEMMA StageNext ==
  ASSUME NEW i \in 0..(Len(Txns) - 1), NEW k, Counted(i, k), Len(Txns) \in Nat, Len(fate) = i
  PROVE  Stage(i + 1, k) = RefTxn(Stage(i, k), Txns[i + 1], All) /\ Counted(i + 1, k)
<1> DEFINE r == RefStates(mem0, other, Txns, Course, k)
<1>1. i + 1 \in 1..Len(Txns) /\ i + 1 - 1 = i /\ i + 1 # k /\ ~(i + 1 <= i)
  BY DEF Counted
<1> DEFINE s0 == [mem |-> mem0, rsp |-> <<>>]
<1>2. r[0] = After(s0, other, 0, k)
      /\ \A j \in 1..Len(Txns) : r[j] = After(RefTxn(r[j - 1], Txns[j], Course[j]), other, j, k)
  BY StatesDef
<1> HIDE DEF r
<1>3. Course[i + 1] = All
  BY <1>1, CourseOf
<1>4. r[i + 1] = After(RefTxn(r[i], Txns[i + 1], All), other, i + 1, k)
  BY <1>1, <1>2, <1>3
<1>5. Counted(i + 1, k)
  BY <1>1 DEF Counted
<1> QED
  BY <1>1, <1>4, <1>5 DEF After, Stage, r

\* The same, when it came as far as n.
LEMMA StageAfter ==
  ASSUME Len(Txns) \in Nat, fate \in Seq(Int), NEW i \in 0..(Len(Txns) - 1), Len(fate) = i, NEW k,
         UNCHANGED <<packet, mem0, other>>, NEW n \in Int, fate' = Append(fate, n)
  PROVE  /\ k # i + 1 => Stage(i + 1, k)' = RefTxn(Stage(i, k), Txns[i + 1], n)
         /\ k = i + 1 => Stage(i + 1, k)' = RefOther(RefTxn(Stage(i, k), Txns[i + 1], n), other)
<1> DEFINE c == Course'
           r == RefStates(mem0, other, Txns, c, k)
           s0 == [mem |-> mem0, rsp |-> <<>>]
<1>1. i \in Nat /\ i + 1 \in 1..Len(Txns) /\ i + 1 - 1 = i /\ i \in 0..Len(Txns)
  OBVIOUS
<1>2. c[i + 1] = n /\ \A j \in 1..i : c[j] = Course[j]
  BY <1>1, CourseGrows
<1> HIDE DEF c
<1>3. r[0] = After(s0, other, 0, k)
      /\ \A j \in 1..Len(Txns) : r[j] = After(RefTxn(r[j - 1], Txns[j], c[j]), other, j, k)
  BY StatesDef
<1>4. r[i] = Stage(i, k)
  BY <1>1, <1>2, StatesEqual, SMTT(60) DEF Stage
<1>5. Stage(i + 1, k)' = r[i + 1]
  BY DEF Stage, Txns, c
<1> HIDE DEF r
<1>6. r[i + 1] = After(RefTxn(Stage(i, k), Txns[i + 1], n), other, i + 1, k)
  BY <1>1, <1>2, <1>3, <1>4
<1> QED
  BY <1>5, <1>6 DEF After

\* The state after the write of another process, if it counts at once.
LEMMA StageOther ==
  ASSUME packet \in Packets, InStep(packet), NEW i \in 0..Len(Txns), Len(Txns) \in Nat,
         NEW c, NEW w, w # <<>>
  PROVE  LET s == RefStates(mem0, w, Txns, c, i)[i]
             q == RefStates(mem0, w, Txns, c, Len(Txns) + 1)[i]
         IN  /\ s.mem = Changed(q.mem, w[1], w[2])
             /\ s.rsp = q.rsp
<1> DEFINE r == RefStates(mem0, w, Txns, c, i)
           n == Len(Txns) + 1
           q == RefStates(mem0, w, Txns, c, n)
           s0 == [mem |-> mem0, rsp |-> <<>>]
<1>1. /\ r[0] = After(s0, w, 0, i)
      /\ \A j \in 1..Len(Txns) : r[j] = After(RefTxn(r[j - 1], Txns[j], c[j]), w, j, i)
      /\ q[0] = After(s0, w, 0, n)
      /\ \A j \in 1..Len(Txns) : q[j] = After(RefTxn(q[j - 1], Txns[j], c[j]), w, j, n)
  <2> HIDE DEF n
  <2>1. \A k : LET x == RefStates(mem0, w, Txns, c, k)
              IN  /\ x[0] = After(s0, w, 0, k)
                  /\ \A j \in 1..Len(Txns) : x[j] = After(RefTxn(x[j - 1], Txns[j], c[j]), w, j, k)
    BY StatesDef, SMTT(60)
  <2>2. /\ r[0] = After(s0, w, 0, i)
        /\ \A j \in 1..Len(Txns) : r[j] = After(RefTxn(r[j - 1], Txns[j], c[j]), w, j, i)
        /\ q[0] = After(s0, w, 0, n)
        /\ \A j \in 1..Len(Txns) : q[j] = After(RefTxn(q[j - 1], Txns[j], c[j]), w, j, n)
    BY <2>1, Zenon
  <2> QED
    BY <2>1, <2>2
<1>2. Shaped(q[i])
  BY StageShaped
<1>3. i # 0 => r[i - 1] = q[i - 1]
  <2>1. SUFFICES ASSUME i # 0 PROVE r[i - 1] = q[i - 1]
    OBVIOUS
  <2>2. i - 1 \in 0..Len(Txns) /\ \A j \in 0..(i - 1) : j # i /\ j # n
    BY <2>1
  <2> QED
    BY <2>2, StatesAgree
<1> HIDE DEF r, q, s0
<1>4. r[i] = RefOther(q[i], w)
  <2>1. \A s : \A j \in 0..Len(Txns) : After(s, w, j, n) = s
    <3>1. \A j \in 0..Len(Txns) : j # n
      OBVIOUS
    <3> QED
      BY <3>1 DEF After
  <2>2. \A s : After(s, w, i, i) = RefOther(s, w)
    BY DEF After
  <2>3. CASE i = 0
    BY <1>1, <2>1, <2>2, <2>3
  <2>4. CASE i # 0
    <3>1. i \in 1..Len(Txns)
      BY <2>4
    <3> QED
      BY <1>1, <1>3, <2>1, <2>2, <2>4, <3>1
  <2> QED
    BY <2>3, <2>4
<1> DEFINE s == q[i]
<1> HIDE DEF s
<1>5. Shaped(s) /\ r[i] = RefOther(s, w)
  BY <1>2, <1>4 DEF s
<1>6. r[i].mem = Changed(s.mem, w[1], w[2]) /\ r[i].rsp = s.rsp
  BY <1>5, OtherShaped, ZenonT(60)
<1> QED
  BY <1>6, Zenon DEF r, q, s, n

-----------------------------------------------------------------------------
(* One step of the processor *)

\* What a step of the processor leaves as it was.
LEMMA Frozen ==
  ASSUME Processor
  PROVE  UNCHANGED <<packet, mem0, other>> /\ (torn' = torn \/ (at = "rmw" /\ torn = "rmw"))
<1>1. CASE Frame \/ Reply \/ NextTxn \/ InvalidHeader \/ EndOfPacket \/ BadHeader
  BY <1>1 DEF Frame, Reply, NextTxn, InvalidHeader, EndOfPacket, BadHeader, otherVars
<1>2. CASE ReadTxn \/ WriteTxn \/ CfgRead \/ CfgWrite \/ BeginNi
  BY <1>2 DEF ReadTxn, WriteTxn, CfgRead, CfgWrite, BeginNi, otherVars
<1>3. CASE NiReadWord \/ NiWriteWord \/ EndNi \/ RmwRead
  BY <1>3 DEF NiReadWord, NiWriteWord, EndNi, RmwRead, otherVars
<1>4. CASE RmwWrite
  BY <1>4 DEF RmwWrite
<1> QED
  BY <1>1, <1>2, <1>3, <1>4 DEF Processor

\* Registers and response of an outcome.
LEMMA OutcomeParts ==
  ASSUME NEW s, NEW t, NEW m, NEW code, NEW words
  PROVE  /\ Outcome(s, t, m, code, words).mem = m
         /\ Outcome(s, t, m, code, words).rsp = Grown(s.rsp, RefAnswer(t, code), words)
  BY DEF Outcome

\* The transaction ends, having come as far as n: with its answer, and the deque at
\* rest, or with the process.
Ending(code, words, n, rest) ==
  \/ Respond(code, words, n) /\ req' = rest
  \/ Die(n)

\* i transactions are over, and then one more.
LEMMA FatedNext ==
  ASSUME Len(Txns) \in Nat, fate \in Seq(Int), NEW i \in 0..(Len(Txns) - 1), Fated(i), packet' = packet,
         NEW n \in Int, n \in Fates(Txns[i + 1]), fate' = Append(fate, n)
  PROVE  Fated(i + 1)'
<1>1. i \in Nat /\ i + 1 \in 1..Len(Txns) /\ Len(fate) = i /\ \A j \in 1..i : fate[j] \in Fates(Txns[j])
  BY DEF Fated
<1>2. Len(fate') = i + 1 /\ fate'[i + 1] = n /\ \A j \in 1..i : fate'[j] = fate[j]
  BY <1>1, CourseGrows
<1>3. \A j \in 1..(i + 1) : j \in 1..i \/ j = i + 1
  OBVIOUS
<1>4. \A j \in 1..(i + 1) : fate'[j] \in Fates(Txns[j])
  BY <1>1, <1>2, <1>3
<1>5. Txns' = Txns
  BY DEF Txns
<1> QED
  BY <1>2, <1>4, <1>5 DEF Fated

\* What is left to show when a transaction ends.
LEMMA EndingBetween ==
  ASSUME packet \in Packets, InStep(packet), fate \in Seq(Int), NEW i \in 0..(Len(Txns) - 1), NEW k, NEW l,
         Under(i, l), packet' = packet, NEW n \in Int, n \in Fates(Txns[i + 1]), NEW code, NEW words,
         Ending(code, words, n, Behind(Txns)[i + 1]), Counted(i + 1, k)',
         mem' = Stage(i + 1, k)'.mem,
         Stage(i + 1, k)'.rsp = Grown(rsp, RefAnswer(Txns[i + 1], code), words)
  PROVE  Between(i + 1, k)'
<1> DEFINE t == Txns[i + 1]
<1>1. Len(Txns) \in Nat /\ t \in Transactions /\ hdr = Decode(TxnWord(t)) /\ Fated(i)
  BY TxnFacts DEF Under
<1>2. fate' = Append(fate, n)
  BY DEF Ending, Respond, Die
<1>3. Fated(i + 1)' /\ Txns' = Txns
  BY <1>1, <1>2, FatedNext DEF Txns
<1>4. Answer(code) = RefAnswer(t, code)
  <2> HIDE DEF t
  <2> QED
    BY <1>1, HeaderRead
<1>5. CASE Respond(code, words, n) /\ req' = Behind(Txns)[i + 1]
  <2>1. at' = "next" /\ rsp' = Grown(rsp, Answer(code), words)
    BY <1>5 DEF Respond, Grown
  <2> QED
    BY <1>3, <1>4, <1>5, <2>1 DEF Between
<1>6. CASE Die(n)
  <2>1. at' = "dead"
    BY <1>6 DEF Die
  <2> QED
    BY <1>3, <2>1 DEF Between
<1> QED
  BY <1>5, <1>6 DEF Ending

\* A transaction ends the way the reference has it.
LEMMA Finish ==
  ASSUME packet \in Packets, InStep(packet), fate \in Seq(Int), NEW i \in 0..(Len(Txns) - 1), NEW k,
         Under(i, k), UNCHANGED <<packet, mem0, other>>, torn' = torn \/ (torn = "rmw" /\ torn' = "lost"),
         NEW n \in Int, n \in Fates(Txns[i + 1]), NEW m, NEW code, NEW words,
         RefTxn(Stage(i, k), Txns[i + 1], n) = Outcome(Stage(i, k), Txns[i + 1], m, code, words),
         mem' = m, Ending(code, words, n, Behind(Txns)[i + 1])
  PROVE  Between(i + 1, k)'
<1> DEFINE t == Txns[i + 1]
           s == Stage(i, k)
           r == Stage(i + 1, k)'
<1>1. Len(Txns) \in Nat /\ rsp = s.rsp /\ Counted(i, k) /\ Len(fate) = i
  BY TxnFacts DEF Under, Fated
<1>2. Counted(i + 1, k)' /\ k # i + 1
  <2>1. Txns' = Txns /\ i + 1 # Len(Txns) + 1
    BY <1>1 DEF Txns
  <2>2. k \in 0..i => k \in 0..(i + 1) /\ k # i + 1
    OBVIOUS
  <2> QED
    BY <1>1, <2>1, <2>2 DEF Counted
<1>3. fate' = Append(fate, n)
  BY DEF Ending, Respond, Die
<1>4. r = RefTxn(s, t, n)
  BY <1>1, <1>2, <1>3, StageAfter
<1> HIDE DEF t, s, r
<1>5. r = Outcome(s, t, m, code, words)
  BY <1>4 DEF s, t
<1>6. r.mem = m /\ r.rsp = Grown(s.rsp, RefAnswer(t, code), words)
  BY <1>5, OutcomeParts
<1> QED
  BY <1>1, <1>2, <1>6, EndingBetween DEF r, t

\* If another process wrote in the middle of it, its write counts after it.
LEMMA FinishOther ==
  ASSUME packet \in Packets, InStep(packet), fate \in Seq(Int), NEW i \in 0..(Len(Txns) - 1), NEW l,
         Under(i, l), UNCHANGED <<packet, mem0, other>>, torn' = "nothing", other # <<>>,
         NEW n \in Int, n \in Fates(Txns[i + 1]), NEW s, s = Stage(i, Len(Txns) + 1), rsp = s.rsp,
         NEW m, NEW code, NEW words, RefTxn(s, Txns[i + 1], n) = Outcome(s, Txns[i + 1], m, code, words),
         mem' = Changed(m, other[1], other[2]), Ending(code, words, n, Behind(Txns)[i + 1])
  PROVE  Between(i + 1, i + 1)'
<1> DEFINE t == Txns[i + 1]
           r == Stage(i + 1, i + 1)'
           q == RefTxn(s, t, n)
<1>1. Len(Txns) \in Nat /\ Len(fate) = i /\ t.words \in Nat
      /\ t.type \in {READ, WRITE, NIREAD, NIWRITE, RMWBITS, RMWSUM, CFGREAD}
  BY TxnFacts DEF Under, Fated
<1>2. fate' = Append(fate, n)
  BY DEF Ending, Respond, Die
<1>3. Stage(i, i + 1) = s
  <2>1. i \in 0..Len(Txns) /\ \A j \in 0..i : j # i + 1 /\ j # Len(Txns) + 1
    BY <1>1
  <2> QED
    BY <1>1, <2>1, StageAgree
<1>4. r = RefOther(q, other)
  BY <1>1, <1>2, <1>3, StageAfter
<1>5. Shaped(s)
  <2>1. i \in 0..Len(Txns)
    BY <1>1
  <2> QED
    BY <2>1, StageShaped DEF Stage
<1> HIDE DEF t, r, q
<1>6. Shaped(q)
  BY <1>1, <1>5, MeaningShape, SaysShaped DEF q
<1>7. r.mem = Changed(q.mem, other[1], other[2]) /\ r.rsp = q.rsp
  BY <1>4, <1>6, OtherShaped
<1>8. q.mem = m /\ q.rsp = Grown(s.rsp, RefAnswer(t, code), words)
  BY OutcomeParts DEF q, t
<1>9. Counted(i + 1, i + 1)'
  BY <1>1 DEF Counted
<1> QED
  BY <1>7, <1>8, <1>9, EndingBetween DEF r, t

\* The words a transaction needs, type by type.
LEMMA NeedOf ==
  ASSUME NEW h
  PROVE  /\ h.type \in {READ, NIREAD, CFGREAD} => Need(h) = 1
         /\ h.type \in {WRITE, NIWRITE} => Need(h) = 1 + h.words
         /\ h.type = RMWBITS => Need(h) = 3
         /\ h.type = RMWSUM => Need(h) = 2
<1>1. CASE h.type \in {READ, NIREAD, CFGREAD}
  BY <1>1 DEF Need, READ, WRITE, NIREAD, NIWRITE, RMWBITS, RMWSUM, CFGREAD, CFGWRITE
<1>2. CASE h.type \in {WRITE, NIWRITE}
  BY <1>2 DEF Need, READ, WRITE, NIREAD, NIWRITE, RMWBITS, RMWSUM, CFGREAD, CFGWRITE
<1>3. CASE h.type = RMWBITS
  BY <1>3 DEF Need, READ, WRITE, NIREAD, NIWRITE, RMWBITS, RMWSUM, CFGREAD, CFGWRITE
<1>4. CASE h.type = RMWSUM
  BY <1>4 DEF Need, READ, WRITE, NIREAD, NIWRITE, RMWBITS, RMWSUM, CFGREAD, CFGWRITE
<1> QED
  BY <1>1, <1>2, <1>3, <1>4

\* The words on the deque, of a transaction whose header has been read.
LEMMA BegunFacts ==
  ASSUME packet \in Packets, InStep(packet), NEW i \in 0..(Len(Txns) - 1), NEW k, Begun(i, k)
  PROVE  LET t == Txns[i + 1]
             rest == Behind(Txns)[i + 1]
         IN  /\ hdr.words = t.words /\ hdr.type = t.type
             /\ ~Malformed(hdr)
             /\ ModifyAddress(req[1]) = RefAddr(t.addr)
             /\ Drop(1) = t.data \o rest
             /\ Drop(1 + Len(t.data)) = rest
             /\ SubSeq(req, 2, Len(t.data) + 1) = t.data
             /\ t.data = <<>> => Drop(1) = rest
             /\ t.type \in {RMWBITS, RMWSUM} => Need(hdr) = 1 + Len(t.data)
             /\ \A n \in 1..Len(t.data) : Stored(RefAddr(t.addr), SubSeq(req, 2, n + 1))
                                           = Changed(mem, RefAddr(t.addr), t.data[n])
<1> DEFINE t == Txns[i + 1]
           rest == Behind(Txns)[i + 1]
           n == Len(t.data)
<1>1. /\ t \in Transactions /\ t.addr \in Nat /\ t.data \in Seq(Nat) /\ t.words \in Nat
      /\ t.type \in {READ, WRITE, NIREAD, NIWRITE, RMWBITS, RMWSUM, CFGREAD}
      /\ t.type \in {READ, NIREAD, CFGREAD} => t.data = <<>>
      /\ t.type \in {WRITE, NIWRITE} => n = t.words
      /\ t.type = RMWBITS => t.words = 1 /\ n = 2
      /\ t.type = RMWSUM => t.words = 1 /\ n = 1
      /\ rest \in Seq(Nat)
  BY TxnFacts
<1>2. hdr = Decode(TxnWord(t)) /\ req = <<t.addr>> \o (t.data \o rest)
  BY DEF Begun, Under
<1> HIDE DEF t, rest
<1>3. hdr.words = t.words /\ hdr.type = t.type
  BY <1>1, <1>2, HeaderRead
<1>4. n \in Nat /\ t.data \o rest \in Seq(Nat) /\ Len(rest) \in Nat
  BY <1>1, ConcatProperties
<1>5. req[1] = t.addr /\ Drop(1) = t.data \o rest
  <2> DEFINE u == t.data \o rest
  <2> HIDE DEF u
  <2>1. u \in Seq(Nat) /\ req = <<t.addr>> \o u
    BY <1>2, <1>4 DEF u
  <2>2. req[1] = t.addr /\ SubSeq(req, 2, Len(req)) = u
    BY <1>1, <2>1, CutOne
  <2> QED
    BY <2>2, SMTT(60) DEF Drop, u
<1>6. /\ SubSeq(req, 2, n + 1) = t.data
      /\ SubSeq(req, 1 + n + 1, Len(req)) = rest
      /\ Len(req) = 1 + n + Len(rest)
  <2> DEFINE x == t.addr
             d == t.data
  <2>1. x \in Nat /\ d \in Seq(Nat) /\ rest \in Seq(Nat)
    BY <1>1
  <2>2. req = <<x>> \o (d \o rest)
    BY <1>2
  <2> HIDE DEF x, d
  <2>3. /\ SubSeq(<<x>> \o (d \o rest), 2, Len(d) + 1) = d
        /\ SubSeq(<<x>> \o (d \o rest), 1 + Len(d) + 1, Len(<<x>> \o (d \o rest))) = rest
        /\ Len(<<x>> \o (d \o rest)) = 1 + Len(d) + Len(rest)
    BY <2>1, CutData
  <2> QED
    BY <2>2, <2>3, Zenon DEF d
<1>7. Drop(1 + n) = rest
  BY <1>4, <1>6 DEF Drop
<1>8. Need(hdr) = 1 + n
  <2>1. t.data = <<>> => n = 0
    OBVIOUS
  <2> HIDE DEF n
  <2> QED
    BY <1>1, <1>3, <1>4, <2>1, NeedOf
<1>9. ~Malformed(hdr)
  <2>1. ~(hdr.type > CFGWRITE)
    BY <1>1, <1>3 DEF READ, WRITE, NIREAD, NIWRITE, RMWBITS, RMWSUM, CFGREAD, CFGWRITE
  <2>2. ~(Len(req) < Need(hdr))
    BY <1>4, <1>6, <1>8
  <2>3. hdr.type \in {RMWBITS, RMWSUM} => hdr.words = 1
    BY <1>1, <1>3
  <2> QED
    BY <2>1, <2>2, <2>3 DEF Malformed
<1>10. ModifyAddress(req[1]) = RefAddr(t.addr)
  BY <1>5 DEF ModifyAddress, RefAddr
<1>11. t.data = <<>> => Drop(1) = rest
  BY <1>7
<1>12. ASSUME NEW j \in 1..Len(t.data)
       PROVE  Stored(RefAddr(t.addr), SubSeq(req, 2, j + 1)) = Changed(mem, RefAddr(t.addr), t.data[j])
  <2> DEFINE v == SubSeq(req, 2, j + 1)
             d == t.data
             x == t.addr
             a == RefAddr(t.addr)
  <2>1. x \in Nat /\ d \in Seq(Nat) /\ rest \in Seq(Nat) /\ req = <<x>> \o (d \o rest) /\ j \in 1..Len(d)
    BY <1>1, <1>2
  <2>2. v = SubSeq(req, 2, j + 1)
    OBVIOUS
  <2> HIDE DEF x, d, a, v
  <2>3. v # <<>> /\ v[Len(v)] = d[j]
    <3>1. UpTo(v, x, d, rest, j)
      BY <2>1, <2>2, Zenon DEF UpTo
    <3> QED
      <4>1. x \in Nat /\ d \in Seq(Nat) /\ rest \in Seq(Nat) /\ j \in 1..Len(d)
        BY <2>1, Zenon
      <4> QED
        BY <3>1, <4>1, CutUpTo
  <2>4. Stored(a, v) = Changed(mem, a, d[j])
    BY <2>3 DEF Stored, Changed
  <2> QED
    BY <2>4 DEF v, a, d
<1> QED
  BY <1>3, <1>5, <1>6, <1>7, <1>8, <1>9, <1>10, <1>11, <1>12 DEF t, rest

\* Transactions of one memhub call.
LEMMA BlockStep ==
  ASSUME packet \in Packets, InStep(packet), fate \in Seq(Int), NEW i \in 0..(Len(Txns) - 1), NEW k,
         Begun(i, k), ReadTxn \/ WriteTxn \/ CfgRead
  PROVE  Between(i + 1, k)'
<1> DEFINE t == Txns[i + 1]
           s == Stage(i, k)
           a == RefAddr(t.addr)
           rest == Behind(Txns)[i + 1]
<1>1. UNCHANGED <<packet, mem0, other, torn>>
  BY Frozen DEF Processor, Begun
<1>2. Under(i, k) /\ mem = s.mem
  BY DEF Begun
<1>3. ASSUME NEW n \in Int, n \in Fates(t), NEW m, NEW code, NEW words,
             RefTxn(s, t, n) = Outcome(s, t, m, code, words), mem' = m, Ending(code, words, n, rest)
      PROVE  Between(i + 1, k)'
  BY <1>1, <1>2, <1>3, Finish
<1>4. /\ hdr.words = t.words /\ hdr.type = t.type
      /\ ModifyAddress(req[1]) = a
      /\ Drop(1 + Len(t.data)) = rest
      /\ SubSeq(req, 2, Len(t.data) + 1) = t.data
      /\ t.data = <<>> => Drop(1) = rest
      /\ \A n \in 1..Len(t.data) : Stored(a, SubSeq(req, 2, n + 1)) = Changed(mem, a, t.data[n])
  BY BegunFacts
<1>5. /\ t.type \in {READ, CFGREAD} => t.data = <<>>
      /\ t.type = WRITE => Len(t.data) = t.words
      /\ t.data \in Seq(Nat) /\ t.words \in Nat
  BY TxnFacts
<1> HIDE DEF t, s, a, rest
<1>6. a = RefAddr(t.addr) /\ All \in Int /\ 0 \in Int /\ 0 # All
  BY DEF a, All
<1>7. CASE ReadTxn
  <2>1. t.type = READ /\ mem' = s.mem /\ req' = rest
    BY <1>2, <1>4, <1>5, <1>7 DEF ReadTxn, Run
  <2>2. CASE Readable(a, t.words) /\ Succeed(Samples(a, t.words))
    <3>1. Samples(a, t.words) = Copies(t.words, s.mem[a])
      BY <1>2 DEF Samples, Copies
    <3>2. RefTxn(s, t, All) = Outcome(s, t, s.mem, SUCCESS, Copies(t.words, s.mem[a]))
      BY <1>6, <2>1, MeaningRead
    <3>3. All \in Fates(t)
      BY <1>6, <2>1, <2>2, FatesRead
    <3> QED
      BY <1>3, <1>6, <2>1, <2>2, <3>1, <3>2, <3>3 DEF Succeed, Ending
  <2>3. CASE ReadFails(a, t.words) /\ Respond(BUSERR_READ, <<>>, 0)
    <3>1. RefTxn(s, t, 0) = Outcome(s, t, s.mem, BUSERR_READ, <<>>)
      BY <1>6, <2>1, MeaningReadFails
    <3>2. 0 \in Fates(t)
      BY <1>6, <2>1, <2>3, FatesRead
    <3> QED
      BY <1>3, <1>6, <2>1, <2>3, <3>1, <3>2 DEF Ending
  <2> QED
    BY <1>4, <1>7, <2>2, <2>3 DEF ReadTxn
<1>8. CASE WriteTxn
  <2>1. t.type = WRITE /\ req' = rest
    BY <1>4, <1>5, <1>8 DEF WriteTxn, Run
  <2>2. ASSUME NEW n \in 0..t.words PROVE Stored(a, SubSeq(req, 2, n + 1)) = Put(s.mem, a, t.data, n)
    <3>1. CASE n = 0
      <4>1. SubSeq(req, 2, n + 1) = <<>>
        BY <3>1
      <4> QED
        BY <1>2, <3>1, <4>1 DEF Stored, Put
    <3>2. CASE n # 0
      <4>1. n \in 1..Len(t.data)
        BY <1>5, <2>1, <3>2
      <4> QED
        BY <1>2, <1>4, <3>2, <4>1 DEF Put
    <3> QED
      BY <3>1, <3>2
  <2>3. CASE /\ Writable(a, t.words)
             /\ mem' = Stored(a, SubSeq(req, 2, t.words + 1))
             /\ Succeed(<<>>)
    <3> DEFINE m == Put(s.mem, a, t.data, t.words)
    <3>1. mem' = m
      BY <1>5, <2>2, <2>3
    <3>2. RefTxn(s, t, All) = Outcome(s, t, m, SUCCESS, <<>>)
      BY <1>6, <2>1, MeaningWrite
    <3>3. All \in Fates(t)
      BY <1>5, <1>6, <2>1, <2>3, FatesWrite
    <3> HIDE DEF m
    <3> QED
      BY <1>3, <1>6, <2>1, <2>3, <3>1, <3>2, <3>3 DEF Succeed, Ending
  <2>4. ASSUME NEW n \in 0..t.words, mem' = Stored(a, SubSeq(req, 2, n + 1)),
               \/ WriteFails(a, t.words, n) /\ Respond(BUSERR_READ, <<>>, n)
               \/ WriteKills(a, t.words, n) /\ Die(n)
        PROVE  Between(i + 1, k)'
    <3> DEFINE m == Put(s.mem, a, t.data, n)
    <3>1. mem' = m
      BY <2>2, <2>4
    <3>2. n \in Int /\ n # All
      BY <1>5 DEF All
    <3>3. RefTxn(s, t, n) = Outcome(s, t, m, BUSERR_READ, <<>>)
      <4>1. RefTxn(s, t, n) = Outcome(s, t, m, WriteError(t), <<>>)
        BY <1>6, <2>1, <3>2, MeaningWriteFails
      <4> QED
        BY <2>1, <4>1 DEF WriteError
    <3>4. n \in Fates(t)
      BY <1>5, <1>6, <2>1, <2>4, FatesWrite
    <3>5. Ending(BUSERR_READ, <<>>, n, rest)
      BY <2>1, <2>4 DEF Ending
    <3> HIDE DEF m
    <3> QED
      BY <1>3, <3>1, <3>2, <3>3, <3>4, <3>5
  <2> QED
    BY <1>4, <1>8, <2>3, <2>4 DEF WriteTxn
<1>9. CASE CfgRead
  <2>1. t.type = CFGREAD /\ mem' = s.mem /\ req' = rest
    BY <1>2, <1>4, <1>5, <1>9 DEF CfgRead, Run
  <2>2. RefTxn(s, t, All) = Outcome(s, t, s.mem, SUCCESS, Copies(t.words, 0)) /\ All \in Fates(t)
    BY <2>1, MeaningCfgRead, FatesCfgRead
  <2>3. Respond(SUCCESS, Copies(t.words, 0), All)
    BY <1>4, <1>9 DEF CfgRead, Copies, Succeed
  <2> QED
    BY <1>3, <1>6, <2>1, <2>2, <2>3 DEF Ending
<1> QED
  BY <1>7, <1>8, <1>9

\* As long as no transaction ends, what is reached stays the same.
LEMMA Unmoved ==
  ASSUME UNCHANGED <<packet, mem0, other, torn, fate>>, NEW i, NEW k
  PROVE  /\ Txns' = Txns /\ Stage(i, k)' = Stage(i, k)
         /\ Fated(i)' <=> Fated(i)
         /\ Counted(i, k)' <=> Counted(i, k)
<1>1. Txns' = Txns
  BY DEF Txns
<1>2. Course' = Course
  BY DEF Course
<1>3. Stage(i, k)' = Stage(i, k)
  BY <1>1, <1>2 DEF Stage
<1>4. Fated(i)' <=> Fated(i)
  BY <1>1 DEF Fated
<1>5. Counted(i, k)' <=> Counted(i, k)
  BY <1>1 DEF Counted
<1> QED
  BY <1>1, <1>3, <1>4, <1>5

\* The last word of a loop leaves only the answer to be sent.
LEMMA LoopDone ==
  ASSUME packet \in Packets, InStep(packet), NEW i \in 0..(Len(Txns) - 1), NEW k, Under(i, k),
         UNCHANGED <<packet, mem0, other, torn, fate>>, NEW m, NEW words, All \in Fates(Txns[i + 1]),
         RefTxn(Stage(i, k), Txns[i + 1], All) = Outcome(Stage(i, k), Txns[i + 1], m, SUCCESS, words),
         mem' = m, acc' = words, rsp' = rsp, hdr' = hdr, left' = 0, at' \in {"niread", "niwrite"},
         req' = Behind(Txns)[i + 1]
  PROVE  Looped(i + 1, k)'
<1> DEFINE t == Txns[i + 1]
           s == Stage(i, k)
           r == Stage(i + 1, k)
<1>1. Len(Txns) \in Nat /\ t \in Transactions
  BY TxnFacts
<1>2. r = RefTxn(s, t, All) /\ Counted(i + 1, k)
  BY <1>1, StageNext DEF Under, Fated
<1>3. rsp = s.rsp /\ hdr = Decode(TxnWord(t)) /\ Fated(i)
  BY DEF Under
<1>4. Txns' = Txns /\ r' = r /\ Counted(i + 1, k)' /\ Fated(i)' /\ i + 1 > 0 /\ i + 1 - 1 = i
  BY <1>2, <1>3, Unmoved
<1>5. Answer(SUCCESS)' = RefAnswer(t, SUCCESS)
  <2>1. Answer(SUCCESS)' = Answer(SUCCESS)
    BY DEF Answer, SUCCESS
  <2> HIDE DEF t
  <2> QED
    BY <1>1, <1>3, <2>1, HeaderRead
<1> HIDE DEF t, s, r
<1>6. r = Outcome(s, t, m, SUCCESS, words)
  BY <1>2 DEF s, t
<1>7. r.mem = m /\ r.rsp = Grown(s.rsp, RefAnswer(t, SUCCESS), words)
  BY <1>6, OutcomeParts
<1>8. mem' = r.mem /\ Grown(rsp', Answer(SUCCESS)', acc') = r.rsp
  BY <1>3, <1>5, <1>7
<1> QED
  BY <1>4, <1>8 DEF Looped, r

\* A loop over words begins, and may have none.
LEMMA BeginStep ==
  ASSUME packet \in Packets, InStep(packet), NEW i \in 0..(Len(Txns) - 1), NEW k, Begun(i, k), BeginNi
  PROVE  Looping(i, k)' \/ Looped(i + 1, k)'
<1> DEFINE t == Txns[i + 1]
           s == Stage(i, k)
           a == RefAddr(t.addr)
           rest == Behind(Txns)[i + 1]
<1>1. UNCHANGED <<packet, mem0, other, torn, fate>>
  BY DEF BeginNi, otherVars
<1>2. Under(i, k) /\ mem = s.mem /\ rsp = s.rsp
  BY DEF Begun, Under
<1>3. ASSUME NEW m, NEW words, RefTxn(s, t, All) = Outcome(s, t, m, SUCCESS, words), All \in Fates(t),
             mem' = m, acc' = words, rsp' = rsp, hdr' = hdr, left' = 0, at' \in {"niread", "niwrite"}, req' = rest
      PROVE  Looped(i + 1, k)'
  BY <1>1, <1>2, <1>3, LoopDone
<1>4. /\ hdr.words = t.words /\ hdr.type = t.type
      /\ ModifyAddress(req[1]) = a
      /\ Drop(1) = t.data \o rest
      /\ t.data = <<>> => Drop(1) = rest
  BY BegunFacts
<1>5. /\ t.type = NIREAD => t.data = <<>>
      /\ t.type = NIWRITE => Len(t.data) = t.words
      /\ t.data \in Seq(Nat) /\ t.words \in Nat
  BY TxnFacts
<1>6. Under(i, k)' /\ Txns' = Txns /\ s' = s /\ rest' = rest
  BY <1>1, <1>2, Unmoved DEF Under, BeginNi
<1> HIDE DEF s, rest
<1>7. /\ t.type \in {NIREAD, NIWRITE} /\ base' = a /\ req' = t.data \o rest /\ (t.data = <<>> => req' = rest)
      /\ acc' = <<>> /\ left' = t.words /\ at' = (IF t.type = NIREAD THEN "niread" ELSE "niwrite")
      /\ UNCHANGED <<rsp, hdr, mem>>
  BY <1>4 DEF BeginNi, Run
<1> HIDE DEF t, a
<1>8. Copies(0, s.mem[a]) = <<>>
  BY DEF Copies
<1>9. a = RefAddr(t.addr)
  BY DEF a
<1>10. CASE t.words = 0
  <2>1. t.data = <<>>
    BY <1>5, <1>7, <1>10
  <2>2. RefTxn(s, t, All) = Outcome(s, t, s.mem, SUCCESS, <<>>) /\ All \in Fates(t)
    <3>1. CASE t.type = NIREAD
      BY <1>5, <1>8, <1>9, <1>10, <3>1, MeaningRead, FatesNiRead
    <3>2. CASE t.type = NIWRITE
      <4>1. Put(s.mem, a, t.data, t.words) = s.mem
        BY <1>10 DEF Put
      <4> QED
        BY <1>5, <1>9, <1>10, <3>2, <4>1, MeaningWrite, FatesNiWrite
    <3> QED
      BY <1>7, <3>1, <3>2
  <2> QED
    BY <1>2, <1>3, <1>7, <1>10, <2>1, <2>2
<1>11. CASE t.words # 0
  <2>1. left' \in 1..t.words /\ t.words - left' = 0 /\ ~(left' < t.words)
    BY <1>5, <1>7, <1>11
  <2>2. t.type = NIREAD => req' = rest
    BY <1>5, <1>7
  <2>3. t.type = NIWRITE => req' = SubSeq(t.data, 0 + 1, t.words) \o rest
    <3>1. SubSeq(t.data, 1, Len(t.data)) = t.data
      BY <1>5
    <3>2. t.type = NIWRITE => SubSeq(t.data, 0 + 1, t.words) = t.data
      BY <1>5, <3>1
    <3> QED
      BY <1>7, <3>2, Zenon
  <2>4. NIREAD # NIWRITE
    BY DEF NIREAD, NIWRITE
  <2>5. Txns'[i + 1] = t
    BY <1>6 DEF t
  <2>6. Stage(i, k)' = s /\ Behind(Txns')[i + 1] = rest
    BY <1>6 DEF s, rest
  <2>7. base' = RefAddr(t.addr) /\ mem' = s.mem
    BY <1>2, <1>7, <1>9
  <2>8. CASE t.type = NIREAD
    <3>1. at' = "niread" /\ acc' = Copies(0, s.mem[base'])
      BY <1>7, <1>8, <2>8
    <3> QED
      BY <1>6, <2>1, <2>2, <2>5, <2>6, <2>7, <2>8, <3>1 DEF Looping
  <2>9. CASE t.type = NIWRITE
    <3>1. at' = "niwrite"
      BY <1>7, <2>4, <2>9
    <3>2. mem' = Put(s.mem, base', t.data, 0)
      BY <2>7 DEF Put
    <3> QED
      BY <1>6, <1>7, <2>1, <2>3, <2>5, <2>6, <2>7, <2>9, <3>1, <3>2 DEF Looping
  <2> QED
    BY <1>7, <2>8, <2>9
<1> QED
  BY <1>10, <1>11

\* The first half of a read-modify-write.
LEMMA RmwReadStep ==
  ASSUME packet \in Packets, InStep(packet), fate \in Seq(Int), NEW i \in 0..(Len(Txns) - 1), NEW k,
         Begun(i, k), torn # "rmw", RmwRead
  PROVE  Modifying(i, k)' \/ Between(i + 1, k)'
<1> DEFINE t == Txns[i + 1]
           s == Stage(i, k)
           a == RefAddr(t.addr)
           rest == Behind(Txns)[i + 1]
<1>1. UNCHANGED <<packet, mem0, other, torn>>
  BY DEF RmwRead, otherVars
<1>2. Under(i, k) /\ mem = s.mem /\ rsp = s.rsp
  BY DEF Begun, Under
<1>3. ASSUME NEW n \in Int, n \in Fates(t), NEW m, NEW code, NEW words,
             RefTxn(s, t, n) = Outcome(s, t, m, code, words), mem' = m, Ending(code, words, n, rest)
      PROVE  Between(i + 1, k)'
  BY <1>1, <1>2, <1>3, Finish
<1>4. /\ hdr.type = t.type
      /\ ModifyAddress(req[1]) = a
      /\ Drop(1) = t.data \o rest
      /\ Drop(1 + Len(t.data)) = rest
      /\ t.type \in {RMWBITS, RMWSUM} => Need(hdr) = 1 + Len(t.data)
  BY BegunFacts
<1>5. fate' = fate /\ rsp' = rsp => Txns' = Txns /\ s' = s /\ rest' = rest /\ Under(i, k)'
  BY <1>1, <1>2, Unmoved DEF Under, RmwRead
<1> HIDE DEF s, rest
<1>6. /\ t.type \in {RMWBITS, RMWSUM} /\ base' = a /\ mem' = mem
      /\ \/ /\ Readable(a, 1) /\ acc' = <<mem[a]>> /\ req' = t.data \o rest /\ at' = "rmw"
            /\ UNCHANGED <<rsp, fate>>
         \/ ReadFails(a, 1) /\ Respond(BUSERR_READ, <<>>, 0) /\ req' = rest
  BY <1>4 DEF RmwRead, Run
<1>7. a = RefAddr(t.addr)
  OBVIOUS
<1> HIDE DEF t, a
<1>8. CASE Readable(a, 1) /\ acc' = <<mem[a]>> /\ req' = t.data \o rest /\ at' = "rmw" /\ UNCHANGED <<rsp, fate>>
  <2>1. Txns'[i + 1] = t
    BY <1>5, <1>8 DEF t
  <2>2. Stage(i, k)' = s /\ Behind(Txns')[i + 1] = rest
    BY <1>5, <1>8 DEF s, rest
  <2>3. base' = RefAddr(t.addr) /\ mem' = s.mem /\ acc' = <<s.mem[base']>> /\ Readable(base', 1)
    BY <1>2, <1>6, <1>7, <1>8
  <2>4. at' = "rmw" /\ req' = t.data \o rest /\ Under(i, k)' /\ torn' # "rmw"
    BY <1>1, <1>5, <1>8
  <2>5. Readable(base, 1)'
    BY <2>3 DEF Readable
  <2> QED
    BY <1>6, <2>1, <2>2, <2>3, <2>4, <2>5 DEF Modifying
<1>9. CASE ReadFails(a, 1) /\ Respond(BUSERR_READ, <<>>, 0) /\ req' = rest
  <2>1. 0 # All /\ 0 \in Int
    BY DEF All
  <2>2. RefTxn(s, t, 0) = Outcome(s, t, s.mem, BUSERR_READ, <<>>)
    <3>1. RefTxn(s, t, 0) = Outcome(s, t, s.mem, IF 0 = 0 THEN BUSERR_READ ELSE BUSERR_WRITE, <<>>)
      BY <1>6, <2>1, MeaningRmwFails
    <3> QED
      BY <3>1
  <2>3. 0 \in Fates(t)
    BY <1>6, <1>7, <1>9, FatesRmw
  <2>4. Ending(BUSERR_READ, <<>>, 0, rest)
    BY <1>9 DEF Ending
  <2> QED
    BY <1>2, <1>3, <1>6, <2>1, <2>2, <2>3, <2>4
<1> QED
  BY <1>6, <1>8, <1>9

\* A transaction whose header has been read runs, and has its words.
LEMMA BegunStep ==
  ASSUME packet \in Packets, InStep(packet), fate \in Seq(Int), NEW i \in 0..(Len(Txns) - 1), NEW k,
         Begun(i, k), torn # "rmw", Processor
  PROVE  Between(i + 1, k)' \/ Looping(i, k)' \/ Looped(i + 1, k)' \/ Modifying(i, k)'
<1>1. at = "txn"
  BY DEF Begun
<1>2. ~BadHeader
  BY BegunFacts DEF BadHeader
<1>3. ~CfgWrite
  <2>1. hdr.type = Txns[i + 1].type
    BY BegunFacts
  <2>2. Txns[i + 1].type \in {READ, WRITE, NIREAD, NIWRITE, RMWBITS, RMWSUM, CFGREAD}
    BY TxnFacts
  <2> QED
    BY <2>1, <2>2, SMTT(60)
       DEF CfgWrite, Run, READ, WRITE, NIREAD, NIWRITE, RMWBITS, RMWSUM, CFGREAD, CFGWRITE
<1>4. ~(Frame \/ Reply \/ NextTxn \/ InvalidHeader \/ EndOfPacket \/ NiReadWord \/ NiWriteWord \/ EndNi \/ RmwWrite)
  BY <1>1 DEF Frame, Reply, NextTxn, InvalidHeader, EndOfPacket, NiReadWord, NiWriteWord, EndNi, RmwWrite
<1>5. CASE ReadTxn \/ WriteTxn \/ CfgRead
  BY <1>5, BlockStep
<1>6. CASE BeginNi
  BY <1>6, BeginStep
<1>7. CASE RmwRead
  BY <1>7, RmwReadStep
<1> QED
  BY <1>2, <1>3, <1>4, <1>5, <1>6, <1>7 DEF Processor

\* One more copy.
LEMMA CopiesMore ==
  ASSUME NEW n \in Nat, NEW v
  PROVE  Append(Copies(n, v), v) = Copies(n + 1, v)
<1> DEFINE c == Copies(n, v)
           d == Copies(n + 1, v)
           e == Append(c, v)
<1>1. c \in [1..n -> {v}] /\ d \in [1..(n + 1) -> {v}] /\ n + 1 \in Nat
  BY DEF Copies
<1>2. c \in Seq({v}) /\ d \in Seq({v}) /\ Len(c) = n /\ Len(d) = n + 1
  <2> HIDE DEF c, d
  <2> QED
    BY <1>1, LenProperties
<1> HIDE DEF c, d
<1>3. e \in Seq({v}) /\ Len(e) = n + 1
  BY <1>2, AppendProperties
<1> HIDE DEF e
<1>4. \A j \in 1..Len(e) : e[j] = d[j]
  BY <1>2, <1>3
<1>5. e = d
  BY <1>2, <1>3, <1>4, SeqEqual
<1> QED
  BY <1>5 DEF e, c, d

\* A word of a loop of reads.
LEMMA NiReadStep ==
  ASSUME packet \in Packets, InStep(packet), fate \in Seq(Int), NEW i \in 0..(Len(Txns) - 1), NEW k,
         Looping(i, k), NiReadWord
  PROVE  Looping(i, k)' \/ Looped(i + 1, k)' \/ Between(i + 1, k)'
<1> DEFINE t == Txns[i + 1]
           s == Stage(i, k)
           v == s.mem[base]
           rest == Behind(Txns)[i + 1]
<1>1. UNCHANGED <<packet, mem0, other, torn>>
  BY DEF NiReadWord, otherVars
<1>2. /\ Under(i, k) /\ left \in 1..t.words /\ base = RefAddr(t.addr)
      /\ t.type = NIREAD /\ (left < t.words => Readable(base, 1)) /\ mem = s.mem
      /\ acc = Copies(t.words - left, v) /\ req = rest
  BY DEF Looping, NiReadWord
<1>3. rsp = s.rsp /\ hdr = Decode(TxnWord(t))
  BY <1>2 DEF Under
<1>4. ASSUME NEW n \in Int, n \in Fates(t), NEW m, NEW code, NEW words,
             RefTxn(s, t, n) = Outcome(s, t, m, code, words), mem' = m, Ending(code, words, n, rest)
      PROVE  Between(i + 1, k)'
  BY <1>1, <1>2, <1>4, Finish
<1>5. ASSUME NEW m, NEW words, RefTxn(s, t, All) = Outcome(s, t, m, SUCCESS, words), All \in Fates(t),
             fate' = fate,
             mem' = m, acc' = words, rsp' = rsp, hdr' = hdr, left' = 0, at' \in {"niread", "niwrite"}, req' = rest
      PROVE  Looped(i + 1, k)'
  BY <1>1, <1>2, <1>5, LoopDone
<1>6. t.words \in Nat /\ t \in Transactions
  BY TxnFacts
<1>7. fate' = fate /\ rsp' = rsp => Txns' = Txns /\ s' = s /\ rest' = rest /\ Under(i, k)'
  BY <1>1, <1>2, Unmoved DEF Under, NiReadWord
<1>8. /\ mem' = mem /\ base' = base /\ req' = req /\ hdr' = hdr
      /\ \/ /\ Readable(base, 1) /\ acc' = Append(acc, mem[base]) /\ left' = left - 1
            /\ UNCHANGED <<rsp, at, fate>> /\ at = "niread"
         \/ ReadFails(base, 1) /\ Respond(BUSERR_READ, <<>>, hdr.words - left)
  BY DEF NiReadWord
<1>9. fate' = fate /\ rsp' = rsp => Txns'[i + 1] = t /\ Stage(i, k)' = s /\ Behind(Txns')[i + 1] = rest
  BY <1>7
<1> HIDE DEF s, rest, t
<1>10. hdr.words = t.words
  BY <1>3, <1>6, HeaderRead
<1>11. CASE /\ Readable(base, 1) /\ acc' = Append(acc, mem[base]) /\ left' = left - 1
            /\ UNCHANGED <<rsp, at, fate>> /\ at = "niread"
  <2>1. left' \in 0..t.words /\ left' \in Nat /\ t.words - left' = (t.words - left) + 1 /\ t.words - left \in Nat
    BY <1>2, <1>6, <1>8, <1>11
  <2>2. acc' = Copies(t.words - left', v)
    <3> DEFINE n == t.words - left
    <3>1. n \in Nat /\ acc' = Append(Copies(n, v), v) /\ t.words - left' = n + 1
      BY <1>2, <1>8, <1>11, <2>1
    <3> HIDE DEF n, v
    <3> QED
      BY <3>1, CopiesMore
  <2>3. CASE left' = 0
    <3>1. acc' = Copies(t.words, v)
      <4>1. t.words - left' = t.words
        BY <1>6, <2>3
      <4> QED
        BY <2>2, <4>1
    <3>2. RefTxn(s, t, All) = Outcome(s, t, s.mem, SUCCESS, Copies(t.words, v)) /\ All \in Fates(t)
      BY <1>2, <1>6, <1>11, MeaningRead, FatesNiRead
    <3> HIDE DEF v
    <3> QED
      BY <1>2, <1>5, <1>8, <1>11, <2>3, <3>1, <3>2
  <2>4. CASE left' # 0
    <3> HIDE DEF v
    <3>1. left' \in 1..t.words
      BY <1>6, <2>1, <2>4
    <3>2. at' = "niread" /\ Under(i, k)' /\ base' = RefAddr(t.addr) /\ req' = rest /\ mem' = s.mem
      BY <1>2, <1>7, <1>8, <1>11
    <3>3. Readable(base, 1)'
      BY <1>8, <1>11 DEF Readable
    <3>4. acc' = Copies(t.words - left', s.mem[base'])
      BY <1>8, <2>2 DEF v
    <3> QED
      BY <1>2, <1>9, <1>11, <3>1, <3>2, <3>3, <3>4 DEF Looping
  <2> QED
    BY <2>3, <2>4
<1>12. CASE ReadFails(base, 1) /\ Respond(BUSERR_READ, <<>>, hdr.words - left)
  <2> DEFINE n == t.words - left
  <2>1. n \in 0..(t.words - 1) /\ n \in Int /\ n # All /\ (n # 0 => left < t.words)
    BY <1>2, <1>6 DEF All
  <2>2. Ending(BUSERR_READ, <<>>, n, rest)
    BY <1>2, <1>8, <1>10, <1>12 DEF Ending
  <2> HIDE DEF n
  <2>3. RefTxn(s, t, n) = Outcome(s, t, s.mem, BUSERR_READ, <<>>)
    BY <1>2, <2>1, MeaningReadFails
  <2>4. n \in Fates(t)
    BY <1>2, <1>6, <1>12, <2>1, FatesNiRead
  <2> QED
    BY <1>2, <1>4, <1>8, <2>1, <2>2, <2>3, <2>4
<1> QED
  BY <1>8, <1>11, <1>12

\* Of two writes of a register the second counts.
LEMMA ChangedTwice ==
  ASSUME NEW m, NEW a, NEW x, NEW v
  PROVE  Changed(Changed(m, a, x), a, v) = Changed(m, a, v)
  BY DEF Changed

\* Writes of two registers commute.
LEMMA ChangedBoth ==
  ASSUME NEW m, NEW a, NEW x, NEW b, NEW v, a # b
  PROVE  Changed(Changed(m, a, x), b, v) = Changed(Changed(m, b, v), a, x)
  BY DEF Changed

\* A loop of writes that is cut short at its last word has left nothing on the deque.
LEMMA NotAstray ==
  ASSUME Len(Txns) \in Nat, fate \in Seq(Int), NEW i \in 0..(Len(Txns) - 1), Len(fate) = i,
         Txns \in Seq(Transactions), Txns[i + 1].type = NIWRITE, packet' = packet, NEW n \in Int, n # All,
         fate' = Append(fate, n), ~Astray'
  PROVE  ~(n + 1 < Txns[i + 1].words)
<1>1. i \in Nat /\ i + 1 \in 1..Len(Txns)
  OBVIOUS
<1>2. Len(fate') = i + 1 /\ fate'[i + 1] = n /\ DOMAIN fate' = 1..(i + 1)
  BY <1>1, AppendProperties
<1>3. i + 1 \in DOMAIN fate' /\ i + 1 \in DOMAIN Txns
  BY <1>1, <1>2
<1> QED
  BY <1>2, <1>3 DEF Astray, Txns

\* A word of a loop of writes.
LEMMA NiWriteStep ==
  ASSUME packet \in Packets, InStep(packet), fate \in Seq(Int), NEW i \in 0..(Len(Txns) - 1), NEW k,
         Looping(i, k), NiWriteWord, ~Astray'
  PROVE  Looping(i, k)' \/ Looped(i + 1, k)' \/ Between(i + 1, k)' \/ Between(i + 1, i + 1)'
<1> DEFINE t == Txns[i + 1]
           s == Stage(i, k)
           n == t.words - left
           d == t.data
           rest == Behind(Txns)[i + 1]
<1>1. UNCHANGED <<packet, mem0, other, torn>>
  BY SMTT(60) DEF NiWriteWord, otherVars
<1>2. /\ Under(i, k) /\ left \in 1..t.words /\ base = RefAddr(t.addr)
      /\ t.type = NIWRITE /\ (left < t.words => Writable(base, 1))
      /\ acc = <<>> /\ req = SubSeq(d, n + 1, t.words) \o rest
      /\ \/ mem = Put(s.mem, base, d, n)
         \/ other # <<>> /\ other[1] = base /\ torn = "nothing" /\ k = i /\ mem = s.mem
  BY DEF Looping, NiWriteWord
<1>3. rsp = s.rsp /\ hdr = Decode(TxnWord(t)) /\ Len(fate) = i
  BY <1>2 DEF Under, Fated
<1>4. ASSUME NEW f \in Int, f \in Fates(t), NEW m, NEW code, NEW words,
             RefTxn(s, t, f) = Outcome(s, t, m, code, words), mem' = m, Ending(code, words, f, rest)
      PROVE  Between(i + 1, k)'
  BY <1>1, <1>2, <1>4, Finish
<1>5. ASSUME NEW m, NEW words, RefTxn(s, t, All) = Outcome(s, t, m, SUCCESS, words), All \in Fates(t),
             fate' = fate,
             mem' = m, acc' = words, rsp' = rsp, hdr' = hdr, left' = 0, at' \in {"niread", "niwrite"}, req' = rest
      PROVE  Looped(i + 1, k)'
  BY <1>1, <1>2, <1>5, LoopDone, Zenon
<1>6. /\ t.words \in Nat /\ d \in Seq(Nat) /\ rest \in Seq(Nat) /\ Len(d) = t.words /\ t \in Transactions
      /\ Len(Txns) \in Nat /\ Txns \in Seq(Transactions)
  BY <1>2, TxnFacts, PacketAssumption, ZenonT(60) DEF Txns
<1>7. fate' = fate /\ rsp' = rsp => Txns' = Txns /\ s' = s /\ rest' = rest /\ Under(i, k)'
  BY <1>1, <1>2, Unmoved DEF Under, NiWriteWord
<1>8. /\ acc' = acc /\ base' = base /\ hdr' = hdr /\ req' = Drop(1) /\ at = "niwrite"
      /\ \/ Writable(base, 1) /\ mem' = Stored(base, <<Head(req)>>) /\ left' = left - 1 /\ UNCHANGED <<rsp, at, fate>>
         \/ /\ mem' = mem
            /\ \/ WriteFails(base, 1, 0) /\ Respond(BUSERR_WRITE, <<>>, hdr.words - left)
               \/ WriteKills(base, 1, 0) /\ Die(hdr.words - left)
  BY DEF NiWriteWord
<1>9. fate' = fate /\ rsp' = rsp => Txns'[i + 1] = t /\ Stage(i, k)' = s /\ Behind(Txns')[i + 1] = rest
  BY <1>7
<1>10. ASSUME NEW f \in Int, f # All, fate' = Append(fate, f) PROVE ~(f + 1 < t.words)
  BY <1>1, <1>2, <1>3, <1>6, <1>10, NotAstray
<1>11. left \in 1..t.words /\ n + 1 \in 1..t.words /\ n \in Nat /\ t.words # 0 /\ n \in Int /\ n # All
  <2>1. left \in 1..t.words /\ t.words \in Nat
    BY <1>2, <1>6
  <2> QED
    BY <2>1, SMTT(60) DEF All
<1>12. Head(req) = d[n + 1] /\ req' = SubSeq(d, n + 1 + 1, t.words) \o rest
  <2> HIDE DEF t, rest
  <2> DEFINE j == n + 1
  <2>1. j \in 1..Len(d) /\ req = SubSeq(d, j, Len(d)) \o rest
    BY <1>2, <1>6, <1>11
  <2> HIDE DEF j, d
  <2>2. /\ Head(SubSeq(d, j, Len(d)) \o rest) = d[j]
        /\ SubSeq(SubSeq(d, j, Len(d)) \o rest, 2, Len(SubSeq(d, j, Len(d)) \o rest))
             = SubSeq(d, j + 1, Len(d)) \o rest
    BY <1>6, <2>1, CutSome
  <2>3. Drop(1) = SubSeq(req, 2, Len(req))
    BY DEF Drop
  <2>4. Head(req) = d[j] /\ req' = SubSeq(d, j + 1, Len(d)) \o rest
    BY <1>8, <2>1, <2>2, <2>3, Zenon
  <2> QED
    BY <1>6, <2>4 DEF j
<1>13. hdr.words = t.words
  <2> HIDE DEF t
  <2> QED
    BY <1>3, <1>6, HeaderRead
<1>14. SubSeq(d, t.words + 1, t.words) \o rest = rest
  <2> HIDE DEF t, rest
  <2>1. SubSeq(d, t.words + 1, t.words) = <<>>
    <3> HIDE DEF d
    <3> QED
      BY <1>6, SubSeqProperties
  <2> QED
    BY <1>6, <2>1, SMTT(60)
<1>15. CASE Writable(base, 1) /\ mem' = Stored(base, <<Head(req)>>) /\ left' = left - 1 /\ UNCHANGED <<rsp, at, fate>>
  <2> HIDE DEF s, rest, t, d
  <2>1. left' \in 0..t.words /\ t.words - left' = n + 1
    <3>1. left' = left - 1 /\ t.words \in Nat
      BY <1>6, <1>8, <1>15
    <3> QED
      BY <1>11, <3>1
  <2>2. mem' = Put(s.mem, base, d, n + 1)
    <3> DEFINE x == Head(req)
    <3>1. mem' = Stored(base, <<x>>)
      BY <1>8, <1>15
    <3> HIDE DEF x, n
    <3>2. Stored(base, <<x>>) = Changed(mem, base, x)
      BY DEF Stored, Changed
    <3>3. mem = Put(s.mem, base, d, n) \/ mem = s.mem
      BY <1>2
    <3>4. Changed(mem, base, d[n + 1]) = Put(s.mem, base, d, n + 1)
      <4> DEFINE mm == s.mem
      <4>1. n \in Nat /\ (mem = Put(mm, base, d, n) \/ mem = mm)
        BY <1>11, <3>3
      <4> HIDE DEF mm
      <4>2. Changed(mem, base, d[n + 1]) = Put(mm, base, d, n + 1)
        <5>1. Put(mm, base, d, n + 1) = Changed(mm, base, d[n + 1])
          BY <4>1 DEF Put
        <5>2. mem = mm \/ mem = Changed(mm, base, d[n])
          BY <4>1 DEF Put
        <5>3. Changed(Changed(mm, base, d[n]), base, d[n + 1]) = Changed(mm, base, d[n + 1])
          BY ChangedTwice
        <5> QED
          BY <5>1, <5>2, <5>3
      <4> QED
        BY <4>2 DEF mm
    <3> QED
      BY <1>12, <3>1, <3>2, <3>4 DEF x
  <2>3. CASE left' = 0
    <3>1. n + 1 = t.words
      BY <1>6, <2>1, <2>3
    <3>2. mem' = Put(s.mem, base, d, t.words) /\ req' = rest
      BY <1>12, <1>14, <2>2, <3>1
    <3>3. RefTxn(s, t, All) = Outcome(s, t, Put(s.mem, base, d, t.words), SUCCESS, <<>>) /\ All \in Fates(t)
      BY <1>2, <1>6, <1>15, MeaningWrite, FatesNiWrite, SMTT(60) DEF d
    <3> QED
      BY <1>2, <1>5, <1>8, <1>15, <2>3, <3>2, <3>3
  <2>4. CASE left' # 0
    <3>1. left' \in 1..t.words
      BY <1>6, <1>11, <2>1, <2>4
    <3>2. at' = "niwrite" /\ Under(i, k)' /\ base' = RefAddr(t.addr) /\ acc' = <<>>
      BY <1>2, <1>7, <1>8, <1>15
    <3>3. Writable(base, 1)'
      BY <1>8, <1>15 DEF Writable, Readable
    <3>4. mem' = Put(s.mem, base', t.data, t.words - left')
      BY <1>8, <2>1, <2>2 DEF d
    <3>5. req' = SubSeq(t.data, t.words - left' + 1, t.words) \o rest
      BY <1>12, <2>1 DEF d
    <3> QED
      BY <1>2, <1>9, <1>15, <3>1, <3>2, <3>3, <3>4, <3>5, Zenon DEF Looping
  <2> QED
    BY <2>3, <2>4
<1>16. CASE /\ mem' = mem
            /\ \/ WriteFails(base, 1, 0) /\ Respond(BUSERR_WRITE, <<>>, hdr.words - left)
               \/ WriteKills(base, 1, 0) /\ Die(hdr.words - left)
  <2>1. Ending(BUSERR_WRITE, <<>>, n, rest)
    <3>1. Respond(BUSERR_WRITE, <<>>, n) \/ Die(n)
      BY <1>13, <1>16
    <3>2. CASE Respond(BUSERR_WRITE, <<>>, n)
      <4>1. fate' = Append(fate, n)
        BY <3>2 DEF Respond
      <4>2. ~(n + 1 < t.words)
        BY <1>10, <1>11, <4>1
      <4>3. n + 1 = t.words
        BY <1>6, <1>11, <4>2, SMTT(60)
      <4>4. req' = rest
        BY <1>12, <1>14, <4>3
      <4> QED
        BY <3>2, <4>4 DEF Ending
    <3> QED
      BY <3>1, <3>2 DEF Ending
  <2> HIDE DEF rest, t, d
  <2>2. n \in 0..(t.words - 1) /\ (n # 0 => left < t.words)
    BY <1>6, <1>11, SMTT(60)
  <2>3. WRITE # NIWRITE
    BY DEF WRITE, NIWRITE
  <2> HIDE DEF n
  <2>4. n \in Fates(t)
    BY <1>2, <1>6, <1>16, <2>2, FatesNiWrite
  <2>5. ASSUME NEW q PROVE RefTxn(q, t, n) = Outcome(q, t, Put(q.mem, base, d, n), BUSERR_WRITE, <<>>)
    <3>1. RefTxn(q, t, n) = Outcome(q, t, Put(q.mem, base, d, n), WriteError(t), <<>>)
      BY <1>2, <1>11, MeaningWriteFails DEF d
    <3> QED
      BY <1>2, <2>3, <3>1 DEF WriteError
  <2>6. CASE mem = Put(s.mem, base, d, n)
    <3> DEFINE m == Put(s.mem, base, d, n)
    <3>1. RefTxn(s, t, n) = Outcome(s, t, m, BUSERR_WRITE, <<>>) /\ mem' = m
      BY <1>16, <2>5, <2>6
    <3> HIDE DEF m, s
    <3> QED
      BY <1>4, <1>11, <2>1, <2>4, <3>1
  <2>7. CASE other # <<>> /\ other[1] = base /\ torn = "nothing" /\ k = i /\ mem = s.mem
    <3> DEFINE q == Stage(i, Len(Txns) + 1)
               m == Put(q.mem, base, d, n)
    <3>1. s.mem = Changed(q.mem, base, other[2]) /\ s.rsp = q.rsp
      <4>1. i \in 0..Len(Txns)
        BY <1>6
      <4> QED
        BY <1>6, <2>7, <4>1, StageOther DEF Stage
    <3>2. RefTxn(q, t, n) = Outcome(q, t, m, BUSERR_WRITE, <<>>)
      BY <2>5
    <3>3. mem' = Changed(m, other[1], other[2])
      <4> DEFINE mm == q.mem
                 x == other[2]
      <4>1. mem' = Changed(mm, base, x)
        BY <1>16, <2>7, <3>1
      <4> HIDE DEF mm, x
      <4>2. Changed(Put(mm, base, d, n), base, x) = Changed(mm, base, x)
        <5>1. CASE n = 0
          BY <5>1 DEF Put
        <5>2. CASE n # 0
          BY <5>2, ChangedTwice DEF Put
        <5> QED
          BY <5>1, <5>2
      <4> QED
        BY <2>7, <4>1, <4>2 DEF mm, x
    <3>4. q = Stage(i, Len(Txns) + 1) /\ rsp = q.rsp /\ torn' = "nothing"
      BY <1>1, <1>3, <2>7, <3>1
    <3> HIDE DEF q, m
    <3>5. Between(i + 1, i + 1)'
      BY <1>1, <1>2, <1>11, <2>1, <2>4, <2>7, <3>2, <3>3, <3>4, FinishOther DEF t, rest
    <3> QED
      BY <3>5
  <2> QED
    BY <1>2, <2>6, <2>7
<1> QED
  BY <1>8, <1>15, <1>16

\* The end of a loop over words.
LEMMA EndStep ==
  ASSUME packet \in Packets, fate \in Seq(Int), NEW i \in 0..Len(Txns), NEW k, Looped(i, k), Processor
  PROVE  Between(i, k)'
<1>1. at \in {"niread", "niwrite"} /\ ~(left > 0) /\ i > 0
  BY DEF Looped
<1>2. UNCHANGED <<packet, mem0, other, torn>>
  BY <1>1, Frozen
<1>3. ~(Frame \/ Reply \/ NextTxn \/ InvalidHeader \/ EndOfPacket \/ BadHeader \/ RmwWrite)
  BY <1>1 DEF Frame, Reply, NextTxn, InvalidHeader, EndOfPacket, BadHeader, RmwWrite
<1>4. ~(ReadTxn \/ WriteTxn \/ CfgRead \/ CfgWrite \/ BeginNi \/ RmwRead)
  BY <1>1 DEF ReadTxn, WriteTxn, CfgRead, CfgWrite, BeginNi, RmwRead, Run
<1>5. ~(NiReadWord \/ NiWriteWord)
  BY <1>1 DEF NiReadWord, NiWriteWord
<1>6. EndNi
  BY <1>3, <1>4, <1>5 DEF Processor
<1>7. /\ at' = "next" /\ rsp' = Grown(rsp, Answer(SUCCESS), acc) /\ mem' = mem /\ req' = req
      /\ fate' = Append(fate, All)
  BY <1>6 DEF EndNi, Succeed, Respond, Grown
<1>8. Counted(i, k) /\ mem = Stage(i, k).mem /\ Grown(rsp, Answer(SUCCESS), acc) = Stage(i, k).rsp
      /\ req = Behind(Txns)[i] /\ Fated(i - 1) /\ All \in Fates(Txns[i])
  BY DEF Looped
<1>9. Len(Txns) \in Nat /\ Txns' = Txns
  <2>1. Txns \in Seq(Transactions)
    BY PacketAssumption DEF Txns
  <2> QED
    BY <1>2, <2>1 DEF Txns
<1> DEFINE l == i - 1
<1>10. l \in Nat /\ l \in 0..(Len(Txns) - 1) /\ l + 1 = i /\ l + 1 \in 1..Len(Txns) /\ All \in Int /\ Len(fate) = l
  BY <1>1, <1>8, <1>9 DEF Fated, All
<1>11. Fated(l) /\ All \in Fates(Txns[l + 1])
  BY <1>8, <1>10
<1> HIDE DEF l
<1>12. Fated(l + 1)'
  BY <1>2, <1>7, <1>9, <1>10, <1>11, FatedNext
<1>13. Stage(i, k)' = Stage(i, k)
  <2> DEFINE c == Course
             d == Course'
  <2>1. d[l + 1] = All /\ \A j \in 1..l : d[j] = c[j]
    BY <1>2, <1>7, <1>9, <1>10, CourseGrows
  <2>2. c[l + 1] = All
    BY <1>9, <1>10, CourseOf
  <2> HIDE DEF c, d
  <2>3. \A j \in 1..i : c[j] = d[j]
    <3>1. \A j \in 1..i : j \in 1..l \/ j = l + 1
      BY <1>10
    <3> QED
      BY <2>1, <2>2, <3>1
  <2>4. \A j \in 0..i : \A s : After(s, other, j, k) = After(s, other, j, k)
    OBVIOUS
  <2>5. RefStates(mem0, other, Txns, c, k)[i] = RefStates(mem0, other, Txns, d, k)[i]
    BY <1>9, <2>3, <2>4, StatesEqual
  <2> QED
    BY <1>2, <1>9, <2>5 DEF Stage, c, d
<1>14. Counted(i, k)' /\ Fated(i)'
  BY <1>2, <1>8, <1>9, <1>10, <1>12 DEF Counted
<1> QED
  BY <1>7, <1>8, <1>9, <1>13, <1>14 DEF Between

\* A loop over words goes on.
LEMMA LoopStep ==
  ASSUME packet \in Packets, InStep(packet), fate \in Seq(Int), NEW i \in 0..(Len(Txns) - 1), NEW k,
         Looping(i, k), Processor, ~Astray'
  PROVE  Looping(i, k)' \/ Looped(i + 1, k)' \/ Between(i + 1, k)' \/ Between(i + 1, i + 1)'
<1>1. at \in {"niread", "niwrite"} /\ left # 0
  BY DEF Looping
<1>2. ~(Frame \/ Reply \/ NextTxn \/ InvalidHeader \/ EndOfPacket \/ BadHeader \/ RmwWrite)
  BY <1>1 DEF Frame, Reply, NextTxn, InvalidHeader, EndOfPacket, BadHeader, RmwWrite
<1>3. ~(ReadTxn \/ WriteTxn \/ CfgRead \/ CfgWrite \/ BeginNi \/ RmwRead)
  BY <1>1 DEF ReadTxn, WriteTxn, CfgRead, CfgWrite, BeginNi, RmwRead, Run
<1>4. ~EndNi
  BY <1>1 DEF EndNi
<1>5. NiReadWord \/ NiWriteWord
  BY <1>2, <1>3, <1>4 DEF Processor
<1> QED
  BY <1>5, NiReadStep, NiWriteStep

\* The second half of a read-modify-write.
LEMMA RmwWriteStep ==
  ASSUME packet \in Packets, InStep(packet), fate \in Seq(Int), NEW i \in 0..(Len(Txns) - 1), NEW k,
         Modifying(i, k), Processor
  PROVE  Between(i + 1, k)' \/ Between(i + 1, i + 1)'
<1> DEFINE t == Txns[i + 1]
           s == Stage(i, k)
           v == s.mem[base]
           rest == Behind(Txns)[i + 1]
<1>1. UNCHANGED <<packet, mem0, other>>
  BY Frozen
<1>2. /\ at = "rmw" /\ Under(i, k) /\ t.type \in {RMWBITS, RMWSUM} /\ base = RefAddr(t.addr)
      /\ Readable(base, 1) /\ acc = <<v>> /\ req = t.data \o rest
      /\ \/ torn # "rmw" /\ mem = s.mem
         \/ torn = "rmw" /\ other # <<>> /\ other[1] = base /\ mem = Changed(s.mem, base, other[2])
  BY DEF Modifying
<1>3. ASSUME torn' = torn \/ (torn = "rmw" /\ torn' = "lost"), NEW n \in Int, n \in Fates(t),
             NEW m, NEW code, NEW words, RefTxn(s, t, n) = Outcome(s, t, m, code, words),
             mem' = m, Ending(code, words, n, rest)
      PROVE  Between(i + 1, k)'
  BY <1>1, <1>2, <1>3, Finish
<1>4. RmwWrite
  <2>1. ~(Frame \/ Reply \/ NextTxn \/ InvalidHeader \/ EndOfPacket \/ BadHeader \/ EndNi)
    BY <1>2 DEF Frame, Reply, NextTxn, InvalidHeader, EndOfPacket, BadHeader, EndNi
  <2>2. ~(ReadTxn \/ WriteTxn \/ CfgRead \/ CfgWrite \/ BeginNi \/ RmwRead)
    BY <1>2 DEF ReadTxn, WriteTxn, CfgRead, CfgWrite, BeginNi, RmwRead, Run
  <2>3. ~(NiReadWord \/ NiWriteWord)
    BY <1>2 DEF NiReadWord, NiWriteWord
  <2> QED
    BY <2>1, <2>2, <2>3 DEF Processor
<1>5. /\ t \in Transactions /\ t.data \in Seq(Nat) /\ rest \in Seq(Nat) /\ Len(Txns) \in Nat
      /\ t.type = RMWBITS => Len(t.data) = 2
      /\ t.type = RMWSUM => Len(t.data) = 1
  BY TxnFacts
<1>6. hdr = Decode(TxnWord(t)) /\ rsp = s.rsp /\ Counted(i, k)
  BY <1>2 DEF Under
<1>7. hdr.type = t.type
  <2> HIDE DEF t
  <2> QED
    BY <1>5, <1>6, HeaderRead
<1>8. Need(hdr) - 1 = Len(t.data)
  <2> HIDE DEF t
  <2>1. CASE t.type = RMWBITS
    <3>1. Need(hdr) = 3 /\ Len(t.data) = 2
      BY <1>5, <1>7, <2>1, NeedOf
    <3> QED
      BY <3>1
  <2>2. CASE t.type = RMWSUM
    <3>1. Need(hdr) = 2 /\ Len(t.data) = 1
      BY <1>5, <1>7, <2>2, NeedOf
    <3> QED
      BY <3>1
  <2> QED
    BY <1>2, <2>1, <2>2
<1>9. req' = rest
  <2> HIDE DEF t, rest
  <2>1. SubSeq(t.data \o rest, Len(t.data) + 1, Len(t.data \o rest)) = rest
    BY <1>5, CutFront
  <2>2. req' = Drop(Len(t.data))
    BY <1>4, <1>8 DEF RmwWrite
  <2> QED
    BY <1>2, <2>1, <2>2 DEF Drop
<1>10. RmwResult(acc[1]) = Modified(t, v)
  <2> HIDE DEF t, rest, s
  <2>1. acc[1] = v
    BY <1>2
  <2>2. req[1] = t.data[1] /\ (t.type = RMWBITS => req[2] = t.data[2])
    <3>1. t.type \in {RMWBITS, RMWSUM} /\ req = t.data \o rest
      BY <1>2
    <3> QED
      BY <1>5, <3>1, ConcatProperties
  <2> HIDE DEF v
  <2> QED
    BY <1>7, <2>1, <2>2 DEF RmwResult, Modified
<1>11. CASE /\ Writable(base, 1) /\ mem' = Stored(base, <<RmwResult(acc[1])>>) /\ Succeed(acc)
            /\ torn' = IF torn = "rmw" THEN "lost" ELSE torn
  <2> HIDE DEF t, rest, s
  <2>1. mem' = Stored(base, <<Modified(t, v)>>)
    BY <1>10, <1>11
  <2>2. acc = Copies(1, v)
    BY <1>2 DEF Copies
  <2>3. Changed(mem, base, Modified(t, v)) = Changed(s.mem, base, Modified(t, v))
    <3> DEFINE x == Modified(t, v)
               mm == s.mem
               y == other[2]
    <3>1. mem = mm \/ mem = Changed(mm, base, y)
      BY <1>2
    <3> HIDE DEF x, mm, y
    <3>2. Changed(mem, base, x) = Changed(mm, base, x)
      BY <3>1, ChangedTwice
    <3> QED
      BY <3>2 DEF x, mm
  <2>4. RefTxn(s, t, All) = Outcome(s, t, Changed(s.mem, base, Modified(t, v)), SUCCESS, Copies(1, v))
    BY <1>2, MeaningRmw
  <2>5. All \in Fates(t) /\ All \in Int
    BY <1>2, <1>11, FatesRmw DEF All
  <2> HIDE DEF v
  <2>6. mem' = Changed(s.mem, base, Modified(t, v))
    <3> DEFINE x == Modified(t, v)
    <3> HIDE DEF x
    <3>1. Stored(base, <<x>>) = Changed(mem, base, x)
      BY DEF Stored, Changed
    <3> QED
      BY <2>1, <2>3, <3>1 DEF x
  <2>7. Ending(SUCCESS, Copies(1, v), All, rest)
    BY <1>9, <1>11, <2>2 DEF Ending, Succeed
  <2>8. torn' = torn \/ (torn = "rmw" /\ torn' = "lost")
    BY <1>11
  <2> QED
    BY <1>3, <2>4, <2>5, <2>6, <2>7, <2>8
<1>12. CASE /\ (WriteFails(base, 1, 0) /\ Respond(BUSERR_WRITE, <<>>, 1)) \/ (WriteKills(base, 1, 0) /\ Die(1))
            /\ torn' = (IF torn = "rmw" THEN "nothing" ELSE torn) /\ mem' = mem
  <2>1. Ending(BUSERR_WRITE, <<>>, 1, rest)
    BY <1>9, <1>12 DEF Ending
  <2>2. 1 # All /\ 1 \in Int /\ 1 # 0
    BY DEF All
  <2>3. RefTxn(s, t, 1) = Outcome(s, t, s.mem, BUSERR_WRITE, <<>>)
    <3> HIDE DEF s, t
    <3>1. RefTxn(s, t, 1) = Outcome(s, t, s.mem, IF 1 = 0 THEN BUSERR_READ ELSE BUSERR_WRITE, <<>>)
      BY <1>2, <2>2, MeaningRmwFails
    <3> QED
      BY <2>2, <3>1
  <2>4. 1 \in Fates(t)
    <3> HIDE DEF t
    <3> QED
      BY <1>2, <1>12, FatesRmw
  <2>5. CASE torn # "rmw" /\ mem = s.mem
    <3>1. torn' = torn /\ mem' = s.mem
      BY <1>12, <2>5
    <3> HIDE DEF s, t, rest
    <3> QED
      BY <1>3, <2>1, <2>2, <2>3, <2>4, <3>1
  <2>6. CASE torn = "rmw" /\ other # <<>> /\ other[1] = base /\ mem = Changed(s.mem, base, other[2])
    <3>1. k = Len(Txns) + 1
      BY <1>6, <2>6 DEF Counted
    <3>2. s = Stage(i, Len(Txns) + 1)
      BY <3>1
    <3>3. torn' = "nothing" /\ mem' = Changed(s.mem, other[1], other[2])
      BY <1>12, <2>6
    <3> HIDE DEF s
    <3>4. Between(i + 1, i + 1)'
      BY <1>1, <1>2, <1>6, <2>1, <2>2, <2>3, <2>4, <2>6, <3>2, <3>3, FinishOther
    <3> QED
      BY <3>4
  <2> QED
    BY <1>2, <2>5, <2>6
<1>13. \/ /\ Writable(base, 1) /\ mem' = Stored(base, <<RmwResult(acc[1])>>) /\ Succeed(acc)
          /\ torn' = IF torn = "rmw" THEN "lost" ELSE torn
       \/ /\ (WriteFails(base, 1, 0) /\ Respond(BUSERR_WRITE, <<>>, 1)) \/ (WriteKills(base, 1, 0) /\ Die(1))
          /\ torn' = (IF torn = "rmw" THEN "nothing" ELSE torn) /\ mem' = mem
  BY <1>4, Zenon DEF RmwWrite
<1> HIDE DEF t, s, v, rest
<1> QED
  BY <1>11, <1>12, <1>13

\* The state before any transaction.
LEMMA StageZero ==
  ASSUME Len(Txns) \in Nat, NEW k
  PROVE  Stage(0, k).rsp = <<>> /\ (k # 0 => Stage(0, k).mem = mem0)
<1> DEFINE s0 == [mem |-> mem0, rsp |-> <<>>]
           r == RefStates(mem0, other, Txns, Course, k)
<1>1. r[0] = After(s0, other, 0, k)
      /\ \A j \in 1..Len(Txns) : r[j] = After(RefTxn(r[j - 1], Txns[j], Course[j]), other, j, k)
  BY StatesDef
<1> HIDE DEF r
<1>2. Shaped(s0) /\ s0.rsp = <<>> /\ s0.mem = mem0
  <2>1. <<>> \in Seq({})
    OBVIOUS
  <2>2. Shaped(s0)
    BY <2>1, Zenon DEF Shaped
  <2> QED
    BY <2>2
<1> HIDE DEF s0
<1>3. r[0] = IF k = 0 THEN RefOther(s0, other) ELSE s0
  BY <1>1 DEF After
<1>4. r[0].rsp = <<>> /\ (k # 0 => r[0].mem = mem0)
  BY <1>2, <1>3, OtherShaped, ZenonT(60)
<1> QED
  BY <1>4 DEF r, Stage

\* Between transactions: the next header, the end of the packet and the reply.
LEMMA BetweenStep ==
  ASSUME packet \in Packets, InStep(packet), NEW i \in 0..Len(Txns), NEW k, Between(i, k), Processor
  PROVE  Between(i, k)' \/ (i < Len(Txns) /\ Begun(i, k)')
<1> DEFINE s == Stage(i, k)
<1>1. UNCHANGED <<packet, mem0, other, torn>>
  BY Frozen DEF Between
<1>3. /\ at \in {"frame", "next", "reply", "done", "dead"} /\ Counted(i, k) /\ Fated(i) /\ mem = s.mem
      /\ at \notin {"done", "dead"} => rsp = s.rsp
      /\ at = "frame" => i = 0
      /\ at = "next" => req = Behind(Txns)[i]
      /\ at \in {"reply", "done"} => i = Len(Txns)
  BY DEF Between
<1>4. Txns \in Seq(Transactions) /\ Len(Txns) \in Nat
  <2>1. Txns \in Seq(Transactions)
    BY PacketAssumption DEF Txns
  <2> QED
    BY <2>1
<1>5. ~(ReadTxn \/ WriteTxn \/ CfgRead \/ CfgWrite \/ BeginNi \/ RmwRead \/ BadHeader)
  BY <1>3 DEF ReadTxn, WriteTxn, CfgRead, CfgWrite, BeginNi, RmwRead, Run, BadHeader
<1>6. ~(NiReadWord \/ NiWriteWord \/ EndNi \/ RmwWrite)
  BY <1>3 DEF NiReadWord, NiWriteWord, EndNi, RmwWrite
<1>0. fate' = fate
  BY <1>5, <1>6 DEF Processor, Frame, Reply, NextTxn, InvalidHeader, EndOfPacket
<1>2. Txns' = Txns /\ s' = s /\ Counted(i, k)' /\ Fated(i)'
  BY <1>0, <1>1, <1>3, Unmoved
<1>7. CASE Frame
  <2> DEFINE b == packet.header
  <2>1. b # <<>> /\ StandardEndian(b) /\ b[4] % 16 = 0
    BY DEF InStep, ControlPacket
  <2>2. PacketType(b) = 0
    BY <2>1 DEF PacketType, ReverseEndian
  <2>3. req' = Encode(Txns) /\ at' = "next" /\ mem' = mem /\ rsp' = rsp /\ i = 0
    BY <1>3, <1>7, <2>1, <2>2 DEF Frame, Txns
  <2>4. req' = Behind(Txns)[i]
    BY <2>3 DEF Encode
  <2>5. Stage(i, k)' = s /\ mem' = s.mem /\ rsp' = s.rsp
    BY <1>2, <1>3, <1>7, <2>3 DEF Frame
  <2> HIDE DEF s
  <2> QED
    BY <1>2, <2>3, <2>4, <2>5 DEF Between
<1>8. ASSUME at = "next", i < Len(Txns)
      PROVE  LET t == Txns[i + 1]
             IN  /\ req # <<>> /\ Head(req) = TxnWord(t)
                 /\ Tail(req) = <<t.addr>> \o (t.data \o Behind(Txns)[i + 1])
  <2> DEFINE t == Txns[i + 1]
             rest == Behind(Txns)[i + 1]
             u == <<t.addr>> \o (t.data \o rest)
  <2>1. i \in 0..(Len(Txns) - 1)
    BY <1>4, <1>8
  <2>2. /\ TxnWord(t) \in Nat /\ t.addr \in Nat /\ t.data \in Seq(Nat) /\ rest \in Seq(Nat)
        /\ req = TxnWords(t) \o rest
    BY <1>3, <1>8, <2>1, TxnFacts
  <2> HIDE DEF t, rest
  <2>3. req = <<TxnWord(t)>> \o u /\ u \in Seq(Nat)
    <3> DEFINE x == TxnWord(t)
               y == t.addr
               d == t.data
    <3>1. x \in Nat /\ y \in Nat /\ d \in Seq(Nat)
      BY <2>2
    <3>2. req = (<<x, y>> \o d) \o rest
      BY <2>2 DEF TxnWords
    <3> HIDE DEF x, y, d
    <3>3. <<x, y>> = <<x>> \o <<y>> /\ <<x>> \in Seq(Nat) /\ <<y>> \in Seq(Nat)
      <4>1. <<x, y>> \in Seq(Nat) /\ <<x>> \in Seq(Nat) /\ <<y>> \in Seq(Nat)
        BY <3>1
      <4>2. Len(<<x, y>>) = 2 /\ Len(<<x>>) = 1 /\ Len(<<y>>) = 1 /\ <<x, y>>[1] = x /\ <<x, y>>[2] = y
            /\ <<x>>[1] = x /\ <<y>>[1] = y
        OBVIOUS
      <4> DEFINE z == <<x>> \o <<y>>
      <4>3. z \in Seq(Nat) /\ Len(z) = 2 /\ z[1] = x /\ z[2] = y
        BY <4>1, <4>2, ConcatProperties
      <4> HIDE DEF z
      <4>4. \A j \in 1..Len(z) : z[j] = <<x, y>>[j]
        BY <4>2, <4>3
      <4>5. z = <<x, y>>
        BY <4>1, <4>2, <4>3, <4>4, SeqEqual
      <4> QED
        BY <4>1, <4>5 DEF z
    <3>4. <<y>> \o d \in Seq(Nat) /\ d \o rest \in Seq(Nat) /\ <<y>> \o (d \o rest) \in Seq(Nat)
      BY <2>2, <3>1, <3>3, ConcatProperties
    <3>5. <<x, y>> \o d = <<x>> \o (<<y>> \o d)
      BY <3>1, <3>3, ConcatAssociative
    <3>6. (<<x>> \o (<<y>> \o d)) \o rest = <<x>> \o ((<<y>> \o d) \o rest)
      <4> DEFINE w == <<y>> \o d
      <4>1. w \in Seq(Nat)
        BY <3>4
      <4> HIDE DEF w
      <4>2. <<x>> \in Seq(Nat) /\ rest \in Seq(Nat)
        BY <2>2, <3>3
      <4>3. (<<x>> \o w) \o rest = <<x>> \o (w \o rest)
        BY <4>1, <4>2, ConcatAssociative
      <4> QED
        BY <4>3 DEF w
    <3>7. (<<y>> \o d) \o rest = <<y>> \o (d \o rest)
      BY <2>2, <3>1, <3>3, ConcatAssociative, SMTT(60)
    <3> QED
      BY <3>2, <3>4, <3>5, <3>6, <3>7, Zenon DEF x, y, d
  <2> HIDE DEF u
  <2>4. <<TxnWord(t)>> \o u # <<>> /\ Head(<<TxnWord(t)>> \o u) = TxnWord(t) /\ Tail(<<TxnWord(t)>> \o u) = u
    <3> DEFINE x == TxnWord(t)
    <3>1. x \in Nat
      BY <2>2
    <3> HIDE DEF x
    <3>2. <<x>> \o u # <<>> /\ Head(<<x>> \o u) = x /\ Tail(<<x>> \o u) = u
      BY <2>3, <3>1, CutOne
    <3> QED
      BY <3>2 DEF x
  <2> QED
    BY <2>3, <2>4, Zenon DEF u, t, rest
<1>9. ASSUME at = "next", i = Len(Txns) PROVE req = <<>>
  <2>1. \A j \in 1..Len(Txns) : TxnWords(Txns[j]) \in Seq(Nat)
    <3>1. ASSUME NEW u \in Transactions PROVE TxnWords(u) \in Seq(Nat)
      <4>1. WordSet(u) \subseteq Nat /\ TxnWords(u) \in Seq(WordSet(u))
        BY WordSetTypes
      <4> QED
        BY <4>1, SeqMonotone
    <3> QED
      BY <1>4, <3>1
  <2> QED
    BY <1>3, <1>4, <1>9, <2>1, BehindDef
<1> HIDE DEF s
<1>10. ASSUME at = "next", i < Len(Txns)
       PROVE  LET h == Decode(Head(req)) IN h.version = 2 /\ h.info = REQUEST /\ h = Decode(TxnWord(Txns[i + 1]))
  <2> DEFINE t == Txns[i + 1]
  <2>1. i \in 0..(Len(Txns) - 1)
    BY <1>4, <1>10
  <2>2. t \in Transactions
    BY <2>1, TxnFacts
  <2>3. t.type \in Field(4) /\ t.id \in Field(12) /\ t.words \in Field(8)
    BY <2>2 DEF Transactions
  <2> HIDE DEF t
  <2>4. t.type \in Nat /\ t.type < 16 /\ t.id \in Nat /\ t.id < 4096 /\ t.words \in Nat /\ t.words < 256
    BY <2>3, FieldBounds
  <2>5. Decode(TxnWord(t)) = [version |-> 2, id |-> t.id, words |-> t.words, type |-> t.type, info |-> REQUEST]
    BY <2>4, DecodeSerialize DEF TxnWord
  <2>6. Head(req) = TxnWord(t)
    BY <1>8, <1>10 DEF t
  <2> QED
    BY <2>5, <2>6 DEF t
<1>11. CASE NextTxn
  <2>1. at = "next" /\ req # <<>>
    BY <1>11 DEF NextTxn
  <2>2. i < Len(Txns)
    BY <1>4, <1>9, <2>1
  <2>3. /\ hdr' = Decode(Head(req)) /\ req' = Tail(req) /\ at' = "txn" /\ rsp' = rsp /\ mem' = mem
    BY <1>11 DEF NextTxn
  <2>4. hdr' = Decode(TxnWord(Txns[i + 1]))
    BY <1>10, <2>1, <2>2, <2>3
  <2>5. req' = <<Txns[i + 1].addr>> \o (Txns[i + 1].data \o Behind(Txns)[i + 1])
    BY <1>8, <2>1, <2>2, <2>3
  <2>6. Stage(i, k)' = s /\ mem' = s.mem /\ rsp' = s.rsp
    BY <1>2, <1>3, <2>1, <2>3 DEF s
  <2>7. Under(i, k)'
    BY <1>2, <2>2, <2>4, <2>6 DEF Under
  <2> QED
    BY <1>2, <2>2, <2>3, <2>5, <2>6, <2>7 DEF Begun
<1>12. CASE InvalidHeader
  <2>1. /\ at = "next" /\ req # <<>>
        /\ LET h == Decode(Head(req)) IN h.version # 2 \/ h.info # REQUEST
    BY <1>12 DEF InvalidHeader
  <2>2. i < Len(Txns)
    BY <1>4, <1>9, <2>1
  <2> QED
    BY <1>10, <2>1, <2>2
<1>13. CASE EndOfPacket
  <2>1. at = "next" /\ req = <<>> /\ at' = "reply" /\ rsp' = rsp /\ mem' = mem
    BY <1>13 DEF EndOfPacket
  <2>2. i = Len(Txns)
    BY <1>4, <1>8, <2>1
  <2>3. Stage(i, k)' = s /\ mem' = s.mem /\ rsp' = s.rsp
    BY <1>2, <1>3, <2>1 DEF s
  <2> QED
    BY <1>2, <2>1, <2>2, <2>3 DEF Between
<1>14. CASE Reply
  <2>1. /\ at = "reply" /\ at' = "done" /\ rsp' = rsp /\ mem' = mem
        /\ reply' = IF rsp = <<>> THEN <<>> ELSE <<packet.header>> \o rsp
    BY <1>14 DEF Reply
  <2>2. i = Len(Txns) /\ rsp = s.rsp
    BY <1>3, <2>1
  <2>3. Txns = <<>> <=> rsp = <<>>
    <3>1. Txns # <<>> => i # 0
      BY <1>4, <2>2
    <3>2. i # 0 => s.rsp # <<>>
      BY StageShaped DEF s, Stage
    <3>3. Txns = <<>> => i = 0
      BY <2>2
    <3>4. i = 0 => s.rsp = <<>>
      BY <1>4, StageZero DEF s
    <3> QED
      BY <2>2, <3>1, <3>2, <3>3, <3>4
  <2>4. Stage(i, k)' = s /\ mem' = s.mem /\ packet' = packet
    BY <1>1, <1>2, <1>3, <2>1 DEF s
  <2>5. reply' = IF Txns = <<>> THEN <<>> ELSE <<packet.header>> \o s.rsp
    BY <2>1, <2>2, <2>3
  <2> QED
    BY <1>2, <2>1, <2>2, <2>4, <2>5 DEF Between
<1> QED
  BY <1>5, <1>6, <1>7, <1>11, <1>12, <1>13, <1>14 DEF Processor

-----------------------------------------------------------------------------
(* A write of another process *)

\* It counts at once, unless a read-modify-write of its register is under way: that
\* one undoes it.
LEMMA OtherStep ==
  ASSUME ParseIInv, OtherWrite, InStep(packet), torn' # "niread", Len(Txns) \in Nat,
         NEW i \in 0..Len(Txns), NEW k, Reached(i, k)
  PROVE  \E l \in 0..(Len(Txns) + 1) : Reached(i, l)'
<1> DEFINE N == Len(Txns)
           s == Stage(i, N + 1)
           r == Stage(i, i)'
<1>1. /\ packet \in Packets /\ other = <<>> /\ torn = "nothing" /\ at \notin Ends
      /\ UNCHANGED <<packet, req, rsp, at, hdr, base, acc, left, mem0, fate>>
  BY DEF ParseIInv, WordsIInv, OtherWrite, txnVars
<1>2. PICK w \in OtherWrites :
        /\ other' = w
        /\ mem' = [mem EXCEPT ![w[1]] = w[2]]
        /\ torn' = IF w[1] = base /\ at = "rmw" THEN "rmw"
                   ELSE IF w[1] = base /\ at = "niread" /\ left \in 1..(hdr.words - 1) THEN "niread"
                   ELSE "nothing"
  BY DEF OtherWrite
<1>3. w # <<>>
  <2>1. \E a, v : w = <<a, v>>
    BY PacketAssumption
  <2> QED
    BY <2>1
<1>4. mem' = Changed(mem, w[1], w[2])
  BY <1>2 DEF Changed
<1>5. Txns' = Txns /\ other # other' /\ other' # <<>> /\ Course' = Course /\ \A j : Fated(j)' <=> Fated(j)
  BY <1>1, <1>2, <1>3 DEF Txns, Course, Fated
<1>6. k = N + 1
  <2>1. Counted(i, k)
    BY DEF Reached, Between, Begun, Looping, Looped, Modifying, Under
  <2> QED
    BY <1>1, <2>1 DEF Counted
<1>0. RefStates(mem0, w, Txns, Course, N + 1)[i] = s
  <2> DEFINE c == Course
             m == N + 1
  <2>1. \A j \in 0..i : j # m
    OBVIOUS
  <2> HIDE DEF c, m
  <2>2. RefStates(mem0, other, Txns, c, m)[i] = RefStates(mem0, w, Txns, c, m)[i]
    BY <2>1, StatesAgree, SMTT(60)
  <2> QED
    BY <2>2 DEF Stage, c, m
<1>7. r.mem = Changed(s.mem, w[1], w[2]) /\ r.rsp = s.rsp
  <2> DEFINE c == Course
             q == RefStates(mem0, w, Txns, c, N + 1)[i]
             z == RefStates(mem0, w, Txns, c, i)[i]
  <2>1. r = z
    BY <1>1, <1>2, <1>5 DEF Stage
  <2> HIDE DEF c
  <2>2. z.mem = Changed(q.mem, w[1], w[2]) /\ z.rsp = q.rsp
    BY <1>1, <1>3, StageOther
  <2>3. q = s
    BY <1>0 DEF c
  <2> HIDE DEF q, z, r, s
  <2> QED
    BY <2>1, <2>2, <2>3
<1>8. torn' = "nothing" => Counted(i, i)'
  BY <1>5 DEF Counted
<1>9. i \in 0..(N + 1) /\ N + 1 \in 0..(N + 1) /\ i # N + 1
  OBVIOUS
<1>10. CASE w[1] = base /\ at = "rmw"
  <2>1. torn' = "rmw"
    BY <1>2, <1>10
  <2>2. Modifying(i, N + 1)
    BY <1>6, <1>10 DEF Reached, Between, Begun, Looping, Looped
  <2>3. Stage(i, k)' = s
    BY <1>0, <1>1, <1>2, <1>5, <1>6 DEF Stage
  <2>4. Counted(i, k)'
    BY <1>5, <1>6, <2>1 DEF Counted
  <2> DEFINE t == Txns[i + 1]
  <2>5. /\ i < N /\ Fated(i) /\ hdr = Decode(TxnWord(t)) /\ rsp = s.rsp /\ t.type \in {RMWBITS, RMWSUM}
        /\ base = RefAddr(t.addr) /\ Readable(base, 1) /\ mem = s.mem
        /\ acc = <<s.mem[base]>> /\ req = t.data \o Behind(Txns)[i + 1]
    BY <1>1, <2>2 DEF Modifying, Under
  <2> HIDE DEF s
  <2>6. Txns'[i + 1] = t
    BY <1>5
  <2> HIDE DEF t
  <2>7. Under(i, k)'
    BY <1>1, <1>5, <2>3, <2>4, <2>5, <2>6 DEF Under
  <2>8. Readable(base, 1)'
    BY <1>1, <2>5 DEF Readable
  <2>9. other'[1] = base' /\ mem' = Changed(s.mem, base', other'[2])
    BY <1>1, <1>2, <1>4, <1>10, <2>5
  <2>10. Modifying(i, k)'
    BY <1>1, <1>5, <1>10, <2>1, <2>3, <2>5, <2>6, <2>7, <2>8, <2>9 DEF Modifying
  <2>11. Reached(i, k)'
    BY <2>10 DEF Reached
  <2> QED
    BY <1>6, <1>9, <2>11
<1>11. CASE ~(w[1] = base /\ at = "rmw")
  <2>1. torn' = "nothing" /\ ~(w[1] = base /\ at = "niread" /\ left \in 1..(hdr.words - 1))
    BY <1>2, <1>11
  <2>2. Counted(i, i)'
    BY <1>8, <2>1
  <2>3. Stage(i, i)' = r
    OBVIOUS
  <2> HIDE DEF s, r
  <2>4. SUFFICES Reached(i, i)'
    BY <1>9
  <2>5. CASE Between(i, k)
    <3>1. /\ mem = s.mem /\ rsp = s.rsp /\ at \in {"frame", "next", "reply"} /\ Fated(i)
          /\ at = "frame" => i = 0
          /\ at = "next" => req = Behind(Txns)[i]
          /\ at \in {"reply", "done"} => i = Len(Txns)
      BY <1>1, <1>6, <2>5 DEF Between, Ends, s
    <3>2. mem' = r.mem /\ rsp' = r.rsp
      BY <1>1, <1>4, <1>7, <3>1
    <3>3. Between(i, i)'
      BY <1>1, <1>5, <2>2, <2>3, <3>1, <3>2 DEF Between
    <3> QED
      BY <3>3 DEF Reached
  <2>6. CASE Looped(i, k)
    <3>1. /\ at \in {"niread", "niwrite"} /\ left = 0 /\ i > 0 /\ mem = s.mem
          /\ Grown(rsp, Answer(SUCCESS), acc) = s.rsp /\ req = Behind(Txns)[i]
          /\ Fated(i - 1) /\ All \in Fates(Txns[i])
      BY <1>6, <2>6 DEF Looped, s
    <3>2. mem' = r.mem
      BY <1>4, <1>7, <3>1
    <3>3. Answer(SUCCESS)' = Answer(SUCCESS)
      BY <1>1 DEF Answer, SUCCESS
    <3>4. Grown(rsp', Answer(SUCCESS)', acc') = r.rsp
      BY <1>1, <1>7, <3>1, <3>3
    <3>5. Looped(i, i)'
      BY <1>1, <1>5, <2>2, <2>3, <3>1, <3>2, <3>4 DEF Looped
    <3> QED
      BY <3>5 DEF Reached
  <2>7. ASSUME Under(i, k) PROVE Under(i, i)'
    BY <1>1, <1>5, <1>6, <1>7, <2>2, <2>3, <2>7 DEF Under, s
  <2> DEFINE t == Txns[i + 1]
             rest == Behind(Txns)[i + 1]
  <2>8. Txns'[i + 1] = t /\ Behind(Txns')[i + 1] = rest
    BY <1>5
  <2> HIDE DEF t, rest
  <2>9. CASE Begun(i, k)
    <3>1. at = "txn" /\ Under(i, k) /\ mem = s.mem /\ req = <<t.addr>> \o (t.data \o rest)
      BY <1>6, <2>9 DEF Begun, s, t, rest
    <3>2. mem' = r.mem
      BY <1>4, <1>7, <3>1
    <3>3. Begun(i, i)'
      BY <1>1, <2>3, <2>7, <2>8, <3>1, <3>2 DEF Begun
    <3> QED
      BY <3>3 DEF Reached
  <2>10. ASSUME base \in DOMAIN s.mem, w[1] # base PROVE r.mem[base] = s.mem[base]
    BY <1>7, <2>10 DEF Changed
  <2>11. CASE Modifying(i, k)
    <3>1. /\ at = "rmw" /\ Under(i, k) /\ t.type \in {RMWBITS, RMWSUM} /\ base = RefAddr(t.addr)
          /\ Readable(base, 1) /\ mem = s.mem /\ acc = <<s.mem[base]>> /\ req = t.data \o rest
      BY <1>1, <1>6, <2>11 DEF Modifying, s, t, rest
    <3>2. mem' = r.mem
      BY <1>4, <1>7, <3>1
    <3>3. base \in DOMAIN s.mem /\ w[1] # base
      <4>1. mem = [a \in Registers |-> mem[a]]
        BY DEF ParseIInv, WordsIInv
      <4>2. base \in Registers
        BY <3>1 DEF Readable, Registers
      <4>3. DOMAIN mem = Registers
        BY <4>1
      <4> QED
        BY <1>11, <3>1, <4>2, <4>3
    <3>4. acc' = <<r.mem[base']>> /\ Readable(base, 1)'
      BY <1>1, <2>10, <3>1, <3>3 DEF Readable
    <3>5. torn' # "rmw"
      BY <2>1
    <3>6. Modifying(i, i)'
      BY <1>1, <2>3, <2>7, <2>8, <3>1, <3>2, <3>4, <3>5 DEF Modifying
    <3> QED
      BY <3>6 DEF Reached
  <2>12. CASE Looping(i, k)
    <3> DEFINE n == t.words - left
    <3>1. Under(i, k) /\ left \in 1..t.words /\ base = RefAddr(t.addr)
      BY <2>12 DEF Looping, t
    <3>2. i \in 0..(N - 1) /\ t.words \in Nat /\ t \in Transactions
      <4>1. i \in 0..(N - 1)
        BY <3>1 DEF Under
      <4> QED
        BY <1>1, <4>1, TxnFacts DEF t
    <3>3. Under(i, i)'
      BY <2>7, <3>1
    <3>4. CASE at = "niread"
      <4>1. /\ t.type = NIREAD /\ (left < t.words => Readable(base, 1))
            /\ mem = s.mem /\ acc = Copies(n, s.mem[base]) /\ req = rest
        BY <1>6, <2>12, <3>4 DEF Looping, s, t, rest
      <4>2. mem' = r.mem
        BY <1>4, <1>7, <4>1
      <4>3. acc = Copies(n, r.mem[base])
        <5>1. CASE left = t.words
          <6>1. n = 0
            BY <3>2, <5>1
          <6>2. \A v : Copies(0, v) = <<>>
            BY DEF Copies
          <6> QED
            BY <4>1, <6>1, <6>2
        <5>2. CASE left # t.words
          <6>1. hdr.words = t.words
            <7>1. hdr = Decode(TxnWord(t))
              BY <3>1 DEF Under, t
            <7> QED
              BY <3>2, <7>1, HeaderRead
          <6>2. left \in 1..(hdr.words - 1) /\ left < t.words
            BY <3>1, <3>2, <5>2, <6>1
          <6>3. base \in Registers
            BY <4>1, <6>2 DEF Readable, Registers
          <6>4. mem = [a \in Registers |-> mem[a]]
            BY DEF ParseIInv, WordsIInv
          <6>5. DOMAIN mem = Registers
            BY <6>4
          <6>6. r.mem[base] = s.mem[base]
            BY <2>1, <2>10, <3>4, <4>1, <6>2, <6>3, <6>5
          <6> QED
            BY <4>1, <6>6
        <5> QED
          BY <5>1, <5>2
      <4>4. left' \in 1..t.words /\ base' = RefAddr(t.addr) /\ at' = "niread" /\ req' = rest
            /\ acc' = Copies(t.words - left', r.mem[base'])
        BY <1>1, <3>1, <3>4, <4>1, <4>3
      <4>5. left' < t.words => Readable(base, 1)'
        BY <1>1, <4>1 DEF Readable
      <4>6. Looping(i, i)'
        BY <2>3, <2>8, <3>3, <4>1, <4>2, <4>4, <4>5, SMTT(60) DEF Looping
      <4> QED
        BY <4>6 DEF Reached
    <3>5. CASE at # "niread"
      <4>1. /\ at = "niwrite" /\ t.type = NIWRITE /\ (left < t.words => Writable(base, 1))
            /\ mem = Put(s.mem, base, t.data, n)
            /\ acc = <<>> /\ req = SubSeq(t.data, n + 1, t.words) \o rest
        BY <1>1, <1>6, <2>12, <3>5 DEF Looping, s, t, rest
      <4>2. \/ mem' = Put(r.mem, base, t.data, n)
            \/ w[1] = base /\ mem' = r.mem
        <5> DEFINE x == w[1]
                   v == w[2]
                   mm == s.mem
                   y == t.data[n]
        <5>1. mem = mm \/ mem = Changed(mm, base, y)
          BY <4>1 DEF Put
        <5>2. mem' = Changed(mem, x, v) /\ r.mem = Changed(mm, x, v)
          BY <1>4, <1>7
        <5> HIDE DEF x, v, mm
        <5>3. CASE x = base
          BY <5>1, <5>2, <5>3, ChangedTwice DEF x
        <5>4. CASE x # base
          <6>1. CASE n = 0
            <7>1. mem = mm
              BY <4>1, <6>1 DEF Put, mm
            <7> QED
              BY <5>2, <6>1, <7>1 DEF Put
          <6>2. CASE n # 0
            <7>1. mem = Changed(mm, base, y) /\ Put(r.mem, base, t.data, n) = Changed(r.mem, base, y)
              BY <4>1, <6>2 DEF Put, mm
            <7> HIDE DEF y
            <7>2. Changed(Changed(mm, base, y), x, v) = Changed(Changed(mm, x, v), base, y)
              BY <5>4, ChangedBoth
            <7> QED
              BY <5>2, <7>1, <7>2
          <6> QED
            BY <6>1, <6>2
        <5> QED
          BY <5>3, <5>4
      <4>3. \/ mem' = Put(r.mem, base', t.data, t.words - left')
            \/ other' # <<>> /\ other'[1] = base' /\ torn' = "nothing" /\ mem' = r.mem
        BY <1>1, <1>2, <1>5, <2>1, <4>2
      <4>4. left' < t.words => Writable(base, 1)'
        BY <1>1, <4>1 DEF Writable, Readable
      <4>5. left' \in 1..t.words /\ base' = RefAddr(t.addr) /\ at' = "niwrite" /\ acc' = <<>>
            /\ req' = SubSeq(t.data, t.words - left' + 1, t.words) \o rest
        BY <1>1, <3>1, <4>1
      <4>6. Looping(i, i)'
        BY <2>3, <2>8, <3>3, <4>1, <4>3, <4>4, <4>5 DEF Looping
      <4> QED
        BY <4>6 DEF Reached
    <3> QED
      BY <3>4, <3>5
  <2> QED
    BY <2>5, <2>6, <2>9, <2>11, <2>12 DEF Reached
<1> QED
  BY <1>10, <1>11

-----------------------------------------------------------------------------
(* The invariant holds, and what follows *)

\* Nothing is done when a packet comes in.
LEMMA InitParse == Init => ParseIInv
<1> SUFFICES ASSUME Init PROVE ParseIInv
  OBVIOUS
<1>1. WordsIInv /\ packet \in Packets
  BY InitWords DEF WordsIInv
<1>2. Len(Txns) \in Nat
  <2>1. Txns \in Seq(Transactions)
    BY <1>1, PacketAssumption DEF Txns
  <2> QED
    BY <2>1
<1> DEFINE k == Len(Txns) + 1
<1>3. Stage(0, k).rsp = <<>> /\ Stage(0, k).mem = mem0
  BY <1>2, StageZero
<1>4. 0 \in 0..Len(Txns) /\ k \in 0..(Len(Txns) + 1)
  BY <1>2
<1>5. at = "frame" /\ other = <<>> /\ torn = "nothing" /\ mem = mem0 /\ rsp = <<>> /\ fate = <<>>
  BY DEF Init
<1>6. Counted(0, k) /\ Fated(0)
  BY <1>5 DEF Counted, Fated
<1> HIDE DEF k
<1>7. Between(0, k)
  BY <1>3, <1>5, <1>6 DEF Between
<1> QED
  BY <1>1, <1>4, <1>5, <1>7 DEF ParseIInv, Reached

\* A read-modify-write does not end before the write that it undoes or leaves alone.
LEMMA TornStep ==
  ASSUME torn = "rmw" => at = "rmw", Processor
  PROVE  torn' # "rmw"
<1>1. CASE torn # "rmw"
  BY <1>1, Frozen
<1>2. CASE torn = "rmw"
  <2>1. at = "rmw"
    BY <1>2
  <2>2. ~(Frame \/ Reply \/ NextTxn \/ InvalidHeader \/ EndOfPacket \/ BadHeader \/ EndNi)
    BY <2>1 DEF Frame, Reply, NextTxn, InvalidHeader, EndOfPacket, BadHeader, EndNi
  <2>3. ~(ReadTxn \/ WriteTxn \/ CfgRead \/ CfgWrite \/ BeginNi \/ RmwRead)
    BY <2>1 DEF ReadTxn, WriteTxn, CfgRead, CfgWrite, BeginNi, RmwRead, Run
  <2>4. ~(NiReadWord \/ NiWriteWord)
    BY <2>1 DEF NiReadWord, NiWriteWord
  <2>5. RmwWrite
    BY <2>2, <2>3, <2>4 DEF Processor
  <2> QED
    BY <1>2, <2>5 DEF RmwWrite
<1> QED
  BY <1>1, <1>2

\* What has gone astray stays so.
LEMMA AstrayStays ==
  ASSUME WordsIInv, [Next]_vars, packet' = packet, Astray
  PROVE  Astray'
<1>1. PICK i \in DOMAIN fate \cap DOMAIN packet.txns :
        packet.txns[i].type = NIWRITE /\ fate[i] # All /\ fate[i] + 1 < packet.txns[i].words
  BY DEF Astray
<1>2. i \in DOMAIN fate' /\ fate'[i] = fate[i]
  <2>1. fate \in Seq(Int)
    BY DEF WordsIInv
  <2>2. i \in 1..Len(fate) /\ Len(fate) \in Nat
    BY <2>1
  <2>3. CASE fate' = fate
    BY <2>3
  <2>4. ASSUME NEW n \in Int, fate' = Append(fate, n) PROVE i \in DOMAIN fate' /\ fate'[i] = fate[i]
    BY <2>1, <2>2, <2>4, AppendProperties
  <2> QED
    BY <2>3, <2>4, FateStep
<1> QED
  BY <1>1, <1>2 DEF Astray

\* A step of the processor keeps to the packet.
LEMMA ProcessorParse ==
  ASSUME ParseIInv, Processor, InStep(packet), ~Astray', torn' # "niread"
  PROVE  \E i \in 0..Len(Txns) : \E k \in 0..(Len(Txns) + 1) : Reached(i, k)'
<1>1. packet \in Packets /\ fate \in Seq(Int) /\ WordsIInv /\ (torn = "rmw" => at = "rmw")
  BY DEF ParseIInv, WordsIInv
<1>0. ~Astray /\ torn # "niread"
  <2>1. packet' = packet /\ (torn = "niread" => torn' = torn)
    BY Frozen
  <2> QED
    BY <1>1, <2>1, AstrayStays DEF Next
<1>2. Len(Txns) \in Nat
  <2>1. Txns \in Seq(Transactions)
    BY <1>1, PacketAssumption DEF Txns
  <2> QED
    BY <2>1
<1>3. PICK i \in 0..Len(Txns), k \in 0..(Len(Txns) + 1) : Reached(i, k)
  BY <1>0 DEF ParseIInv
<1>4. Begun(i, k) \/ Looping(i, k) \/ Modifying(i, k) => i \in 0..(Len(Txns) - 1)
  <2>1. Begun(i, k) \/ Looping(i, k) \/ Modifying(i, k) => i < Len(Txns)
    BY Zenon DEF Begun, Looping, Modifying, Under
  <2> QED
    BY <1>2, <2>1
<1>5. i \in 0..(Len(Txns) - 1) => i + 1 \in 0..Len(Txns) /\ i + 1 \in 0..(Len(Txns) + 1)
  BY <1>2
<1>6. \/ Between(i, k)' \/ Begun(i, k)' \/ Looping(i, k)' \/ Modifying(i, k)'
      \/ /\ i + 1 \in 0..Len(Txns) /\ i + 1 \in 0..(Len(Txns) + 1)
         /\ Between(i + 1, k)' \/ Looped(i + 1, k)' \/ Between(i + 1, i + 1)'
  <2>1. CASE Between(i, k)
    BY <1>1, <2>1, BetweenStep
  <2>2. CASE Begun(i, k)
    <3>1. torn # "rmw"
      BY <1>1, <2>2 DEF Begun
    <3> QED
      BY <1>1, <1>4, <1>5, <2>2, <3>1, BegunStep
  <2>3. CASE Looping(i, k)
    BY <1>1, <1>4, <1>5, <2>3, LoopStep
  <2>4. CASE Looped(i, k)
    BY <1>1, <2>4, EndStep
  <2>5. CASE Modifying(i, k)
    BY <1>1, <1>4, <1>5, <2>5, RmwWriteStep
  <2> QED
    BY <1>3, <2>1, <2>2, <2>3, <2>4, <2>5 DEF Reached
<1>7. \/ Reached(i, k)'
      \/ /\ i + 1 \in 0..Len(Txns) /\ i + 1 \in 0..(Len(Txns) + 1)
         /\ Reached(i + 1, k)' \/ Reached(i + 1, i + 1)'
  BY <1>6 DEF Reached
<1> QED
  BY <1>7

\* Every step keeps to the packet.
LEMMA NextParse == ParseIInv /\ [Next]_vars => ParseIInv'
<1> SUFFICES ASSUME ParseIInv, [Next]_vars PROVE ParseIInv'
  OBVIOUS
<1>1. WordsIInv'
  BY NextWords DEF ParseIInv
<1>2. packet \in Packets /\ Len(Txns) \in Nat
  <2>1. packet \in Packets
    BY DEF ParseIInv, WordsIInv
  <2>2. Txns \in Seq(Transactions)
    BY <2>1, PacketAssumption DEF Txns
  <2> QED
    BY <2>1, <2>2
<1>3. CASE Processor
  <2>1. UNCHANGED <<packet, mem0, other>> /\ torn' # "rmw"
    BY <1>3, Frozen, TornStep DEF ParseIInv
  <2>0. other' = <<>> => torn' = "nothing"
    <3>1. other = <<>> => torn = "nothing"
      BY DEF ParseIInv
    <3> QED
      BY <1>3, <2>1, <3>1, Frozen
  <2>2. Txns' = Txns
    BY <2>1 DEF Txns
  <2>3. InStep(packet)' <=> InStep(packet)
    BY <2>1 DEF InStep, ControlPacket, WellFormed, StandardEndian
  <2>4. ASSUME InStep(packet)', ~Astray', torn' # "niread"
        PROVE  (\E i \in 0..Len(Txns) : \E k \in 0..(Len(Txns) + 1) : Reached(i, k))'
    BY <1>3, <2>1, <2>2, <2>3, <2>4, ProcessorParse
  <2> QED
    BY <1>1, <2>0, <2>1, <2>4 DEF ParseIInv
<1>4. CASE OtherWrite
  <2>1. /\ packet' = packet /\ fate' = fate /\ other' \in OtherWrites /\ other = <<>>
        /\ torn' = "rmw" => at' = "rmw"
    BY <1>4 DEF OtherWrite
  <2>2. Txns' = Txns
    BY <2>1 DEF Txns
  <2>3. InStep(packet)' <=> InStep(packet)
    BY <2>1 DEF InStep, ControlPacket, WellFormed, StandardEndian
  <2>4. other' # <<>>
    <3>1. \E a, v : other' = <<a, v>>
      BY <2>1, PacketAssumption
    <3> QED
      BY <3>1
  <2>5. ASSUME InStep(packet)', ~Astray', torn' # "niread"
        PROVE  (\E i \in 0..Len(Txns) : \E k \in 0..(Len(Txns) + 1) : Reached(i, k))'
    <3>1. torn # "niread" /\ ~Astray
      BY <2>1, <2>5 DEF ParseIInv, Astray
    <3>2. PICK i \in 0..Len(Txns), k \in 0..(Len(Txns) + 1) : Reached(i, k)
      BY <2>3, <2>5, <3>1 DEF ParseIInv
    <3>3. \E l \in 0..(Len(Txns) + 1) : Reached(i, l)'
      BY <1>2, <1>4, <2>3, <2>5, <3>2, OtherStep
    <3> QED
      BY <2>2, <3>3
  <2> QED
    BY <1>1, <2>1, <2>4, <2>5 DEF ParseIInv
<1>5. CASE UNCHANGED vars
  <2>1. UNCHANGED <<packet, req, rsp, at, hdr, base, acc, left, mem, mem0, reply, other, torn, fate>>
    BY <1>5 DEF vars
  <2>2. Txns' = Txns
    BY <2>1 DEF Txns
  <2>3. InStep(packet)' <=> InStep(packet)
    BY <2>1 DEF InStep, ControlPacket, WellFormed, StandardEndian
  <2>4. ASSUME NEW i, NEW k, Reached(i, k) PROVE Reached(i, k)'
    <3>1. /\ Stage(i, k)' = Stage(i, k) /\ (Counted(i, k)' <=> Counted(i, k))
          /\ Fated(i)' <=> Fated(i)
          /\ Fated(i - 1)' <=> Fated(i - 1)
      BY <2>1, Unmoved
    <3>2. Under(i, k)' <=> Under(i, k)
      BY <2>1, <2>2, <3>1 DEF Under
    <3>3. /\ Readable(base, 1)' <=> Readable(base, 1)
          /\ Writable(base, 1)' <=> Writable(base, 1)
          /\ Answer(SUCCESS)' = Answer(SUCCESS)
      BY <2>1 DEF Readable, Writable, Answer, SUCCESS
    <3>4. CASE Between(i, k)
      BY <2>1, <2>2, <3>1, <3>4 DEF Reached, Between
    <3>5. CASE Begun(i, k)
      BY <2>1, <2>2, <3>1, <3>2, <3>5 DEF Reached, Begun
    <3>6. CASE Looping(i, k)
      <4>1. Looping(i, k)'
        BY <2>1, <2>2, <3>1, <3>2, <3>3, <3>6 DEF Looping
      <4> QED
        BY <4>1, SMTT(60) DEF Reached
    <3>7. CASE Looped(i, k)
      BY <2>1, <2>2, <3>1, <3>3, <3>7 DEF Reached, Looped
    <3>8. CASE Modifying(i, k)
      BY <2>1, <2>2, <3>1, <3>2, <3>3, <3>8 DEF Reached, Modifying
    <3> QED
      BY <2>4, <3>4, <3>5, <3>6, <3>7, <3>8 DEF Reached
  <2>5. ASSUME InStep(packet)', ~Astray', torn' # "niread"
        PROVE  (\E i \in 0..Len(Txns) : \E k \in 0..(Len(Txns) + 1) : Reached(i, k))'
    <3>1. PICK i \in 0..Len(Txns), k \in 0..(Len(Txns) + 1) : Reached(i, k)
      <4>1. ~Astray
        BY <2>1, <2>5 DEF Astray
      <4> QED
        BY <2>1, <2>3, <2>5, <4>1 DEF ParseIInv
    <3> QED
      BY <2>2, <2>4, <3>1
  <2> QED
    BY <1>1, <2>1, <2>5 DEF ParseIInv
<1> QED
  BY <1>3, <1>4, <1>5 DEF Next

\* Every packet whose transactions stay in step with the deque is, at every step of
\* process_control_packet, a whole number of transactions done, each as far as the bus
\* let it, and at most one begun.
THEOREM ParseInductive == Spec => []ParseIInv
<1>1. Init => ParseIInv
  BY InitParse
<1>2. ParseIInv /\ [Next]_vars => ParseIInv'
  BY NextParse
<1> QED
  BY <1>1, <1>2, PTL DEF Spec

\* What the invariant says of a packet that is done.
LEMMA DoneParse ==
  ASSUME ParseIInv, at \in Ends, InStep(packet), ~Astray, torn # "niread"
  PROVE  /\ \E k \in 0..(Len(Txns) + 1) : Counted(Len(fate), k) /\ Answered(k)
         /\ Len(fate) \in 0..Len(Txns) /\ Len(Txns) \in Nat
<1>1. PICK i \in 0..Len(Txns), k \in 0..(Len(Txns) + 1) : Reached(i, k)
  BY SMTT(60) DEF ParseIInv
<1>2. Between(i, k)
  BY <1>1 DEF Reached, Begun, Looping, Looped, Modifying, Ends
<1>3. /\ at \in {"done", "dead"} /\ Counted(i, k) /\ mem = Stage(i, k).mem /\ Fated(i)
      /\ at = "done" =>
           i = Len(Txns) /\ reply = IF Txns = <<>> THEN <<>> ELSE <<packet.header>> \o Stage(i, k).rsp
  BY <1>2 DEF Between, Ends
<1>4. Len(fate) = i /\ \A j \in 1..i : fate[j] \in Fates(Txns[j])
  BY <1>3 DEF Fated
<1>5. RefRun(Len(fate), k) = Stage(i, k)
  BY <1>4 DEF RefRun, Stage, Txns
<1>6. Len(Txns) \in Nat
  <2>1. Txns \in Seq(Transactions)
    BY PacketAssumption DEF Txns, ParseIInv, WordsIInv
  <2> QED
    BY <2>1
<1>7. Len(fate) <= Len(Txns) /\ Len(fate) \in 0..Len(Txns)
  BY <1>4, <1>6
<1>8. Answered(k)
  <2> DEFINE s == Stage(i, k)
  <2>1. RefRun(Len(fate), k) = s
    BY <1>5
  <2>2. mem = s.mem /\ (at = "done" => reply = IF Txns = <<>> THEN <<>> ELSE <<packet.header>> \o s.rsp)
    BY <1>3
  <2> HIDE DEF s
  <2> QED
    BY <1>3, <1>4, <1>7, <2>1, <2>2 DEF Answered, Txns
<1> QED
  BY <1>3, <1>4, <1>6, <1>7, <1>8

\* RepliesMatch: the words of a packet are taken for what the client meant, whatever
\* memhub calls fail. Every transaction is executed once and in order, as far as the
\* bus lets it, one answer each, as if a write of another process came before or
\* after a whole one.
THEOREM RepliesSafe == Spec => []RepliesMatch
<1>1. ParseIInv => RepliesMatch
  <2> SUFFICES ASSUME ParseIInv, at \in Ends, InStep(packet), ~Astray, torn = "nothing"
               PROVE  AnsweredInOrder
    BY DEF RepliesMatch
  <2> DEFINE i == Len(fate)
  <2>1. PICK k \in 0..(Len(Txns) + 1) : Counted(i, k) /\ Answered(k)
    BY DoneParse
  <2>2. Len(Txns) \in Nat /\ i \in 0..Len(Txns)
    BY DoneParse
  <2>3. CASE other # <<>>
    <3>1. k \in 0..i
      BY <2>1, <2>3 DEF Counted
    <3> QED
      BY <2>1, <3>1 DEF AnsweredInOrder
  <2>4. CASE other = <<>>
    <3> DEFINE c == Course
    <3>1. RefStates(mem0, other, Txns, c, k)[i] = RefStates(mem0, other, Txns, c, 0)[i]
      <4> HIDE DEF i, c
      <4> QED
        BY <2>2, <2>4, StatesAgree
    <3>2. RefRun(i, 0) = RefRun(i, k)
      BY <3>1 DEF RefRun, Txns
    <3>3. Answered(0)
      BY <2>1, <3>2 DEF Answered
    <3>4. 0 \in 0..i
      BY <2>2
    <3> QED
      BY <3>3, <3>4 DEF AnsweredInOrder
  <2> QED
    BY <2>3, <2>4
<1> QED
  BY <1>1, ParseInductive, PTL

\* TornWriteLost: a write of another process between the two memhub calls of a
\* read-modify-write of its register that succeeds is lost, and nothing else happens.
THEOREM TornSafe == Spec => []TornWriteLost
<1>1. ParseIInv => TornWriteLost
  <2> SUFFICES ASSUME ParseIInv, at \in Ends, InStep(packet), ~Astray, torn = "lost"
               PROVE  Answered(Len(packet.txns) + 1)
    BY DEF TornWriteLost
  <2>1. PICK k \in 0..(Len(Txns) + 1) : Counted(Len(fate), k) /\ Answered(k)
    BY DoneParse
  <2>2. k = Len(packet.txns) + 1
    BY <2>1 DEF Counted, Txns
  <2> QED
    BY <2>1, <2>2
<1> QED
  BY <1>1, ParseInductive, PTL
=============================================================================
