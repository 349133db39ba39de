---------------------------- MODULE MCIPbusPacket -----------------------------
(***************************************************************************)
(* An instance of IPbusPacket for TLC: three registers, one of them         *)
(* readonly, at byte addresses 32, 36 and 40 (word addresses 0, 1 and 2),   *)
(* and words below 2^30.                                                    *)
(***************************************************************************)
EXTENDS IPbusPacket
LOCAL INSTANCE Bitwise

AndWords(a, b) == a & b
OrWords(a, b) == a | b

MCWordMod == 2 ^ 30

Txn(type, words, addr, data) ==
  [type |-> type, id |-> type, words |-> words, addr |-> addr, data |-> data]

\* A word that the processor would take for the header of a one-word write.
HeaderLike == Serialize([version |-> 2, id |-> 9, words |-> 1, type |-> 1, info |-> 15])

\* Transactions that carry what they announce: every type, zero, one and two
\* words, good, readonly, unmapped and aliased addresses, sums that wrap around.
GoodTxns ==
  {Txn(type, n, a, <<>>) : type \in {0, 2}, n \in {0, 1, 2}, a \in {1, 2, 3, 4}}
  \cup {Txn(type, 0, a, <<>>) : type \in {1, 3}, a \in {1, 3}}
  \cup {Txn(type, 1, a, <<5>>) : type \in {1, 3}, a \in {1, 2, 4, 2 ^ 28}}
  \cup {Txn(type, 2, a, <<6, HeaderLike>>) : type \in {1, 3}, a \in {0, 2, 3}}
  \cup {Txn(4, 1, a, <<6, 1>>) : a \in {0, 2, 3}}
  \cup {Txn(5, 1, a, <<2 ^ 30 - 1>>) : a \in {0, 2, 3}}
  \cup {Txn(6, 2, 0, <<>>)}

CfgTxns == {Txn(7, n, 0, [i \in 1..n |-> HeaderLike]) : n \in {0, 1, 2}}

\* Transactions that do not: an unknown type, missing or surplus data, a
\* read-modify-write of two words.
BadTxns == {Txn(9, 1, 0, <<>>), Txn(1, 2, 0, <<4>>), Txn(0, 1, 1, <<7>>),
            Txn(4, 2, 0, <<6, 1>>), Txn(5, 1, 0, <<>>)}

Control == <<32, 0, 1, 240>>

\* A control packet without transactions, an empty frame, a status and a resend
\* packet, a wrong version, and the byte-swapped forms of a control packet and of
\* an unknown one.
Headers == {Control, <<>>, <<32, 0, 1, 241>>, <<32, 0, 1, 242>>, <<16, 0, 1, 240>>,
            <<240, 1, 0, 32>>, <<255, 1, 0, 32>>}

Packet(h, txns) == [header |-> h, txns |-> txns]

MCPackets ==
  {Packet(h, <<Txn(1, 1, 0, <<5>>)>>) : h \in Headers}
  \cup {Packet(Control, <<>>)}
  \cup {Packet(Control, <<t, u>>) : t \in GoodTxns, u \in GoodTxns}
  \cup {Packet(Control, <<t, u, Txn(0, 1, 0, <<>>)>>) :
          t \in {Txn(1, 1, 0, <<5>>), Txn(2, 2, 1, <<>>)}, u \in GoodTxns \cup BadTxns \cup CfgTxns}
  \cup {Packet(Control, <<u>>) : u \in BadTxns \cup CfgTxns}

\* Another process writes one of the two writable registers.
MCOtherWrites == {<<32, 9>>, <<36, 9>>}
MCNoOtherWrites == {}

\* A write and a read around a configuration write.
MCCfgPackets ==
  {Packet(Control, <<Txn(1, 1, 0, <<5>>), u, Txn(0, 1, 0, <<>>)>>) : 
     u \in GoodTxns \cup {Txn(7, 1, 0, <<HeaderLike>>)}}
=============================================================================
