-------------------------- MODULE IPbusServerProofs ---------------------------
(***************************************************************************)
(* Proofs about IPbusServer, for every set of connections, every sequence   *)
(* of frames and every size of the buffers.                                 *)
(***************************************************************************)
EXTENDS IPbusServer, TLAPS

-----------------------------------------------------------------------------
(* Sequences *)

\* The parts before and behind a position.
LEMMA PrefixDropTypes ==
  ASSUME NEW S, NEW s \in Seq(S), NEW n \in 0..Len(s)
  PROVE  /\ Prefix(s, n) \in Seq(S)
         /\ Len(Prefix(s, n)) = n
         /\ \A i \in 1..n : Prefix(s, n)[i] = s[i]
         /\ Drop(s, n) \in Seq(S)
         /\ Len(Drop(s, n)) = Len(s) - n
         /\ \A i \in 1..(Len(s) - n) : Drop(s, n)[i] = s[n + i]
  BY DEF Prefix, Drop

\* Sequences of the same length with the same elements are the same.
LEMMA SameSequence ==
  ASSUME NEW S, NEW s \in Seq(S), NEW u \in Seq(S), Len(s) = Len(u),
         \A i \in 1..Len(s) : s[i] = u[i]
  PROVE  s = u
  OBVIOUS

\* Concatenation.
LEMMA ConcatElements ==
  ASSUME NEW S, NEW s \in Seq(S), NEW u \in Seq(S)
  PROVE  /\ s \o u \in Seq(S)
         /\ Len(s \o u) = Len(s) + Len(u)
         /\ \A i \in 1..Len(s) : (s \o u)[i] = s[i]
         /\ \A i \in 1..Len(u) : (s \o u)[Len(s) + i] = u[i]
  OBVIOUS

LEMMA ConcatAssociative ==
  ASSUME NEW S, NEW s \in Seq(S), NEW u \in Seq(S), NEW v \in Seq(S)
  PROVE  (s \o u) \o v = s \o (u \o v)
  OBVIOUS

\* Cutting a sequence in two loses nothing.
LEMMA PrefixDrop ==
  ASSUME NEW S, NEW s \in Seq(S), NEW n \in 0..Len(s)
  PROVE  Prefix(s, n) \o Drop(s, n) = s
<1>1. /\ Prefix(s, n) \in Seq(S) /\ Len(Prefix(s, n)) = n
      /\ Drop(s, n) \in Seq(S) /\ Len(Drop(s, n)) = Len(s) - n
      /\ \A i \in 1..n : Prefix(s, n)[i] = s[i]
      /\ \A i \in 1..(Len(s) - n) : Drop(s, n)[i] = s[n + i]
  BY PrefixDropTypes
<1> DEFINE whole == Prefix(s, n) \o Drop(s, n)
<1>2. whole \in Seq(S) /\ Len(whole) = Len(s)
  BY <1>1
<1>3. ASSUME NEW i \in 1..Len(s) PROVE whole[i] = s[i]
  <2>0. n \in Nat /\ Len(s) \in Nat /\ n <= Len(s) /\ i \in Int
    OBVIOUS
  <2>1. CASE i \in 1..n
    BY <1>1, <2>1, ConcatElements
  <2>2. CASE i - n \in 1..(Len(s) - n)
    <3>1. whole[n + (i - n)] = Drop(s, n)[i - n]
      BY <1>1, <2>2, ConcatElements
    <3>2. n + (i - n) = i
      BY <2>0
    <3>3. Drop(s, n)[i - n] = s[n + (i - n)]
      BY <1>1, <2>2
    <3> QED
      BY <3>1, <3>2, <3>3
  <2>3. i \in 1..n \/ i - n \in 1..(Len(s) - n)
    BY <2>0
  <2> QED
    BY <2>1, <2>2, <2>3, Zenon
<1> HIDE DEF whole
<1>4. whole = s
  BY <1>2, <1>3, SameSequence
<1> QED
  BY <1>4 DEF whole

-----------------------------------------------------------------------------
(* Frames and replies *)

\* The words of a frame and of a reply.
LEMMA FramedWords ==
  ASSUME NEW F, NEW f \in F, NEW n \in Nat
  PROVE  /\ Framed(f, n) \in Seq(F \X Nat)
         /\ Len(Framed(f, n)) = n + 1
         /\ \A j \in 0..n : Framed(f, n)[j + 1] = <<f, j>>
<1>1. Payload(f, n) \in Seq(F \X Nat) /\ Len(Payload(f, n)) = n
  BY DEF Payload
<1>2. <<<<f, 0>>>> \in Seq(F \X Nat) /\ Len(<<<<f, 0>>>>) = 1
  OBVIOUS
<1>3. Framed(f, n) \in Seq(F \X Nat) /\ Len(Framed(f, n)) = n + 1
  BY <1>1, <1>2 DEF Framed
<1>4. ASSUME NEW j \in 0..n PROVE Framed(f, n)[j + 1] = <<f, j>>
  <2>1. CASE j = 0
    BY <1>1, <1>2, <2>1 DEF Framed
  <2>2. CASE j \in 1..n
    <3>1. (<<<<f, 0>>>> \o Payload(f, n))[Len(<<<<f, 0>>>>) + j] = Payload(f, n)[j]
      BY <1>1, <1>2, <2>2, ConcatElements
    <3> QED
      BY <1>2, <2>2, <3>1 DEF Framed, Payload
  <2> QED
    BY <2>1, <2>2
<1> QED
  BY <1>3, <1>4

\* What a client sends for its frame f.
LEMMA RequestWords ==
  ASSUME NEW f \in DOMAIN FrameLen
  PROVE  /\ FrameLen[f] \in Nat
         /\ Request(f) \in Seq(RequestWord)
         /\ Len(Request(f)) = FrameLen[f] + 1
         /\ \A j \in 0..FrameLen[f] : Request(f)[j + 1] = <<f, j>>
<1>1. FrameLen[f] \in Nat
  BY ServerAssumption
<1> QED
  BY <1>1, FramedWords DEF Request, RequestWord

\* The length a word of a frame stands for is a number.
LEMMA LengthOfType ==
  ASSUME NEW w \in RequestWord
  PROVE  LengthOf(w) \in Nat
  BY ServerAssumption DEF LengthOf, RequestWord

\* Every reply is a sequence of words.
LEMMA RepliesType ==
  ASSUME NEW buf \in Seq(RequestWord), buf # <<>>, NEW reply \in Replies(buf)
  PROVE  reply \in Seq(ReplyWord)
<1>1. buf[1] \in RequestWord
  OBVIOUS
<1>2. buf[1][1] \in Nat
  BY <1>1, ServerAssumption DEF RequestWord
<1>3. \E f \in Nat, n \in Nat : reply = Framed(f, n)
  BY <1>2, ServerAssumption DEF Replies
<1> QED
  BY <1>3, FramedWords, ZenonT(60) DEF ReplyWord

-----------------------------------------------------------------------------
(* run_io *)

\* send moves words from the output to the kernel, in order, or fails.
LEMMA SendKeeps ==
  ASSUME TypeOK, NEW c \in Conns, NEW out \in Seq(ReplyWord), Send(c, out)
  PROVE  /\ tx' \in [Conns -> Seq(ReplyWord)]
         /\ obuf' \in [Conns -> Seq(ReplyWord)]
         /\ cut' \in [Conns -> BOOLEAN]
         /\ Len(tx'[c]) <= SendRoom
         /\ ~cut'[c] => ~cut[c] /\ tx'[c] \o obuf'[c] = tx[c] \o out
         /\ \A d \in Conns \ {c} : tx'[d] = tx[d] /\ obuf'[d] = obuf[d] /\ cut'[d] = cut[d]
<1>1. /\ tx \in [Conns -> Seq(ReplyWord)] /\ obuf \in [Conns -> Seq(ReplyWord)]
      /\ cut \in [Conns -> BOOLEAN] /\ Len(tx[c]) <= SendRoom
      /\ SendRoom \in Nat
  BY ServerAssumption DEF TypeOK, StreamTypes
<1>2. CASE \E n \in 1..Smaller(Len(out), SendRoom - Len(tx[c])) :
             /\ tx' = [tx EXCEPT ![c] = @ \o Prefix(out, n)]
             /\ obuf' = [obuf EXCEPT ![c] = Drop(out, n)]
             /\ UNCHANGED cut
  <2>1. PICK n \in 1..Smaller(Len(out), SendRoom - Len(tx[c])) :
             /\ tx' = [tx EXCEPT ![c] = @ \o Prefix(out, n)]
             /\ obuf' = [obuf EXCEPT ![c] = Drop(out, n)]
             /\ UNCHANGED cut
    BY <1>2
  <2>2. n \in 0..Len(out) /\ Len(tx[c]) + n <= SendRoom /\ Len(tx[c]) \in Nat
    BY <1>1 DEF Smaller
  <2>3. /\ Prefix(out, n) \in Seq(ReplyWord) /\ Len(Prefix(out, n)) = n
        /\ Drop(out, n) \in Seq(ReplyWord)
        /\ Prefix(out, n) \o Drop(out, n) = out
    BY <2>2, PrefixDropTypes, PrefixDrop
  <2>4. tx'[c] = tx[c] \o Prefix(out, n) /\ obuf'[c] = Drop(out, n)
    BY <1>1, <2>1
  <2>5. tx[c] \o Prefix(out, n) \in Seq(ReplyWord)
    BY <1>1, <2>3, ConcatElements
  <2>6. Len(tx'[c]) <= SendRoom
    BY <1>1, <2>2, <2>3, <2>4
  <2>7. tx'[c] \o obuf'[c] = tx[c] \o out
    <3>1. tx[c] \in Seq(ReplyWord)
      BY <1>1
    <3>2. \A s, u, v \in Seq(ReplyWord) : (s \o u) \o v = s \o (u \o v)
      BY ConcatAssociative, SMTT(60)
    <3>3. (tx[c] \o Prefix(out, n)) \o Drop(out, n) = tx[c] \o (Prefix(out, n) \o Drop(out, n))
      BY <2>3, <3>1, <3>2, Zenon
    <3> QED
      BY <2>3, <2>4, <3>3, Zenon
  <2> QED
    BY <1>1, <2>1, <2>3, <2>5, <2>6, <2>7
<1>3. CASE /\ Len(tx[c]) >= SendRoom \/ link[c] \in {"closed", "reset"}
           /\ obuf' = [obuf EXCEPT ![c] = <<>>]
           /\ cut' = [cut EXCEPT ![c] = TRUE]
           /\ UNCHANGED tx
  BY <1>1, <1>3
<1> QED
  BY <1>2, <1>3 DEF Send

\* The rest of run_io after a recv: it touches one client, keeps the types, and
\* what it hands over, holds and waits with grows by the reply, if there is one.
LEMMA ProcessKeeps ==
  ASSUME TypeOK, NEW c \in Conns, NEW chunk \in Seq(RequestWord), Process(c, chunk)
  PROVE  /\ ibuf' \in [Conns -> Seq(RequestWord)]
         /\ frames' \in [Conns -> Seq(Seq(RequestWord))]
         /\ obuf' \in [Conns -> Seq(ReplyWord)]
         /\ tx' \in [Conns -> Seq(ReplyWord)]
         /\ owed' \in [Conns -> Seq(ReplyWord)]
         /\ ragged' \in [Conns -> BOOLEAN]
         /\ cut' \in [Conns -> BOOLEAN]
         /\ inited' \in BOOLEAN
         /\ Len(tx'[c]) <= SendRoom
         /\ \A d \in Conns \ {c} :
              /\ ibuf'[d] = ibuf[d] /\ frames'[d] = frames[d] /\ obuf'[d] = obuf[d]
              /\ tx'[d] = tx[d] /\ owed'[d] = owed[d] /\ ragged'[d] = ragged[d]
              /\ cut'[d] = cut[d]
         /\ ~cut'[c] =>
              /\ ~cut[c]
              /\ \E reply \in Seq(ReplyWord) :
                   /\ owed'[c] = owed[c] \o reply
                   /\ tx'[c] \o obuf'[c] = tx[c] \o (obuf[c] \o reply)
<1> DEFINE in == ibuf[c] \o chunk
<1>1. /\ ibuf \in [Conns -> Seq(RequestWord)] /\ frames \in [Conns -> Seq(Seq(RequestWord))]
      /\ obuf \in [Conns -> Seq(ReplyWord)] /\ tx \in [Conns -> Seq(ReplyWord)]
      /\ owed \in [Conns -> Seq(ReplyWord)] /\ ragged \in [Conns -> BOOLEAN]
      /\ cut \in [Conns -> BOOLEAN] /\ inited \in BOOLEAN
      /\ Len(tx[c]) <= SendRoom
  BY DEF TypeOK, StreamTypes
<1>2. in \in Seq(RequestWord)
  BY <1>1
<1>3. ragged' \in [Conns -> BOOLEAN] /\ \A d \in Conns \ {c} : ragged'[d] = ragged[d]
  BY <1>1 DEF Process
<1>4. ASSUME NEW more \in Seq(ReplyWord) PROVE obuf[c] \o more \in Seq(ReplyWord)
  BY <1>1
<1> HIDE DEF in
<1>5. CASE in # <<>> /\ Available(in)
  <2>1. PICK reply \in Replies(in) :
          /\ ibuf' = [ibuf EXCEPT ![c] = Drop(in, Smaller(1 + LengthOf(in[1]), Len(in)))]
          /\ owed' = [owed EXCEPT ![c] = @ \o reply]
          /\ frames' = [frames EXCEPT ![c] = Append(@, in)]
          /\ inited' = TRUE
          /\ Send(c, obuf[c] \o reply)
    BY <1>5 DEF Process, in
  <2>2. reply \in Seq(ReplyWord)
    BY <1>2, <1>5, RepliesType
  <2>3. Smaller(1 + LengthOf(in[1]), Len(in)) \in 0..Len(in)
    <3>1. in[1] \in RequestWord
      BY <1>2, <1>5
    <3> QED
      BY <1>2, <3>1, LengthOfType DEF Smaller
  <2>4. Drop(in, Smaller(1 + LengthOf(in[1]), Len(in))) \in Seq(RequestWord)
    BY <1>2, <2>3, PrefixDropTypes
  <2>5. /\ tx' \in [Conns -> Seq(ReplyWord)]
        /\ obuf' \in [Conns -> Seq(ReplyWord)]
        /\ cut' \in [Conns -> BOOLEAN]
        /\ Len(tx'[c]) <= SendRoom
        /\ ~cut'[c] => ~cut[c] /\ tx'[c] \o obuf'[c] = tx[c] \o (obuf[c] \o reply)
        /\ \A d \in Conns \ {c} : tx'[d] = tx[d] /\ obuf'[d] = obuf[d] /\ cut'[d] = cut[d]
    <3> DEFINE out == obuf[c] \o reply
    <3>1. out \in Seq(ReplyWord) /\ Send(c, out)
      BY <1>4, <2>1, <2>2
    <3> HIDE DEF out
    <3>2. /\ tx' \in [Conns -> Seq(ReplyWord)]
          /\ obuf' \in [Conns -> Seq(ReplyWord)]
          /\ cut' \in [Conns -> BOOLEAN]
          /\ Len(tx'[c]) <= SendRoom
          /\ ~cut'[c] => ~cut[c] /\ tx'[c] \o obuf'[c] = tx[c] \o out
          /\ \A d \in Conns \ {c} : tx'[d] = tx[d] /\ obuf'[d] = obuf[d] /\ cut'[d] = cut[d]
      BY <3>1, SendKeeps
    <3> QED
      BY <3>2, Zenon DEF out
  <2>6. owed[c] \o reply \in Seq(ReplyWord) /\ owed'[c] = owed[c] \o reply
    BY <1>1, <2>1, <2>2
  <2>7. /\ ibuf' \in [Conns -> Seq(RequestWord)]
        /\ frames' \in [Conns -> Seq(Seq(RequestWord))]
        /\ owed' \in [Conns -> Seq(ReplyWord)]
        /\ inited' \in BOOLEAN
        /\ \A d \in Conns \ {c} : ibuf'[d] = ibuf[d] /\ frames'[d] = frames[d] /\ owed'[d] = owed[d]
    BY <1>1, <1>2, <2>1, <2>4, <2>6
  <2> QED
    BY <1>3, <2>2, <2>5, <2>6, <2>7, Zenon
<1>6. CASE ~(in # <<>> /\ Available(in))
  <2>1. /\ ibuf' = [ibuf EXCEPT ![c] = in]
        /\ UNCHANGED <<owed, frames, inited>>
        /\ IF obuf[c] = <<>> THEN UNCHANGED <<tx, obuf, cut>> ELSE Send(c, obuf[c])
    BY <1>6 DEF Process, in
  <2>2. /\ tx' \in [Conns -> Seq(ReplyWord)]
        /\ obuf' \in [Conns -> Seq(ReplyWord)]
        /\ cut' \in [Conns -> BOOLEAN]
        /\ Len(tx'[c]) <= SendRoom
        /\ ~cut'[c] => ~cut[c] /\ tx'[c] \o obuf'[c] = tx[c] \o obuf[c]
        /\ \A d \in Conns \ {c} : tx'[d] = tx[d] /\ obuf'[d] = obuf[d] /\ cut'[d] = cut[d]
    <3>1. CASE obuf[c] = <<>>
      BY <1>1, <2>1, <3>1
    <3>2. CASE obuf[c] # <<>>
      BY <1>1, <2>1, <3>2, SendKeeps
    <3> QED
      BY <3>1, <3>2
  <2>3. <<>> \in Seq(ReplyWord) /\ owed[c] \o <<>> = owed[c] /\ obuf[c] \o <<>> = obuf[c]
    BY <1>1
  <2>4. ~cut'[c] => /\ ~cut[c]
                    /\ \E reply \in Seq(ReplyWord) :
                         /\ owed'[c] = owed[c] \o reply
                         /\ tx'[c] \o obuf'[c] = tx[c] \o (obuf[c] \o reply)
    <3> SUFFICES ASSUME ~cut'[c]
                 PROVE  /\ ~cut[c]
                        /\ owed'[c] = owed[c] \o <<>>
                        /\ tx'[c] \o obuf'[c] = tx[c] \o (obuf[c] \o <<>>)
      BY <2>3, Zenon
    <3> QED
      BY <2>1, <2>2, <2>3
  <2>5. /\ ibuf' \in [Conns -> Seq(RequestWord)]
        /\ \A d \in Conns \ {c} : ibuf'[d] = ibuf[d]
    BY <1>1, <1>2, <2>1
  <2> QED
    BY <1>1, <1>3, <2>1, <2>2, <2>4, <2>5, Zenon
<1> QED
  BY <1>5, <1>6

\* recv takes a part off the front of what is on its way.
LEMMA RecvTypes ==
  ASSUME TypeOK, NEW c \in Conns, NEW n \in 0..Smaller(RecvMax, Len(rx[c]))
  PROVE  /\ n \in 0..Len(rx[c])
         /\ Prefix(rx[c], n) \in Seq(RequestWord)
         /\ Drop(rx[c], n) \in Seq(RequestWord)
<1>1. rx[c] \in Seq(RequestWord) /\ RecvMax \in Nat
  BY ServerAssumption DEF TypeOK, StreamTypes
<1>2. n \in 0..Len(rx[c])
  BY <1>1 DEF Smaller
<1> QED
  BY <1>1, <1>2, PrefixDropTypes

-----------------------------------------------------------------------------
(* The vector of clients *)

\* accept adds one client.
LEMMA AppendClient ==
  ASSUME NEW S, NEW s \in Seq(S), NEW x \in S
  PROVE  /\ Append(s, x) \in Seq(S)
         /\ Len(Append(s, x)) = Len(s) + 1
         /\ DOMAIN Append(s, x) = 1..(Len(s) + 1)
         /\ \A i \in 1..Len(s) : Append(s, x)[i] = s[i]
         /\ Append(s, x)[Len(s) + 1] = x
         /\ Range(Append(s, x)) = Range(s) \cup ({x} \ {NoFd})
  BY DEF Range

\* A step that leaves the streams alone keeps their types.
LEMMA StreamsAlone ==
  ASSUME StreamTypes, UNCHANGED <<streamVars, sent>>
  PROVE  StreamTypes'
  BY DEF StreamTypes, streamVars

\* So does one that changes what is on its way to the server, only.
LEMMA ArrivalsTyped ==
  ASSUME StreamTypes, rx' \in [Conns -> Seq(RequestWord)], sent' \in [Conns -> 0..Len(FrameLen)],
         UNCHANGED <<ibuf, obuf, tx, got, owed, frames, ragged, cut>>
  PROVE  StreamTypes'
  BY DEF StreamTypes

\* Every action keeps the types.
LEMMA TypeInductive ==
  ASSUME IInv, [Next]_vars
  PROVE  TypeOK'
<1> USE ServerAssumption
<1>1. TypeOK /\ LoopPhases /\ StreamTypes
  BY DEF IInv, TypeOK
<1>2. CASE Purge
  <2>1. fds = {} /\ clients' = <<>> /\ UNCHANGED <<pc, fds, listen, inited, sent>>
    BY <1>1, <1>2 DEF Purge, LoopPhases
  <2>2. link' \in [Conns -> {"none", "pending", "open", "closed", "reset", "gone"}]
    BY <1>1, <1>2 DEF Purge, TypeOK
  <2>3. rx' \in [Conns -> Seq(RequestWord)]
    BY <1>1, <1>2 DEF Purge, StreamTypes
  <2>4. sent' \in [Conns -> 0..Len(FrameLen)]
    BY <1>1, <1>2 DEF Purge, StreamTypes
  <2>5. StreamTypes'
    BY <1>1, <1>2, <2>3, <2>4, ArrivalsTyped DEF Purge
  <2> QED
    BY <1>1, <2>1, <2>2, <2>5 DEF TypeOK
<1>3. CASE Select
  <2>1. StreamTypes'
    BY <1>1, <1>3, StreamsAlone DEF Select
  <2>2. (fds \subseteq Range(clients))'
    BY <1>3 DEF Select, Range, Reported
  <2> QED
    BY <1>1, <1>3, <2>1, <2>2 DEF Select, TypeOK
<1>4. CASE SelectAborts
  <2>1. StreamTypes'
    BY <1>1, <1>4, StreamsAlone DEF SelectAborts
  <2> QED
    BY <1>1, <1>4, <2>1 DEF SelectAborts, TypeOK, Range
<1>5. CASE Accept
  <2>1. StreamTypes'
    BY <1>1, <1>5, StreamsAlone DEF Accept
  <2>2. fds' = {} /\ pc' = "select" /\ UNCHANGED <<listen, inited>>
    BY <1>5 DEF Accept
  <2>3. CASE listen
    <3>1. PICK c \in Conns : clients' = Append(clients, c) /\ link' = [link EXCEPT ![c] = "open"]
      BY <1>5, <2>3 DEF Accept, Pending
    <3>2. clients' \in Seq(Conns \cup {NoFd})
      BY <1>1, <3>1 DEF TypeOK
    <3>3. link' \in [Conns -> {"none", "pending", "open", "closed", "reset", "gone"}]
      BY <1>1, <3>1 DEF TypeOK
    <3> QED
      BY <1>1, <2>1, <2>2, <3>2, <3>3 DEF TypeOK
  <2>4. CASE ~listen
    BY <1>1, <1>5, <2>1, <2>2, <2>4 DEF Accept, TypeOK
  <2> QED
    BY <2>3, <2>4
<1>6. CASE AcceptFails
  <2>1. clients' \in Seq(Conns \cup {NoFd}) /\ fds' = {} /\ pc' = "select"
        /\ UNCHANGED <<listen, inited, sent>>
    BY <1>1, <1>6 DEF AcceptFails, TypeOK
  <2>2. PICK c \in Conns : link' = [link EXCEPT ![c] = "gone"] /\ rx' = [rx EXCEPT ![c] = <<>>]
    BY <1>6 DEF AcceptFails, Pending
  <2>3. link' \in [Conns -> {"none", "pending", "open", "closed", "reset", "gone"}]
    BY <1>1, <2>2 DEF TypeOK
  <2>4. rx' \in [Conns -> Seq(RequestWord)] /\ sent' \in [Conns -> 0..Len(FrameLen)]
    BY <1>1, <2>1, <2>2 DEF StreamTypes
  <2>5. StreamTypes'
    BY <1>1, <1>6, <2>4, ArrivalsTyped DEF AcceptFails
  <2> QED
    BY <1>1, <2>1, <2>3, <2>5 DEF TypeOK
<1>7. ASSUME NEW c \in Conns, RunIO(c) PROVE TypeOK'
  <2>1. PICK n \in 0..Smaller(RecvMax, Len(rx[c])) :
          /\ rx' = [rx EXCEPT ![c] = Drop(@, n)]
          /\ Process(c, Prefix(rx[c], n))
    BY <1>7 DEF RunIO
  <2>2. Prefix(rx[c], n) \in Seq(RequestWord) /\ Drop(rx[c], n) \in Seq(RequestWord)
    BY <1>1, RecvTypes
  <2>3. rx' \in [Conns -> Seq(RequestWord)]
    BY <1>1, <2>1, <2>2 DEF StreamTypes
  <2>4. /\ ibuf' \in [Conns -> Seq(RequestWord)]
        /\ frames' \in [Conns -> Seq(Seq(RequestWord))]
        /\ obuf' \in [Conns -> Seq(ReplyWord)]
        /\ tx' \in [Conns -> Seq(ReplyWord)]
        /\ owed' \in [Conns -> Seq(ReplyWord)]
        /\ ragged' \in [Conns -> BOOLEAN]
        /\ cut' \in [Conns -> BOOLEAN]
        /\ inited' \in BOOLEAN
        /\ Len(tx'[c]) <= SendRoom
        /\ \A d \in Conns \ {c} : tx'[d] = tx[d]
    BY <1>1, <2>1, <2>2, ProcessKeeps
  <2>5. \A d \in Conns : Len(tx'[d]) <= SendRoom
    BY <1>1, <2>4 DEF StreamTypes
  <2>6. fds' \subseteq Range(clients)' /\ UNCHANGED <<pc, clients, listen, link, sent, got>>
    BY <1>1, <1>7 DEF RunIO, Turn, TypeOK, Range
  <2>7. StreamTypes'
    BY <1>1, <2>3, <2>4, <2>5, <2>6, Zenon DEF StreamTypes
  <2> QED
    BY <1>1, <2>4, <2>6, <2>7 DEF TypeOK
<1>8. ASSUME NEW c \in Conns, RunIOReset(c) PROVE TypeOK'
  <2>1. (fds \subseteq Range(clients))' /\ UNCHANGED <<pc, clients, listen, inited, sent>>
    BY <1>1, <1>8 DEF RunIOReset, Turn, TypeOK, Range
  <2>2. link' = [link EXCEPT ![c] = "closed"] /\ rx' = [rx EXCEPT ![c] = <<>>]
    BY <1>8 DEF RunIOReset
  <2>3. link' \in [Conns -> {"none", "pending", "open", "closed", "reset", "gone"}]
    BY <1>1, <2>2 DEF TypeOK
  <2>4. rx' \in [Conns -> Seq(RequestWord)] /\ sent' \in [Conns -> 0..Len(FrameLen)]
    BY <1>1, <2>1, <2>2 DEF StreamTypes
  <2>5. StreamTypes'
    BY <1>1, <1>8, <2>4, ArrivalsTyped DEF RunIOReset
  <2> QED
    BY <1>1, <2>1, <2>3, <2>5 DEF TypeOK
<1>9. ASSUME NEW c \in Conns, RunIOThrows(c) \/ OpenFails(c) PROVE TypeOK'
  <2>1. pc' = "ended" /\ fds' = fds \ {c} /\ UNCHANGED <<clients, listen, inited, link>>
    BY <1>9 DEF RunIOThrows, OpenFails, Turn
  <2>2. StreamTypes'
    BY <1>1, <1>9, StreamsAlone DEF RunIOThrows, OpenFails
  <2> QED
    BY <1>1, <2>1, <2>2 DEF TypeOK, Range
<1>10. ASSUME NEW c \in Conns, Connect(c) \/ Disconnect(c) PROVE TypeOK'
  <2>1. UNCHANGED serverVars
    BY <1>10 DEF Connect, Disconnect
  <2>2. StreamTypes'
    BY <1>1, <1>10, StreamsAlone DEF Connect, Disconnect
  <2>3. link' \in [Conns -> {"none", "pending", "open", "closed", "reset", "gone"}]
    BY <1>1, <1>10 DEF Connect, Disconnect, TypeOK
  <2> QED
    BY <1>1, <2>1, <2>2, <2>3 DEF TypeOK, Range, serverVars
<1>11. ASSUME NEW c \in Conns, SendFrame(c) PROVE TypeOK'
  <2>1. sent[c] + 1 \in DOMAIN FrameLen /\ sent[c] + 1 \in 0..Len(FrameLen)
    BY <1>1, <1>11, SMTT(60) DEF SendFrame, StreamTypes
  <2>2. rx[c] \o Request(sent[c] + 1) \in Seq(RequestWord)
    BY <1>1, <2>1, RequestWords DEF StreamTypes
  <2>3. rx' \in [Conns -> Seq(RequestWord)] /\ sent' \in [Conns -> 0..Len(FrameLen)]
    BY <1>1, <1>11, <2>1, <2>2 DEF SendFrame, StreamTypes
  <2>4. StreamTypes'
    BY <1>1, <1>11, <2>3, ArrivalsTyped DEF SendFrame
  <2> QED
    BY <1>1, <1>11, <2>4 DEF SendFrame, TypeOK, Range, serverVars
<1>12. ASSUME NEW c \in Conns, Receive(c) PROVE TypeOK'
  <2>1. got[c] \o tx[c] \in Seq(ReplyWord)
    BY <1>1 DEF StreamTypes
  <2>2. got' \in [Conns -> Seq(ReplyWord)] /\ tx' \in [Conns -> Seq(ReplyWord)]
        /\ \A d \in Conns : Len(tx'[d]) <= SendRoom
    BY <1>1, <1>12, <2>1 DEF Receive, StreamTypes
  <2>3. StreamTypes'
    BY <1>1, <1>12, <2>2 DEF Receive, StreamTypes
  <2> QED
    BY <1>1, <1>12, <2>3 DEF Receive, TypeOK, Range, serverVars
<1>13. CASE UNCHANGED vars
  BY <1>1, <1>13, StreamsAlone DEF vars, TypeOK, Range, streamVars
<1> QED
  BY <1>2, <1>3, <1>4, <1>5, <1>6, <1>7, <1>8, <1>9, <1>10, <1>11, <1>12, <1>13
     DEF Next, Server, Peer

\* A step that leaves the vector alone, and moves connections only between the
\* states of an accepted one or between those of others, keeps the vector right.
LEMMA ClientsAlone ==
  ASSUME TypeOK, ClientsAreConnections, TypeOK', clients' = clients,
         \A c \in Conns : link[c] \in {"open", "closed", "reset"}
                          <=> link'[c] \in {"open", "closed", "reset"}
  PROVE  ClientsAreConnections'
  BY DEF ClientsAreConnections, Range

\* Every action keeps the vector of clients right, and the phases of the loop.
LEMMA ClientsInductive ==
  ASSUME IInv, [Next]_vars
  PROVE  ClientsAreConnections' /\ LoopPhases'
<1>1. TypeOK /\ LoopPhases /\ ClientsAreConnections /\ TypeOK'
  BY TypeInductive DEF IInv
<1>2. MAX_CLIENTS \in Nat \ {0} /\ NoFd \notin Conns
  BY ServerAssumption DEF NoFd
<1>3. CASE Purge
  <2>1. clients' = <<>> /\ pc' = "select" /\ fds' = {}
    BY <1>1, <1>3 DEF Purge, LoopPhases
  <2>2. Range(clients)' = {}
    BY <2>1 DEF Range
  <2>3. \A c \in Conns : link'[c] \notin {"open", "closed", "reset"}
    BY <1>1, <1>3 DEF Purge, ClientsAreConnections
  <2> QED
    BY <1>2, <2>1, <2>2, <2>3 DEF ClientsAreConnections, LoopPhases
<1>4. CASE Select
  <2>1. clients' = clients /\ link' = link /\ Len(clients) < MAX_CLIENTS /\ pc' = "serve"
    BY <1>4 DEF Select
  <2> QED
    BY <1>1, <2>1, ClientsAlone DEF LoopPhases
<1>5. CASE SelectAborts
  <2>1. clients' = clients /\ link' = link /\ pc' = "ended"
    BY <1>5 DEF SelectAborts
  <2> QED
    BY <1>1, <2>1, ClientsAlone DEF LoopPhases
<1>6. CASE Accept
  <2>1. pc' = "select" /\ fds' = {} /\ Len(clients) < MAX_CLIENTS
    BY <1>1, <1>6 DEF Accept, LoopPhases
  <2>2. CASE listen
    <3>1. PICK c \in Conns : /\ link[c] = "pending"
                             /\ clients' = Append(clients, c)
                             /\ link' = [link EXCEPT ![c] = "open"]
      BY <1>6, <2>2 DEF Accept, Pending
    <3>2. clients \in Seq(Conns \cup {NoFd}) /\ c \in Conns \cup {NoFd}
      BY <1>1 DEF TypeOK
    <3>3. /\ Len(clients') = Len(clients) + 1
          /\ DOMAIN clients' = 1..(Len(clients) + 1)
          /\ \A i \in 1..Len(clients) : clients'[i] = clients[i]
          /\ clients'[Len(clients) + 1] = c
          /\ Range(clients') = Range(clients) \cup {c}
      BY <1>2, <3>1, <3>2, AppendClient
    <3>4. Len(clients') <= MAX_CLIENTS
      BY <1>2, <2>1, <3>2, <3>3
    <3>5. c \notin Range(clients)
      BY <1>1, <3>1 DEF ClientsAreConnections
    <3>6. ASSUME NEW i \in DOMAIN clients', NEW j \in DOMAIN clients',
                 clients'[i] = clients'[j], clients'[i] # NoFd
          PROVE  i = j
      <4>1. \A k \in 1..Len(clients) : clients[k] # NoFd => clients[k] \in Range(clients)
        BY <3>2 DEF Range
      <4>2. Len(clients) \in Nat /\ DOMAIN clients = 1..Len(clients)
        BY <3>2
      <4>3. i \in 1..Len(clients) \/ i = Len(clients) + 1
        BY <3>3, <4>2
      <4>4. j \in 1..Len(clients) \/ j = Len(clients) + 1
        BY <3>3, <4>2
      <4> QED
        BY <1>1, <3>3, <3>5, <3>6, <4>1, <4>2, <4>3, <4>4 DEF ClientsAreConnections
    <3>7. Range(clients') = {d \in Conns : link'[d] \in {"open", "closed", "reset"}}
      BY <1>1, <3>1, <3>3 DEF ClientsAreConnections, TypeOK
    <3> QED
      BY <2>1, <3>4, <3>6, <3>7 DEF ClientsAreConnections, LoopPhases, Range
  <2>3. CASE ~listen
    BY <1>1, <1>6, <2>1, <2>3, ClientsAlone DEF Accept, LoopPhases
  <2> QED
    BY <2>2, <2>3
<1>7. CASE AcceptFails
  <2>1. pc' = "select" /\ fds' = {} /\ Len(clients) < MAX_CLIENTS
    BY <1>1, <1>7 DEF AcceptFails, LoopPhases
  <2>2. PICK c \in Conns : link[c] = "pending" /\ link' = [link EXCEPT ![c] = "gone"]
    BY <1>7 DEF AcceptFails, Pending
  <2>3. clients' = Append(clients, NoFd) /\ clients \in Seq(Conns \cup {NoFd})
    BY <1>1, <1>7 DEF AcceptFails, TypeOK
  <2>4. /\ Len(clients') = Len(clients) + 1
        /\ DOMAIN clients' = 1..(Len(clients) + 1)
        /\ \A i \in 1..Len(clients) : clients'[i] = clients[i]
        /\ clients'[Len(clients) + 1] = NoFd
        /\ Range(clients') = Range(clients)
    <3>1. NoFd \in Conns \cup {NoFd}
      OBVIOUS
    <3>2. /\ Len(clients') = Len(clients) + 1
          /\ DOMAIN clients' = 1..(Len(clients) + 1)
          /\ \A i \in 1..Len(clients) : clients'[i] = clients[i]
          /\ clients'[Len(clients) + 1] = NoFd
          /\ Range(clients') = Range(clients) \cup ({NoFd} \ {NoFd})
      BY <2>3, <3>1, AppendClient
    <3>3. Range(clients) \cup ({NoFd} \ {NoFd}) = Range(clients)
      OBVIOUS
    <3> QED
      BY <3>2, <3>3, Zenon
  <2>5. Len(clients') <= MAX_CLIENTS
    BY <1>2, <2>1, <2>3, <2>4
  <2>6. ASSUME NEW i \in DOMAIN clients', NEW j \in DOMAIN clients',
               clients'[i] = clients'[j], clients'[i] # NoFd
        PROVE  i = j
    <3>1. Len(clients) \in Nat /\ DOMAIN clients = 1..Len(clients)
      BY <2>3
    <3>2. i \in 1..Len(clients) /\ j \in 1..Len(clients)
      BY <2>4, <2>6, <3>1
    <3> QED
      BY <1>1, <2>4, <2>6, <3>1, <3>2 DEF ClientsAreConnections
  <2>7. Range(clients') = {d \in Conns : link'[d] \in {"open", "closed", "reset"}}
    BY <1>1, <2>2, <2>4 DEF ClientsAreConnections, TypeOK
  <2> QED
    BY <2>1, <2>5, <2>6, <2>7 DEF ClientsAreConnections, LoopPhases, Range
<1>8. ASSUME NEW c \in Conns, RunIO(c) PROVE ClientsAreConnections' /\ LoopPhases'
  <2>1. pc = "serve" /\ UNCHANGED <<pc, clients, link>>
    BY <1>8 DEF RunIO, Turn
  <2> QED
    BY <1>1, <2>1, ClientsAlone DEF LoopPhases
<1>9. ASSUME NEW c \in Conns, RunIOReset(c) PROVE ClientsAreConnections' /\ LoopPhases'
  <2>1. /\ pc = "serve" /\ UNCHANGED <<pc, clients>>
        /\ link[c] = "reset" /\ link' = [link EXCEPT ![c] = "closed"]
    BY <1>9 DEF RunIOReset, Turn
  <2>2. \A d \in Conns : link[d] \in {"open", "closed", "reset"}
                         <=> link'[d] \in {"open", "closed", "reset"}
    BY <1>1, <2>1 DEF TypeOK
  <2> QED
    BY <1>1, <2>1, <2>2, ClientsAlone DEF LoopPhases
<1>10. ASSUME NEW c \in Conns, RunIOThrows(c) \/ OpenFails(c)
       PROVE  ClientsAreConnections' /\ LoopPhases'
  <2>1. pc' = "ended" /\ UNCHANGED <<clients, link>>
    BY <1>10 DEF RunIOThrows, OpenFails
  <2> QED
    BY <1>1, <2>1, ClientsAlone DEF LoopPhases
<1>11. ASSUME NEW c \in Conns, Connect(c) \/ Disconnect(c)
       PROVE  ClientsAreConnections' /\ LoopPhases'
  <2>1. UNCHANGED <<pc, clients, fds>>
    BY <1>11 DEF Connect, Disconnect, serverVars
  <2>2. \A d \in Conns : link[d] \in {"open", "closed", "reset"}
                         <=> link'[d] \in {"open", "closed", "reset"}
    BY <1>1, <1>11 DEF Connect, Disconnect, TypeOK
  <2> QED
    BY <1>1, <2>1, <2>2, ClientsAlone DEF LoopPhases
<1>12. ASSUME NEW c \in Conns, SendFrame(c) \/ Receive(c)
       PROVE  ClientsAreConnections' /\ LoopPhases'
  <2>1. UNCHANGED <<pc, clients, fds, link>>
    BY <1>12 DEF SendFrame, Receive, serverVars
  <2> QED
    BY <1>1, <2>1, ClientsAlone DEF LoopPhases
<1>13. CASE UNCHANGED vars
  <2>1. UNCHANGED <<pc, clients, fds, link>>
    BY <1>13 DEF vars
  <2> QED
    BY <1>1, <2>1, ClientsAlone DEF LoopPhases
<1> QED
  BY <1>3, <1>4, <1>5, <1>6, <1>7, <1>8, <1>9, <1>10, <1>11, <1>12, <1>13
     DEF Next, Server, Peer

-----------------------------------------------------------------------------
(* Replies *)

\* Concatenation under a name, to reason about it by its laws alone.
Joined(s, u) == s \o u

LEMMA JoinedLaws ==
  /\ \A x, y \in Seq(ReplyWord) : Joined(x, y) \in Seq(ReplyWord)
  /\ \A x, y, z \in Seq(ReplyWord) : Joined(Joined(x, y), z) = Joined(x, Joined(y, z))
  BY ConcatElements, ConcatAssociative DEF Joined

\* Handing over a reply in parts changes nothing.
LEMMA Regroup ==
  ASSUME NEW g \in Seq(ReplyWord), NEW t \in Seq(ReplyWord), NEW o \in Seq(ReplyWord),
         NEW r \in Seq(ReplyWord), NEW t2 \in Seq(ReplyWord), NEW o2 \in Seq(ReplyWord),
         Joined(t2, o2) = Joined(t, Joined(o, r))
  PROVE  Joined(Joined(g, t2), o2) = Joined(Joined(Joined(g, t), o), r)
  BY JoinedLaws, SMTT(60)

\* Every action keeps the replies intact.
LEMMA RepliesInductive ==
  ASSUME IInv, [Next]_vars
  PROVE  RepliesIntact'
<1>1. TypeOK /\ StreamTypes /\ RepliesIntact /\ TypeOK' /\ StreamTypes'
  <2>1. TypeOK' /\ TypeOK /\ RepliesIntact
    BY TypeInductive DEF IInv
  <2> QED
    BY <2>1 DEF TypeOK
<1>2. CASE /\ UNCHANGED <<got, tx, obuf, owed, cut>>
           /\ \A c \in Conns : link'[c] # "gone" => link[c] # "gone"
  BY <1>1, <1>2 DEF RepliesIntact
<1>3. CASE Purge \/ Select \/ SelectAborts \/ Accept \/ AcceptFails
  <2>1. UNCHANGED <<got, tx, obuf, owed, cut>>
    BY <1>3 DEF Purge, Select, SelectAborts, Accept, AcceptFails, streamVars
  <2>2. \A c \in Conns : link'[c] # "gone" => link[c] # "gone"
    BY <1>1, <1>3 DEF Purge, Select, SelectAborts, Accept, AcceptFails, Pending, TypeOK
  <2> QED
    BY <1>2, <2>1, <2>2
<1>4. ASSUME NEW c \in Conns, RunIO(c) PROVE RepliesIntact'
  <2>1. PICK n \in 0..Smaller(RecvMax, Len(rx[c])) : Process(c, Prefix(rx[c], n))
    BY <1>4 DEF RunIO
  <2>2. Prefix(rx[c], n) \in Seq(RequestWord)
    BY <1>1, RecvTypes
  <2>3. got' = got /\ link' = link
    BY <1>4 DEF RunIO
  <2>4. /\ \A d \in Conns \ {c} : /\ obuf'[d] = obuf[d] /\ tx'[d] = tx[d]
                                  /\ owed'[d] = owed[d] /\ cut'[d] = cut[d]
        /\ ~cut'[c] => /\ ~cut[c]
                       /\ \E reply \in Seq(ReplyWord) :
                            /\ owed'[c] = owed[c] \o reply
                            /\ tx'[c] \o obuf'[c] = tx[c] \o (obuf[c] \o reply)
    BY <1>1, <2>1, <2>2, ProcessKeeps
  <2>5. SUFFICES ASSUME NEW d \in Conns, ~cut'[d], link'[d] # "gone"
                 PROVE  got'[d] \o tx'[d] \o obuf'[d] = owed'[d]
    BY DEF RepliesIntact
  <2>6. CASE d # c
    BY <1>1, <2>3, <2>4, <2>5, <2>6 DEF RepliesIntact
  <2>7. CASE d = c
    <3>1. PICK reply \in Seq(ReplyWord) :
            /\ owed'[c] = owed[c] \o reply
            /\ tx'[c] \o obuf'[c] = tx[c] \o (obuf[c] \o reply)
      BY <2>4, <2>5, <2>7
    <3>2. owed[c] = got[c] \o tx[c] \o obuf[c]
      BY <1>1, <2>3, <2>4, <2>5, <2>7 DEF RepliesIntact
    <3>3. /\ got[c] \in Seq(ReplyWord) /\ tx[c] \in Seq(ReplyWord) /\ obuf[c] \in Seq(ReplyWord)
          /\ tx'[c] \in Seq(ReplyWord) /\ obuf'[c] \in Seq(ReplyWord)
      BY <1>1 DEF StreamTypes
    <3>4. Joined(tx'[c], obuf'[c]) = Joined(tx[c], Joined(obuf[c], reply))
      BY <3>1, Zenon DEF Joined
    <3>5. Joined(Joined(got[c], tx'[c]), obuf'[c])
          = Joined(Joined(Joined(got[c], tx[c]), obuf[c]), reply)
      BY <3>3, <3>4, Regroup, SMTT(60)
    <3>6. got[c] \o tx'[c] \o obuf'[c] = (got[c] \o tx[c] \o obuf[c]) \o reply
      BY <3>5, Zenon DEF Joined
    <3> QED
      BY <2>3, <2>7, <3>1, <3>2, <3>6, Zenon
  <2> QED
    BY <2>6, <2>7
<1>5. ASSUME NEW c \in Conns, RunIOReset(c) \/ RunIOThrows(c) \/ OpenFails(c) PROVE RepliesIntact'
  <2>1. UNCHANGED <<got, tx, obuf, owed, cut>>
    BY <1>5 DEF RunIOReset, RunIOThrows, OpenFails, streamVars
  <2>2. \A d \in Conns : link'[d] # "gone" => link[d] # "gone"
    BY <1>1, <1>5 DEF RunIOReset, RunIOThrows, OpenFails, TypeOK
  <2> QED
    BY <1>2, <2>1, <2>2
<1>6. ASSUME NEW c \in Conns, Connect(c) \/ SendFrame(c) \/ Disconnect(c) PROVE RepliesIntact'
  <2>1. UNCHANGED <<got, tx, obuf, owed, cut>>
    BY <1>6 DEF Connect, SendFrame, Disconnect, streamVars
  <2>2. \A d \in Conns : link'[d] # "gone" => link[d] # "gone"
    BY <1>1, <1>6 DEF Connect, SendFrame, Disconnect, TypeOK
  <2> QED
    BY <1>2, <2>1, <2>2
<1>7. ASSUME NEW c \in Conns, Receive(c) PROVE RepliesIntact'
  <2>1. /\ got' = [got EXCEPT ![c] = @ \o tx[c]]
        /\ tx' = [tx EXCEPT ![c] = <<>>]
        /\ UNCHANGED <<obuf, owed, cut, link>>
    BY <1>7 DEF Receive
  <2>2. SUFFICES ASSUME NEW d \in Conns, ~cut[d], link[d] # "gone"
                 PROVE  got'[d] \o tx'[d] \o obuf'[d] = owed[d]
    BY <2>1 DEF RepliesIntact
  <2>3. got[d] \o tx[d] \o obuf[d] = owed[d]
    BY <1>1, <2>2 DEF RepliesIntact
  <2>4. CASE d # c
    BY <1>1, <2>1, <2>3, <2>4 DEF StreamTypes
  <2>5. CASE d = c
    <3>1. got'[c] = got[c] \o tx[c] /\ tx'[c] = <<>> /\ obuf' = obuf
      BY <1>1, <2>1 DEF StreamTypes
    <3>2. (got[c] \o tx[c]) \o <<>> = got[c] \o tx[c]
      BY <1>1 DEF StreamTypes
    <3> QED
      BY <2>3, <2>5, <3>1, <3>2, Zenon
  <2> QED
    BY <2>4, <2>5
<1>8. CASE UNCHANGED vars
  BY <1>2, <1>8 DEF vars
<1> QED
  BY <1>3, <1>4, <1>5, <1>6, <1>7, <1>8 DEF Next, Server, Peer

-----------------------------------------------------------------------------
(* What is on its way *)

\* Nothing is on its way at first.
LEMMA NothingSent ==
  Consecutive(<<>>, 0, 0)
<1> DEFINE off == [i \in 0..0 |-> 0]
<1>1. off \in [0..0 -> 0..Len(<<>>)] /\ off[0] = 0
  OBVIOUS
<1>2. \A i, j \in 0..0 : i <= j => off[i] <= off[j]
  OBVIOUS
<1>3. \A i \in 0..(0 - 1) : FALSE
  OBVIOUS
<1> HIDE DEF off
<1>4. Len(<<>>) = 0
  OBVIOUS
<1> QED
  BY <1>1, <1>2, <1>3, <1>4 DEF Consecutive

\* The next frame goes behind the others.
LEMMA FrameAdded ==
  ASSUME NEW s \in Seq(RequestWord), NEW m \in Nat, NEW n \in Nat, m <= n,
         Consecutive(s, m, n), n + 1 \in DOMAIN FrameLen
  PROVE  Consecutive(s \o Request(n + 1), m, n + 1)
<1> DEFINE r == Request(n + 1)
           k == FrameLen[n + 1] + 1
           both == s \o r
<1>1. /\ k \in Nat /\ r \in Seq(RequestWord) /\ Len(r) = k
      /\ FrameLen[n + 1] = k - 1 /\ k - 1 \in Nat
      /\ \A j \in 0..(k - 1) : r[j + 1] = <<n + 1, j>>
  <2>1. /\ FrameLen[n + 1] \in Nat
        /\ r \in Seq(RequestWord)
        /\ Len(r) = FrameLen[n + 1] + 1
        /\ \A j \in 0..FrameLen[n + 1] : r[j + 1] = <<n + 1, j>>
    BY RequestWords
  <2>2. k \in Nat /\ k - 1 = FrameLen[n + 1]
    BY <2>1
  <2> QED
    BY <2>1, <2>2
<1> HIDE DEF r, k
<1>2. /\ Len(both) = Len(s) + k
      /\ \A i \in 1..Len(s) : both[i] = s[i]
      /\ \A i \in 1..k : both[Len(s) + i] = r[i]
  <2>1. r \in Seq(RequestWord) /\ Len(r) = k
    BY <1>1
  <2>2. Len(both) = Len(s) + Len(r)
    BY <2>1
  <2>3. ASSUME NEW i \in 1..Len(s) PROVE both[i] = s[i]
    BY <2>1, ConcatElements
  <2>4. ASSUME NEW i \in 1..Len(r) PROVE both[Len(s) + i] = r[i]
    BY <2>1, ConcatElements
  <2> HIDE DEF both
  <2> QED
    BY <2>1, <2>2, <2>3, <2>4
<1>3. PICK off \in [m..n -> 0..Len(s)] :
        /\ off[m] = 0
        /\ off[n] = Len(s)
        /\ \A i, j \in m..n : i <= j => off[i] <= off[j]
        /\ \A i \in m..(n - 1) :
             /\ off[i + 1] = off[i] + 1 + FrameLen[i + 1]
             /\ \A j \in 0..FrameLen[i + 1] : s[off[i] + 1 + j] = <<i + 1, j>>
  BY DEF Consecutive
<1> DEFINE more == [i \in m..(n + 1) |-> IF i = n + 1 THEN Len(s) + k ELSE off[i]]
<1>4. Len(s) \in Nat /\ m..n \subseteq m..(n + 1)
      /\ \A i \in m..(n + 1) : i # n + 1 => i \in m..n
  BY <1>1
<1> HIDE DEF both
<1>5. /\ more \in [m..(n + 1) -> 0..Len(both)]
      /\ \A i \in m..n : more[i] = off[i]
      /\ more[n + 1] = Len(s) + k
  BY <1>1, <1>2, <1>3, <1>4
<1> HIDE DEF more
<1>6. more[m] = 0 /\ more[n + 1] = Len(both)
  BY <1>2, <1>3, <1>5
<1>7. ASSUME NEW i \in m..(n + 1), NEW j \in m..(n + 1), i <= j PROVE more[i] <= more[j]
  <2>1. CASE j = n + 1
    BY <1>2, <1>5, <2>1
  <2>2. CASE j # n + 1
    <3>1. i \in m..n /\ j \in m..n
      BY <1>4, <1>7, <2>2
    <3> QED
      BY <1>3, <1>5, <1>7, <3>1
  <2> QED
    BY <2>1, <2>2
<1>8. ASSUME NEW i \in m..((n + 1) - 1)
      PROVE  /\ more[i + 1] = more[i] + 1 + FrameLen[i + 1]
             /\ \A j \in 0..FrameLen[i + 1] : both[more[i] + 1 + j] = <<i + 1, j>>
  <2>1. CASE i = n
    <3>1. more[i] = Len(s) /\ more[i + 1] = Len(s) + k /\ FrameLen[i + 1] = k - 1
      BY <1>1, <1>3, <1>4, <1>5, <2>1
    <3>2. ASSUME NEW j \in 0..FrameLen[i + 1] PROVE both[more[i] + 1 + j] = <<i + 1, j>>
      <4>1. j \in 0..(k - 1) /\ j + 1 \in 1..k /\ more[i] + 1 + j = Len(s) + (j + 1)
        BY <1>1, <1>4, <3>1
      <4>2. both[Len(s) + (j + 1)] = r[j + 1]
        BY <1>2, <4>1
      <4> QED
        BY <1>1, <2>1, <4>1, <4>2
    <3>3. more[i + 1] = more[i] + 1 + FrameLen[i + 1]
      BY <1>1, <1>4, <3>1
    <3> QED
      BY <3>2, <3>3
  <2>2. CASE i \in m..(n - 1)
    <3>1. i \in m..n /\ i + 1 \in m..n
      BY <2>2
    <3>2. more[i] = off[i] /\ more[i + 1] = off[i + 1] /\ off[i] \in Nat /\ off[i + 1] <= Len(s)
      BY <1>3, <1>4, <1>5, <3>1
    <3>3. off[i + 1] = off[i] + 1 + FrameLen[i + 1]
      BY <1>3, <2>2
    <3>4. ASSUME NEW j \in 0..FrameLen[i + 1] PROVE both[off[i] + 1 + j] = <<i + 1, j>>
      <4>1. s[off[i] + 1 + j] = <<i + 1, j>>
        BY <1>3, <2>2
      <4>2. FrameLen[i + 1] \in Nat
        <5>1. Len(FrameLen) \in Nat /\ DOMAIN FrameLen = 1..Len(FrameLen)
          BY ServerAssumption
        <5>2. i + 1 \in DOMAIN FrameLen
          BY <2>2, <5>1
        <5> QED
          BY <5>2, ServerAssumption
      <4>3. off[i] + 1 + j \in 1..Len(s)
        BY <1>4, <3>2, <3>3, <4>2, SMTT(60)
      <4> QED
        BY <1>2, <4>1, <4>3
    <3> QED
      BY <3>2, <3>3, <3>4
  <2> QED
    BY <2>1, <2>2
<1>9. Consecutive(both, m, n + 1)
  BY <1>5, <1>6, <1>7, <1>8 DEF Consecutive
<1> QED
  BY <1>9 DEF both, r

\* Positions counted from k.
LEMMA Shifted ==
  ASSUME NEW z \in Nat, NEW k \in 0..z, NEW a \in 0..z, NEW b \in 0..z, NEW l \in Nat,
         b = a + 1 + l
  PROVE  /\ b - k = (a - k) + 1 + l
         /\ a - k \in 0..(z - k) =>
              \A j \in 0..l : /\ (a - k) + 1 + j \in 1..(z - k)
                             /\ k + ((a - k) + 1 + j) = a + 1 + j
  OBVIOUS

\* If a recv returned one whole frame, it is the next one, and the others remain.
LEMMA FrameTaken ==
  ASSUME NEW s \in Seq(RequestWord), NEW m \in Nat, NEW n \in 0..Len(FrameLen), m <= n,
         Consecutive(s, m, n), NEW f \in DOMAIN FrameLen, NEW k \in 0..Len(s),
         Prefix(s, k) = Request(f)
  PROVE  f = m + 1 /\ m < n /\ Consecutive(Drop(s, k), m + 1, n)
<1> DEFINE rest == Drop(s, k)
<1>1. PICK off \in [m..n -> 0..Len(s)] :
        /\ off[m] = 0
        /\ off[n] = Len(s)
        /\ \A i, j \in m..n : i <= j => off[i] <= off[j]
        /\ \A i \in m..(n - 1) :
             /\ off[i + 1] = off[i] + 1 + FrameLen[i + 1]
             /\ \A j \in 0..FrameLen[i + 1] : s[off[i] + 1 + j] = <<i + 1, j>>
  BY DEF Consecutive
<1>2. /\ k = FrameLen[f] + 1 /\ FrameLen[f] \in Nat
      /\ s[1] = <<f, 0>>
  <2>1. /\ Len(Request(f)) = FrameLen[f] + 1 /\ FrameLen[f] \in Nat
        /\ \A j \in 0..FrameLen[f] : Request(f)[j + 1] = <<f, j>>
    BY RequestWords
  <2>2. Len(Prefix(s, k)) = k /\ \A i \in 1..k : Prefix(s, k)[i] = s[i]
    BY PrefixDropTypes
  <2>3. 0 \in 0..FrameLen[f] /\ 1 \in 1..k /\ 0 + 1 = 1
    BY <2>1, <2>2
  <2>4. Request(f)[1] = <<f, 0>>
    BY <2>1, <2>3
  <2> QED
    BY <2>1, <2>2, <2>3, <2>4
<1>3. Len(s) \in Nat /\ k <= Len(s) /\ n \in Nat /\ Len(FrameLen) \in Nat
      /\ DOMAIN FrameLen = 1..Len(FrameLen) /\ \A g \in DOMAIN FrameLen : FrameLen[g] \in Nat
  BY ServerAssumption
<1>4. m < n /\ m \in m..(n - 1)
  BY <1>1, <1>2, <1>3
<1>5. f = m + 1 /\ off[m + 1] = k
  <2>1. FrameLen[m + 1] \in Nat
    BY <1>3, <1>4
  <2>2. s[off[m] + 1 + 0] = <<m + 1, 0>>
    BY <1>1, <1>4, <2>1, SMTT(60)
  <2>3. s[1] = <<m + 1, 0>>
    BY <1>1, <2>2
  <2>4. f = m + 1
    BY <1>2, <2>3
  <2> QED
    BY <1>1, <1>2, <1>4, <2>4
<1>6. Len(rest) = Len(s) - k /\ \A i \in 1..(Len(s) - k) : rest[i] = s[k + i]
  BY PrefixDropTypes
<1> HIDE DEF rest
<1> DEFINE less == [i \in (m + 1)..n |-> off[i] - k]
<1>7. ASSUME NEW i \in (m + 1)..n PROVE off[i] - k \in 0..Len(rest) /\ i \in m..n
  <2>1. i \in m..n /\ m + 1 \in m..n /\ m + 1 <= i
    BY <1>3
  <2>2. off[m + 1] <= off[i] /\ off[i] \in 0..Len(s)
    BY <1>1, <2>1
  <2> QED
    BY <1>3, <1>5, <1>6, <2>1, <2>2
<1>8. less \in [(m + 1)..n -> 0..Len(rest)] /\ \A i \in (m + 1)..n : less[i] = off[i] - k
  BY <1>7
<1> HIDE DEF less
<1>9. less[m + 1] = 0 /\ less[n] = Len(rest)
  <2>1. m + 1 \in (m + 1)..n /\ n \in (m + 1)..n
    BY <1>3, <1>4
  <2>2. less[m + 1] = off[m + 1] - k /\ less[n] = off[n] - k
    BY <1>8, <2>1
  <2> QED
    BY <1>1, <1>3, <1>5, <1>6, <2>2
<1>10. ASSUME NEW i \in (m + 1)..n, NEW j \in (m + 1)..n, i <= j PROVE less[i] <= less[j]
  <2>1. off[i] <= off[j] /\ off[i] \in Int /\ off[j] \in Int
    BY <1>1, <1>7, <1>10
  <2> QED
    BY <1>8, <2>1, SMTT(60)
<1>11. ASSUME NEW i \in (m + 1)..(n - 1)
       PROVE  /\ less[i + 1] = less[i] + 1 + FrameLen[i + 1]
              /\ \A j \in 0..FrameLen[i + 1] : rest[less[i] + 1 + j] = <<i + 1, j>>
  <2>1. i \in m..(n - 1) /\ i \in (m + 1)..n /\ i + 1 \in (m + 1)..n /\ i + 1 \in DOMAIN FrameLen
    BY <1>3
  <2>2. less[i] = off[i] - k /\ less[i + 1] = off[i + 1] - k /\ FrameLen[i + 1] \in Nat
    BY <1>3, <1>8, <2>1
  <2>3. off[i] \in 0..Len(s) /\ off[i + 1] \in 0..Len(s)
    BY <1>1, <1>7, <2>1
  <2>4. less[i] \in 0..Len(rest)
    BY <1>8, <2>1
  <2>5. off[i + 1] = off[i] + 1 + FrameLen[i + 1]
    BY <1>1, <2>1
  <2> DEFINE a == off[i]
             b == off[i + 1]
             l == FrameLen[i + 1]
             z == Len(s)
  <2>6. /\ z \in Nat /\ k \in 0..z /\ a \in 0..z /\ b \in 0..z /\ l \in Nat /\ b = a + 1 + l
        /\ less[i] = a - k /\ less[i + 1] = b - k /\ Len(rest) = z - k /\ a - k \in 0..(z - k)
    BY <1>3, <1>6, <2>2, <2>3, <2>4, <2>5
  <2>7. less[i + 1] = less[i] + 1 + FrameLen[i + 1]
    <3> HIDE DEF a, b, l, z
    <3>1. b - k = (a - k) + 1 + l
      BY <2>6, Shifted
    <3> QED
      BY <2>6, <3>1 DEF l
  <2>8. ASSUME NEW j \in 0..FrameLen[i + 1] PROVE rest[less[i] + 1 + j] = <<i + 1, j>>
    <3>1. s[a + 1 + j] = <<i + 1, j>>
      BY <1>1, <2>1
    <3>2. less[i] + 1 + j \in 1..(Len(s) - k) /\ k + (less[i] + 1 + j) = a + 1 + j
      <4>1. j \in 0..l
        OBVIOUS
      <4> HIDE DEF a, b, l, z
      <4>2. (a - k) + 1 + j \in 1..(z - k) /\ k + ((a - k) + 1 + j) = a + 1 + j
        BY <2>6, <4>1, Shifted, SMTT(60)
      <4> QED
        BY <2>6, <4>2 DEF z
    <3>3. rest[less[i] + 1 + j] = s[k + (less[i] + 1 + j)]
      BY <1>6, <3>2
    <3> QED
      BY <3>1, <3>2, <3>3
  <2> QED
    BY <2>7, <2>8
<1>12. Consecutive(rest, m + 1, n)
  BY <1>8, <1>9, <1>10, <1>11 DEF Consecutive
<1> QED
  BY <1>4, <1>5, <1>12 DEF rest

\* A step that hands no frame over and adds none: what is on its way stays as it
\* is, or is thrown away with its connection.
LEMMA FramesAlone ==
  ASSUME FramesInOrder, Arriving, UNCHANGED <<ibuf, frames, ragged, sent>>,
         \A c \in Conns : \/ rx'[c] = rx[c]
                          \/ rx'[c] = <<>> /\ link'[c] \in {"closed", "gone"},
         \A c \in Conns : link[c] \in {"closed", "gone"} => link'[c] \in {"closed", "gone"}
  PROVE  FramesInOrder' /\ Arriving'
<1>1. FramesInOrder'
  BY DEF FramesInOrder
<1>2. ASSUME NEW c \in Conns, ~ragged[c]
      PROVE  /\ ibuf[c] = <<>>
             /\ Len(frames[c]) <= sent[c]
             /\ \/ Consecutive(rx'[c], Len(frames[c]), sent[c])
                \/ rx'[c] = <<>> /\ link'[c] \in {"closed", "gone"}
  BY <1>2 DEF Arriving
<1>3. Arriving'
  BY <1>2 DEF Arriving, Consecutive
<1> QED
  BY <1>1, <1>3

\* One frame in an empty buffer is available, and nothing is left behind it.
LEMMA WholeFrame ==
  ASSUME NEW f \in DOMAIN FrameLen
  PROVE  /\ Request(f) # <<>>
         /\ Available(Request(f))
         /\ Drop(Request(f), Smaller(1 + LengthOf(Request(f)[1]), Len(Request(f)))) = <<>>
<1>1. /\ FrameLen[f] \in Nat
      /\ Request(f) \in Seq(RequestWord)
      /\ Len(Request(f)) = FrameLen[f] + 1
      /\ \A j \in 0..FrameLen[f] : Request(f)[j + 1] = <<f, j>>
  BY RequestWords
<1>2. Request(f)[1] = <<f, 0>>
  <2>1. 0 \in 0..FrameLen[f] /\ 0 + 1 = 1
    BY <1>1
  <2> QED
    BY <1>1, <2>1
<1>3. LengthOf(Request(f)[1]) = FrameLen[f]
  BY <1>2 DEF LengthOf
<1>4. Request(f) # <<>> /\ Available(Request(f))
  BY <1>1, <1>3 DEF Available
<1>5. Smaller(1 + LengthOf(Request(f)[1]), Len(Request(f))) = Len(Request(f))
  BY <1>1, <1>3 DEF Smaller
<1>6. Drop(Request(f), Len(Request(f))) = <<>>
  <2>1. Len(Request(f)) \in 0..Len(Request(f))
    BY <1>1
  <2>2. Drop(Request(f), Len(Request(f))) \in Seq(RequestWord)
        /\ Len(Drop(Request(f), Len(Request(f)))) = Len(Request(f)) - Len(Request(f))
    BY <1>1, <2>1, PrefixDropTypes, ZenonT(60)
  <2> QED
    BY <1>1, <2>2
<1> QED
  BY <1>4, <1>5, <1>6

\* Every action keeps the frames in order.
LEMMA FramesInductive ==
  ASSUME IInv, [Next]_vars
  PROVE  FramesInOrder' /\ Arriving'
<1>1. TypeOK /\ StreamTypes /\ FramesInOrder /\ Arriving /\ TypeOK' /\ StreamTypes'
  <2>1. TypeOK' /\ TypeOK /\ FramesInOrder /\ Arriving
    BY TypeInductive DEF IInv
  <2> QED
    BY <2>1 DEF TypeOK
<1>2. CASE Purge \/ AcceptFails
  <2>1. UNCHANGED <<ibuf, frames, ragged, sent>>
    BY <1>2 DEF Purge, AcceptFails
  <2>2. \A c \in Conns : \/ rx'[c] = rx[c] /\ link'[c] = link[c]
                         \/ rx'[c] = <<>> /\ link'[c] = "gone"
    BY <1>1, <1>2 DEF Purge, AcceptFails, TypeOK, StreamTypes
  <2> QED
    BY <1>1, <2>1, <2>2, FramesAlone
<1>3. CASE Select \/ SelectAborts \/ Accept
  <2>1. UNCHANGED <<ibuf, frames, ragged, sent, rx>>
    BY <1>3 DEF Select, SelectAborts, Accept, streamVars
  <2>2. \A c \in Conns : link[c] \in {"closed", "gone"} => link'[c] \in {"closed", "gone"}
    BY <1>1, <1>3 DEF Select, SelectAborts, Accept, Pending, TypeOK
  <2> QED
    BY <1>1, <2>1, <2>2, FramesAlone
<1>4. ASSUME NEW c \in Conns, RunIO(c) PROVE FramesInOrder' /\ Arriving'
  <2>1. PICK n \in 0..Smaller(RecvMax, Len(rx[c])) :
          /\ n = 0 => rx[c] = <<>> /\ link[c] = "closed"
          /\ rx' = [rx EXCEPT ![c] = Drop(@, n)]
          /\ Process(c, Prefix(rx[c], n))
    BY <1>4 DEF RunIO
  <2> DEFINE chunk == Prefix(rx[c], n)
             m == Len(frames[c])
  <2>2. /\ n \in 0..Len(rx[c]) /\ chunk \in Seq(RequestWord) /\ rx[c] \in Seq(RequestWord)
        /\ Len(chunk) = n
    BY <1>1, RecvTypes, PrefixDropTypes DEF StreamTypes
  <2>3. link' = link /\ sent' = sent
    BY <1>4 DEF RunIO
  <2>4. ASSUME NEW d \in Conns \ {c}
        PROVE  /\ ibuf'[d] = ibuf[d] /\ frames'[d] = frames[d] /\ ragged'[d] = ragged[d]
               /\ rx'[d] = rx[d]
    BY <1>1, <2>1, <2>2, ProcessKeeps DEF StreamTypes
  <2>5. rx'[c] = Drop(rx[c], n)
    BY <1>1, <2>1 DEF StreamTypes
  <2>6. ASSUME ~ragged'[c]
        PROVE  /\ ibuf'[c] = <<>>
               /\ \A i \in DOMAIN frames'[c] : frames'[c][i] = Request(i)
               /\ Len(frames'[c]) <= sent[c]
               /\ \/ Consecutive(rx'[c], Len(frames'[c]), sent[c])
                  \/ rx'[c] = <<>> /\ link'[c] \in {"closed", "gone"}
    <3>1. ~ragged[c] /\ (chunk = <<>> \/ ~IsRagged(chunk))
      BY <1>1, <2>1, <2>6 DEF Process, StreamTypes
    <3>2. /\ ibuf[c] = <<>> /\ m <= sent[c]
          /\ \A i \in DOMAIN frames[c] : frames[c][i] = Request(i)
          /\ Consecutive(rx[c], m, sent[c]) \/ rx[c] = <<>>
      BY <1>1, <3>1 DEF Arriving, FramesInOrder
    <3>3. ibuf[c] \o chunk = chunk
      BY <2>2, <3>2
    <3>4. CASE chunk = <<>>
      <4>1. n = 0 /\ rx[c] = <<>> /\ link[c] = "closed"
        BY <2>1, <2>2, <3>4
      <4>2. ibuf' = [ibuf EXCEPT ![c] = chunk] /\ frames' = frames
        BY <2>1, <3>3, <3>4 DEF Process
      <4>3. Drop(<<>>, 0) = <<>>
        BY DEF Drop
      <4> QED
        BY <1>1, <2>3, <2>5, <3>2, <3>4, <4>1, <4>2, <4>3 DEF StreamTypes
    <3>5. CASE chunk # <<>>
      <4>1. PICK f \in DOMAIN FrameLen : chunk = Request(f)
        BY <3>1, <3>5 DEF IsRagged
      <4>2. rx[c] # <<>>
        BY <2>2, <3>5
      <4>3. m \in Nat /\ sent[c] \in 0..Len(FrameLen)
        BY <1>1 DEF StreamTypes
      <4>4. f = m + 1 /\ m < sent[c] /\ Consecutive(Drop(rx[c], n), m + 1, sent[c])
        BY <2>2, <3>2, <4>1, <4>2, <4>3, FrameTaken
      <4>5. /\ ibuf' = [ibuf EXCEPT ![c] = <<>>]
            /\ frames' = [frames EXCEPT ![c] = Append(@, Request(f))]
        <5>1. /\ Request(f) # <<>> /\ Available(Request(f))
              /\ Drop(Request(f), Smaller(1 + LengthOf(Request(f)[1]), Len(Request(f)))) = <<>>
          BY WholeFrame
        <5> DEFINE in == ibuf[c] \o chunk
        <5>2. in = Request(f)
          BY <3>3, <4>1
        <5>3. in # <<>> /\ Available(in) =>
                /\ ibuf' = [ibuf EXCEPT ![c] = Drop(in, Smaller(1 + LengthOf(in[1]), Len(in)))]
                /\ frames' = [frames EXCEPT ![c] = Append(@, in)]
          BY <2>1 DEF Process
        <5> HIDE DEF in
        <5> QED
          BY <5>1, <5>2, <5>3
      <4>6. frames'[c] = Append(frames[c], Request(m + 1)) /\ ibuf'[c] = <<>>
        BY <1>1, <4>4, <4>5 DEF StreamTypes
      <4>7. /\ Len(frames'[c]) = m + 1 /\ DOMAIN frames'[c] = 1..(m + 1)
            /\ \A i \in 1..m : frames'[c][i] = frames[c][i]
            /\ frames'[c][m + 1] = Request(m + 1)
            /\ DOMAIN frames[c] = 1..m
        <5>1. frames[c] \in Seq(Seq(RequestWord)) /\ Request(m + 1) \in Seq(RequestWord)
          BY <1>1, <4>1, <4>4, RequestWords DEF StreamTypes
        <5> QED
          BY <4>6, <5>1, AppendClient
      <4>8. ASSUME NEW i \in DOMAIN frames'[c] PROVE frames'[c][i] = Request(i)
        <5>1. i \in 1..m \/ i = m + 1
          BY <4>3, <4>7
        <5> QED
          BY <3>2, <4>7, <5>1
      <4>9. m + 1 <= sent[c]
        BY <4>3, <4>4
      <4> QED
        BY <2>5, <4>4, <4>6, <4>7, <4>8, <4>9
    <3> QED
      BY <3>4, <3>5
  <2>7. FramesInOrder'
    <3> SUFFICES ASSUME NEW d \in Conns, ~ragged'[d]
                 PROVE  \A i \in DOMAIN frames'[d] : frames'[d][i] = Request(i)
      BY DEF FramesInOrder, Request
    <3> QED
      BY <1>1, <2>4, <2>6 DEF FramesInOrder
  <2>8. Arriving'
    <3> SUFFICES ASSUME NEW d \in Conns, ~ragged'[d]
                 PROVE  /\ ibuf'[d] = <<>>
                        /\ Len(frames'[d]) <= sent[d]
                        /\ \/ Consecutive(rx'[d], Len(frames'[d]), sent[d])
                           \/ rx'[d] = <<>> /\ link'[d] \in {"closed", "gone"}
      BY <2>3 DEF Arriving, Consecutive
    <3> QED
      BY <1>1, <2>3, <2>4, <2>6 DEF Arriving
  <2> QED
    BY <2>7, <2>8
<1>5. ASSUME NEW c \in Conns, RunIOReset(c) PROVE FramesInOrder' /\ Arriving'
  <2>1. UNCHANGED <<ibuf, frames, ragged, sent>>
    BY <1>5 DEF RunIOReset
  <2>2. \A d \in Conns : \/ rx'[d] = rx[d] /\ link'[d] = link[d]
                         \/ rx'[d] = <<>> /\ link'[d] = "closed"
    BY <1>1, <1>5 DEF RunIOReset, TypeOK, StreamTypes
  <2> QED
    BY <1>1, <2>1, <2>2, FramesAlone
<1>6. ASSUME NEW c \in Conns,
             RunIOThrows(c) \/ OpenFails(c) \/ Connect(c) \/ Receive(c) \/ Disconnect(c)
      PROVE  FramesInOrder' /\ Arriving'
  <2>1. UNCHANGED <<ibuf, frames, ragged, sent, rx>>
    BY <1>6 DEF RunIOThrows, OpenFails, Connect, Receive, Disconnect, streamVars
  <2>2. \A d \in Conns : link[d] \in {"closed", "gone"} => link'[d] \in {"closed", "gone"}
    BY <1>1, <1>6 DEF RunIOThrows, OpenFails, Connect, Receive, Disconnect, TypeOK
  <2> QED
    BY <1>1, <2>1, <2>2, FramesAlone
<1>7. ASSUME NEW c \in Conns, SendFrame(c) PROVE FramesInOrder' /\ Arriving'
  <2>1. /\ link[c] \in {"pending", "open"} /\ UNCHANGED <<ibuf, frames, ragged, link>>
        /\ sent' = [sent EXCEPT ![c] = @ + 1]
        /\ rx' = [rx EXCEPT ![c] = @ \o Request(sent[c] + 1)]
    BY <1>7 DEF SendFrame
  <2>2. sent[c] \in Nat /\ sent[c] + 1 \in DOMAIN FrameLen
    BY <1>1, <1>7, ServerAssumption, SMTT(60) DEF SendFrame, StreamTypes
  <2>3. FramesInOrder'
    BY <1>1, <2>1 DEF FramesInOrder
  <2>4. SUFFICES ASSUME NEW d \in Conns, ~ragged[d]
                 PROVE  /\ ibuf[d] = <<>>
                        /\ Len(frames[d]) <= sent'[d]
                        /\ \/ Consecutive(rx'[d], Len(frames[d]), sent'[d])
                           \/ rx'[d] = <<>> /\ link[d] \in {"closed", "gone"}
    BY <2>1, <2>3, ZenonT(60) DEF Arriving, Consecutive
  <2>5. /\ ibuf[d] = <<>>
        /\ Len(frames[d]) <= sent[d]
        /\ \/ Consecutive(rx[d], Len(frames[d]), sent[d])
           \/ rx[d] = <<>> /\ link[d] \in {"closed", "gone"}
    BY <1>1, <2>4 DEF Arriving
  <2>6. CASE d # c
    BY <1>1, <2>1, <2>5, <2>6 DEF StreamTypes
  <2>7. CASE d = c
    <3>1. sent'[c] = sent[c] + 1 /\ rx'[c] = rx[c] \o Request(sent[c] + 1)
      BY <1>1, <2>1 DEF StreamTypes
    <3>2. Len(frames[c]) \in Nat /\ rx[c] \in Seq(RequestWord)
      BY <1>1 DEF StreamTypes
    <3>3. Len(frames[c]) <= sent[c] /\ Consecutive(rx[c], Len(frames[c]), sent[c])
      BY <2>1, <2>5, <2>7
    <3>4. Consecutive(rx[c] \o Request(sent[c] + 1), Len(frames[c]), sent[c] + 1)
      BY <2>2, <3>2, <3>3, FrameAdded
    <3> QED
      BY <2>2, <2>5, <2>7, <3>1, <3>2, <3>3, <3>4
  <2> QED
    BY <2>6, <2>7
<1>8. CASE UNCHANGED vars
  BY <1>1, <1>8, FramesAlone DEF vars
<1> QED
  BY <1>2, <1>3, <1>4, <1>5, <1>6, <1>7, <1>8 DEF Next, Server, Peer

-----------------------------------------------------------------------------
(* The theorems *)

LEMMA InitInductive ==
  Init => IInv
<1> SUFFICES ASSUME Init PROVE IInv
  OBVIOUS
<1> USE ServerAssumption
<1>1. StreamTypes
  BY DEF Init, StreamTypes
<1>2. TypeOK
  <2>1. clients \in Seq(Conns \cup {NoFd})
    BY DEF Init
  <2>2. link \in [Conns -> {"none", "pending", "open", "closed", "reset", "gone"}]
    BY DEF Init
  <2> QED
    BY <1>1, <2>1, <2>2 DEF Init, TypeOK
<1>3. ClientsAreConnections
  BY DEF Init, ClientsAreConnections, Range
<1>4. LoopPhases
  BY DEF Init, LoopPhases
<1>5. FramesInOrder
  BY DEF Init, FramesInOrder
<1>6. Arriving
  <2>1. \A c \in Conns : /\ ibuf[c] = <<>> /\ rx[c] = <<>> /\ sent[c] = 0
                         /\ Len(frames[c]) = 0
    BY DEF Init
  <2> QED
    BY <2>1, NothingSent DEF Arriving
<1>7. RepliesIntact
  BY DEF Init, RepliesIntact
<1> QED
  BY <1>2, <1>3, <1>4, <1>5, <1>6, <1>7 DEF IInv

LEMMA NextInductive ==
  IInv /\ [Next]_vars => IInv'
  BY TypeInductive, ClientsInductive, FramesInductive, RepliesInductive DEF IInv

\* The inductive invariant holds in every state of the server.
THEOREM Inductive ==
  Spec => []IInv
  BY InitInductive, NextInductive, PTL DEF Spec

\* The loop, the vector of clients and the buffers of run_io have their types, and
\* the kernel never holds more for a client than it has room for.
THEOREM TypeCorrect ==
  Spec => []TypeOK
<1>1. IInv => TypeOK
  BY DEF IInv
<1> QED
  BY <1>1, Inductive, PTL

\* The vector of the select loop holds every accepted connection once, never more
\* than MAX_CLIENTS, whatever connects, goes away or fails to be accepted.
THEOREM ClientsSafe ==
  Spec => []ClientsAreConnections
<1>1. IInv => ClientsAreConnections
  BY DEF IInv
<1> QED
  BY <1>1, Inductive, PTL

\* As long as each recv of run_io returned one whole frame, process_frame was given
\* the frames the client sent, whole and in order, whatever their lengths.
THEOREM FramesSafe ==
  Spec => []FramesInOrder
<1>1. IInv => FramesInOrder
  BY DEF IInv
<1> QED
  BY <1>1, Inductive, PTL

\* As long as no send of run_io failed, the client has, will get from the kernel and
\* from obuf exactly the replies, however send cuts them.
THEOREM RepliesSafe ==
  Spec => []RepliesIntact
<1>1. IInv => RepliesIntact
  BY DEF IInv
<1> QED
  BY <1>1, Inductive, PTL
=============================================================================
