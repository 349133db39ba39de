----------------------------- MODULE IPbusServer ------------------------------
(***************************************************************************)
(* The connections of the IPbus server: the select loop of ipbus.cpp and    *)
(* Client::run_io of Client.cpp, against the TCP connections of its         *)
(* clients.                                                                 *)
(*                                                                         *)
(* The byte streams are sequences of words.  Frame f of a connection is the *)
(* length prefix <<f, 0>> and the payload <<f, 1>>, <<f, 2>>, ...; replies  *)
(* have the same form.  What packets mean is the matter of IPbusPacket.     *)
(* recv may return any part of what is on its way, as TCP may split and     *)
(* join it; a file descriptor is named by its connection.                   *)
(***************************************************************************)
EXTENDS Integers, Sequences

CONSTANTS
  Conns,         \* the connections clients may open
  FrameLen,      \* payload words of the first, second, ... frame of a client
  MaxFrames,     \* frames each client may send: bounds the behaviours
  ReplyLen,      \* payload words of a reply
  RecvMax,       \* words one recv can return: the 128 byte buffer
  SendRoom,      \* words the kernel holds for a client that does not read
  MAX_CLIENTS,   \* clients at which the server closes all connections
  MAX_OBUF       \* words of unsent output above which input is not awaited

ASSUME ServerAssumption ==
  /\ Conns \subseteq Nat
  /\ FrameLen \in Seq(Nat)
  /\ MaxFrames \in [Conns -> 0..Len(FrameLen)]
  /\ ReplyLen \in Nat
  /\ RecvMax \in Nat \ {0}
  /\ SendRoom \in Nat \ {0}
  /\ MAX_CLIENTS \in Nat \ {0}
  /\ MAX_OBUF \in Nat \ {0}

VARIABLES
  pc,        \* the server: in "select", in "serve" after it, or "ended"
  clients,   \* the vector of clients
  ibuf,      \* Client::ibuf of each connection
  obuf,      \* Client::obuf of each connection
  fds,       \* the clients select reported and run_io has not yet served
  listen,    \* select reported the listening socket
  inited,    \* memsvc_inited: memhub_open succeeded
  link,      \* state of each connection, as the kernel sees it
  rx,        \* words on their way to the server
  tx,        \* words the kernel holds for the client
  sent,      \* number of frames each client has sent
  got,       \* history: words each client has received
  owed,      \* history: words of all replies the server made
  frames,    \* history: what was handed to process_frame
  ragged,    \* history: a recv did not return exactly one frame
  cut        \* history: a send failed

serverVars == <<pc, clients, fds, listen, inited>>
streamVars == <<ibuf, obuf, rx, tx, got, owed, frames, ragged, cut>>
vars == <<pc, clients, ibuf, obuf, fds, listen, inited, link, rx, tx, sent, got,
          owed, frames, ragged, cut>>

\* The descriptor accept returns when it fails.
NoFd == -1

\* The descriptors in a vector of clients.
Range(s) == {s[i] : i \in DOMAIN s} \ {NoFd}

Prefix(s, n) == SubSeq(s, 1, n)

Drop(s, n) == SubSeq(s, n + 1, Len(s))

\* The words of a frame, without and with the length prefix.
Payload(f, n) == [i \in 1..n |-> <<f, i>>]
Framed(f, n) == <<<<f, 0>>>> \o Payload(f, n)

Request(f) == Framed(f, FrameLen[f])

\* The length a word stands for when it is read as a prefix.  A payload word
\* (a packet or transaction header in network order) is a very large number.
LengthOf(word) == IF word[2] = 0 THEN FrameLen[word[1]] ELSE 1000000

Init ==
  /\ pc = "select"
  /\ clients = <<>>
  /\ ibuf = [c \in Conns |-> <<>>]
  /\ obuf = [c \in Conns |-> <<>>]
  /\ fds = {}
  /\ listen = FALSE
  /\ inited = FALSE
  /\ link = [c \in Conns |-> "none"]
  /\ rx = [c \in Conns |-> <<>>]
  /\ tx = [c \in Conns |-> <<>>]
  /\ sent = [c \in Conns |-> 0]
  /\ got = [c \in Conns |-> <<>>]
  /\ owed = [c \in Conns |-> <<>>]
  /\ frames = [c \in Conns |-> <<>>]
  /\ ragged = [c \in Conns |-> FALSE]
  /\ cut = [c \in Conns |-> FALSE]

-----------------------------------------------------------------------------
(* The select loop: ipbus.cpp *)

\* A client is waited for: input while its output is not too long, and room for
\* output while it has some.
ReadReady(c) == Len(obuf[c]) < MAX_OBUF
WriteReady(c) == obuf[c] # <<>>

Readable(c) == rx[c] # <<>> \/ link[c] \in {"closed", "reset"}
CanSend(c) == Len(tx[c]) < SendRoom \/ link[c] = "reset"

Reported(cs) ==
  {c \in cs : (ReadReady(c) /\ Readable(c)) \/ (WriteReady(c) /\ CanSend(c))}

Pending == {c \in Conns : link[c] = "pending"}

\* Mutant: room for a new client is made while clients are being served.
PurgeServing ==
  /\ pc = "serve"
  /\ Len(clients) + 1 >= MAX_CLIENTS
  /\ clients' = <<>>
  /\ link' = [c \in Conns |-> IF c \in Range(clients) THEN "gone" ELSE link[c]]
  /\ rx' = [c \in Conns |-> IF c \in Range(clients) THEN <<>> ELSE rx[c]]
  /\ UNCHANGED <<pc, fds, listen, inited, ibuf, obuf, tx, sent, got, owed, frames,
                 ragged, cut>>

\* With MAX_CLIENTS clients, all are closed and forgotten, with what they had
\* in their buffers.
Purge ==
  /\ pc = "select"
  /\ Len(clients) >= MAX_CLIENTS
  /\ clients' = <<>>
  /\ link' = [c \in Conns |-> IF c \in Range(clients) THEN "gone" ELSE link[c]]
  /\ rx' = [c \in Conns |-> IF c \in Range(clients) THEN <<>> ELSE rx[c]]
  /\ UNCHANGED <<pc, fds, listen, inited, ibuf, obuf, tx, sent, got, owed, frames,
                 ragged, cut>>

\* select returns as soon as something it was asked for is ready.
Select ==
  /\ pc = "select"
  /\ Len(clients) < MAX_CLIENTS
  /\ Reported(Range(clients)) # {} \/ Pending # {}
  /\ fds' = Reported(Range(clients))
  /\ listen' = (Pending # {})
  /\ pc' = "serve"
  /\ UNCHANGED <<clients, inited, link, sent, streamVars>>

\* FD_SET of -1 shifts by a negative number: a build that checks it ends the
\* server, others set nothing that select would report.
SelectAborts ==
  /\ pc = "select"
  /\ Len(clients) < MAX_CLIENTS
  /\ \E i \in DOMAIN clients : clients[i] = NoFd
  /\ pc' = "ended"
  /\ UNCHANGED <<clients, fds, listen, inited, link, sent, streamVars>>

\* Mutant: the connection takes the place of the last client.
AcceptReplacing ==
  /\ pc = "serve"
  /\ fds = {}
  /\ IF listen
     THEN \E c \in Pending :
            /\ clients' = IF clients = <<>> THEN <<c>> ELSE [clients EXCEPT ![Len(clients)] = c]
            /\ link' = [link EXCEPT ![c] = "open"]
     ELSE UNCHANGED <<clients, link>>
  /\ pc' = "select"
  /\ UNCHANGED <<fds, listen, inited, sent, streamVars>>

\* All reported clients are served: accept one connection if there is one.
Accept ==
  /\ pc = "serve"
  /\ fds = {}
  /\ IF listen
     THEN \E c \in Pending :
            /\ clients' = Append(clients, c)
            /\ link' = [link EXCEPT ![c] = "open"]
     ELSE UNCHANGED <<clients, link>>
  /\ pc' = "select"
  /\ UNCHANGED <<fds, listen, inited, sent, streamVars>>

\* accept fails because the peer gave up: -1 is stored as a client, and counts as
\* one until the next purge.
AcceptFails ==
  /\ pc = "serve"
  /\ fds = {}
  /\ listen
  /\ clients' = Append(clients, NoFd)
  /\ \E c \in Pending : /\ link' = [link EXCEPT ![c] = "gone"]
                        /\ rx' = [rx EXCEPT ![c] = <<>>]
  /\ pc' = "select"
  /\ UNCHANGED <<fds, listen, inited, sent, ibuf, obuf, tx, got, owed, frames, ragged, cut>>

-----------------------------------------------------------------------------
(* Client::run_io *)

\* The next client of the for loop, in the order of the vector.
Turn(c) ==
  /\ pc = "serve"
  /\ \E i \in DOMAIN clients :
       /\ clients[i] = c
       /\ c \in fds
       /\ \A j \in 1..(i - 1) : clients[j] \notin fds
  /\ fds' = fds \ {c}

\* A recv that returned less or more than one whole frame.
IsRagged(chunk) == \A f \in DOMAIN FrameLen : chunk # Request(f)

\* Mutant: the prefix is counted as part of the frame.
AvailablePrefixCounted(buf) == LengthOf(buf[1]) >= Len(buf)

\* The test of run_io: frame_size >= ibuf.size() - 4.
Available(buf) == LengthOf(buf[1]) >= Len(buf) - 1

Smaller(m, n) == IF m < n THEN m ELSE n

\* What process_frame answers: a reply to a frame that is whole, anything between
\* an empty reply and a full one to what is not.
Replies(buf) ==
  LET body == Prefix(Drop(buf, 1), Smaller(LengthOf(buf[1]), Len(buf) - 1))
  IN  IF \E f \in DOMAIN FrameLen : buf[1] = <<f, 0>> /\ body = Payload(f, FrameLen[f])
      THEN {Framed(buf[1][1], ReplyLen)}
      ELSE {Framed(0, n) : n \in {0, ReplyLen}}

\* Mutant: what was sent is not taken off the output.
SendKeeping(c, out) ==
  \/ \E n \in 1..Smaller(Len(out), SendRoom - Len(tx[c])) :
       /\ tx' = [tx EXCEPT ![c] = @ \o Prefix(out, n)]
       /\ obuf' = [obuf EXCEPT ![c] = Drop(out, n - 1)]
       /\ UNCHANGED cut
  \/ /\ Len(tx[c]) >= SendRoom \/ link[c] \in {"closed", "reset"}
     /\ obuf' = [obuf EXCEPT ![c] = <<>>]
     /\ cut' = [cut EXCEPT ![c] = TRUE]
     /\ UNCHANGED tx

\* send takes what fits.  When it fails (no room, or the peer is gone), the code
\* looks at readcount instead of writecount and erases the whole output.
Send(c, out) ==
  \/ \E n \in 1..Smaller(Len(out), SendRoom - Len(tx[c])) :
       /\ tx' = [tx EXCEPT ![c] = @ \o Prefix(out, n)]
       /\ obuf' = [obuf EXCEPT ![c] = Drop(out, n)]
       /\ UNCHANGED cut
  \/ /\ Len(tx[c]) >= SendRoom \/ link[c] \in {"closed", "reset"}
     /\ obuf' = [obuf EXCEPT ![c] = <<>>]
     /\ cut' = [cut EXCEPT ![c] = TRUE]
     /\ UNCHANGED tx

\* Mutant: the frame is erased from ibuf, its length prefix is not.
ProcessKeepingPrefix(c, chunk) ==
  LET in == ibuf[c] \o chunk IN
  /\ ragged' = [ragged EXCEPT ![c] = @ \/ (chunk # <<>> /\ IsRagged(chunk))]
  /\ IF in # <<>> /\ Available(in)
     THEN \E reply \in Replies(in) :
            /\ ibuf' = [ibuf EXCEPT ![c] = Drop(in, Smaller(LengthOf(in[1]), Len(in)))]
            /\ owed' = [owed EXCEPT ![c] = @ \o reply]
            /\ frames' = [frames EXCEPT ![c] = Append(@, in)]
            /\ inited' = TRUE
            /\ Send(c, obuf[c] \o reply)
     ELSE /\ ibuf' = [ibuf EXCEPT ![c] = in]
          /\ UNCHANGED <<owed, frames, inited>>
          /\ IF obuf[c] = <<>> THEN UNCHANGED <<tx, obuf, cut>> ELSE Send(c, obuf[c])

\* The rest of run_io after a recv of chunk: dispatch at most one frame, send.
Process(c, chunk) ==
  LET in == ibuf[c] \o chunk IN
  /\ ragged' = [ragged EXCEPT ![c] = @ \/ (chunk # <<>> /\ IsRagged(chunk))]
  /\ IF in # <<>> /\ Available(in)
     THEN \E reply \in Replies(in) :
            /\ ibuf' = [ibuf EXCEPT ![c] = Drop(in, Smaller(1 + LengthOf(in[1]), Len(in)))]
            /\ owed' = [owed EXCEPT ![c] = @ \o reply]
            /\ frames' = [frames EXCEPT ![c] = Append(@, in)]
            /\ inited' = TRUE
            /\ Send(c, obuf[c] \o reply)
     ELSE /\ ibuf' = [ibuf EXCEPT ![c] = in]
          /\ UNCHANGED <<owed, frames, inited>>
          /\ IF obuf[c] = <<>> THEN UNCHANGED <<tx, obuf, cut>> ELSE Send(c, obuf[c])

\* run_io with something to receive, or with the end of the stream (recv gives 0,
\* which is not taken for a disconnect).
RunIO(c) ==
  /\ Turn(c)
  /\ link[c] # "reset"
  /\ \E n \in 0..Smaller(RecvMax, Len(rx[c])) :
       /\ n = 0 => rx[c] = <<>> /\ link[c] = "closed"
       /\ rx' = [rx EXCEPT ![c] = Drop(@, n)]
       /\ Process(c, Prefix(rx[c], n))
  /\ UNCHANGED <<pc, clients, listen, link, sent, got>>

\* recv fails on a connection that was reset: run_io returns false, which the
\* loop ignores, and the client stays.
RunIOReset(c) ==
  /\ Turn(c)
  /\ link[c] = "reset"
  /\ link' = [link EXCEPT ![c] = "closed"]
  /\ rx' = [rx EXCEPT ![c] = <<>>]
  /\ UNCHANGED <<pc, clients, listen, inited, sent, ibuf, obuf, tx, got, owed, frames,
                 ragged, cut>>

\* Only room for output was reported: recv gives -1 with EAGAIN, and the string
\* of -1 characters made from it throws; nothing catches it.
RunIOThrows(c) ==
  /\ Turn(c)
  /\ link[c] = "open"
  /\ rx[c] = <<>>
  /\ pc' = "ended"
  /\ UNCHANGED <<clients, listen, inited, link, sent, streamVars>>

\* The first frame makes process_frame open memhub; if that fails the server
\* exits.
OpenFails(c) ==
  /\ Turn(c)
  /\ ~inited
  /\ link[c] # "reset"
  /\ \E n \in 1..Smaller(RecvMax, Len(rx[c])) :
       Available(ibuf[c] \o Prefix(rx[c], n))
  /\ pc' = "ended"
  /\ UNCHANGED <<clients, listen, inited, link, sent, streamVars>>

-----------------------------------------------------------------------------
(* The clients *)

Connect(c) ==
  /\ link[c] = "none"
  /\ link' = [link EXCEPT ![c] = "pending"]
  /\ UNCHANGED <<serverVars, streamVars, sent>>

SendFrame(c) ==
  /\ link[c] \in {"pending", "open"}
  /\ sent[c] < MaxFrames[c]
  /\ sent' = [sent EXCEPT ![c] = @ + 1]
  /\ rx' = [rx EXCEPT ![c] = @ \o Request(sent[c] + 1)]
  /\ UNCHANGED <<serverVars, link, ibuf, obuf, tx, got, owed, frames, ragged, cut>>

Receive(c) ==
  /\ link[c] = "open"
  /\ tx[c] # <<>>
  /\ got' = [got EXCEPT ![c] = @ \o tx[c]]
  /\ tx' = [tx EXCEPT ![c] = <<>>]
  /\ UNCHANGED <<serverVars, link, sent, ibuf, obuf, rx, owed, frames, ragged, cut>>

Disconnect(c) ==
  /\ link[c] = "open"
  /\ \E how \in {"closed", "reset"} : link' = [link EXCEPT ![c] = how]
  /\ UNCHANGED <<serverVars, streamVars, sent>>

Server ==
  \/ Purge \/ Select \/ SelectAborts \/ Accept \/ AcceptFails
  \/ \E c \in Conns : RunIO(c) \/ RunIOReset(c) \/ RunIOThrows(c) \/ OpenFails(c)

Peer(c) == Connect(c) \/ SendFrame(c) \/ Receive(c) \/ Disconnect(c)

Next == Server \/ \E c \in Conns : Peer(c)

\* The server is scheduled, and clients read what they are sent.
Spec ==
  /\ Init /\ [][Next]_vars
  /\ WF_vars(Server)
  /\ \A c \in Conns : WF_vars(Receive(c))

-----------------------------------------------------------------------------
(* Properties *)

\* A word of a frame, and of a reply.
RequestWord == (DOMAIN FrameLen) \X Nat
ReplyWord == Nat \X Nat

StreamTypes ==
  /\ rx \in [Conns -> Seq(RequestWord)]
  /\ ibuf \in [Conns -> Seq(RequestWord)]
  /\ frames \in [Conns -> Seq(Seq(RequestWord))]
  /\ obuf \in [Conns -> Seq(ReplyWord)]
  /\ tx \in [Conns -> Seq(ReplyWord)]
  /\ got \in [Conns -> Seq(ReplyWord)]
  /\ owed \in [Conns -> Seq(ReplyWord)]
  /\ sent \in [Conns -> 0..Len(FrameLen)]
  /\ ragged \in [Conns -> BOOLEAN]
  /\ cut \in [Conns -> BOOLEAN]
  /\ \A c \in Conns : Len(tx[c]) <= SendRoom

TypeOK ==
  /\ pc \in {"select", "serve", "ended"}
  /\ clients \in Seq(Conns \cup {NoFd})
  /\ fds \subseteq Range(clients)
  /\ listen \in BOOLEAN
  /\ inited \in BOOLEAN
  /\ link \in [Conns -> {"none", "pending", "open", "closed", "reset", "gone"}]
  /\ StreamTypes

\* The vector holds every accepted connection exactly once, also those whose
\* peer is gone; nobody else is served, and with the entries that failed accepts
\* left behind it never has more than MAX_CLIENTS.
ClientsAreConnections ==
  /\ Len(clients) <= MAX_CLIENTS
  /\ \A i, j \in DOMAIN clients : clients[i] = clients[j] /\ clients[i] # NoFd => i = j
  /\ Range(clients) = {c \in Conns : link[c] \in {"open", "closed", "reset"}}

\* As long as each recv returned exactly one frame, process_frame was given the
\* frames the client sent, whole and in order.
FramesInOrder ==
  \A c \in Conns : ~ragged[c] =>
    \A i \in DOMAIN frames[c] : frames[c][i] = Request(i)

\* As long as no send failed, what the client received, what the kernel holds
\* and what waits in obuf are the replies, nothing lost, repeated or reordered.
RepliesIntact ==
  \A c \in Conns :
    ~cut[c] /\ link[c] # "gone" => got[c] \o tx[c] \o obuf[c] = owed[c]

\* select is asked only with room for one more client, which accept may add, and
\* after all clients it reported have been served.
LoopPhases ==
  /\ pc = "serve" => Len(clients) < MAX_CLIENTS
  /\ pc = "select" => fds = {}

\* s is made of the frames m + 1 to n, one behind the other: off[i] words come
\* before frame i + 1.
Consecutive(s, m, n) ==
  \E off \in [m..n -> 0..Len(s)] :
    /\ off[m] = 0
    /\ off[n] = Len(s)
    /\ \A i, j \in m..n : i <= j => off[i] <= off[j]
    /\ \A i \in m..(n - 1) :
         /\ off[i + 1] = off[i] + 1 + FrameLen[i + 1]
         /\ \A j \in 0..FrameLen[i + 1] : s[off[i] + 1 + j] = <<i + 1, j>>

\* As long as each recv returned exactly one frame, nothing is left in ibuf, and
\* what is on its way are the frames not yet dispatched, unless a reset or the
\* server has thrown them away.
Arriving ==
  \A c \in Conns : ~ragged[c] =>
    /\ ibuf[c] = <<>>
    /\ Len(frames[c]) <= sent[c]
    /\ \/ Consecutive(rx[c], Len(frames[c]), sent[c])
       \/ rx[c] = <<>> /\ link[c] \in {"closed", "gone"}

\* The inductive invariant behind the safety properties.
IInv ==
  /\ TypeOK /\ ClientsAreConnections /\ LoopPhases
  /\ FramesInOrder /\ Arriving /\ RepliesIntact

\* A client that sent a frame gets a complete reply for it, unless its stream was
\* split or joined, a send failed, the client went away or was purged, or the
\* server ended.
ReplyArrives ==
  \A c \in Conns : \A f \in DOMAIN FrameLen :
    (sent[c] >= f /\ link[c] = "open")
      ~> \/ Len(got[c]) >= f * (1 + ReplyLen)
         \/ ragged[c]
         \/ cut[c]
         \/ link[c] # "open"
         \/ pc = "ended"

\* What the comment in run_io says at the dispatch: "There is a protocol frame
\* available.".
FrameAvailable ==
  \A c \in Conns : \A i \in DOMAIN frames[c] :
    \E f \in DOMAIN FrameLen : frames[c][i] = Request(f)
=============================================================================
