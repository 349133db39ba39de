---------------------------- MODULE DaqSuiteProofs ----------------------------
(***************************************************************************)
(* Proofs about the web pages, the scripts and the GBT tools over librpcman,  *)
(* from what RpcProofs proves of the library.                                 *)
(***************************************************************************)
EXTENDS RpcProofs

-----------------------------------------------------------------------------
(* Who is in the library *)

\* A step of the library changes the call of its thread only, which goes on or returns.
LEMMA LibraryEffect ==
  ASSUME RpcIInv, NEW t \in Threads, LibraryStep(t)
  PROVE  /\ t \in Inside /\ last[t] = NoCall
         /\ \A u \in Threads \ {t} : call'[u] = call[u] /\ last'[u] = last[u]
         /\ \/ /\ call'[t] # NoCall /\ call'[t].op = call[t].op /\ call'[t].arg = call[t].arg
               /\ call'[t].with = call[t].with /\ last'[t] = NoCall
            \/ /\ call'[t] = NoCall
               /\ last'[t] # NoCall /\ last'[t].op = call[t].op
               /\ last'[t].with \subseteq call[t].with
<1>1. RpcTypes
  BY ZenonT(60) DEF RpcIInv
<1>2. call[t].step \in {"prepared", "sent", "received", "loading"}
  BY ZenonT(60) DEF LibraryStep, Refuse, OpenFails, NotConnected, Ready, Send, Receive, CallThrows, Collect,
         Acquire, LoadModule, LoadFails, InitReturns
<1>3. t \in Inside /\ last[t] = NoCall /\ (call[t] \in Entered \/ call[t] \in Loading)
  BY <1>1, <1>2, CallCases DEF RpcIInv, Kept
<1>4. call \in [Threads -> Entered \cup Loading \cup {NoCall}] /\ last \in [Threads -> Returned \cup {NoCall}]
  BY <1>1 DEF RpcTypes
<1>5. ASSUME NEW code, NEW from, NEW out, NEW net,
             last' = [last EXCEPT ![t] =
                        [step |-> "returned", op |-> call[t].op, arg |-> call[t].arg,
                         code |-> code, from |-> from, out |-> out, with |-> call[t].with,
                         net |-> net]],
             call' = [call EXCEPT ![t] = NoCall]
      PROVE  /\ \A u \in Threads \ {t} : call'[u] = call[u] /\ last'[u] = last[u]
             /\ call'[t] = NoCall
             /\ last'[t] # NoCall /\ last'[t].op = call[t].op /\ last'[t].with = call[t].with
  BY <1>4, <1>5 DEF NoCall
<1>6. CASE \E code, from, out : Return(t, code, from, out)
  <2>1. PICK code, from, out : Return(t, code, from, out)
    BY <1>6
  <2>2. /\ last' = [last EXCEPT ![t] =
                      [step |-> "returned", op |-> call[t].op, arg |-> call[t].arg,
                       code |-> code, from |-> from, out |-> out, with |-> call[t].with,
                       net |-> call[t].net]]
        /\ call' = [call EXCEPT ![t] = NoCall]
    BY <2>1 DEF Return
  <2> QED
    BY <1>3, <1>5, <2>2
<1>7. CASE Refuse(t) \/ OpenFails(t) \/ NotConnected(t) \/ CallThrows(t)
  <2>1. \E code : Fail(t, code)
    BY <1>7 DEF Refuse, OpenFails, NotConnected, CallThrows
  <2> QED
    BY <1>6, <2>1 DEF Fail
<1>8. CASE UNCHANGED <<call, last>>
  BY <1>1, <1>3, <1>8, CallCases
<1>9. ASSUME NEW s \in {"prepared", "sent", "received"}, NEW n, UNCHANGED last,
             call[t] \in Entered,
             call' = [call EXCEPT ![t] = [call[t] EXCEPT !.step = s, !.net = n]]
      PROVE  /\ \A u \in Threads \ {t} : call'[u] = call[u] /\ last'[u] = last[u]
             /\ call'[t] # NoCall /\ call'[t].op = call[t].op /\ call'[t].arg = call[t].arg
             /\ call'[t].with = call[t].with /\ last'[t] = last[t]
  BY <1>4, <1>9 DEF NoCall, Entered
<1>10. CASE Send(t) \/ Receive(t)
  <2>1. call[t] \in Entered /\ UNCHANGED last
    BY <1>1, <1>10, CallCases DEF Send, Receive, Ready
  <2>2. PICK s \in {"sent", "received"} : call' = [call EXCEPT ![t].step = s]
    BY <1>10 DEF Send, Receive
  <2>3. call' = [call EXCEPT ![t] = [call[t] EXCEPT !.step = s, !.net = call[t].net]]
    BY <1>4, <2>1, <2>2 DEF Entered
  <2> QED
    BY <1>3, <1>9, <2>1, <2>3
<1>11. CASE Collect(t)
  BY <1>6, <1>8, <1>11 DEF Collect
<1>12. CASE Acquire(t)
  <2> DEFINE net == call[t].net + (IF rsp.amc.word = Full THEN AcquireTime ELSE rsp.amc.word)
  <2>1. call[t] \in Entered
    BY <1>1, <1>12, CallCases DEF Acquire
  <2>2. CASE Fail(t, 1)
    BY <1>6, <2>2 DEF Fail
  <2>3. CASE UNCHANGED <<call, last>>
    BY <1>8, <2>3
  <2>4. CASE call' = [call EXCEPT ![t].step = "prepared", ![t].net = net] /\ UNCHANGED last
    <3> HIDE DEF net
    <3>1. call' = [call EXCEPT ![t] = [call[t] EXCEPT !.step = "prepared", !.net = net]]
      BY <1>4, <2>1, <2>4 DEF Entered
    <3> QED
      BY <1>3, <1>9, <2>1, <2>4, <3>1
  <2>5. CASE /\ last' = [last EXCEPT ![t] =
                           [step |-> "returned", op |-> call[t].op, arg |-> call[t].arg, code |-> 0,
                            from |-> rsp.amc.to, out |-> <<>>, with |-> call[t].with, net |-> net]]
             /\ call' = [call EXCEPT ![t] = NoCall]
    BY <1>3, <1>5, <2>5
  <2> QED
    BY <1>12, <2>2, <2>3, <2>4, <2>5 DEF Acquire
<1>13. CASE LoadModule(t)
  BY <1>8, <1>13 DEF LoadModule
<1>14. CASE LoadFails(t) \/ InitReturns(t)
  <2>1. PICK code : Result(t, "init", code)
    BY <1>14 DEF LoadFails, InitReturns
  <2>2. call[t].op = "init" /\ call[t].with \subseteq Threads
    BY <1>1, <1>14, CallCases DEF LoadFails, InitReturns, Loading
  <2> QED
    BY <1>3, <1>4, <2>1, <2>2 DEF Result, NoCall
<1> QED
  BY <1>7, <1>10, <1>11, <1>12, <1>13, <1>14 DEF LibraryStep

\* A script or a tool is alone.
LEMMA Alone ==
  ASSUME SuiteIInv, NEW t \in Threads, at[t] \in {"script", "tool"}
  PROVE  /\ \A u \in Threads \ {t} : kind[u] = "none" /\ at[u] = "idle" /\ call[u] = NoCall
         /\ call[t] = NoCall => Inside = {}
         /\ kind[t] = at[t]
<1>1. kind \in Scenarios /\ kind[t] \in {"script", "tool"} /\ kind[t] = at[t]
  BY DEF SuiteIInv, SuiteTypes, Placed
<1>2. ASSUME NEW u \in Threads \ {t} PROVE kind[u] = "none" /\ at[u] = "idle" /\ call[u] = NoCall
  <2>1. kind[u] = "none"
    BY <1>1, SuiteAssumption
  <2>2. Placed(u)
    BY DEF SuiteIInv
  <2> QED
    BY <2>1, <2>2 DEF Placed
<1>3. call[t] = NoCall => Inside = {}
  BY <1>2 DEF Inside, NoCall
<1> QED
  BY <1>1, <1>2, <1>3

\* A thread begins a call.
LEMMA EnterEffect ==
  ASSUME RpcIInv, NEW t \in Threads, call[t] = NoCall, NEW c \in Entered \cup Loading, Enter(t, c)
  PROVE  /\ call'[t] # NoCall /\ call'[t].with = Inside /\ call'[t].op = c.op /\ last'[t] = NoCall
         /\ call'[t].net = c.net /\ call'[t].arg = c.arg
         /\ \A u \in Threads \ {t} :
              /\ last'[u] = last[u]
              /\ call'[u] # NoCall => call[u] # NoCall /\ call'[u].with = call[u].with \cup {t}
              /\ call[u] # NoCall => call'[u] # NoCall
              /\ call'[u] # NoCall =>
                   call'[u].op = call[u].op /\ call'[u].net = call[u].net /\ call'[u].arg = call[u].arg
<1>1. RpcTypes
  BY DEF RpcIInv
<1>2. /\ call' = [u \in Threads |->
                    IF u = t THEN [c EXCEPT !.with = Inside]
                    ELSE IF u \in Inside THEN [call[u] EXCEPT !.with = @ \cup {t}]
                    ELSE call[u]]
      /\ last' = [last EXCEPT ![t] = NoCall]
  BY DEF Enter
<1>3. /\ call'[t] = [c EXCEPT !.with = Inside] /\ last'[t] = NoCall
      /\ \A u \in Threads \ {t} : last'[u] = last[u]
  BY <1>1, <1>2 DEF RpcTypes
<1>4. /\ call'[t] # NoCall /\ call'[t].with = Inside /\ call'[t].op = c.op /\ call'[t].net = c.net
      /\ call'[t].arg = c.arg
  BY <1>3 DEF Entered, Loading, NoCall
<1>5. ASSUME NEW u \in Threads \ {t}
      PROVE  /\ call'[u] # NoCall => call[u] # NoCall /\ call'[u].with = call[u].with \cup {t}
             /\ call[u] # NoCall => call'[u] # NoCall
             /\ call'[u] # NoCall =>
                  call'[u].op = call[u].op /\ call'[u].net = call[u].net /\ call'[u].arg = call[u].arg
  <2>1. CASE u \in Inside
    <3>1. call[u] \in Entered \cup Loading /\ call[u] # NoCall
      BY <1>1, <2>1, CallCases
    <3>2. call'[u] = [call[u] EXCEPT !.with = @ \cup {t}]
      BY <1>2, <2>1
    <3> QED
      BY <3>1, <3>2 DEF Entered, Loading, NoCall
  <2>2. CASE u \notin Inside
    <3>1. call[u] = NoCall /\ call'[u] = call[u]
      BY <1>1, <1>2, <2>2, CallCases
    <3> QED
      BY <3>1
  <2> QED
    BY <2>1, <2>2
<1> QED
  BY <1>3, <1>4, <1>5

-----------------------------------------------------------------------------
(* The lock *)

\* Initially nobody is in the library.
LEMMA InitSuite == Init => SuiteIInv
<1> SUFFICES ASSUME Init PROVE SuiteIInv
  OBVIOUS
<1>1. RpcInit /\ kind \in Scenarios /\ link \in BOOLEAN /\ loaded \in {0, Len(LoadOrder)}
  BY DEF Init
<1>2. call = [t \in Threads |-> NoCall] /\ last = [t \in Threads |-> NoCall]
  BY <1>1 DEF RpcInit
<1>3. Inside = {} /\ Waiting = {}
  BY <1>2 DEF Inside, Waiting, NoCall
<1>4. RpcIInv
  <2>1. RpcTypes
    <3>1. loaded \in 0..Len(LoadOrder)
      BY <1>1 DEF LoadOrder
    <3>2. wire = <<>> /\ <<>> \in Seq(Answers)
      BY <1>1 DEF RpcInit
    <3>3. faults \in 0..MaxFaults
      BY <1>1, RpcAssumption DEF RpcInit
    <3>4. /\ req \in [Files -> Messages \cup {NoMessage}] /\ rsp \in [Files -> Answers \cup {NoMessage}]
          /\ served \in [Threads -> BOOLEAN] /\ alive \in BOOLEAN
      BY <1>1 DEF RpcInit
    <3> QED
      BY <1>1, <1>2, <3>1, <3>2, <3>3, <3>4 DEF RpcTypes
  <2>2. \A t \in Threads : Kept(t)
    BY <1>2 DEF Kept, Entered, NoCall
  <2>3. Wired
    BY <1>1, <1>3, FS_EmptySet DEF Wired, RpcInit
  <2> QED
    BY <1>3, <2>1, <2>2, <2>3 DEF RpcIInv, Joined
<1>5. SuiteTypes
  <2>1. /\ at = [t \in Threads |-> "idle"] /\ k = [t \in Threads |-> 1] /\ lock = None
        /\ monitoringOFF \in BOOLEAN
    BY DEF Init
  <2>2. /\ at = [t \in Threads |-> at[t]] /\ k \in [Threads -> Nat]
        /\ \A t \in Threads : k[t] > 0
    BY <2>1
  <2> QED
    BY <1>1, <2>1, <2>2 DEF SuiteTypes
<1>6. \A t \in Threads : Placed(t) /\ Company(t)
  BY <1>2 DEF Init, Placed, Company, PagePlaces
<1> QED
  BY <1>4, <1>5, <1>6 DEF SuiteIInv

\* A step of the library leaves the pages where they are.
LEMMA LibrarySuite ==
  ASSUME SuiteIInv, NEW t \in Threads, Library(t)
  PROVE  SuiteIInv'
<1>1. RpcIInv /\ LibraryStep(t) /\ UNCHANGED suiteVars
  BY DEF SuiteIInv, Library
<1>2. RpcIInv'
  BY <1>1, LibraryKeeps
<1>3. SuiteTypes'
  BY <1>1 DEF SuiteIInv, SuiteTypes, suiteVars
<1>4. ASSUME NEW u \in Threads PROVE Placed(u)' /\ Company(u)'
  <2>1. Placed(u) /\ Company(u)
    BY DEF SuiteIInv
  <2>2. UNCHANGED <<at, kind, lock>>
    BY <1>1 DEF suiteVars
  <2>3. CASE u # t
    <3>1. call'[u] = call[u] /\ last'[u] = last[u]
      BY <1>1, <2>3, LibraryEffect
    <3> QED
      BY <2>1, <2>2, <3>1 DEF Placed, Company
  <2>4. CASE u = t
    <3>1. /\ call[u] # NoCall
          /\ call'[u] # NoCall => call'[u].with \subseteq call[u].with
          /\ last'[u] # NoCall => last'[u].with \subseteq call[u].with
      BY <1>1, <2>4, LibraryEffect, CallCases DEF RpcIInv
    <3> QED
      BY <2>1, <2>2, <3>1 DEF Placed, Company
  <2> QED
    BY <2>3, <2>4
<1> QED
  BY <1>2, <1>3, <1>4 DEF SuiteIInv

LEMMA AccidentSuite ==
  ASSUME SuiteIInv, Accident
  PROVE  SuiteIInv'
<1>1. /\ RpcIInv /\ UNCHANGED suiteVars /\ UNCHANGED <<call, last>>
      /\ LinkBreaks \/ \E t, u \in Threads : Race(t, u)
  BY DEF SuiteIInv, Accident, LinkBreaks, Race
<1>2. RpcIInv'
  BY <1>1, AccidentKeeps
<1>3. SuiteTypes'
  BY <1>1 DEF SuiteIInv, SuiteTypes, suiteVars
<1>4. ASSUME NEW u \in Threads PROVE Placed(u)' /\ Company(u)'
  BY <1>1 DEF SuiteIInv, Placed, Company, suiteVars
<1> QED
  BY <1>2, <1>3, <1>4 DEF SuiteIInv

\* What a script or a tool may do: it meets nobody.
LEMMA AloneSuite ==
  ASSUME SuiteIInv, NEW t \in Threads, at[t] \in {"script", "tool"},
         RpcIInv', UNCHANGED <<kind, at, lock, monitoringOFF>>, k' \in [Threads -> Nat],
         \A u \in Threads : k'[u] >= k[u],
         \A u \in Threads \ {t} : call'[u] = NoCall /\ last'[u] = last[u],
         call'[t] # NoCall => call'[t].with = {},
         last'[t] # NoCall => last'[t].with = {}
  PROVE  SuiteIInv'
<1>1. SuiteTypes'
  <2>1. \A u \in Threads : k[u] \in Nat /\ k'[u] \in Nat
    BY DEF SuiteIInv, SuiteTypes
  <2>2. \A u \in Threads : kind[u] # "update" => k'[u] > 0
    BY <2>1 DEF SuiteIInv, SuiteTypes
  <2> QED
    BY <2>2 DEF SuiteIInv, SuiteTypes
<1>2. ASSUME NEW u \in Threads PROVE Placed(u)' /\ Company(u)'
  <2>1. Placed(u) /\ Company(u)
    BY DEF SuiteIInv
  <2>2. CASE u # t
    <3>1. call'[u] = NoCall /\ last'[u] = last[u]
      BY <2>2
    <3> QED
      BY <2>1, <3>1 DEF Placed, Company
  <2>3. CASE u = t
    BY <2>1, <2>3 DEF Placed, Company
  <2> QED
    BY <2>2, <2>3
<1> QED
  BY <1>1, <1>2 DEF SuiteIInv

\* A script or a tool begins a call, opens or closes the connection, or looks at a
\* result.
LEMMA AloneCalls ==
  ASSUME SuiteIInv, NEW t \in Threads, at[t] \in {"script", "tool"}, call[t] = NoCall,
         \/ \E op \in Ops, arg \in Int : Prepare(t, op, arg)
         \/ Connect(t) \/ ConnectFails(t) \/ deinit(t) \/ Taken(t)
  PROVE  /\ RpcIInv'
         /\ \A u \in Threads \ {t} : call'[u] = NoCall /\ last'[u] = last[u]
         /\ call'[t] # NoCall => call'[t].with = {}
         /\ last'[t] # NoCall => last'[t].with = {}
<1>1. RpcIInv /\ RpcTypes /\ Inside = {} /\ \A u \in Threads \ {t} : call[u] = NoCall
  BY Alone DEF SuiteIInv, RpcIInv
<1>2. ASSUME NEW c \in Entered \cup Loading, Enter(t, c)
      PROVE  /\ \A u \in Threads \ {t} : call'[u] = NoCall /\ last'[u] = last[u]
             /\ call'[t].with = {} /\ last'[t] = NoCall
  BY <1>1, <1>2, EnterEffect
<1>3. CASE \E op \in Ops, arg \in Int : Prepare(t, op, arg)
  <2>1. PICK op \in Ops, arg \in Int : Prepare(t, op, arg)
    BY <1>3
  <2> DEFINE c == [op |-> op, arg |-> arg, step |-> "prepared", net |-> 0, with |-> {}]
  <2>2. Enter(t, c) /\ c \in Entered
    BY <2>1 DEF Prepare, Entered
  <2> HIDE DEF c
  <2> QED
    BY <1>1, <1>2, <2>1, <2>2, PrepareKeeps
<1>4. CASE Connect(t)
  <2> DEFINE c == [op |-> "init", arg |-> 0, step |-> "loading", net |-> 0, with |-> {}]
  <2>2. Enter(t, c) /\ c \in Loading
    BY <1>4 DEF Connect, Loading
  <2> HIDE DEF c
  <2> QED
    BY <1>1, <1>2, <1>4, <2>2, ConnectKeeps
<1>5. CASE ConnectFails(t) \/ deinit(t)
  <2>1. RpcIInv' /\ call' = call
    BY <1>1, <1>5, CloseKeeps
  <2>2. PICK op, code : Result(t, op, code)
    BY <1>5 DEF ConnectFails, deinit
  <2>3. /\ \A u \in Threads \ {t} : last'[u] = last[u]
        /\ last'[t].with = {}
    BY <1>1, <2>2 DEF Result, RpcTypes
  <2> QED
    BY <1>1, <2>1, <2>3
<1>6. CASE Taken(t)
  <2>1. RpcIInv'
    BY <1>1, <1>6, TakenKeeps
  <2>2. call' = call /\ last'[t] = NoCall /\ \A u \in Threads \ {t} : last'[u] = last[u]
    BY <1>1, <1>6 DEF Taken, RpcTypes
  <2> QED
    BY <1>1, <2>1, <2>2
<1> QED
  BY <1>3, <1>4, <1>5, <1>6

\* Nothing of the library changes.
LEMMA QuietKeeps ==
  ASSUME RpcIInv, UNCHANGED rpcVars
  PROVE  RpcIInv'
<1>1. alive' \in BOOLEAN /\ loaded' \in 0..Len(LoadOrder)
  BY DEF RpcIInv, RpcTypes, rpcVars
<1> QED
  BY <1>1, IdleKeeps DEF rpcVars

LEMMA ArgumentTypes ==
  ASSUME NEW op \in Ops PROVE Arguments(op) \subseteq Int
<1>1. Data \subseteq Int /\ Masks \subseteq Int /\ {0, 1} \subseteq Int /\ {0} \subseteq Int
  BY RpcAssumption
<1>2. Arguments(op) \in {Data, Masks, {0, 1}, {0}}
  BY SMT DEF Arguments
<1> QED
  BY <1>1, <1>2

LEMMA MethodTypes ==
  ASSUME NEW job
  PROVE  Method(job) \in Ops /\ Method(job) \notin {"sbitReadOut", "readSCAADCSensor"}
<1>1. Method(job) \in {"writeGBTConfig", "scanGBTPhases", "writeGBTPhase"}
  BY SMT DEF Method
<1> QED
  BY <1>1, Names

LEMMA ScriptSuite ==
  ASSUME SuiteIInv, NEW t \in Threads, ScriptCall(t)
  PROVE  SuiteIInv'
<1>1. at[t] = "script" /\ UNCHANGED <<kind, at, lock, monitoringOFF>>
  BY DEF ScriptCall
<1>2. call[t] = NoCall
  BY DEF ScriptCall, Prepare, Connect, ConnectFails, deinit
<1>3. \/ \E op \in Ops, arg \in Int : Prepare(t, op, arg)
      \/ Connect(t) \/ ConnectFails(t) \/ deinit(t) \/ Taken(t)
  BY ArgumentTypes DEF ScriptCall
<1>4. k \in [Threads -> Nat]
  BY DEF SuiteIInv, SuiteTypes
<1>5. k' = k \/ k' = [k EXCEPT ![t] = @ + 1]
  BY DEF ScriptCall
<1>6. k' \in [Threads -> Nat] /\ \A u \in Threads : k'[u] >= k[u]
  BY <1>4, <1>5
<1> QED
  BY <1>1, <1>2, <1>3, <1>6, AloneCalls, AloneSuite

LEMMA ToolSuite ==
  ASSUME SuiteIInv, NEW t \in Threads, Tool(t)
  PROVE  SuiteIInv'
<1>1. /\ at[t] = "tool" /\ call[t] = NoCall /\ UNCHANGED <<kind, at, lock, monitoringOFF, k>>
      /\ RpcIInv /\ RpcTypes
  BY DEF Tool, suiteVars, ToolStep, ToolConnect, ToolConnected, ToolSkip, ToolRaises, ToolCall,
         ToolWrote, ToolScanned, ToolSave, ToolReturns, InLoop, At, SuiteIInv, RpcIInv
<1>2. k' \in [Threads -> Nat] /\ \A u \in Threads : k'[u] >= k[u]
  BY <1>1 DEF SuiteIInv, SuiteTypes
<1>3. CASE ToolConnect(t) \/ ToolConnected(t) \/ ToolCall(t) \/ ToolWrote(t) \/ ToolScanned(t)
  <2>1. \/ \E op \in Ops, arg \in Int : Prepare(t, op, arg)
        \/ Connect(t) \/ ConnectFails(t) \/ deinit(t) \/ Taken(t)
    BY <1>3, MethodTypes DEF ToolConnect, ToolConnected, ToolCall, ToolWrote, ToolScanned
  <2> QED
    BY <1>1, <1>2, <2>1, AloneCalls, AloneSuite
<1>4. CASE ToolSkip(t) \/ ToolRaises(t) \/ ToolSave(t) \/ ToolReturns(t)
  <2>1. UNCHANGED rpcVars
    BY <1>4 DEF ToolSkip, ToolRaises, ToolSave, ToolReturns
  <2>2. RpcIInv' /\ UNCHANGED <<call, last>>
    BY <1>1, <2>1, QuietKeeps DEF rpcVars
  <2>3. SuiteTypes'
    BY <1>1 DEF SuiteIInv, SuiteTypes
  <2>4. ASSUME NEW u \in Threads PROVE Placed(u)' /\ Company(u)'
    BY <1>1, <2>2 DEF SuiteIInv, Placed, Company
  <2> QED
    BY <2>2, <2>3, <2>4 DEF SuiteIInv
<1> QED
  BY <1>3, <1>4 DEF Tool, ToolStep

\* A view that is not in the library goes to another place.
LEMMA MoveSuite ==
  ASSUME SuiteIInv, NEW t \in Threads, call[t] = NoCall, RpcIInv', UNCHANGED <<call, kind>>,
         \A u \in Threads : last'[u] = last[u] \/ last'[u] = NoCall,
         NEW place \in {"script", "tool"} \cup PagePlaces, at' = [at EXCEPT ![t] = place],
         place \in {"script", "tool"} => kind[t] = place,
         place \in PagePlaces => kind[t] \notin {"none", "script", "tool"},
         place \in {"lock", "release"} => kind[t] \notin Unlocked,
         place \in {"work", "asked", "release"} /\ kind[t] \notin Unlocked => lock' = t,
         lock' = lock \/ lock \in {t, None}, lock' \in Threads \cup {None},
         monitoringOFF' \in BOOLEAN, k' \in [Threads -> Nat],
         \A u \in Threads : kind[u] # "update" => k'[u] > 0
  PROVE  SuiteIInv'
<1>1. at = [u \in Threads |-> at[u]] /\ kind \in Scenarios
  BY DEF SuiteIInv, SuiteTypes
<1>2. at'[t] = place /\ (\A u \in Threads \ {t} : at'[u] = at[u]) /\ at' = [u \in Threads |-> at'[u]]
  BY <1>1
<1>3. SuiteTypes'
  BY <1>1, <1>2 DEF SuiteTypes
<1>4. ASSUME NEW u \in Threads PROVE Placed(u)' /\ Company(u)'
  <2>1. Placed(u) /\ Company(u)
    BY DEF SuiteIInv
  <2>2. Company(u)'
    BY <2>1 DEF Company
  <2>3. CASE u # t
    <3>1. at'[u] = at[u] /\ (lock = u => lock' = u)
      BY <1>2, <2>3, RpcAssumption
    <3> QED
      BY <2>1, <2>2, <3>1 DEF Placed
  <2>4. CASE u = t
    BY <1>2, <2>2, <2>4 DEF Placed, PagePlaces
  <2> QED
    BY <2>3, <2>4
<1> QED
  BY <1>3, <1>4 DEF SuiteIInv

\* A page works on its own answer or on another's, which it does not know: all it
\* does is to take it.
LEMMA AnsweredKeeps ==
  ASSUME SuiteIInv, NEW t \in Threads, Answered(t)
  PROVE  /\ RpcIInv' /\ call[t] = NoCall /\ at[t] = "asked" /\ UNCHANGED call
         /\ last'[t] = NoCall
         /\ \A u \in Threads \ {t} : last'[u] = last[u]
<1>1. RpcIInv /\ RpcTypes /\ at[t] = "asked" /\ call[t] = NoCall /\ Taken(t)
  BY DEF SuiteIInv, RpcIInv, Answered
<1>2. RpcIInv'
  BY <1>1, TakenKeeps
<1> QED
  BY <1>1, <1>2 DEF Taken, RpcTypes

LEMMA TakeSuite ==
  ASSUME SuiteIInv, NEW t \in Threads, TakeList(t) \/ TakeRegister(t) \/ TakeAnswer(t)
  PROVE  SuiteIInv'
<1>1. /\ Answered(t) /\ UNCHANGED <<kind, lock, monitoringOFF>>
      /\ \/ (Go(t, "work") \/ Go(t, "done")) /\ k' = [k EXCEPT ![t] = @ + 1]
         \/ Go(t, "release") /\ kind[t] = "main" /\ UNCHANGED k
  BY DEF TakeList, TakeRegister, TakeAnswer, FillList, UpdateEnds
<1>2. /\ RpcIInv' /\ call[t] = NoCall /\ at[t] = "asked" /\ UNCHANGED call /\ last'[t] = NoCall
      /\ \A u \in Threads \ {t} : last'[u] = last[u]
  BY <1>1, AnsweredKeeps
<1>3. /\ kind[t] \notin {"none", "script", "tool"} /\ (kind[t] \notin Unlocked => lock = t)
      /\ k \in [Threads -> Nat] /\ (\A u \in Threads : kind[u] # "update" => k[u] > 0)
      /\ lock \in Threads \cup {None} /\ monitoringOFF \in BOOLEAN
  BY <1>2 DEF SuiteIInv, SuiteTypes, Placed, PagePlaces
<1>4. k' \in [Threads -> Nat] /\ \A u \in Threads : kind[u] # "update" => k'[u] > 0
  <2>1. CASE UNCHANGED k
    BY <1>3, <2>1
  <2>2. CASE k' = [k EXCEPT ![t] = @ + 1]
    <3>1. \A u \in Threads : k[u] \in Nat /\ k'[u] \in {k[u], k[u] + 1}
      BY <1>3, <2>2
    <3> QED
      BY <1>3, <2>2, <3>1
  <2> QED
    BY <1>1, <2>1, <2>2
<1>5. PICK place \in {"work", "done", "release"} :
        /\ at' = [at EXCEPT ![t] = place]
        /\ place = "release" => kind[t] = "main"
  BY <1>1 DEF Go
<1>6. place \in PagePlaces /\ place \notin {"script", "tool"} /\ "main" \notin Unlocked
  BY DEF PagePlaces, Unlocked
<1>7. \A u \in Threads : last'[u] = last[u] \/ last'[u] = NoCall
  BY <1>2
<1> QED
  BY <1>1, <1>2, <1>3, <1>4, <1>5, <1>6, <1>7, MoveSuite

\* What a page calls.
LEMMA NextCallTypes ==
  ASSUME SuiteIInv, NEW t \in Threads, k[t] <= Total(t)
  PROVE  /\ NextCall(t) \in Ops /\ NextCall(t) \notin {"sbitReadOut", "readSCAADCSensor"}
         /\ kind[t] = "main" => k[t] \in DOMAIN Tables
<1>1. Tables \in Seq({"getReg"} \cup DOMAIN File["daq_monitor"])
  BY SuiteAssumption
<1>2. CASE kind[t] = "main"
  <2>1. k[t] \in DOMAIN Tables
    <3>1. Total(t) = Len(Tables)
      BY <1>2, SMT DEF Total
    <3>2. k[t] \in Nat /\ k[t] > 0 /\ Len(Tables) \in Nat /\ DOMAIN Tables = 1..Len(Tables)
      BY <1>1, <1>2 DEF SuiteIInv, SuiteTypes
    <3> QED
      BY <3>1, <3>2
  <2>2. Tables[k[t]] \in {"getReg"} \cup DOMAIN File["daq_monitor"]
    BY <1>1, <2>1
  <2>3. NextCall(t) = Tables[k[t]]
    <3>1. k[t] # 0
      BY <1>1, <2>1
    <3> QED
      BY <1>2, <3>1, SMT DEF NextCall
  <2> QED
    BY <2>1, <2>2, <2>3, Names
<1>3. CASE kind[t] # "main"
  <2>1. NextCall(t) \in {"getReg", "putReg"}
    BY <1>3, SMT DEF NextCall
  <2> QED
    BY <1>3, <2>1, Names
<1> QED
  BY <1>2, <1>3

\* A page asks: the lock keeps all others out but those that do not take it.
LEMMA AskSuite ==
  ASSUME SuiteIInv, NEW t \in Threads, Ask(t)
  PROVE  SuiteIInv'
<1> DEFINE op == NextCall(t)
           arg == IF NextCall(t) = "putReg" THEN 1 ELSE 0
           c == [op |-> op, arg |-> arg, step |-> "prepared", net |-> 0, with |-> {}]
<1>1. /\ at[t] = "work" /\ Prepare(t, op, arg) /\ at' = [at EXCEPT ![t] = "asked"]
      /\ UNCHANGED <<kind, k, lock, monitoringOFF>> /\ RpcIInv
  BY DEF Ask, Go, SuiteIInv
<1>2. op \in Ops /\ arg \in Int
  BY NextCallTypes DEF Ask
<1>3. RpcIInv' /\ call[t] = NoCall /\ Enter(t, c) /\ c \in Entered
  <2>1. c \in Entered
    <3> HIDE DEF op, arg
    <3> QED
      BY <1>2 DEF Entered
  <2>2. call[t] = NoCall /\ Enter(t, c)
    BY <1>1 DEF Prepare
  <2> HIDE DEF c, op, arg
  <2> QED
    BY <1>1, <1>2, <2>1, <2>2, PrepareKeeps
<1> HIDE DEF c, op, arg
<1>4. /\ call'[t].with = Inside /\ last'[t] = NoCall
      /\ \A u \in Threads \ {t} :
           /\ last'[u] = last[u]
           /\ call'[u] # NoCall => call[u] # NoCall /\ call'[u].with = call[u].with \cup {t}
  BY <1>1, <1>3, EnterEffect
<1>5. /\ kind[t] \notin {"none", "script", "tool"} /\ (kind[t] \notin Unlocked => lock = t)
      /\ at = [u \in Threads |-> at[u]]
  BY <1>1 DEF SuiteIInv, SuiteTypes, Placed, PagePlaces
<1>6. at'[t] = "asked" /\ (\A u \in Threads \ {t} : at'[u] = at[u]) /\ at' = [u \in Threads |-> at'[u]]
  BY <1>1, <1>5
<1>7. SuiteTypes'
  BY <1>1, <1>6 DEF SuiteIInv, SuiteTypes
<1>8. ASSUME NEW u \in Threads, u # t, call[u] # NoCall
      PROVE  kind[u] \in Unlocked \/ kind[t] \in Unlocked
  <2>1. at[u] \in {"asked", "script", "tool"} /\ Placed(u)
    BY <1>8 DEF SuiteIInv, Placed
  <2>2. at[u] \notin {"script", "tool"}
    BY <1>1, <1>5, <1>8, Alone
  <2> QED
    BY <1>5, <1>8, <2>1, <2>2 DEF Placed
<1>9. ASSUME NEW u \in Threads PROVE Placed(u)' /\ Company(u)'
  <2>1. Placed(u) /\ Company(u)
    BY DEF SuiteIInv
  <2>2. CASE u = t
    <3>1. Placed(t)'
      BY <1>1, <1>5, <1>6 DEF Placed, PagePlaces
    <3>2. kind[t] \notin Unlocked => \A v \in Inside : kind[v] \in Unlocked
      <4>1. \A v \in Inside : v \in Threads /\ call[v] # NoCall
        BY DEF Inside, NoCall
      <4>2. t \notin Inside
        BY <1>3 DEF Inside, NoCall
      <4> QED
        BY <1>8, <4>1, <4>2
    <3> QED
      BY <1>1, <1>4, <2>2, <3>1, <3>2 DEF Company
  <2>3. CASE u # t
    <3>1. Placed(u)'
      BY <1>1, <1>4, <1>6, <2>1, <2>3 DEF Placed
    <3> QED
      BY <1>1, <1>4, <1>8, <2>1, <2>3, <3>1 DEF Company
  <2> QED
    BY <2>2, <2>3
<1> QED
  BY <1>3, <1>7, <1>9 DEF SuiteIInv

\* The views that do not touch the library.
LEMMA PageSuite ==
  ASSUME SuiteIInv, NEW t \in Threads,
         \/ Begin(t) \/ Lock(t) \/ Finish(t) \/ Release(t) \/ Render(t) \/ QueueGet(t) \/ Reply(t)
  PROVE  SuiteIInv'
<1>1. UNCHANGED rpcVars /\ UNCHANGED kind
  BY DEF Begin, Lock, Finish, Release, Render, QueueGet, Reply
<1>2. RpcIInv' /\ UNCHANGED <<call, last>>
  BY <1>1, QuietKeeps DEF SuiteIInv, rpcVars
<1>3. at[t] \in {"idle", "lock", "work", "release", "render", "queue", "reply"}
  BY DEF Begin, Lock, Finish, Release, Render, QueueGet, Reply
<1>4. /\ Placed(t) /\ k \in [Threads -> Nat] /\ lock \in Threads \cup {None}
      /\ monitoringOFF \in BOOLEAN /\ kind[t] \in Kinds
      /\ \A u \in Threads : kind[u] # "update" => k[u] > 0
  BY SuiteAssumption DEF SuiteIInv, SuiteTypes
<1>5. call[t] = NoCall
  BY <1>3, <1>4 DEF Placed
<1>6. CASE Begin(t)
  <2>1. PICK place : at' = [at EXCEPT ![t] = place] /\
          place = CASE kind[t] \in {"script", "tool"} -> kind[t]
                    [] kind[t] \in Unlocked -> "work"
                    [] kind[t] = "main" /\ monitoringOFF -> "render"
                    [] OTHER -> "lock"
    BY <1>6 DEF Begin, Go
  <2>2. kind[t] # "none" /\ UNCHANGED <<lock, monitoringOFF>>
        /\ k' = [k EXCEPT ![t] = IF kind[t] = "update" THEN 0 ELSE 1]
    BY <1>6 DEF Begin
  <2>3. /\ place \in {"script", "tool", "work", "render", "lock"}
        /\ place \in {"script", "tool"} => kind[t] = place
        /\ place \notin {"script", "tool"} => kind[t] \notin {"none", "script", "tool"}
        /\ place = "work" => kind[t] \in Unlocked
        /\ place = "lock" => kind[t] \notin Unlocked
    BY <2>1, <2>2, SMT DEF Unlocked
  <2>4. k' \in [Threads -> Nat] /\ \A u \in Threads : kind[u] # "update" => k'[u] > 0
    BY <1>4, <2>2
  <2>5. place \in {"script", "tool"} \cup PagePlaces
    BY <2>3 DEF PagePlaces
  <2>6. place \in PagePlaces => place \notin {"script", "tool"}
    BY DEF PagePlaces
  <2> HIDE <2>1
  <2>7. at' = [at EXCEPT ![t] = place]
    BY <2>1
  <2> QED
    BY <1>1, <1>2, <1>4, <1>5, <2>2, <2>3, <2>4, <2>5, <2>6, <2>7, MoveSuite
<1>7. ASSUME NEW place \in PagePlaces \ {"lock", "asked"}, at' = [at EXCEPT ![t] = place],
             at[t] # "idle", UNCHANGED k, monitoringOFF' \in BOOLEAN,
             place = "release" => kind[t] \notin Unlocked,
             place \in {"work", "release"} /\ kind[t] \notin Unlocked => lock' = t,
             lock' = lock \/ lock \in {t, None}, lock' \in Threads \cup {None}
      PROVE  SuiteIInv'
  <2>1. kind[t] \notin {"none", "script", "tool"} /\ place \notin {"script", "tool", "lock", "asked"}
    BY <1>3, <1>4, <1>7 DEF Placed, PagePlaces
  <2> QED
    BY <1>1, <1>2, <1>4, <1>5, <1>7, <2>1, MoveSuite
<1>8. CASE Lock(t)
  BY <1>4, <1>7, <1>8 DEF Lock, Go, PagePlaces
<1>9. CASE Finish(t)
  <2>1. monitoringOFF' \in BOOLEAN
    <3>1. monitoringOFF' = CASE kind[t] = "on" -> FALSE [] kind[t] = "off" -> TRUE
                             [] OTHER -> monitoringOFF
      BY <1>9 DEF Finish
    <3>2. CASE kind[t] = "on"
      BY <3>1, <3>2
    <3>3. CASE kind[t] = "off"
      BY <3>1, <3>3
    <3>4. CASE kind[t] \notin {"on", "off"}
      BY <1>4, <3>1, <3>4
    <3> QED
      BY <3>2, <3>3, <3>4
  <2>2. at[t] = "work" /\ UNCHANGED <<k, lock>>
    BY <1>9 DEF Finish
  <2>3. kind[t] \notin Unlocked => lock = t
    BY <1>4, <2>2 DEF Placed
  <2>4. PICK place \in {"done", "release"} :
          /\ at' = [at EXCEPT ![t] = place]
          /\ place = "release" => kind[t] \notin Unlocked
    BY <1>9 DEF Finish, Go
  <2>5. place \in PagePlaces \ {"lock", "asked"}
    BY DEF PagePlaces
  <2> QED
    BY <1>4, <1>7, <2>1, <2>2, <2>3, <2>4, <2>5
<1>10. CASE Release(t)
  <2>1. at[t] = "release" /\ lock' = None /\ UNCHANGED <<k, monitoringOFF>>
    BY <1>10 DEF Release
  <2>2. lock = t
    BY <1>4, <2>1 DEF Placed
  <2>3. PICK place : at' = [at EXCEPT ![t] = place] /\
          place = CASE kind[t] = "main" -> "render"
                    [] kind[t] \in ModuleKinds -> "queue"
                    [] OTHER -> "reply"
    BY <1>10 DEF Release, Go
  <2>4. place \in {"render", "queue", "reply"}
    BY <2>3, SMT
  <2>5. at' = [at EXCEPT ![t] = place]
    BY <2>3
  <2>6. place \in PagePlaces \ {"lock", "asked", "work", "release"}
    BY <2>4 DEF PagePlaces
  <2> HIDE <2>3
  <2> QED
    BY <1>4, <1>7, <2>1, <2>2, <2>5, <2>6
<1>11. CASE Render(t) \/ QueueGet(t) \/ Reply(t)
  <2>1. PICK place \in {"render", "done", "error"} : at' = [at EXCEPT ![t] = place]
    BY <1>11 DEF Render, QueueGet, Reply, Go
  <2>2. at[t] # "idle" /\ UNCHANGED <<k, lock, monitoringOFF>>
    BY <1>11 DEF Render, QueueGet, Reply
  <2>3. place \in PagePlaces \ {"lock", "asked", "work", "release"}
    BY DEF PagePlaces
  <2> QED
    BY <1>4, <1>7, <2>1, <2>2, <2>3
<1> QED
  BY <1>6, <1>8, <1>9, <1>10, <1>11

\* Every step keeps the lock and the library's invariant.
LEMMA NextSuite ==
  ASSUME SuiteIInv, [Next]_vars
  PROVE  SuiteIInv'
<1>1. CASE UNCHANGED vars
  <2>1. UNCHANGED rpcVars /\ UNCHANGED <<kind, at, k, lock, monitoringOFF, call, last>>
    BY <1>1 DEF vars, rpcVars, suiteVars
  <2>2. RpcIInv'
    BY <2>1, QuietKeeps DEF SuiteIInv
  <2>3. SuiteTypes'
    BY <2>1 DEF SuiteIInv, SuiteTypes
  <2>4. ASSUME NEW u \in Threads PROVE Placed(u)' /\ Company(u)'
    BY <2>1 DEF SuiteIInv, Placed, Company
  <2> QED
    BY <2>2, <2>3, <2>4 DEF SuiteIInv
<1>2. CASE Next
  BY <1>2, LibrarySuite, AccidentSuite, ToolSuite, ScriptSuite, AskSuite, TakeSuite, PageSuite
     DEF Next, Step, View
<1> QED
  BY <1>1, <1>2

\* The lock of the pages and the static variables of librpcman: who is in the library
\* with whom, and whose answer is on its way.
THEOREM SuiteInductive == Spec => []SuiteIInv
<1>1. SuiteIInv /\ [Next]_vars => SuiteIInv'
  BY NextSuite
<1> QED
  BY <1>1, InitSuite, PTL DEF Spec

-----------------------------------------------------------------------------
(* The main page *)

LEMMA InitPage == Init => PageIInv
<1> SUFFICES ASSUME Init PROVE PageIInv
  OBVIOUS
<1>1. SuiteIInv
  BY InitSuite
<1>2. /\ at = [t \in Threads |-> "idle"] /\ k = [t \in Threads |-> 1]
      /\ lists = [i \in DOMAIN Tables |-> {}] /\ asked = [t \in Threads |-> {}]
      /\ shown = [t \in Threads |-> <<>>]
  BY DEF Init
<1>3. \A t \in Threads : at[t] = "idle" /\ k[t] = 1 /\ shown[t] = <<>>
  BY <1>2
<1>4. PageTypes
  <2>1. <<>> \in Seq(BOOLEAN) /\ Len(<<>>) = 0 /\ Len(Tables) \in Nat
    BY SuiteAssumption
  <2>2. \A t \in Threads : Len(shown[t]) <= Len(Tables) /\ at[t] # "render"
    BY <1>3, <2>1
  <2>3. shown \in [Threads -> Seq(BOOLEAN)]
    BY <1>2, <2>1
  <2>4. lists \in [DOMAIN Tables -> SUBSET Threads] /\ asked \in [Threads -> SUBSET Threads]
    BY <1>2
  <2> QED
    BY <2>2, <2>3, <2>4 DEF PageTypes
<1>5. ASSUME NEW t \in Threads PROVE Filled(t)
  <2>1. \A i \in DOMAIN Tables : ~(i < 1)
    BY SuiteAssumption
  <2> QED
    BY <1>3, <2>1 DEF Filled
<1>6. FreshPage
  BY <1>3 DEF FreshPage
<1> QED
  BY <1>1, <1>4, <1>5, <1>6 DEF PageIInv

\* The numbers of the lists.
LEMMA ListNumbers ==
  /\ Len(Tables) \in Nat /\ Len(Tables) > 0 /\ DOMAIN Tables = 1..Len(Tables)
<1>1. Tables \in Seq({"getReg"} \cup DOMAIN File["daq_monitor"]) /\ Tables # <<>>
  BY SuiteAssumption
<1> HIDE SuiteAssumption
<1> QED
  BY <1>1

\* No list is filled and no page rendered.
LEMMA PageMoves ==
  ASSUME PageIInv, SuiteIInv', UNCHANGED <<kind, lists, shown>>,
         asked' \in [Threads -> SUBSET Threads],
         \A u \in Threads : at'[u] = "asked" => asked'[u] = asked[u],
         \A u \in Threads : kind[u] = "main" => k'[u] = k[u],
         \A u \in Threads :
           \/ at'[u] = at[u]
           \/ /\ at'[u] \notin {"asked", "idle"}
              /\ kind[u] = "main" /\ at'[u] \in {"lock", "work", "release", "render"} => shown[u] = <<>>
              /\ at'[u] = "render" => kind[u] = "main"
  PROVE  PageIInv'
<1>1. PageTypes'
  <2>1. ASSUME NEW u \in Threads
        PROVE  Len(shown'[u]) <= Len(Tables) /\ (at'[u] = "render" => kind'[u] = "main" /\ Len(shown'[u]) < Len(Tables))
    <3>1. shown[u] = <<>> => Len(shown[u]) = 0
      OBVIOUS
    <3> QED
      BY <3>1, ListNumbers DEF PageIInv, PageTypes
  <2> QED
    BY <2>1 DEF PageIInv, PageTypes
<1>2. ASSUME NEW u \in Threads PROVE Filled(u)'
  <2>1. Filled(u)
    BY DEF PageIInv
  <2>2. CASE kind[u] = "main"
    <3>1. k'[u] = k[u]
      BY <2>2
    <3>2. at[u] # "idle" => at'[u] # "idle"
      OBVIOUS
    <3>3. \A v \in Threads : at'[v] = "asked" => at[v] = "asked"
      OBVIOUS
    <3>4. at'[u] \in {"idle", "lock", "work", "asked", "release"} => shown'[u] = <<>>
      BY <2>1, <2>2 DEF Filled
    <3> QED
      BY <2>1, <2>2, <3>1, <3>2, <3>3, <3>4 DEF Filled
  <2>3. CASE kind[u] # "main"
    BY <2>3 DEF Filled
  <2> QED
    BY <2>2, <2>3
<1>3. FreshPage'
  BY DEF PageIInv, FreshPage
<1> QED
  BY <1>1, <1>2, <1>3 DEF PageIInv

\* A page asks: whoever has begun is noted.
LEMMA AskPage ==
  ASSUME PageIInv, SuiteIInv', NEW t \in Threads, Ask(t)
  PROVE  PageIInv'
<1>1. /\ at[t] = "work" /\ at' = [at EXCEPT ![t] = "asked"]
      /\ asked' = [asked EXCEPT ![t] = Started] /\ UNCHANGED <<kind, k, lists, shown>>
  BY DEF Ask, Go
<1>2. at = [u \in Threads |-> at[u]] /\ asked \in [Threads -> SUBSET Threads] /\ k \in [Threads -> Nat]
  BY DEF PageIInv, SuiteIInv, SuiteTypes, PageTypes
<1>3. at'[t] = "asked" /\ \A u \in Threads \ {t} : at'[u] = at[u]
  BY <1>1, <1>2
<1>4. /\ asked' \in [Threads -> SUBSET Threads] /\ asked'[t] = Started
      /\ \A u \in Threads \ {t} : asked'[u] = asked[u]
  BY <1>1, <1>2 DEF Started
<1>5. PageTypes'
  BY <1>1, <1>3, <1>4 DEF PageIInv, PageTypes
<1>6. ASSUME NEW u \in Threads PROVE Filled(u)'
  <2>1. Filled(u) /\ Filled(t)
    BY DEF PageIInv
  <2>2. CASE kind[u] = "main"
    <3>1. ASSUME NEW v \in Threads, kind[v] = "main", at'[v] = "asked", u = v \/ k[u] > 1
          PROVE  u \in asked'[v]
      <4>1. CASE v = t
        <5>1. at[u] # "idle"
          BY <1>1, <2>1, <2>2, <3>1, <4>1 DEF Filled
        <5> QED
          BY <1>4, <4>1, <5>1 DEF Started
      <4>2. CASE v # t
        BY <1>3, <1>4, <2>1, <2>2, <3>1, <4>2 DEF Filled
      <4> QED
        BY <4>1, <4>2
    <3>2. k[u] > 1 => at'[u] # "idle"
      BY <1>3, <2>1, <2>2 DEF Filled
    <3>3. at'[u] \in {"idle", "lock", "work", "asked", "release"} => shown'[u] = <<>>
      BY <1>1, <1>3, <2>1, <2>2 DEF Filled
    <3> QED
      BY <1>1, <2>1, <2>2, <3>1, <3>2, <3>3 DEF Filled
  <2>3. CASE kind[u] # "main"
    BY <1>1, <2>3 DEF Filled
  <2> QED
    BY <2>2, <2>3
<1>7. FreshPage'
  BY <1>1 DEF PageIInv, FreshPage
<1> QED
  BY <1>5, <1>6, <1>7 DEF PageIInv

\* A list is filled with what was asked since all who filled it before had begun.
LEMMA FillPage ==
  ASSUME PageIInv, SuiteIInv', NEW t \in Threads, kind[t] = "main", at[t] = "asked", FillList(t),
         UNCHANGED <<kind, shown>>, asked' = [asked EXCEPT ![t] = {}]
  PROVE  PageIInv'
<1>1. /\ at' = [at EXCEPT ![t] = "work"] /\ k' = [k EXCEPT ![t] = @ + 1]
      /\ lists' = [lists EXCEPT ![k[t]] = asked[t]]
  BY DEF FillList, Go
<1>2. /\ at = [u \in Threads |-> at[u]] /\ asked \in [Threads -> SUBSET Threads]
      /\ k \in [Threads -> Nat] /\ lists \in [DOMAIN Tables -> SUBSET Threads] /\ k[t] > 0
  BY DEF PageIInv, SuiteIInv, SuiteTypes, PageTypes
<1>3. at'[t] = "work" /\ \A u \in Threads \ {t} : at'[u] = at[u]
  BY <1>1, <1>2
<1>4. asked' \in [Threads -> SUBSET Threads] /\ \A u \in Threads \ {t} : asked'[u] = asked[u]
  BY <1>2
<1>5. k[t] \in Nat /\ k'[t] = k[t] + 1 /\ \A u \in Threads \ {t} : k'[u] = k[u] /\ k[u] \in Nat
  BY <1>1, <1>2
<1>6. /\ lists' \in [DOMAIN Tables -> SUBSET Threads]
      /\ \A i \in DOMAIN Tables : lists'[i] = IF i = k[t] THEN asked[t] ELSE lists[i]
  BY <1>1, <1>2
<1>7. Filled(t) /\ shown[t] = <<>> /\ t \in asked[t]
  BY DEF PageIInv, Filled
<1>8. PageTypes'
  BY <1>3, <1>4, <1>6 DEF PageIInv, PageTypes
<1>9. ASSUME NEW u \in Threads, kind[u] = "main" PROVE Filled(u)'
  <2>1. Filled(u) /\ k[u] \in Nat
    BY <1>2 DEF PageIInv
  <2>2. ASSUME NEW i \in DOMAIN Tables, i < k'[u] PROVE u \in lists'[i]
    <3>1. i \in Nat /\ i > 0
      BY ListNumbers
    <3>2. CASE u = t
      <4>1. i < k[t] \/ i = k[t]
        BY <1>5, <2>2, <3>1, <3>2
      <4> QED
        BY <1>6, <1>7, <1>9, <3>2, <4>1 DEF Filled
    <3>3. CASE u # t
      <4>1. i < k[u] /\ k[u] > 1
        BY <1>5, <2>1, <2>2, <3>1, <3>3
      <4>2. u \in lists[i] /\ u \in asked[t]
        BY <1>9, <2>1, <4>1 DEF Filled
      <4> QED
        BY <1>6, <4>2
    <3> QED
      BY <3>2, <3>3
  <2>3. ASSUME NEW v \in Threads, kind[v] = "main", at'[v] = "asked", u = v \/ k'[u] > 1
        PROVE  u \in asked'[v]
    <3>1. v # t /\ at[v] = "asked"
      BY <1>3, <2>3
    <3>2. lock = t /\ lock = v
      BY <2>3, <3>1 DEF PageIInv, SuiteIInv, Placed, Unlocked
    <3> QED
      BY <3>1, <3>2
  <2>4. k'[u] > 1 => at'[u] # "idle"
    BY <1>3, <1>5, <1>9, <2>1 DEF Filled
  <2>5. at'[u] \in {"idle", "lock", "work", "asked", "release"} => shown'[u] = <<>>
    BY <1>3, <1>7, <1>9, <2>1 DEF Filled
  <2> QED
    BY <2>2, <2>3, <2>4, <2>5 DEF Filled
<1>10. ASSUME NEW u \in Threads, kind[u] # "main" PROVE Filled(u)'
  BY <1>10 DEF Filled
<1>11. ASSUME NEW u \in Threads, kind'[u] = "main", NEW i \in DOMAIN shown'[u], i < k'[u]
       PROVE  shown'[u][i]
  <2>1. u # t
    BY <1>7, <1>11
  <2> QED
    BY <1>5, <1>11, <2>1 DEF PageIInv, FreshPage
<1>12. FreshPage'
  BY <1>11 DEF FreshPage
<1> QED
  BY <1>8, <1>9, <1>10, <1>12 DEF PageIInv

\* A list is rendered.
LEMMA RenderPage ==
  ASSUME PageIInv, SuiteIInv', NEW t \in Threads, Render(t)
  PROVE  PageIInv'
<1> DEFINE n == Len(shown[t]) + 1
           fresh == t \in lists[n]
<1>1. /\ at[t] = "render" /\ shown' = [shown EXCEPT ![t] = Append(shown[t], fresh)]
      /\ at' = [at EXCEPT ![t] = IF Len(shown'[t]) = Len(Tables) THEN "done" ELSE "render"]
      /\ UNCHANGED <<kind, k, lists, asked>>
  BY DEF Render, Go
<1>2. /\ at = [u \in Threads |-> at[u]] /\ shown \in [Threads -> Seq(BOOLEAN)]
      /\ kind[t] = "main" /\ Len(shown[t]) < Len(Tables) /\ shown[t] \in Seq(BOOLEAN)
  BY <1>1 DEF PageIInv, SuiteIInv, SuiteTypes, PageTypes
<1>3. n \in DOMAIN Tables /\ n \in Nat
  BY <1>2, ListNumbers
<1>4. fresh \in BOOLEAN
  OBVIOUS
<1>5. n < k[t] => fresh = TRUE
  BY <1>2, <1>3 DEF PageIInv, Filled
<1> HIDE DEF fresh
<1>6. /\ Append(shown[t], fresh) \in Seq(BOOLEAN) /\ Len(Append(shown[t], fresh)) = n
      /\ Append(shown[t], fresh)[n] = fresh
      /\ \A i \in 1..(n - 1) : Append(shown[t], fresh)[i] = shown[t][i]
      /\ DOMAIN Append(shown[t], fresh) = 1..n
  BY <1>2, <1>4
<1>7. /\ shown'[t] = Append(shown[t], fresh) /\ shown' \in [Threads -> Seq(BOOLEAN)]
      /\ \A u \in Threads \ {t} : shown'[u] = shown[u]
  BY <1>1, <1>2, <1>6
<1>8. /\ at'[t] = IF n = Len(Tables) THEN "done" ELSE "render"
      /\ \A u \in Threads \ {t} : at'[u] = at[u]
  BY <1>1, <1>2, <1>6, <1>7
<1>9. PageTypes'
  <2>1. n <= Len(Tables) /\ (n # Len(Tables) => n < Len(Tables))
    <3> HIDE DEF n
    <3> QED
      BY <1>3, ListNumbers
  <2>2. ASSUME NEW u \in Threads
        PROVE  Len(shown'[u]) <= Len(Tables) /\ (at'[u] = "render" => kind'[u] = "main" /\ Len(shown'[u]) < Len(Tables))
    <3>1. CASE u = t
      BY <1>1, <1>2, <1>6, <1>7, <1>8, <2>1, <3>1
    <3>2. CASE u # t
      BY <1>1, <1>7, <1>8, <3>2 DEF PageIInv, PageTypes
    <3> QED
      BY <3>1, <3>2
  <2> QED
    BY <1>1, <1>7, <2>2 DEF PageIInv, PageTypes
<1>10. ASSUME NEW u \in Threads PROVE Filled(u)'
  <2>1. Filled(u)
    BY DEF PageIInv
  <2>2. (at'[u] = "asked" <=> at[u] = "asked") /\ (at'[u] = "idle" <=> at[u] = "idle")
    BY <1>1, <1>8
  <2>3. \A v \in Threads : at'[v] = "asked" => at[v] = "asked"
    BY <1>1, <1>8
  <2>4. kind[u] = "main" /\ at'[u] \in {"idle", "lock", "work", "asked", "release"} => shown'[u] = <<>>
    BY <1>7, <1>8, <2>1 DEF Filled
  <2> QED
    BY <1>1, <2>1, <2>2, <2>3, <2>4 DEF Filled
<1>11. ASSUME NEW u \in Threads, kind'[u] = "main", NEW i \in DOMAIN shown'[u], i < k'[u]
       PROVE  shown'[u][i]
  <2>1. CASE u # t
    BY <1>1, <1>7, <1>11, <2>1 DEF PageIInv, FreshPage
  <2>2. CASE u = t /\ i = n
    <3>3. n < k[t]
      BY <1>1, <1>11, <2>2
    <3>1. fresh = TRUE
      BY <1>5, <3>3, Zenon
    <3>2. shown'[u][i] = fresh
      BY <1>6, <1>7, <2>2
    <3> QED
      BY <3>1, <3>2, Zenon
  <2>3. CASE u = t /\ i # n
    <3>1. i \in 1..(n - 1) /\ i \in DOMAIN shown[t]
      BY <1>2, <1>6, <1>7, <1>11, <2>3
    <3>2. shown[t][i]
      BY <1>1, <1>11, <2>3, <3>1 DEF PageIInv, FreshPage
    <3> QED
      BY <1>6, <1>7, <2>3, <3>1, <3>2
  <2> QED
    BY <2>1, <2>2, <2>3
<1>12. FreshPage'
  BY <1>11 DEF FreshPage
<1> QED
  BY <1>9, <1>10, <1>12 DEF PageIInv

\* A main page is where its place says.
LEMMA TakePage ==
  ASSUME PageIInv, SuiteIInv', NEW t \in Threads, TakeList(t) \/ TakeRegister(t) \/ TakeAnswer(t)
  PROVE  PageIInv'
<1>1. at[t] = "asked" /\ asked' = [asked EXCEPT ![t] = {}] /\ UNCHANGED <<kind, shown>>
  BY DEF TakeList, TakeRegister, TakeAnswer, Answered
<1>2. CASE kind[t] = "main" /\ FillList(t)
  BY <1>1, <1>2, FillPage
<1>3. CASE ~(kind[t] = "main" /\ FillList(t))
  <2>1. /\ UNCHANGED lists
        /\ \/ (Go(t, "work") \/ Go(t, "done")) /\ kind[t] # "main" /\ k' = [k EXCEPT ![t] = @ + 1]
           \/ Go(t, "release") /\ UNCHANGED k
    <3>1. CASE TakeList(t)
      <4>1. UpdateEnds(t)
        BY <1>3, <3>1 DEF TakeList
      <4> QED
        BY <4>1 DEF UpdateEnds
    <3>2. CASE TakeRegister(t)
      BY <3>2 DEF TakeRegister, ModuleKinds
    <3>3. CASE TakeAnswer(t)
      <4>1. kind[t] # "main"
        <5>1. kind[t] \in Unlocked \cup ExpertKinds \/ k[t] = 0
          BY <3>3 DEF TakeAnswer
        <5>2. k[t] = 0 => kind[t] = "update"
          BY DEF PageIInv, SuiteIInv, SuiteTypes
        <5> QED
          BY <5>1, <5>2 DEF Unlocked, ExpertKinds
      <4> QED
        BY <3>3, <4>1 DEF TakeAnswer
    <3> QED
      BY <3>1, <3>2, <3>3
  <2>2. /\ at = [u \in Threads |-> at[u]] /\ asked \in [Threads -> SUBSET Threads]
        /\ k \in [Threads -> Nat]
    BY DEF PageIInv, SuiteIInv, SuiteTypes, PageTypes
  <2>3. at'[t] \in {"work", "done", "release"} /\ \A u \in Threads \ {t} : at'[u] = at[u]
    BY <2>1, <2>2 DEF Go
  <2>4. \A u \in Threads : kind[u] = "main" => k'[u] = k[u]
    BY <2>1, <2>2
  <2>5. /\ asked' \in [Threads -> SUBSET Threads]
        /\ \A u \in Threads : at'[u] = "asked" => asked'[u] = asked[u]
    BY <1>1, <2>2, <2>3
  <2>6. kind[t] = "main" => shown[t] = <<>>
    BY <1>1 DEF PageIInv, Filled
  <2> QED
    BY <1>1, <2>1, <2>3, <2>4, <2>5, <2>6, PageMoves
<1> QED
  BY <1>2, <1>3

\* The other steps of a view.
LEMMA PlacePage ==
  ASSUME PageIInv, SuiteIInv', NEW t \in Threads,
         Begin(t) \/ Lock(t) \/ Finish(t) \/ Release(t) \/ QueueGet(t) \/ Reply(t)
  PROVE  PageIInv'
<1>1. UNCHANGED <<kind, lists, asked, shown>>
  BY DEF Begin, Lock, Finish, Release, QueueGet, Reply
<1>2. /\ at = [u \in Threads |-> at[u]] /\ asked \in [Threads -> SUBSET Threads]
      /\ k \in [Threads -> Nat] /\ (\A u \in Threads : kind[u] # "update" => k[u] > 0)
  BY DEF PageIInv, SuiteIInv, SuiteTypes, PageTypes
<1>3. ASSUME NEW place, at' = [at EXCEPT ![t] = place], place \notin {"asked", "idle"},
             \A u \in Threads : kind[u] = "main" => k'[u] = k[u],
             kind[t] = "main" /\ place \in {"lock", "work", "release", "render"} => shown[t] = <<>>,
             place = "render" => kind[t] = "main"
      PROVE  PageIInv'
  <2>1. at'[t] = place /\ \A u \in Threads \ {t} : at'[u] = at[u]
    BY <1>2, <1>3
  <2>2. asked' \in [Threads -> SUBSET Threads] /\ \A u \in Threads : asked'[u] = asked[u]
    BY <1>1, <1>2
  <2> QED
    BY <1>1, <1>3, <2>1, <2>2, PageMoves
<1>4. kind[t] = "main" /\ at[t] \in {"idle", "lock", "work", "release"} => shown[t] = <<>>
  BY DEF PageIInv, Filled
<1>5. CASE Begin(t)
  <2>1. /\ at[t] = "idle" /\ k' = [k EXCEPT ![t] = IF kind[t] = "update" THEN 0 ELSE 1]
    BY <1>5 DEF Begin
  <2>2. kind[t] = "main" => ~(k[t] > 1)
    BY <2>1 DEF PageIInv, Filled
  <2>3. kind[t] = "main" => k[t] = 1
    BY <1>2, <2>2
  <2>4. \A u \in Threads : kind[u] = "main" => k'[u] = k[u]
    BY <1>2, <2>1, <2>3
  <2>5. PICK place : at' = [at EXCEPT ![t] = place] /\
          place = CASE kind[t] \in {"script", "tool"} -> kind[t]
                    [] kind[t] \in Unlocked -> "work"
                    [] kind[t] = "main" /\ monitoringOFF -> "render"
                    [] OTHER -> "lock"
    BY <1>5 DEF Begin, Go
  <2>6. place \notin {"asked", "idle"} /\ (place = "render" => kind[t] = "main")
    BY <2>5, SMT DEF Unlocked
  <2>7. at' = [at EXCEPT ![t] = place]
    BY <2>5
  <2> HIDE <2>5
  <2> QED
    BY <1>3, <1>4, <2>1, <2>4, <2>6, <2>7
<1>6. CASE Lock(t) \/ Finish(t)
  <2>1. PICK place \in {"work", "done", "release"} : at' = [at EXCEPT ![t] = place]
    BY <1>6 DEF Lock, Finish, Go
  <2>2. at[t] \in {"lock", "work"} /\ UNCHANGED k
    BY <1>6 DEF Lock, Finish
  <2> QED
    BY <1>3, <1>4, <2>1, <2>2
<1>7. CASE Release(t)
  <2>1. at[t] = "release" /\ UNCHANGED k
    BY <1>7 DEF Release
  <2>2. PICK place : at' = [at EXCEPT ![t] = place] /\
          place = CASE kind[t] = "main" -> "render"
                    [] kind[t] \in ModuleKinds -> "queue"
                    [] OTHER -> "reply"
    BY <1>7 DEF Release, Go
  <2>3. place \notin {"asked", "idle"} /\ (place = "render" => kind[t] = "main")
    BY <2>2, SMT DEF ModuleKinds
  <2>4. at' = [at EXCEPT ![t] = place]
    BY <2>2
  <2> HIDE <2>2
  <2> QED
    BY <1>3, <1>4, <2>1, <2>3, <2>4
<1>8. CASE QueueGet(t) \/ Reply(t)
  <2>1. PICK place \in {"done", "error"} : at' = [at EXCEPT ![t] = place]
    BY <1>8 DEF QueueGet, Reply, Go
  <2>2. UNCHANGED k
    BY <1>8 DEF QueueGet, Reply
  <2> QED
    BY <1>3, <2>1, <2>2
<1> QED
  BY <1>5, <1>6, <1>7, <1>8

LEMMA NextPage ==
  ASSUME PageIInv, [Next]_vars
  PROVE  PageIInv'
<1>1. SuiteIInv /\ SuiteIInv'
  BY NextSuite DEF PageIInv
<1>2. k \in [Threads -> Nat] /\ asked \in [Threads -> SUBSET Threads]
  BY DEF PageIInv, SuiteIInv, SuiteTypes, PageTypes
<1>3. ASSUME UNCHANGED <<kind, at, lists, asked, shown>>,
             \A u \in Threads : kind[u] = "main" => k'[u] = k[u]
      PROVE  PageIInv'
  BY <1>1, <1>2, <1>3, PageMoves
<1>4. CASE UNCHANGED suiteVars
  BY <1>3, <1>4 DEF suiteVars
<1>5. CASE \E t \in Threads : ScriptCall(t)
  <2>1. PICK t \in Threads : ScriptCall(t)
    BY <1>5
  <2>2. kind[t] = "script"
    BY <1>1, <2>1, Alone DEF ScriptCall
  <2>3. k' = k \/ k' = [k EXCEPT ![t] = @ + 1]
    BY <2>1 DEF ScriptCall
  <2>4. \A u \in Threads : kind[u] = "main" => k'[u] = k[u]
    BY <1>2, <2>2, <2>3
  <2> QED
    BY <1>3, <2>1, <2>4 DEF ScriptCall
<1>6. CASE \E t \in Threads : View(t)
  BY <1>1, <1>6, AskPage, TakePage, RenderPage, PlacePage DEF View
<1> QED
  BY <1>4, <1>5, <1>6 DEF Next, Step, Library, Tool, Accident, vars

\* A main page with monitoring on shows what was fetched after its request began,
\* whatever the other requests do while it is rendered (updateMain and the main view).
THEOREM FreshSafe == Spec => []FreshPage
<1>1. PageIInv /\ [Next]_vars => PageIInv'
  BY NextPage
<1>2. PageIInv => FreshPage
  BY DEF PageIInv
<1> QED
  BY <1>1, <1>2, InitPage, PTL DEF Spec

\* The views, the lock and the library keep to their places.
THEOREM TypeCorrect == Spec => []TypeOK
<1>1. PageIInv /\ [Next]_vars => PageIInv'
  BY NextPage
<1>2. PageIInv => TypeOK
  <2> SUFFICES ASSUME PageIInv PROVE TypeOK
    OBVIOUS
  <2>1. RpcTypes /\ SuiteTypes /\ PageTypes
    BY DEF PageIInv, SuiteIInv, RpcIInv
  <2>2. ASSUME NEW f \in Files
        PROVE  req[f].to \in Threads \cup {None} /\ rsp[f].to \in Threads \cup {None}
    <3>1. req[f] \in Messages \cup {NoMessage} /\ rsp[f] \in Answers \cup {NoMessage}
      BY <2>1 DEF RpcTypes
    <3> QED
      BY <3>1 DEF Messages, Answers, NoMessage
  <2>3. ASSUME NEW i \in DOMAIN wire PROVE wire[i].to \in Threads
    <3>1. wire[i] \in Answers
      BY <2>1 DEF RpcTypes
    <3> QED
      BY <3>1 DEF Answers
  <2>4. ASSUME NEW t \in Threads
        PROVE  /\ call[t].step \in {"none", "prepared", "sent", "received", "loading"}
               /\ at[t] \in {"idle", "lock", "work", "asked", "release", "render", "queue", "reply",
                             "done", "error", "script", "tool"}
               /\ Len(shown[t]) <= Len(Tables)
    <3>1. call[t].step \in {"none", "prepared", "sent", "received", "loading"}
      <4>1. call[t] \in Entered \cup Loading \cup {NoCall}
        BY <2>1 DEF RpcTypes
      <4> QED
        BY <4>1 DEF Entered, Loading, NoCall
    <3>2. Placed(t)
      BY DEF PageIInv, SuiteIInv
    <3> QED
      BY <2>1, <3>1, <3>2 DEF Placed, PagePlaces, PageTypes
  <2> QED
    BY <2>1, <2>2, <2>3, <2>4 DEF TypeOK, RpcTypes, SuiteTypes
<1> QED
  BY <1>1, <1>2, InitPage, PTL DEF Spec

-----------------------------------------------------------------------------
(* What the calls of the pages, scripts and tools return *)

\* A step leaves the last result of a thread, takes it away, is a failed init or a
\* deinit of that thread, or is its step in the library.
LEMMA NextLast ==
  ASSUME SuiteIInv, [Next]_vars, NEW u \in Threads
  PROVE  \/ last'[u] = NoCall
         \/ last'[u] = last[u] /\ (served[u] => served'[u])
         \/ /\ last'[u].op \in {"init", "deinit"} /\ last'[u].from = None
            /\ kind[u] \in {"script", "tool"} /\ link' = FALSE
         \/ Library(u)
<1>1. RpcTypes /\ RpcIInv
  BY DEF SuiteIInv, RpcIInv
<1>2. last \in [Threads -> Returned \cup {NoCall}] /\ served \in [Threads -> BOOLEAN]
  BY <1>1 DEF RpcTypes
<1>3. ASSUME UNCHANGED <<last, served>>
      PROVE  last'[u] = last[u] /\ (served[u] => served'[u])
  BY <1>3
<1>4. ASSUME NEW t \in Threads, Library(t), u # t
      PROVE  last'[u] = last[u] /\ (served[u] => served'[u])
  <2>1. last'[u] = last[u]
    BY <1>1, <1>4, LibraryEffect DEF Library
  <2>2. CASE UNCHANGED served
    BY <2>1, <2>2
  <2>3. CASE Send(t)
    <3> DEFINE x == req[Unit[call[t].op]].to
    <3>1. \E a : served' = [served EXCEPT ![x] = @ \/ a.fault \notin {"error", "refused"}]
      BY <2>3 DEF Send
    <3> HIDE DEF x
    <3>2. served[u] => served'[u]
      <4>1. CASE x = u
        BY <1>2, <3>1, <4>1
      <4>2. CASE x # u
        <5>1. served'[u] = served[u]
          BY <1>2, <3>1, <4>2
        <5> QED
          BY <5>1
      <4> QED
        BY <4>1, <4>2
    <3> QED
      BY <2>1, <3>2, SMTT(60)
  <2> QED
    BY <1>4, <2>2, <2>3
       DEF Library, LibraryStep, Refuse, OpenFails, NotConnected, Receive, CallThrows, Collect,
           Acquire, LoadModule, LoadFails, InitReturns
<1>5. ASSUME NEW t \in Threads,
             last' = [last EXCEPT ![t] = NoCall], served' = [served EXCEPT ![t] = FALSE]
      PROVE  last'[u] = NoCall \/ (last'[u] = last[u] /\ (served[u] => served'[u]))
  <2>1. CASE u = t
    BY <1>2, <1>5, <2>1
  <2>2. CASE u # t
    <3>1. last'[u] = last[u] /\ served'[u] = served[u]
      BY <1>2, <1>5, <2>2
    <3> QED
      BY <3>1
  <2> QED
    BY <2>1, <2>2
<1>6. ASSUME NEW t \in Threads,
             Taken(t) \/ Connect(t) \/ \E op, arg : Prepare(t, op, arg)
      PROVE  last'[u] = NoCall \/ (last'[u] = last[u] /\ (served[u] => served'[u]))
  BY <1>5, <1>6 DEF Taken, Connect, Prepare, Enter
<1>7. ASSUME NEW t \in Threads, ConnectFails(t) \/ deinit(t), at[t] \in {"script", "tool"}
      PROVE  \/ last'[u] = last[u] /\ (served[u] => served'[u])
             \/ /\ last'[u].op \in {"init", "deinit"} /\ last'[u].from = None
                /\ kind[u] \in {"script", "tool"} /\ link' = FALSE
  <2>1. /\ UNCHANGED served /\ kind[t] \in {"script", "tool"} /\ link' = FALSE
        /\ \E op \in {"init", "deinit"}, code \in {0, 1} : Result(t, op, code)
    BY <1>7, Alone DEF ConnectFails, deinit
  <2>2. PICK op \in {"init", "deinit"}, code \in {0, 1} : Result(t, op, code)
    BY <2>1
  <2>3. CASE u = t
    BY <1>2, <2>1, <2>2, <2>3 DEF Result
  <2>4. CASE u # t
    <3>1. last'[u] = last[u]
      BY <1>2, <2>2, <2>4 DEF Result
    <3> QED
      BY <2>1, <3>1
  <2> QED
    BY <2>3, <2>4
<1>8. CASE UNCHANGED vars
  BY <1>3, <1>8 DEF vars, rpcVars
<1>9. CASE Accident
  BY <1>3, <1>9 DEF Accident, LinkBreaks, Race
<1>10. CASE \E t \in Threads : ScriptCall(t)
  BY <1>6, <1>7, <1>10 DEF ScriptCall
<1>11. CASE \E t \in Threads : Library(t)
  BY <1>4, <1>11
<1>12. CASE \E t \in Threads : Tool(t)
  <2>1. PICK t \in Threads : ToolStep(t) /\ at[t] = "tool"
    BY <1>12 DEF Tool
  <2>2. CASE ToolConnect(t)
    BY <1>6, <1>7, <2>1, <2>2 DEF ToolConnect
  <2>3. CASE ToolConnected(t) \/ ToolCall(t) \/ ToolWrote(t) \/ ToolScanned(t)
    BY <1>6, <2>3 DEF ToolConnected, ToolCall, ToolWrote, ToolScanned
  <2>4. CASE ToolSkip(t) \/ ToolRaises(t) \/ ToolSave(t) \/ ToolReturns(t)
    BY <1>3, <2>4 DEF ToolSkip, ToolRaises, ToolSave, ToolReturns, rpcVars
  <2> QED
    BY <2>1, <2>2, <2>3, <2>4 DEF ToolStep
<1>13. CASE \E t \in Threads : View(t)
  <2>1. PICK t \in Threads : View(t)
    BY <1>13
  <2>2. CASE Ask(t) \/ TakeList(t) \/ TakeRegister(t) \/ TakeAnswer(t)
    BY <1>6, <2>2 DEF Ask, TakeList, TakeRegister, TakeAnswer, Answered
  <2>3. CASE \/ Begin(t) \/ Lock(t) \/ Finish(t) \/ Release(t) \/ Render(t) \/ QueueGet(t)
             \/ Reply(t)
    BY <1>3, <2>3 DEF Begin, Lock, Finish, Release, Render, QueueGet, Reply, rpcVars
  <2> QED
    BY <2>1, <2>2, <2>3 DEF View
<1> QED
  BY <1>8, <1>9, <1>10, <1>11, <1>12, <1>13 DEF Next, Step

\* The properties of the results, of one thread.
LEMMA ReturnForms ==
  ReturnIInv <=> /\ SuiteIInv
                 /\ \A t \in Threads : Undisturbed(t) => Honest(t, last[t], served[t])
<1>1. (\A t \in Threads : OwnReturn(t)) /\ OutputsHonest /\ InBandHonest
        => \A t \in Threads : Undisturbed(t) => Honest(t, last[t], served[t])
  BY DEF OwnReturn, OutputsHonest, InBandHonest, Honest
<1>2. (\A t \in Threads : Undisturbed(t) => Honest(t, last[t], served[t]))
        => \A t \in Threads : OwnReturn(t)
  BY DEF OwnReturn, Honest
<1>3. (\A t \in Threads : Undisturbed(t) => Honest(t, last[t], served[t])) => OutputsHonest
  BY DEF OutputsHonest, Honest
<1>4. (\A t \in Threads : Undisturbed(t) => Honest(t, last[t], served[t])) => InBandHonest
  BY DEF InBandHonest, Honest
<1> QED
  BY <1>1, <1>2, <1>3, <1>4 DEF ReturnIInv

LEMMA InitReturn == Init => ReturnIInv
<1> SUFFICES ASSUME Init PROVE ReturnIInv
  OBVIOUS
<1>1. \A t \in Threads : ~Undisturbed(t)
  BY DEF Init, RpcInit, Undisturbed
<1> QED
  BY <1>1, InitSuite, ReturnForms

LEMMA NextReturn ==
  ASSUME ReturnIInv, [Next]_vars
  PROVE  ReturnIInv'
<1>1. SuiteIInv /\ SuiteIInv'
  BY NextSuite DEF ReturnIInv
<1>2. ASSUME NEW u \in Threads, last'[u] # NoCall, last'[u].with = {}
      PROVE  Honest(u, last'[u], served'[u])
  <2>1. CASE last'[u] = last[u] /\ (served[u] => served'[u])
    <3>1. Honest(u, last[u], served[u])
      BY <1>2, <2>1, ReturnForms DEF Undisturbed
    <3> QED
      BY <2>1, <3>1 DEF Honest
  <2>2. CASE last'[u].op \in {"init", "deinit"} /\ last'[u].from = None
    BY <2>2, Names DEF Honest, InBand
  <2>3. CASE Library(u) /\ last'[u] # last[u]
    BY <1>1, <1>2, <2>3, LibraryHonest DEF Library, SuiteIInv
  <2>4. CASE Library(u) /\ last'[u] = last[u]
    BY <1>1, <1>2, <2>4, LibraryEffect DEF Library, SuiteIInv
  <2> QED
    BY <1>1, <1>2, <2>1, <2>2, <2>3, <2>4, NextLast
<1>3. \A u \in Threads : Undisturbed(u)' => Honest(u, last[u], served[u])'
  BY <1>2 DEF Undisturbed, Honest
<1>4. (\A t \in Threads : OwnReturn(t))' /\ OutputsHonest' /\ InBandHonest'
  BY <1>3 DEF OwnReturn, OutputsHonest, InBandHonest, Honest
<1> QED
  BY <1>1, <1>4 DEF ReturnIInv

\* Return code 0 of a function of librpcman means that the service did what was asked
\* and that the caller's arrays hold the words of the call's own answer, if no other
\* thread was in the library meanwhile.
THEOREM OutputsSafe == Spec => []OutputsHonest
<1>1. ReturnIInv /\ [Next]_vars => ReturnIInv'
  BY NextReturn
<1>2. ReturnIInv => OutputsHonest
  BY DEF ReturnIInv
<1> QED
  BY <1>1, <1>2, InitReturn, PTL DEF Spec

\* getReg, getOHVFATMask and repeatedRegRead give the word of their own answer and putReg
\* the value it wrote, unless it is one of the three that also stand for a failure.
THEOREM InBandSafe == Spec => []InBandHonest
<1>1. ReturnIInv /\ [Next]_vars => ReturnIInv'
  BY NextReturn
<1>2. ReturnIInv => InBandHonest
  BY DEF ReturnIInv
<1> QED
  BY <1>1, <1>2, InitReturn, PTL DEF Spec

\* The lock of views.py keeps the answers of the pages apart, but for those that read
\* the board id without it.
THEOREM OwnSafe == Spec => []OwnAnswers
<1>1. ReturnIInv /\ [Next]_vars => ReturnIInv'
  BY NextReturn
<1>2. ReturnIInv => OwnAnswers
  <2> SUFFICES ASSUME ReturnIInv, NEW t \in Threads, at[t] = "asked", last[t] # NoCall,
                      kind[t] \notin Unlocked
               PROVE  last[t].from \in {t, None} \/ \E u \in last[t].with : kind[u] \in Unlocked
    BY DEF OwnAnswers
  <2>1. CASE last[t].with = {}
    BY <2>1 DEF ReturnIInv, OwnReturn, Undisturbed
  <2>2. CASE last[t].with # {}
    <3>1. \A u \in last[t].with : kind[u] \in Unlocked
      BY DEF ReturnIInv, SuiteIInv, Company
    <3> QED
      BY <2>2, <3>1
  <2> QED
    BY <2>1, <2>2
<1> QED
  BY <1>1, <1>2, InitReturn, PTL DEF Spec

-----------------------------------------------------------------------------
(* init and sbitReadOut *)

\* Some calls only scripts begin, or scripts and tools.
ByScript(op, arg, t) ==
  /\ op = "init" => kind[t] \in {"script", "tool"}
  /\ op = "sbitReadOut" => kind[t] = "script"
  /\ op = "readSCAADCSensor" => kind[t] = "script" /\ arg \in Masks

\* A step leaves the call of a thread as it was for others to join, ends it, begins it,
\* or is its step in the library.
LEMMA NextCalls ==
  ASSUME SuiteIInv, [Next]_vars, NEW u \in Threads
  PROVE  \/ call'[u] = NoCall
         \/ /\ call[u] # NoCall /\ call'[u] # NoCall
            /\ call'[u].op = call[u].op /\ call'[u].net = call[u].net /\ call'[u].arg = call[u].arg
         \/ /\ call[u] = NoCall /\ call'[u].net = 0
            /\ ByScript(call'[u].op, call'[u].arg, u)
         \/ Library(u)
<1>1. RpcTypes /\ RpcIInv
  BY DEF SuiteIInv, RpcIInv
<1>2. CASE UNCHANGED call
  BY <1>2
<1>3. CASE \E t \in Threads : Library(t)
  BY <1>1, <1>3, LibraryEffect DEF Library
<1>4. ASSUME NEW t \in Threads, NEW c \in Entered \cup Loading, call[t] = NoCall, Enter(t, c),
             c.net = 0, ByScript(c.op, c.arg, t)
      PROVE  \/ call'[u] = NoCall
             \/ /\ call[u] # NoCall /\ call'[u] # NoCall
                /\ call'[u].op = call[u].op /\ call'[u].net = call[u].net /\ call'[u].arg = call[u].arg
             \/ /\ call[u] = NoCall /\ call'[u].net = 0
                /\ ByScript(call'[u].op, call'[u].arg, u)
  BY <1>1, <1>4, EnterEffect
<1>5. ASSUME NEW t \in Threads, NEW op \in Ops, NEW arg \in Int, Prepare(t, op, arg),
             ByScript(op, arg, t)
      PROVE  \/ call'[u] = NoCall
             \/ /\ call[u] # NoCall /\ call'[u] # NoCall
                /\ call'[u].op = call[u].op /\ call'[u].net = call[u].net /\ call'[u].arg = call[u].arg
             \/ /\ call[u] = NoCall /\ call'[u].net = 0
                /\ ByScript(call'[u].op, call'[u].arg, u)
  <2> DEFINE c == [op |-> op, arg |-> arg, step |-> "prepared", net |-> 0, with |-> {}]
  <2>1. c \in Entered /\ Enter(t, c) /\ call[t] = NoCall /\ c.net = 0 /\ c.op = op /\ c.arg = arg
    BY <1>5 DEF Prepare, Entered
  <2> HIDE DEF c
  <2> QED
    BY <1>4, <1>5, <2>1
<1>6. ASSUME NEW t \in Threads, Connect(t), kind[t] \in {"script", "tool"}
      PROVE  \/ call'[u] = NoCall
             \/ /\ call[u] # NoCall /\ call'[u] # NoCall
                /\ call'[u].op = call[u].op /\ call'[u].net = call[u].net /\ call'[u].arg = call[u].arg
             \/ /\ call[u] = NoCall /\ call'[u].net = 0
                /\ ByScript(call'[u].op, call'[u].arg, u)
  <2> DEFINE c == [op |-> "init", arg |-> 0, step |-> "loading", net |-> 0, with |-> {}]
  <2>1. c \in Loading /\ Enter(t, c) /\ call[t] = NoCall /\ c.net = 0 /\ c.op = "init"
    BY <1>6 DEF Connect, Loading
  <2>2. ByScript(c.op, c.arg, t)
    BY <1>6 DEF ByScript
  <2> HIDE DEF c
  <2> QED
    BY <1>4, <2>1, <2>2
<1>7. ASSUME NEW t \in Threads, ConnectFails(t) \/ deinit(t) PROVE UNCHANGED call
  BY <1>1, <1>7, CloseKeeps
<1>8. CASE \E t \in Threads : ScriptCall(t)
  <2>1. PICK t \in Threads : ScriptCall(t)
    BY <1>8
  <2>2. kind[t] = "script"
    BY <2>1, Alone DEF ScriptCall
  <2>3. \/ \E op \in Ops, arg \in Int : Prepare(t, op, arg) /\ arg \in Arguments(op)
        \/ Connect(t) \/ ConnectFails(t) \/ deinit(t)
    BY <2>1, ArgumentTypes DEF ScriptCall
  <2>4. ASSUME NEW op \in Ops, NEW arg \in Arguments(op) PROVE ByScript(op, arg, t)
    <3>1. op = "readSCAADCSensor" => Arguments(op) = Masks
      BY SMT DEF Arguments
    <3> QED
      BY <2>2, <3>1 DEF ByScript
  <2> QED
    BY <1>2, <1>5, <1>6, <1>7, <2>2, <2>3, <2>4
<1>9. CASE \E t \in Threads : Tool(t)
  <2>1. PICK t \in Threads : Tool(t)
    BY <1>9
  <2>2. kind[t] = "tool"
    BY <2>1, Alone DEF Tool
  <2>3. \/ \E job : Prepare(t, Method(job), 0)
        \/ Connect(t) \/ ConnectFails(t) \/ UNCHANGED call
    BY <2>1 DEF Tool, ToolStep, ToolConnect, ToolConnected, ToolSkip, ToolRaises, ToolCall,
                ToolWrote, ToolScanned, ToolSave, ToolReturns, Taken, rpcVars
  <2>4. ASSUME NEW job PROVE Method(job) \in Ops /\ ByScript(Method(job), 0, t)
    BY MethodTypes, Names DEF ByScript
  <2> QED
    BY <1>2, <1>5, <1>6, <1>7, <2>2, <2>3, <2>4
<1>10. CASE \E t \in Threads : View(t)
  <2>1. PICK t \in Threads : View(t)
    BY <1>10
  <2>2. CASE Ask(t)
    <3>1. NextCall(t) \in Ops /\ NextCall(t) \notin {"sbitReadOut", "readSCAADCSensor"}
      BY <2>2, NextCallTypes DEF Ask
    <3>2. \A arg : ByScript(NextCall(t), arg, t)
      BY <3>1, Names DEF ByScript
    <3> QED
      BY <1>5, <2>2, <3>1, <3>2 DEF Ask
  <2>3. CASE ~Ask(t)
    <3>1. UNCHANGED call
      BY <2>1, <2>3 DEF View, Begin, Lock, TakeList, TakeRegister, TakeAnswer, Answered, Taken,
                        Finish, Release, Render, QueueGet, Reply, rpcVars
    <3> QED
      BY <1>2, <3>1
  <2> QED
    BY <2>2, <2>3
<1>11. CASE UNCHANGED vars \/ Accident
  BY <1>2, <1>11 DEF vars, rpcVars, Accident, LinkBreaks, Race
<1> QED
  BY <1>3, <1>8, <1>9, <1>10, <1>11 DEF Next, Step

\* What a step does to the connection.
LEMMA NextLink ==
  ASSUME SuiteIInv, [Next]_vars
  PROVE  \/ UNCHANGED <<link, loaded>>
         \/ link' = FALSE
         \/ \E t \in Threads : LoadModule(t)
         \/ \E t \in Threads : Connect(t) /\ at[t] \in {"script", "tool"}
<1>1. CASE \E t \in Threads : Library(t)
  BY <1>1, ZenonT(60) DEF Library, LibraryStep, Refuse, OpenFails, NotConnected, Send, Receive, CallThrows,
              Collect, Acquire, LoadFails, InitReturns
<1>2. CASE \E t \in Threads : ScriptCall(t)
  BY <1>2 DEF ScriptCall, Prepare, ConnectFails, deinit
<1>3. CASE \E t \in Threads : Tool(t)
  BY <1>3 DEF Tool, ToolStep, ToolConnect, ToolConnected, ToolSkip, ToolRaises, ToolCall, ToolWrote,
              ToolScanned, ToolSave, ToolReturns, Taken, rpcVars, Prepare, ConnectFails
<1>4. CASE \E t \in Threads : View(t)
  BY <1>4, ZenonT(60) DEF View, Begin, Lock, Ask, TakeList, TakeRegister, TakeAnswer, Answered, Taken, Finish,
              Release, Render, QueueGet, Reply, rpcVars, Prepare
<1>5. CASE UNCHANGED vars \/ Accident
  BY <1>5 DEF vars, rpcVars, Accident, LinkBreaks, Race
<1> QED
  BY <1>1, <1>2, <1>3, <1>4, <1>5, ZenonT(60) DEF Next, Step

\* Only scripts and tools connect, and who has connected knows what is loaded.
LEMMA NextConnect ==
  ASSUME ConnectIInv, [Next]_vars
  PROVE  ConnectIInv'
<1>1. SuiteIInv /\ SuiteIInv' /\ RpcIInv /\ RpcTypes
  BY NextSuite DEF ConnectIInv, SuiteIInv, RpcIInv
<1>2. UNCHANGED kind
  BY DEF Next, Step, Library, Tool, View, Begin, Lock, Ask, TakeList, TakeRegister, TakeAnswer,
         Finish, Release, Render, QueueGet, Reply, ScriptCall, Accident, suiteVars, vars
<1>3. ASSUME NEW u \in Threads, call'[u] # NoCall, call'[u].op = "init"
      PROVE  kind[u] \in {"script", "tool"}
  <2>1. CASE Library(u)
    BY <1>1, <1>3, <2>1, LibraryEffect, CallCases DEF Library, ConnectIInv, ScriptsConnect
  <2> QED
    BY <1>1, <1>3, <2>1, NextCalls DEF ConnectIInv, ScriptsConnect, ByScript
<1>4. ASSUME NEW u \in Threads, last'[u] # NoCall, last'[u].op = "init"
      PROVE  kind[u] \in {"script", "tool"}
  <2>1. CASE Library(u)
    BY <1>1, <1>4, <2>1, LibraryEffect, CallCases DEF Library, ConnectIInv, ScriptsConnect
  <2>2. CASE last'[u] = last[u]
    BY <1>4, <2>2 DEF ConnectIInv, ScriptsConnect
  <2> QED
    BY <1>1, <1>4, <2>1, <2>2, NextLast
<1>5. ScriptsConnect'
  BY <1>2, <1>3, <1>4 DEF ScriptsConnect
<1>6. ASSUME NEW u \in Threads, last'[u] # NoCall, last'[u].op = "init", last'[u].code = 0, link'
      PROVE  loaded' = Len(LoadOrder)
  <2>1. CASE last'[u] = last[u]
    <3>1. link => loaded = Len(LoadOrder)
      BY <1>6, <2>1 DEF ConnectIInv, InitComplete
    <3>2. CASE UNCHANGED <<link, loaded>>
      BY <1>6, <3>1, <3>2
    <3>3. CASE \E t \in Threads : LoadModule(t)
      <4>1. link /\ loaded < Len(LoadOrder) /\ loaded \in Int
        BY <1>1, <3>3 DEF LoadModule, RpcTypes
      <4> QED
        BY <3>1, <4>1 DEF LoadOrder
    <3>4. CASE \E t \in Threads : Connect(t) /\ at[t] \in {"script", "tool"}
      <4>1. PICK t \in Threads : Connect(t) /\ at[t] \in {"script", "tool"}
        BY <3>4
      <4>2. u = t
        BY <1>1, <1>4, <1>6, <4>1, Alone
      <4>3. last'[t] = NoCall
        BY <1>1, <4>1 DEF Connect, Enter, RpcTypes
      <4> QED
        BY <1>6, <4>2, <4>3
    <3> QED
      BY <1>1, <1>6, <3>2, <3>3, <3>4, NextLink
  <2>2. CASE Library(u) /\ last'[u] # last[u]
    <3>1. call[u].op = "init" /\ LibraryStep(u)
      BY <1>1, <1>6, <2>2, LibraryEffect DEF Library
    <3>2. call[u].step = "loading"
      <4>1. call[u] \notin Entered /\ u \in Inside
        BY <1>1, <3>1, Names, LibraryEffect DEF Entered
      <4> QED
        BY <1>1, <4>1, CallCases
    <3>3. LoadModule(u) \/ LoadFails(u) \/ InitReturns(u)
      BY <3>1, <3>2 DEF LibraryStep, Refuse, OpenFails, NotConnected, Ready, Send, Receive,
                        CallThrows, Collect, Acquire
    <3>4. CASE LoadModule(u)
      BY <2>2, <3>4 DEF LoadModule
    <3>5. CASE LoadFails(u)
      <4>1. last'[u].code = 1
        BY <1>1, <3>5 DEF LoadFails, Result, RpcTypes
      <4> QED
        BY <1>6, <4>1
    <3>6. CASE InitReturns(u)
      BY <3>6 DEF InitReturns
    <3> QED
      BY <3>3, <3>4, <3>5, <3>6
  <2> QED
    BY <1>1, <1>6, <2>1, <2>2, NextLast
<1>7. InitComplete'
  BY <1>6 DEF InitComplete
<1> QED
  BY <1>1, <1>5, <1>7 DEF ConnectIInv

LEMMA InitConnect == Init => ConnectIInv
<1> SUFFICES ASSUME Init PROVE ConnectIInv
  OBVIOUS
<1>1. \A t \in Threads : call[t] = NoCall /\ last[t] = NoCall
  BY DEF Init, RpcInit
<1> QED
  BY <1>1, InitSuite DEF ConnectIInv, ScriptsConnect, InitComplete

\* After an init that returned 0 every module of LoadOrder is loaded for as long as the
\* connection lasts.
THEOREM InitSafe == Spec => []InitComplete
<1>1. ConnectIInv /\ [Next]_vars => ConnectIInv'
  BY NextConnect
<1>2. ConnectIInv => InitComplete
  BY DEF ConnectIInv
<1> QED
  BY <1>1, <1>2, InitConnect, PTL DEF Spec

\* A script takes its own answers.
LEMMA ScriptAlone ==
  ASSUME SuiteIInv, NEW t \in Threads, call[t] \in Entered, kind[t] = "script"
  PROVE  Private(t)
<1>1. call[t] # NoCall /\ t \in Inside
  BY DEF Entered, NoCall, Inside
<1>2. kind[t] = "script" /\ kind \in Scenarios
  BY DEF SuiteIInv, SuiteTypes
<1>3. \A u \in Threads : kind[u] \notin Unlocked
  BY <1>2, SuiteAssumption DEF Unlocked
<1>4. call[t].with \subseteq Threads /\ \A u \in call[t].with : kind[u] \in Unlocked
  BY <1>1, <1>2, <1>3 DEF SuiteIInv, Company, Entered
<1>5. call[t].with = {}
  BY <1>3, <1>4
<1> QED
  BY <1>1, <1>5 DEF SuiteIInv, RpcIInv

\* A step of sbitReadOut: the time it has counted.
LEMMA LibraryTime ==
  ASSUME TimeIInv, NEW t \in Threads, LibraryStep(t), call[t].op = "sbitReadOut"
  PROVE  /\ call'[t] # NoCall => call'[t].net \in 0..(AcquireTime - 1)
         /\ last'[t] # NoCall /\ last'[t].code = 0 =>
              last'[t].net \in AcquireTime..(2 * AcquireTime - 1)
<1> DEFINE c == call[t]
<1>1. SuiteIInv /\ RpcIInv /\ RpcTypes /\ ScriptsAcquire
  BY DEF TimeIInv, SuiteIInv, RpcIInv
<1>2. c # NoCall /\ last[t] = NoCall
  BY <1>1, LibraryEffect, CallCases
<1>3. c \in Entered
  <2>1. c \notin Loading
    BY DEF Loading
  <2> QED
    BY <1>1, <1>2, <2>1, CallCases
<1>4. c.net \in 0..(AcquireTime - 1)
  BY <1>2 DEF TimeIInv, NetBounded
<1>5. call \in [Threads -> Entered \cup Loading \cup {NoCall}] /\ last \in [Threads -> Returned \cup {NoCall}]
  BY <1>1 DEF RpcTypes
<1>6. ASSUME NEW code \in {1, EIO}, Fail(t, code)
      PROVE  call'[t] = NoCall /\ last'[t].code # 0
  BY <1>5, <1>6 DEF Fail, Return, EIO
<1>7. CASE Refuse(t) \/ OpenFails(t) \/ NotConnected(t) \/ CallThrows(t)
  BY <1>6, <1>7 DEF Refuse, OpenFails, NotConnected, CallThrows
<1>8. CASE Send(t) \/ Receive(t)
  <2>1. call'[t].net = c.net /\ last'[t] = NoCall
    BY <1>2, <1>3, <1>5, <1>8 DEF Send, Receive, Entered
  <2> QED
    BY <1>4, <2>1
<1>9. CASE Acquire(t)
  <2> DEFINE a == rsp.amc
             net == c.net + (IF a.word = Full THEN AcquireTime ELSE a.word)
  <2>1. CASE Fail(t, 1)
    BY <1>6, <2>1
  <2>2. CASE UNCHANGED <<call, last>>
    BY <1>2, <1>4, <2>2
  <2>3. CASE a.fault = "none" \/ (a.fault = "lacks" /\ a.pos = 1 /\ a.word = Full)
    <3>1. Own(t, rsp["amc"])
      BY <1>1, <1>2, <1>3, <1>9, ScriptAlone, Names DEF Private, Acquire, ScriptsAcquire
    <3>2. a.word \in LiveTimes \cup {Full}
      BY <2>3, <3>1 DEF Own
    <3>3. net \in c.net..(c.net + AcquireTime)
      <4>1. AcquireTime \in Nat /\ LiveTimes \subseteq 0..AcquireTime
        BY RpcAssumption
      <4>2. CASE a.word = Full
        <5>1. net = c.net + AcquireTime
          BY <4>2
        <5> QED
          BY <1>4, <4>1, <5>1
      <4>3. CASE a.word # Full
        <5>1. net = c.net + a.word /\ a.word \in 0..AcquireTime
          BY <3>2, <4>1, <4>3
        <5> QED
          BY <1>4, <4>1, <5>1
      <4> QED
        BY <4>2, <4>3
    <3> HIDE DEF net
    <3>4. CASE TimeLeft(net) /\ call' = [call EXCEPT ![t].step = "prepared", ![t].net = net] /\ UNCHANGED last
      <4>1. call'[t].net = net /\ last'[t] = NoCall
        BY <1>2, <1>3, <1>5, <3>4 DEF Entered
      <4>2. net \in 0..(AcquireTime - 1)
        BY <1>4, <3>3, <3>4, RpcAssumption DEF TimeLeft
      <4> QED
        BY <4>1, <4>2
    <3>5. CASE /\ ~TimeLeft(net)
               /\ last' = [last EXCEPT ![t] =
                             [step |-> "returned", op |-> c.op, arg |-> c.arg, code |-> 0,
                              from |-> a.to, out |-> <<>>, with |-> c.with, net |-> net]]
               /\ call' = [call EXCEPT ![t] = NoCall]
      <4>1. call'[t] = NoCall /\ last'[t].net = net
        BY <1>5, <3>5
      <4>2. net \in AcquireTime..(2 * AcquireTime - 1)
        <5> DEFINE n == c.net
        <5>1. n \in 0..(AcquireTime - 1) /\ net \in n..(n + AcquireTime) /\ ~(net < AcquireTime)
          BY <1>4, <3>3, <3>5 DEF TimeLeft
        <5>2. AcquireTime \in Nat
          BY RpcAssumption
        <5> HIDE DEF n
        <5> QED
          BY <5>1, <5>2
      <4> QED
        BY <4>1, <4>2
    <3> QED
      BY <1>9, <2>1, <2>2, <3>4, <3>5 DEF Acquire, net
  <2> QED
    BY <1>9, <2>1, <2>2, <2>3 DEF Acquire
<1>10. ~Collect(t) /\ ~LoadModule(t) /\ ~LoadFails(t) /\ ~InitReturns(t)
  BY <1>3 DEF Collect, LoadModule, LoadFails, InitReturns, Entered
<1> QED
  BY <1>7, <1>8, <1>9, <1>10 DEF LibraryStep

LEMMA NextTime ==
  ASSUME TimeIInv, [Next]_vars
  PROVE  TimeIInv'
<1>1. SuiteIInv /\ SuiteIInv' /\ RpcIInv
  BY NextSuite DEF TimeIInv, SuiteIInv
<1>2. UNCHANGED kind
  BY DEF Next, Step, Library, Tool, View, Begin, Lock, Ask, TakeList, TakeRegister, TakeAnswer,
         Finish, Release, Render, QueueGet, Reply, ScriptCall, Accident, suiteVars, vars
<1>3. 0 \in 0..(AcquireTime - 1)
  BY RpcAssumption
<1>4. ASSUME NEW u \in Threads, call'[u] # NoCall, call'[u].op = "sbitReadOut"
      PROVE  kind[u] = "script" /\ call'[u].net \in 0..(AcquireTime - 1)
  <2>1. CASE Library(u)
    <3>1. call[u].op = "sbitReadOut" /\ call[u] # NoCall
      BY <1>1, <1>4, <2>1, LibraryEffect, CallCases DEF Library, RpcIInv
    <3> QED
      BY <1>4, <2>1, <3>1, LibraryTime DEF Library, TimeIInv, ScriptsAcquire
  <2>2. CASE /\ call[u] # NoCall /\ call'[u].op = call[u].op /\ call'[u].net = call[u].net
    BY <1>4, <2>2 DEF TimeIInv, ScriptsAcquire, NetBounded
  <2> QED
    BY <1>1, <1>3, <1>4, <2>1, <2>2, NextCalls DEF ByScript
<1>5. ASSUME NEW u \in Threads, last'[u] # NoCall, last'[u].op = "sbitReadOut", last'[u].code = 0
      PROVE  last'[u].net \in AcquireTime..(2 * AcquireTime - 1)
  <2>1. CASE Library(u)
    <3>1. call[u].op = "sbitReadOut"
      BY <1>1, <1>5, <2>1, LibraryEffect DEF Library
    <3> QED
      BY <1>5, <2>1, <3>1, LibraryTime DEF Library
  <2>2. CASE last'[u] = last[u]
    BY <1>5, <2>2 DEF TimeIInv, AcquireBounded
  <2> QED
    BY <1>1, <1>5, <2>1, <2>2, NextLast
<1>6. ScriptsAcquire' /\ NetBounded'
  BY <1>2, <1>4 DEF ScriptsAcquire, NetBounded
<1>7. AcquireBounded'
  BY <1>5 DEF AcquireBounded
<1> QED
  BY <1>1, <1>6, <1>7 DEF TimeIInv

LEMMA InitTime == Init => TimeIInv
<1> SUFFICES ASSUME Init PROVE TimeIInv
  OBVIOUS
<1>1. \A t \in Threads : call[t] = NoCall /\ last[t] = NoCall
  BY DEF Init, RpcInit
<1> QED
  BY <1>1, InitSuite DEF TimeIInv, ScriptsAcquire, NetBounded, AcquireBounded

\* sbitReadOut returns 0 only after the time asked for, and before twice that time.
THEOREM AcquireSafe == Spec => []AcquireBounded
<1>1. TimeIInv /\ [Next]_vars => TimeIInv'
  BY NextTime
<1>2. TimeIInv => AcquireBounded
  BY DEF TimeIInv
<1> QED
  BY <1>1, <1>2, InitTime, PTL DEF Spec

LEMMA NextSensor ==
  ASSUME SensorIInv, [Next]_vars
  PROVE  SensorIInv'
<1>1. SuiteIInv /\ SuiteIInv' /\ RpcIInv
  BY NextSuite DEF SensorIInv, SuiteIInv
<1>2. UNCHANGED kind
  BY DEF Next, Step, Library, Tool, View, Begin, Lock, Ask, TakeList, TakeRegister, TakeAnswer,
         Finish, Release, Render, QueueGet, Reply, ScriptCall, Accident, suiteVars, vars
<1>3. ASSUME NEW u \in Threads, call'[u] # NoCall, call'[u].op = "readSCAADCSensor"
      PROVE  kind[u] = "script" /\ call'[u].arg \in Masks
  <2>1. CASE Library(u)
    <3>1. call[u].op = call'[u].op /\ call[u].arg = call'[u].arg /\ call[u] # NoCall
      BY <1>1, <1>3, <2>1, LibraryEffect, CallCases DEF Library, RpcIInv
    <3> QED
      BY <1>3, <3>1 DEF SensorIInv, ScriptsSense
  <2>2. CASE call[u] # NoCall /\ call'[u].op = call[u].op /\ call'[u].arg = call[u].arg
    BY <1>3, <2>2 DEF SensorIInv, ScriptsSense
  <2> QED
    BY <1>1, <1>3, <2>1, <2>2, NextCalls DEF ByScript
<1>4. ScriptsSense'
  BY <1>2, <1>3 DEF ScriptsSense
<1> QED
  BY <1>1, <1>4 DEF SensorIInv

\* The words of the answer are the links of the mask, and what they are compared with is
\* count_1bits.
LEMMA SensorAnswer ==
  ASSUME SensorIInv, NEW t \in Threads, call[t].step = "received",
         call[t].op = "readSCAADCSensor", rsp.sca.fault = "none"
  PROVE  Code(call[t], rsp.sca) = 0 <=> Links(call[t].arg) \cap 4..7 = {}
<1> DEFINE c == call[t]
           a == rsp["sca"]
<1>1. c \in Entered /\ c # NoCall
  BY CallCases DEF SensorIInv, SuiteIInv, RpcIInv, NoCall
<1>2. kind[t] = "script" /\ c.arg \in Masks
  BY <1>1 DEF SensorIInv, ScriptsSense
<1>3. Own(t, a)
  BY <1>1, <1>2, ScriptAlone, Names DEF Private, SensorIInv
<1>4. a.op = c.op /\ a.word = Cardinality(Links(c.arg))
  BY <1>3 DEF Own
<1>5. c.arg \in Nat /\ c.arg < 4096 /\ Count[c.arg] = count_1bits(c.arg)
  <2>1. \A x \in Masks : x \in Nat /\ x < 4096
    BY RpcAssumption
  <2>2. \A x \in Masks : Count[x] = count_1bits(x)
    BY DEF Count
  <2> QED
    BY <1>2, <2>1, <2>2
<1>6. a.word = Count[c.arg] <=> Links(c.arg) \cap 4..7 = {}
  BY <1>4, <1>5, BitsCounted
<1>7. FirstBad(c, a) = IF a.word # Count[c.arg] THEN 1 ELSE 2
  BY <1>4, SensorEntry DEF FirstBad
<1>8. Code(c, a) = IF FirstBad(c, a) > 1 THEN 0 ELSE 1
  <2>1. Len(Calls[c.op].keys) = 1 /\ c.op \notin InBand /\ c.op # "putReg"
    BY SensorEntry DEF InBand
  <2> HIDE DEF c
  <2> QED
    BY <1>4, <1>7, <2>1 DEF Code
<1> QED
  BY <1>6, <1>7, <1>8

\* readSCAADCSensor takes a whole answer exactly if the mask has none of links 4 to 7.
THEOREM SensorsSafe == Spec => []SensorsByMask
<1>1. Init => SensorIInv
  <2>1. Init => \A t \in Threads : call[t] = NoCall
    BY DEF Init, RpcInit
  <2> QED
    BY <2>1, InitSuite DEF SensorIInv, ScriptsSense
<1>2. SensorIInv /\ [Next]_vars => SensorIInv'
  BY NextSensor
<1>3. SensorIInv => SensorsByMask
  BY SensorAnswer DEF SensorsByMask
<1> QED
  BY <1>1, <1>2, <1>3, PTL DEF Spec

-----------------------------------------------------------------------------
(* The rows of a module's page *)

\* A list with no register in it is empty.
LEMMA NumberedNone ==
  ASSUME NEW s \in Seq(Nat), {s[j] : j \in DOMAIN s} \subseteq 1..(0 - 1)
  PROVE  s = <<>>
<1>1. 1..(0 - 1) = {}
  OBVIOUS
<1>2. ASSUME NEW j \in DOMAIN s PROVE FALSE
  BY <1>1, Zenon
<1>3. 1 \notin DOMAIN s
  BY <1>2, Zenon
<1>4. Len(s) = 0
  BY <1>3
<1> QED
  BY <1>4

LEMMA NumberedEmpty ==
  ASSUME NEW n \in {0, 1}
  PROVE  Numbered(<<>>, n)
<1>1. {<<>>[j] : j \in DOMAIN <<>>} = {} /\ Len(<<>>) = 0 /\ DOMAIN <<>> = {}
  OBVIOUS
<1>2. n = 1 => 1 \in 1..n /\ 1 <= Len(<<>>) + 1 /\ Len(<<>>) = n - 1
  BY <1>1
<1> QED
  BY <1>1, <1>2 DEF Numbered

LEMMA InitRows == Init => RowIInv
<1> SUFFICES ASSUME Init PROVE RowIInv
  OBVIOUS
<1>1. /\ k = [t \in Threads |-> 1]
      /\ valuelist = [t \in Threads |-> <<>>] /\ rowcolors = [t \in Threads |-> <<>>]
      /\ rows = [t \in Threads |-> NoRows]
  BY DEF Init
<1>2. RowTypes
  BY <1>1 DEF RowTypes
<1>3. ASSUME NEW t \in Threads PROVE Numbered(valuelist[t], k[t])
  BY <1>1, NumberedEmpty
<1> QED
  BY <1>2, <1>3, InitSuite DEF RowIInv

\* A register is read, and the page goes on to the next.
LEMMA NumberedGrows ==
  ASSUME NEW v \in Seq(Nat), NEW n \in Nat, n > 0, Numbered(v, n)
  PROVE  Numbered(v, n + 1) /\ Numbered(Append(v, n), n + 1)
<1> SUFFICES ASSUME NEW w \in {v, Append(v, n)} PROVE Numbered(w, n + 1)
  OBVIOUS
<1> SUFFICES /\ {w[j] : j \in DOMAIN w} \subseteq 1..n
             /\ \E f \in 1..(n + 1) :
                  /\ f \notin {w[j] : j \in DOMAIN w}
                  /\ f <= Len(w) + 1
                  /\ \A i \in DOMAIN w : i < f => w[i] = i
                  /\ f = n + 1 => Len(w) = n
  <2>1. (n + 1) - 1 = n
    OBVIOUS
  <2> QED
    BY <2>1 DEF Numbered
<1>1. {v[j] : j \in DOMAIN v} \subseteq 1..(n - 1)
  BY DEF Numbered
<1>2. PICK first \in 1..n :
        /\ first \notin {v[j] : j \in DOMAIN v}
        /\ first <= Len(v) + 1
        /\ \A i \in DOMAIN v : i < first => v[i] = i
        /\ first = n => Len(v) = n - 1
  BY DEF Numbered
<1>3. CASE w = v
  <2>1. first \in 1..(n + 1) /\ first # n + 1 /\ 1..(n - 1) \subseteq 1..n
    OBVIOUS
  <2> QED
    BY <1>1, <1>2, <1>3, <2>1
<1>4. CASE w = Append(v, n)
  <2>1. /\ Len(w) = Len(v) + 1 /\ Len(v) \in Nat
        /\ DOMAIN w = 1..(Len(v) + 1) /\ DOMAIN v = 1..Len(v)
        /\ w[Len(v) + 1] = n
        /\ \A j \in DOMAIN v : w[j] = v[j]
    BY <1>4
  <2>2. \A j \in DOMAIN w : j \in DOMAIN v \/ j = Len(v) + 1
    BY <2>1
  <2>3. \A j \in DOMAIN w : w[j] = n \/ (j \in DOMAIN v /\ w[j] = v[j])
    BY <2>1, <2>2
  <2>4. \A j \in DOMAIN v : v[j] \in 1..(n - 1)
    BY <1>1
  <2>5. \A j \in DOMAIN w : w[j] \in 1..n
    BY <2>3, <2>4
  <2>6. CASE first = n
    <3>1. Len(v) = n - 1
      BY <1>2, <2>6
    <3>2. \A j \in DOMAIN w : w[j] # n + 1
      BY <2>5
    <3>3. \A i \in DOMAIN w : i < n + 1 => w[i] = i
      BY <1>2, <2>1, <2>2, <2>6, <3>1
    <3>4. n + 1 \in 1..(n + 1) /\ n + 1 <= Len(w) + 1 /\ Len(w) = n
      BY <2>1, <3>1
    <3> QED
      BY <2>5, <3>2, <3>3, <3>4
  <2>7. CASE first # n
    <3>1. first \in 1..(n + 1) /\ first < n
      BY <1>2, <2>7
    <3>2. \A j \in DOMAIN w : w[j] # first
      BY <1>2, <2>3, <2>7
    <3>3. \A i \in DOMAIN w : i < first => w[i] = i
      BY <1>2, <2>1
    <3>4. first <= Len(w) + 1 /\ first # n + 1
      BY <1>2, <2>1, <3>1
    <3> QED
      BY <2>5, <3>1, <3>2, <3>3, <3>4
  <2> QED
    BY <2>6, <2>7
<1> QED
  BY <1>3, <1>4

\* No register is read: the pages move, and the rows are put into the queue.
LEMMA RowMoves ==
  ASSUME RowIInv, SuiteIInv', UNCHANGED <<kind, valuelist, rowcolors>>,
         \A u \in Threads : kind[u] \in ModuleKinds =>
           \/ k'[u] = k[u]
           \/ valuelist[u] = <<>> /\ k'[u] \in {0, 1},
         \A u \in Threads : at'[u] = "idle" => at[u] = "idle",
         rows' = [u \in Threads |-> rows'[u]],
         \A u \in Threads : rows'[u] # NoRows =>
           /\ at'[u] \notin {"idle", "lock", "work", "asked"}
           /\ \/ rows'[u] = rows[u] /\ k'[u] = k[u]
              \/ rows'[u].zip = Zip(u) /\ kind[u] \in ModuleKinds /\ k'[u] > 0
  PROVE  RowIInv'
<1>1. \A u \in Threads : Zip(u)' = Zip(u)
  BY DEF Zip
<1>2. RowTypes'
  BY <1>1 DEF RowIInv, RowTypes
<1>3. ASSUME NEW u \in Threads, kind[u] \in ModuleKinds
      PROVE  Numbered(valuelist'[u], k'[u])
  BY <1>3, NumberedEmpty DEF RowIInv
<1>4. \A u \in Threads : kind'[u] \in ModuleKinds => Numbered(valuelist[u], k[u])'
  BY <1>3 DEF Numbered
<1> QED
  BY <1>2, <1>4 DEF RowIInv

LEMMA TakeRows ==
  ASSUME RowIInv, SuiteIInv', NEW t \in Threads, TakeRegister(t)
  PROVE  RowIInv'
<1>1. /\ at[t] = "asked" /\ kind[t] \in ModuleKinds /\ k[t] > 0 /\ UNCHANGED <<kind, rows>>
      /\ k' = [k EXCEPT ![t] = @ + 1] /\ at' = [at EXCEPT ![t] = "work"]
  BY DEF TakeRegister, Answered, Go
<1>2. /\ k \in [Threads -> Nat] /\ at = [u \in Threads |-> at[u]]
      /\ valuelist \in [Threads -> Seq(Nat)] /\ rowcolors = valuelist
      /\ RowTypes
  BY DEF RowIInv, SuiteIInv, SuiteTypes, RowTypes
<1>3. PICK w \in {valuelist[t], Append(valuelist[t], k[t])} :
        valuelist' = [valuelist EXCEPT ![t] = w] /\ rowcolors' = valuelist'
  <2>1. CASE UNCHANGED <<valuelist, rowcolors>>
    <3>1. valuelist' = [valuelist EXCEPT ![t] = valuelist[t]]
      BY <1>2, <2>1
    <3> QED
      BY <1>2, <2>1, <3>1
  <2>2. CASE /\ valuelist' = [valuelist EXCEPT ![t] = Append(@, k[t])]
             /\ rowcolors' = [rowcolors EXCEPT ![t] = Append(@, k[t])]
    BY <1>2, <2>2
  <2> QED
    BY <2>1, <2>2 DEF TakeRegister
<1>4. w \in Seq(Nat) /\ k[t] \in Nat /\ valuelist[t] \in Seq(Nat)
  <2>1. k[t] \in Nat /\ valuelist[t] \in Seq(Nat)
    BY <1>2
  <2>2. Append(valuelist[t], k[t]) \in Seq(Nat)
    BY <2>1
  <2> QED
    BY <1>3, <2>1, <2>2
<1>5. /\ valuelist'[t] = w /\ k'[t] = k[t] + 1 /\ at'[t] = "work"
      /\ \A u \in Threads \ {t} : valuelist'[u] = valuelist[u] /\ k'[u] = k[u] /\ at'[u] = at[u]
  BY <1>1, <1>2, <1>3
<1>6. rows[t] = NoRows
  BY <1>1, <1>2 DEF RowTypes
<1>7. RowTypes'
  <2>1. valuelist' \in [Threads -> Seq(Nat)] /\ rowcolors' = valuelist'
    BY <1>2, <1>3, <1>4
  <2>2. ASSUME NEW u \in Threads \ {t} PROVE Zip(u)' = Zip(u)
    <3>1. rowcolors'[u] = rowcolors[u] /\ valuelist'[u] = valuelist[u]
      BY <1>2, <1>5, <2>1
    <3> QED
      BY <3>1 DEF Zip
  <2>3. rows' = [u \in Threads |-> rows'[u]]
    BY <1>1, <1>2 DEF RowTypes
  <2> QED
    BY <1>1, <1>2, <1>5, <1>6, <2>1, <2>2, <2>3 DEF RowTypes
<1>8. ASSUME NEW u \in Threads, kind'[u] \in ModuleKinds
      PROVE  Numbered(valuelist'[u], k'[u])
  <2>1. Numbered(valuelist[u], k[u])
    BY <1>1, <1>8 DEF RowIInv
  <2>2. CASE u = t
    <3>1. valuelist[t] \in Seq(Nat) /\ k[t] \in Nat /\ k[t] > 0 /\ Numbered(valuelist[t], k[t])
      BY <1>1, <1>4, <2>1, <2>2
    <3>2. Numbered(valuelist[t], k[t] + 1) /\ Numbered(Append(valuelist[t], k[t]), k[t] + 1)
      BY <3>1, NumberedGrows
    <3> QED
      BY <1>3, <1>5, <2>2, <3>2
  <2>3. CASE u # t
    BY <1>5, <2>1, <2>3
  <2> QED
    BY <2>2, <2>3
<1>9. \A u \in Threads : kind'[u] \in ModuleKinds => Numbered(valuelist[u], k[u])'
  BY <1>8 DEF Numbered
<1> QED
  BY <1>7, <1>9 DEF RowIInv

LEMMA PlaceRows ==
  ASSUME RowIInv, SuiteIInv', NEW t \in Threads, View(t), ~TakeRegister(t)
  PROVE  RowIInv'
<1>1. UNCHANGED <<kind, valuelist, rowcolors>>
  BY DEF View, Begin, Lock, Ask, TakeList, TakeAnswer, Finish, Release, Render, QueueGet, Reply
<1>2. /\ k \in [Threads -> Nat] /\ at = [u \in Threads |-> at[u]]
      /\ RowTypes /\ rows = [u \in Threads |-> rows[u]]
  BY DEF RowIInv, SuiteIInv, SuiteTypes, RowTypes
<1>3. ASSUME NEW place, at' = [at EXCEPT ![t] = place], place # "idle",
             UNCHANGED rows, rows[t] # NoRows => place \notin {"lock", "work", "asked"},
             \A u \in Threads \ {t} : k'[u] = k[u],
             k'[t] = k[t]
               \/ (rows[t] = NoRows /\ (kind[t] \in ModuleKinds => valuelist[t] = <<>> /\ k'[t] \in {0, 1}))
      PROVE  RowIInv'
  <2>1. at'[t] = place /\ \A u \in Threads \ {t} : at'[u] = at[u]
    BY <1>2, <1>3
  <2>2. \A u \in Threads : kind[u] \in ModuleKinds =>
          k'[u] = k[u] \/ (valuelist[u] = <<>> /\ k'[u] \in {0, 1})
    BY <1>3
  <2>3. \A u \in Threads : at'[u] = "idle" => at[u] = "idle"
    BY <1>3, <2>1
  <2>4. ASSUME NEW u \in Threads, rows'[u] # NoRows
        PROVE  at'[u] \notin {"idle", "lock", "work", "asked"} /\ rows'[u] = rows[u] /\ k'[u] = k[u]
    BY <1>2, <1>3, <2>1, <2>4 DEF RowTypes
  <2>5. rows' = [u \in Threads |-> rows'[u]]
    BY <1>2, <1>3
  <2> QED
    BY <1>1, <2>2, <2>3, <2>4, <2>5, RowMoves
<1>4. CASE Begin(t)
  <2>1. /\ at[t] = "idle" /\ k' = [k EXCEPT ![t] = IF kind[t] = "update" THEN 0 ELSE 1]
        /\ UNCHANGED rows
    BY <1>4 DEF Begin
  <2>2. valuelist[t] = <<>> /\ rows[t] = NoRows
    BY <1>2, <2>1 DEF RowTypes
  <2>3. PICK place : at' = [at EXCEPT ![t] = place] /\
          place = CASE kind[t] \in {"script", "tool"} -> kind[t]
                    [] kind[t] \in Unlocked -> "work"
                    [] kind[t] = "main" /\ monitoringOFF -> "render"
                    [] OTHER -> "lock"
    BY <1>4 DEF Begin, Go
  <2>4. place # "idle"
    BY <2>3, SMT DEF Unlocked
  <2>5. at' = [at EXCEPT ![t] = place]
    BY <2>3
  <2>6. k'[t] \in {0, 1} /\ \A u \in Threads \ {t} : k'[u] = k[u]
    BY <1>2, <2>1
  <2> HIDE <2>3
  <2> QED
    BY <1>3, <2>1, <2>2, <2>4, <2>5, <2>6
<1>5. CASE Lock(t) \/ Ask(t)
  <2>1. PICK place \in {"work", "asked"} : at' = [at EXCEPT ![t] = place]
    BY <1>5 DEF Lock, Ask, Go
  <2>2. at[t] \in {"lock", "work"} /\ UNCHANGED <<k, rows>>
    BY <1>5 DEF Lock, Ask
  <2>3. rows[t] = NoRows
    BY <1>2, <2>2 DEF RowTypes
  <2> QED
    BY <1>3, <2>1, <2>2, <2>3
<1>6. CASE TakeList(t) \/ TakeAnswer(t)
  <2>1. PICK place \in {"work", "done", "release"} : at' = [at EXCEPT ![t] = place]
    BY <1>6 DEF TakeList, TakeAnswer, FillList, UpdateEnds, Go
  <2>2. at[t] = "asked" /\ UNCHANGED rows
    BY <1>6 DEF TakeList, TakeAnswer, Answered
  <2>3. k' = k \/ k' = [k EXCEPT ![t] = @ + 1]
    BY <1>6 DEF TakeList, TakeAnswer, FillList, UpdateEnds
  <2>4. rows[t] = NoRows
    BY <1>2, <2>2 DEF RowTypes
  <2>5. kind[t] \notin ModuleKinds \/ k[t] = 0
    BY <1>6 DEF TakeList, TakeAnswer, ModuleKinds, Unlocked, ExpertKinds
  <2>6. kind[t] \in ModuleKinds => valuelist[t] = <<>>
    <3> SUFFICES ASSUME kind[t] \in ModuleKinds PROVE valuelist[t] = <<>>
      OBVIOUS
    <3>1. {valuelist[t][j] : j \in DOMAIN valuelist[t]} \subseteq 1..(0 - 1)
      BY <2>5 DEF RowIInv, Numbered
    <3>2. valuelist[t] \in Seq(Nat)
      BY <1>2 DEF RowTypes
    <3> QED
      BY <3>1, <3>2, NumberedNone
  <2>7. \A u \in Threads \ {t} : k'[u] = k[u]
    BY <1>2, <2>3
  <2>8. k'[t] = k[t] \/ k'[t] = k[t] + 1
    BY <1>2, <2>3
  <2>9. k'[t] = k[t] \/ (kind[t] \in ModuleKinds => valuelist[t] = <<>> /\ k'[t] \in {0, 1})
    BY <1>2, <2>5, <2>6, <2>8
  <2> QED
    BY <1>3, <2>1, <2>2, <2>4, <2>7, <2>9
<1>7. CASE Finish(t)
  <2>1. PICK place \in {"done", "release"} : at' = [at EXCEPT ![t] = place]
    BY <1>7 DEF Finish, Go
  <2>2. at[t] = "work" /\ UNCHANGED k /\ k[t] > Total(t)
    BY <1>7 DEF Finish
  <2>3. CASE kind[t] \in {"module", "update"}
    <3>1. rows' = [rows EXCEPT ![t] = [put |-> TRUE, zip |-> Zip(t)]]
      BY <1>7, <2>3 DEF Finish
    <3>2. k[t] > 0
      <4>1. Total(t) = Regs
        BY <2>3 DEF Total
      <4> QED
        BY <1>2, <2>2, <4>1, SuiteAssumption
    <3>3. /\ at'[t] = place /\ (\A u \in Threads \ {t} : at'[u] = at[u] /\ rows'[u] = rows[u])
          /\ rows'[t].zip = Zip(t) /\ rows' = [u \in Threads |-> rows'[u]]
      BY <1>2, <2>1, <3>1
    <3>4. ASSUME NEW u \in Threads, rows'[u] # NoRows
          PROVE  /\ at'[u] \notin {"idle", "lock", "work", "asked"}
                 /\ \/ rows'[u] = rows[u] /\ k'[u] = k[u]
                    \/ rows'[u].zip = Zip(u) /\ kind[u] \in ModuleKinds /\ k'[u] > 0
      BY <1>2, <2>1, <2>2, <2>3, <3>2, <3>3, <3>4 DEF RowTypes, ModuleKinds
    <3>5. \A u \in Threads : k'[u] = k[u] /\ (at'[u] = "idle" => at[u] = "idle")
      BY <2>1, <2>2, <3>3
    <3> QED
      BY <1>1, <3>3, <3>4, <3>5, RowMoves
  <2>4. CASE kind[t] \notin {"module", "update"}
    <3>1. UNCHANGED rows
      BY <1>7, <2>4 DEF Finish
    <3> QED
      BY <1>3, <2>1, <2>2, <3>1
  <2> QED
    BY <2>3, <2>4
<1>8. CASE Release(t)
  <2>1. PICK place : at' = [at EXCEPT ![t] = place] /\
          place = CASE kind[t] = "main" -> "render"
                    [] kind[t] \in ModuleKinds -> "queue"
                    [] OTHER -> "reply"
    BY <1>8 DEF Release, Go
  <2>2. place \notin {"idle", "lock", "work", "asked"}
    BY <2>1, SMT DEF ModuleKinds
  <2>3. at' = [at EXCEPT ![t] = place] /\ UNCHANGED <<k, rows>>
    BY <1>8, <2>1 DEF Release
  <2> HIDE <2>1
  <2> QED
    BY <1>3, <2>2, <2>3
<1>9. CASE Render(t) \/ QueueGet(t) \/ Reply(t)
  <2>1. PICK place \in {"done", "error", "render"} : at' = [at EXCEPT ![t] = place]
    BY <1>9 DEF Render, QueueGet, Reply, Go
  <2>2. UNCHANGED <<k, rows>>
    BY <1>9 DEF Render, QueueGet, Reply
  <2> QED
    BY <1>3, <2>1, <2>2
<1> QED
  BY <1>4, <1>5, <1>6, <1>7, <1>8, <1>9 DEF View

LEMMA NextRows ==
  ASSUME RowIInv, [Next]_vars
  PROVE  RowIInv'
<1>1. SuiteIInv /\ SuiteIInv'
  BY NextSuite DEF RowIInv
<1>2. k \in [Threads -> Nat] /\ RowTypes
  BY DEF RowIInv, SuiteIInv, SuiteTypes
<1>3. ASSUME UNCHANGED <<kind, at, valuelist, rowcolors, rows>>,
             \A u \in Threads : kind[u] \in ModuleKinds => k'[u] = k[u]
      PROVE  RowIInv'
  <2>1. ASSUME NEW u \in Threads, rows'[u] # NoRows
        PROVE  at'[u] \notin {"idle", "lock", "work", "asked"} /\ rows'[u] = rows[u] /\ k'[u] = k[u]
    BY <1>2, <1>3, <2>1 DEF RowTypes
  <2>2. rows' = [u \in Threads |-> rows'[u]]
    BY <1>2, <1>3 DEF RowTypes
  <2> QED
    BY <1>1, <1>3, <2>1, <2>2, RowMoves
<1>4. CASE UNCHANGED suiteVars
  BY <1>3, <1>4 DEF suiteVars
<1>5. CASE \E t \in Threads : ScriptCall(t)
  <2>1. PICK t \in Threads : ScriptCall(t)
    BY <1>5
  <2>2. kind[t] = "script"
    BY <1>1, <2>1, Alone DEF ScriptCall
  <2>3. k' = k \/ k' = [k EXCEPT ![t] = @ + 1]
    BY <2>1 DEF ScriptCall
  <2>4. \A u \in Threads : kind[u] \in ModuleKinds => k'[u] = k[u]
    BY <1>2, <2>2, <2>3 DEF ModuleKinds
  <2> QED
    BY <1>3, <2>1, <2>4 DEF ScriptCall
<1>6. CASE \E t \in Threads : View(t)
  BY <1>1, <1>6, TakeRows, PlaceRows
<1> QED
  BY <1>4, <1>5, <1>6 DEF Next, Step, Library, Tool, Accident, vars

\* A row of a module's page shows the value and the colour of one register, the one it
\* names unless one up to there could not be read (updateModule).
THEOREM RowsSafe == Spec => []RowsAligned
<1>1. RowIInv /\ [Next]_vars => RowIInv'
  BY NextRows
<1>2. RowIInv => RowsAligned
  <2> SUFFICES ASSUME RowIInv, NEW t \in Threads, NEW i \in DOMAIN rows[t].zip
               PROVE  LET read == {valuelist[t][j] : j \in DOMAIN valuelist[t]}
                      IN  /\ rows[t].zip[i].color = rows[t].zip[i].value
                          /\ rows[t].zip[i].name # rows[t].zip[i].value => \E j \in 1..i : j \notin read
    BY DEF RowsAligned
  <2>1. rows[t] # NoRows
    BY DEF NoRows
  <2>2. /\ rows[t].zip = Zip(t) /\ kind[t] \in ModuleKinds /\ k[t] # 0
        /\ rowcolors = valuelist /\ valuelist[t] \in Seq(Nat)
    BY <2>1 DEF RowIInv, RowTypes
  <2>3. i \in DOMAIN valuelist[t]
    BY <2>2 DEF Zip
  <2>4. rows[t].zip[i] = [name |-> i, value |-> valuelist[t][i], color |-> valuelist[t][i]]
    BY <2>2, <2>3 DEF Zip
  <2>5. PICK first \in 1..k[t] :
          /\ first \notin {valuelist[t][j] : j \in DOMAIN valuelist[t]}
          /\ \A n \in DOMAIN valuelist[t] : n < first => valuelist[t][n] = n
    BY <2>2 DEF RowIInv, Numbered
  <2>6. i \in Nat /\ first \in Nat /\ first >= 1
    BY <2>2, <2>3, <2>5 DEF RowIInv, SuiteIInv, SuiteTypes
  <2>7. valuelist[t][i] # i => first \in 1..i
    BY <2>3, <2>5, <2>6
  <2> QED
    BY <2>4, <2>5, <2>7
<1> QED
  BY <1>1, <1>2, InitRows, PTL DEF Spec

-----------------------------------------------------------------------------
(* The GBT tools *)

\* The properties of the tools, of one run.
WellWritten(run) ==
  LET job == run.job
  IN  job.name # "gbtPhaseScan" =>
        /\ Wanted(job, run.k) \subseteq run.written
        /\ run.written \subseteq Wanted(job, run.k + 1)
        /\ run.step = "returned" => run.written = Wanted(job, NOH * Items(job))

WellScanned(run, saved) ==
  LET results == run.results
  IN  run.job.name = "gbtPhaseScan" =>
        /\ \A i \in DOMAIN results :
             results[i].code = 0 <=> \A n \in DOMAIN results[i].words : results[i].words[n] # Old
        /\ \A i, j \in DOMAIN results : i < j => results[i].oh < results[j].oh
        /\ run.step = "returned" =>
             /\ {results[i].oh : i \in DOMAIN results} = run.job.ohs
             /\ run.job.output => saved = results

LEMMA ToolForms ==
  ASSUME ToolTypes
  PROVE  /\ GbtWritten <=> \A t \in Threads : kind[t] = "tool" => WellWritten(tool[t])
         /\ ScanRecorded <=> \A t \in Threads : kind[t] = "tool" => WellScanned(tool[t], file.rows)
<1>1. \A t \in Threads : kind[t] = "tool" <=> tool[t] # NoTool
  BY DEF ToolTypes, Runs, NoTool
<1>2. GbtWritten <=> \A t \in Threads : kind[t] = "tool" => WellWritten(tool[t])
  BY <1>1 DEF GbtWritten, WellWritten
<1>3. ScanRecorded <=> \A t \in Threads : kind[t] = "tool" => WellScanned(tool[t], file.rows)
  BY <1>1 DEF ScanRecorded, WellScanned
<1> QED
  BY <1>2, <1>3

\* What a tool means to have written grows by the targets it does not pass over.
LEMMA WantedGrows ==
  ASSUME NEW job \in Jobs, NEW n \in Nat
  PROVE  /\ Wanted(job, n) \subseteq Wanted(job, n + 1)
         /\ Wanted(job, n + 1) \subseteq Wanted(job, n) \cup {n}
         /\ n \in Targets(job) /\ ~Skipped(job, n) => n \in Wanted(job, n + 1)
         /\ Skipped(job, n) \/ n \notin Targets(job) => Wanted(job, n + 1) = Wanted(job, n)
         /\ n \notin Targets(job) => Wanted(job, n) = Wanted(job, NOH * Items(job))
         /\ Wanted(job, n) \subseteq Nat
<1>1. NOH \in Nat /\ Items(job) \in Nat
  BY GbtAssumption DEF Items
<1> DEFINE all == NOH * Items(job)
<1>2. all \in Nat
  BY <1>1
<1>3. Targets(job) = 0..(all - 1)
  BY DEF Targets
<1> HIDE DEF all
<1>4. \A i \in Targets(job) : i \in Nat /\ i < all
  BY <1>2, <1>3
<1>5. n \notin Targets(job) => n >= all
  BY <1>2, <1>3
<1>6. \A i \in Targets(job) : (i < n + 1 <=> i < n \/ i = n)
  BY <1>4
<1>7. n \notin Targets(job) => \A i \in Targets(job) : i < n /\ i < all
  BY <1>2, <1>4, <1>5
<1>8. Wanted(job, n) \subseteq Wanted(job, n + 1) /\ Wanted(job, n + 1) \subseteq Wanted(job, n) \cup {n}
  BY <1>6 DEF Wanted
<1>9. n \in Targets(job) /\ ~Skipped(job, n) => n \in Wanted(job, n + 1)
  BY <1>6 DEF Wanted
<1>10. Skipped(job, n) \/ n \notin Targets(job) => Wanted(job, n + 1) = Wanted(job, n)
  BY <1>6 DEF Wanted
<1>11. n \notin Targets(job) => Wanted(job, n) = Wanted(job, all)
  BY <1>7 DEF Wanted
<1>12. Wanted(job, n) \subseteq Nat
  BY <1>4 DEF Wanted
<1> QED
  BY <1>8, <1>9, <1>10, <1>11, <1>12 DEF all

\* A scan has one item, so that its counter is the optohybrid.
LEMMA ScanCounter ==
  ASSUME NEW job \in Jobs, job.name = "gbtPhaseScan", NEW n \in Nat
  PROVE  /\ OH(job, n) = n
         /\ Targets(job) = 0..(NOH - 1)
         /\ Skipped(job, n) <=> n \notin job.ohs
         /\ Method(job) = "scanGBTPhases"
         /\ NOH \in Nat /\ job.ohs \subseteq 0..(NOH - 1)
<1>1. Items(job) = 1 /\ NOH \in Nat /\ job.ohs \subseteq 0..(NOH - 1)
  BY GbtAssumption DEF Items
<1>2. OH(job, n) = n
  BY <1>1 DEF OH
<1>3. Targets(job) = 0..(NOH - 1)
  BY <1>1 DEF Targets
<1>4. Skipped(job, n) <=> n \notin job.ohs
  BY <1>2 DEF Skipped
<1> QED
  BY <1>1, <1>2, <1>3, <1>4 DEF Method

\* While a tool runs nobody else is there.
LEMMA ToolAlone ==
  ASSUME SuiteIInv, [Next]_vars, NEW t \in Threads, kind[t] = "tool"
  PROVE  \/ Library(t) \/ Tool(t)
         \/ UNCHANGED <<call, last, tool, file>>
<1>1. kind \in Scenarios /\ RpcIInv
  BY DEF SuiteIInv, SuiteTypes
<1>2. ASSUME NEW u \in Threads \ {t} PROVE kind[u] = "none" /\ at[u] = "idle" /\ call[u] = NoCall
  <2>1. kind[u] = "none"
    BY <1>1, SuiteAssumption
  <2>2. Placed(u)
    BY DEF SuiteIInv
  <2> QED
    BY <2>1, <2>2 DEF Placed
<1>3. at[t] \in {"idle", "tool"}
  <2>1. Placed(t)
    BY DEF SuiteIInv
  <2> QED
    BY <2>1 DEF Placed
<1>4. ASSUME NEW u \in Threads, Library(u) PROVE u = t
  <2>1. u \in Inside
    BY <1>1, <1>4, LibraryEffect DEF Library
  <2> QED
    BY <1>2, <2>1 DEF Inside, NoCall
<1>5. ASSUME NEW u \in Threads, Tool(u) PROVE u = t
  BY <1>2, <1>5 DEF Tool
<1>6. ASSUME NEW u \in Threads, View(u) PROVE UNCHANGED <<call, last, tool, file>>
  <2>1. at[u] \in {"idle", "tool"}
    BY <1>2, <1>3
  <2>2. Begin(u) /\ UNCHANGED toolVars
    BY <1>6, <2>1 DEF View, Lock, Ask, TakeList, TakeRegister, TakeAnswer, Answered, Finish, Release,
                      Render, QueueGet, Reply
  <2> QED
    BY <2>2 DEF Begin, rpcVars, toolVars
<1>7. ASSUME NEW u \in Threads, ScriptCall(u) PROVE FALSE
  BY <1>2, <1>3, <1>7 DEF ScriptCall
<1>8. CASE Accident
  BY <1>8 DEF Accident, LinkBreaks, Race, toolVars
<1>9. CASE UNCHANGED vars
  BY <1>9 DEF vars, rpcVars, toolVars
<1> QED
  BY <1>4, <1>5, <1>6, <1>7, <1>8, <1>9 DEF Next, Step

\* The call of a tool is undisturbed.
LEMMA ToolUndisturbed ==
  ASSUME SuiteIInv, NEW t \in Threads, kind[t] = "tool", last[t] # NoCall
  PROVE  Undisturbed(t)
<1>1. last[t] \in Returned
  BY DEF SuiteIInv, RpcIInv, RpcTypes
<1>2. last[t].with \subseteq Threads
  BY <1>1 DEF Returned
<1>3. \A u \in last[t].with : kind[u] \in Unlocked
  BY DEF SuiteIInv, Company, Unlocked
<1>4. \A u \in Threads : kind[u] \in {"none", "tool"}
  BY SuiteAssumption DEF SuiteIInv, SuiteTypes
<1> QED
  BY <1>2, <1>3, <1>4 DEF Undisturbed, Unlocked

LEMMA InitTool == Init => ToolIInv
<1> SUFFICES ASSUME Init PROVE ToolIInv
  OBVIOUS
<1>1. ReturnIInv
  BY InitReturn
<1>2. PICK job \in Jobs :
        tool = [t \in Threads |-> IF t \in {u \in Threads : kind[u] = "tool"} THEN Fresh(job) ELSE NoTool]
  BY DEF Init, ToolInit
<1>3. file.rows = <<>>
  BY DEF Init, ToolInit
<1>4. Fresh(job) \in Runs /\ Fresh(job).step = "connect" /\ Fresh(job).k = 0 /\ Fresh(job).written = {}
      /\ Fresh(job).results = <<>> /\ Fresh(job).job = job
  BY DEF Fresh, Runs
<1>5. ToolTypes
  BY <1>2, <1>4 DEF ToolTypes
<1>6. \A t \in Threads : kind[t] = "tool" => tool[t] = Fresh(job)
  BY <1>2
<1>7. Wanted(job, 0) = {}
  <2>1. \A i \in Targets(job) : ~(i < 0)
    BY DEF Targets
  <2> QED
    BY <2>1 DEF Wanted
<1>8. WellWritten(Fresh(job))
  BY <1>4, <1>7 DEF WellWritten
<1>9. WellScanned(Fresh(job), <<>>)
  BY <1>4 DEF WellScanned
<1>10. Recorded(Fresh(job), <<>>)
  <2>1. {<<>>[i].oh : i \in DOMAIN <<>>} = {} /\ 0..(0 - 1) = {}
    OBVIOUS
  <2> QED
    BY <1>4, <2>1 DEF Recorded
<1>11. \A t \in Threads : kind[t] = "tool" => ToolCalled(t) /\ Recorded(tool[t], file.rows)
  BY <1>3, <1>4, <1>6, <1>10 DEF ToolCalled
<1> QED
  BY <1>1, <1>3, <1>5, <1>6, <1>8, <1>9, <1>11, ToolForms DEF ToolIInv

\* A tool goes on: its new run is as good as its last.
LEMMA RunGoes ==
  ASSUME ToolIInv, ReturnIInv', UNCHANGED kind, NEW t \in Threads, kind[t] = "tool",
         NEW q \in Runs, tool' = [tool EXCEPT ![t] = q],
         WellWritten(q), WellScanned(q, file'.rows), Recorded(q, file'.rows),
         q.step = "called" =>
           /\ q.k \in Targets(q.job) /\ ~Skipped(q.job, q.k)
           /\ call'[t] # NoCall /\ call'[t].op = Method(q.job)
  PROVE  ToolIInv'
<1>1. tool = [u \in Threads |-> tool[u]] /\ kind \in Scenarios
  BY DEF ToolIInv, ToolTypes, ReturnIInv, SuiteIInv, SuiteTypes
<1>2. tool'[t] = q /\ \A u \in Threads \ {t} : tool'[u] = tool[u]
  BY <1>1
<1>3. \A u \in Threads \ {t} : kind[u] = "none"
  BY <1>1, SuiteAssumption
<1>4. ToolTypes'
  <2>1. tool' = [u \in Threads |-> tool'[u]]
    BY <1>1
  <2> QED
    BY <1>2, <2>1 DEF ToolIInv, ToolTypes
<1>5. \A u \in Threads : kind'[u] = "tool" => u = t
  BY <1>3
<1>6. ToolCalled(t)'
  BY <1>2 DEF ToolCalled
<1>7. Recorded(tool[t], file.rows)' /\ WellWritten(tool[t])' /\ WellScanned(tool[t], file.rows)'
  BY <1>2 DEF Recorded, WellWritten, WellScanned
<1>8. \A u \in Threads \ {t} : tool'[u] = NoTool
  BY <1>2, <1>3 DEF ToolIInv, ToolTypes
<1>9. GbtWritten'
  BY <1>2, <1>8 DEF GbtWritten, WellWritten
<1>10. ScanRecorded'
  BY <1>2, <1>8 DEF ScanRecorded, WellScanned
<1> QED
  BY <1>4, <1>5, <1>6, <1>7, <1>9, <1>10 DEF ToolIInv

\* The run changes its step only.
LEMMA RunMoves ==
  ASSUME NEW r \in Runs, NEW saved, WellWritten(r), WellScanned(r, saved), Recorded(r, saved),
         NEW s \in {"connecting", "loop", "called", "raised"},
         r.step \in {"connect", "connecting", "loop"} \/ (r.step = "save" /\ s = "raised")
  PROVE  LET q == [r EXCEPT !.step = s]
         IN  q \in Runs /\ WellWritten(q) /\ WellScanned(q, saved) /\ Recorded(q, saved)
<1> DEFINE q == [r EXCEPT !.step = s]
<1>1. /\ q \in Runs /\ q.step = s /\ q.k = r.k /\ q.job = r.job /\ q.written = r.written
      /\ q.results = r.results
  BY DEF Runs
<1> HIDE DEF q
<1>2. WellWritten(q)
  BY <1>1 DEF WellWritten
<1>3. WellScanned(q, saved)
  BY <1>1 DEF WellScanned
<1>4. Recorded(q, saved)
  BY <1>1 DEF Recorded
<1> QED
  BY <1>1, <1>2, <1>3, <1>4 DEF q

\* A target is passed over.
LEMMA RunSkips ==
  ASSUME NEW r \in Runs, NEW saved, WellWritten(r), WellScanned(r, saved), Recorded(r, saved),
         r.step = "loop", Skipped(r.job, r.k)
  PROVE  LET q == [r EXCEPT !.k = r.k + 1, !.step = "loop"]
         IN  q \in Runs /\ WellWritten(q) /\ WellScanned(q, saved) /\ Recorded(q, saved)
<1> DEFINE n == r.k + 1
           q == [r EXCEPT !.k = n, !.step = "loop"]
<1>0. r.job \in Jobs /\ r.k \in Nat /\ n \in Nat
  BY DEF Runs
<1>1. /\ q \in Runs /\ q.step = "loop" /\ q.k = r.k + 1 /\ q.job = r.job /\ q.written = r.written
      /\ q.results = r.results /\ r.job \in Jobs /\ r.k \in Nat /\ q.k \in Nat
  <2> HIDE DEF n
  <2>1. /\ q \in Runs /\ q.step = "loop" /\ q.k = n /\ q.job = r.job /\ q.written = r.written
        /\ q.results = r.results
    BY <1>0 DEF Runs
  <2> QED
    BY <1>0, <2>1 DEF n
<1> HIDE DEF q
<1>2. WellWritten(q)
  <2>1. Wanted(r.job, r.k + 1) = Wanted(r.job, r.k)
    BY <1>1, WantedGrows
  <2>2. Wanted(r.job, q.k) \subseteq Wanted(r.job, q.k + 1)
    BY <1>1, WantedGrows
  <2> QED
    BY <1>1, <2>1, <2>2 DEF WellWritten
<1>3. WellScanned(q, saved)
  BY <1>1 DEF WellScanned
<1>4. Recorded(q, saved)
  <2>1. CASE r.job.name = "gbtPhaseScan"
    <3>1. r.k \notin r.job.ohs
      BY <1>1, <2>1, ScanCounter
    <3>2. 0..(q.k - 1) = 0..(r.k - 1) \cup {r.k}
      BY <1>1
    <3>3. r.job.ohs \cap 0..(q.k - 1) = r.job.ohs \cap 0..(r.k - 1)
      BY <3>1, <3>2
    <3> QED
      BY <1>1, <2>1, <3>3 DEF Recorded
  <2>2. CASE r.job.name # "gbtPhaseScan"
    BY <1>1, <2>2 DEF Recorded
  <2> QED
    BY <2>1, <2>2
<1> QED
  BY <1>1, <1>2, <1>3, <1>4 DEF q

\* A write is back: the target is written if its code is 0, and it may be if not.
LEMMA RunWrites ==
  ASSUME NEW r \in Runs, NEW saved, WellWritten(r), WellScanned(r, saved), Recorded(r, saved),
         r.step = "called", r.k \in Targets(r.job), ~Skipped(r.job, r.k),
         r.job.name # "gbtPhaseScan",
         NEW done \in BOOLEAN, NEW good \in BOOLEAN, good => done
  PROVE  LET q == [r EXCEPT !.written = IF done THEN r.written \cup {r.k} ELSE r.written,
                            !.k = IF good THEN r.k + 1 ELSE r.k,
                            !.step = IF good THEN "loop" ELSE "raised"]
         IN  q \in Runs /\ WellWritten(q) /\ WellScanned(q, saved) /\ Recorded(q, saved)
<1> DEFINE w == IF done THEN r.written \cup {r.k} ELSE r.written
           n == IF good THEN r.k + 1 ELSE r.k
           s == IF good THEN "loop" ELSE "raised"
           q == [r EXCEPT !.written = w, !.k = n, !.step = s]
<1>1. r.job \in Jobs /\ r.k \in Nat /\ r.written \subseteq Nat
  BY DEF Runs
<1>2. w \subseteq Nat /\ n \in Nat /\ s \in {"loop", "raised"}
  BY <1>1
<1>3. (n = r.k + 1 /\ w = r.written \cup {r.k}) \/ (n = r.k /\ w \in {r.written, r.written \cup {r.k}})
  OBVIOUS
<1> HIDE DEF w, n, s
<1>4. /\ q \in Runs /\ q.step = s /\ q.k = n /\ q.job = r.job /\ q.written = w /\ q.results = r.results
  BY <1>2 DEF Runs
<1> HIDE DEF q
<1>5. WellWritten(q)
  <2>1. /\ r.k \in Wanted(r.job, r.k + 1)
        /\ Wanted(r.job, r.k + 1) \subseteq Wanted(r.job, r.k) \cup {r.k}
        /\ Wanted(r.job, r.k + 1) \subseteq Wanted(r.job, (r.k + 1) + 1)
    <3>1. r.k + 1 \in Nat
      BY <1>1
    <3> QED
      BY <1>1, <3>1, WantedGrows
  <2>2. Wanted(r.job, r.k) \subseteq r.written /\ r.written \subseteq Wanted(r.job, r.k + 1)
    BY DEF WellWritten
  <2>3. Wanted(r.job, n) \subseteq w
    BY <1>3, <2>1, <2>2
  <2>4. w \subseteq Wanted(r.job, r.k + 1)
    BY <1>3, <2>1, <2>2
  <2>5. w \subseteq Wanted(r.job, n + 1)
    BY <1>3, <2>1, <2>4
  <2> QED
    BY <1>2, <1>4, <2>3, <2>5 DEF WellWritten
<1>6. WellScanned(q, saved) /\ Recorded(q, saved)
  BY <1>2, <1>4 DEF WellScanned, Recorded
<1> QED
  BY <1>4, <1>5, <1>6 DEF q, w, n, s

\* The loop is at its end.
LEMMA RunReturns ==
  ASSUME NEW r \in Runs, NEW saved, WellWritten(r), WellScanned(r, saved), Recorded(r, saved),
         r.step = "loop", r.k \notin Targets(r.job)
  PROVE  LET q == [r EXCEPT !.step = "returned"]
         IN  q \in Runs /\ WellWritten(q) /\ WellScanned(q, saved) /\ Recorded(q, saved)
<1> DEFINE q == [r EXCEPT !.step = "returned"]
<1>1. /\ q \in Runs /\ q.step = "returned" /\ q.k = r.k /\ q.job = r.job /\ q.written = r.written
      /\ q.results = r.results /\ r.job \in Jobs /\ r.k \in Nat
  BY DEF Runs
<1> HIDE DEF q
<1>2. WellWritten(q)
  <2>1. /\ Wanted(r.job, r.k + 1) = Wanted(r.job, r.k)
        /\ Wanted(r.job, r.k) = Wanted(r.job, NOH * Items(r.job))
    BY <1>1, WantedGrows
  <2>2. ASSUME r.job.name # "gbtPhaseScan"
        PROVE  r.written = Wanted(r.job, r.k) /\ r.written = Wanted(r.job, NOH * Items(r.job))
    <3>1. Wanted(r.job, r.k) \subseteq r.written /\ r.written \subseteq Wanted(r.job, r.k + 1)
      BY <2>2 DEF WellWritten
    <3>2. r.written = Wanted(r.job, r.k)
      BY <2>1, <3>1
    <3> QED
      BY <2>1, <3>2
  <2> QED
    BY <1>1, <2>1, <2>2, Zenon DEF WellWritten
<1>3. ASSUME r.job.name = "gbtPhaseScan"
      PROVE  r.job.ohs \cap 0..(r.k - 1) = r.job.ohs
  <2>1. NOH \in Nat /\ r.job.ohs \subseteq 0..(NOH - 1) /\ Targets(r.job) = 0..(NOH - 1)
    BY <1>1, <1>3, ScanCounter
  <2>2. r.k >= NOH
    BY <1>1, <2>1
  <2>3. 0..(NOH - 1) \subseteq 0..(r.k - 1)
    BY <1>1, <2>1, <2>2
  <2> QED
    BY <2>1, <2>3
<1>4. WellScanned(q, saved)
  BY <1>1, <1>3 DEF WellScanned, Recorded
<1>5. Recorded(q, saved)
  BY <1>1 DEF Recorded
<1> QED
  BY <1>1, <1>2, <1>4, <1>5 DEF q

\* A record is added to a scan.
LEMMA RunScans ==
  ASSUME NEW r \in Runs, NEW saved, WellWritten(r), WellScanned(r, saved), Recorded(r, saved),
         r.step = "called", r.job.name = "gbtPhaseScan",
         r.k \in Targets(r.job), ~Skipped(r.job, r.k),
         NEW x \in Records, x.oh = OH(r.job, r.k),
         x.code = 0 <=> \A n \in DOMAIN x.words : x.words[n] # Old
  PROVE  LET q == [r EXCEPT !.results = Append(r.results, x),
                            !.k = IF r.job.output THEN r.k ELSE r.k + 1,
                            !.step = IF r.job.output THEN "save" ELSE "loop"]
         IN  q \in Runs /\ WellWritten(q) /\ WellScanned(q, saved) /\ Recorded(q, saved)
<1> DEFINE old == r.results
           new == Append(old, x)
           n == IF r.job.output THEN r.k ELSE r.k + 1
           s == IF r.job.output THEN "save" ELSE "loop"
           q == [r EXCEPT !.results = new, !.k = n, !.step = s]
<1>1. r.job \in Jobs /\ r.k \in Nat /\ old \in Seq(Records)
  BY DEF Runs
<1>2. n \in Nat /\ s \in {"loop", "save"} /\ new \in Seq(Records)
  BY <1>1
<1>3. (s = "save" => n = r.k /\ r.job.output) /\ (s = "loop" => n = r.k + 1 /\ ~r.job.output)
  OBVIOUS
<1>4. /\ Len(new) = Len(old) + 1 /\ Len(old) \in Nat
      /\ DOMAIN old = 1..Len(old) /\ DOMAIN new = 1..(Len(old) + 1)
      /\ new[Len(old) + 1] = x /\ \A i \in DOMAIN old : new[i] = old[i]
  BY <1>1
<1> HIDE DEF n, s, new
<1>5. /\ q \in Runs /\ q.step = s /\ q.k = n /\ q.job = r.job /\ q.written = r.written
      /\ q.results = new
  BY <1>2 DEF Runs
<1> HIDE DEF q
<1>6. x.oh = r.k /\ r.k \in r.job.ohs
  BY <1>1, ScanCounter
<1> DEFINE ohs(f) == {f[i].oh : i \in DOMAIN f}
<1>7. ohs(old) = r.job.ohs \cap 0..(r.k - 1)
  BY DEF Recorded
<1>8. \A i \in DOMAIN new : i \in DOMAIN old \/ i = Len(old) + 1
  BY <1>4
<1>9. ohs(new) = ohs(old) \cup {x.oh}
  <2>1. ASSUME NEW y \in ohs(new) PROVE y \in ohs(old) \cup {x.oh}
    BY <1>4, <1>8, <2>1
  <2>2. ASSUME NEW y \in ohs(old) PROVE y \in ohs(new)
    <3>1. PICK i \in DOMAIN old : y = old[i].oh
      BY <2>2
    <3>2. i \in DOMAIN new /\ new[i] = old[i]
      BY <1>4, <3>1
    <3> QED
      BY <3>1, <3>2
  <2>3. x.oh \in ohs(new)
    <3>1. Len(old) + 1 \in DOMAIN new
      BY <1>4
    <3> QED
      BY <1>4, <3>1
  <2> QED
    BY <2>1, <2>2, <2>3
<1>10. ohs(new) = r.job.ohs \cap 0..r.k
  <2>1. 0..r.k = 0..(r.k - 1) \cup {r.k}
    BY <1>1
  <2> HIDE DEF ohs
  <2> QED
    BY <1>6, <1>7, <1>9, <2>1
<1>11. \A i \in DOMAIN old : old[i].oh < r.k
  <2>1. \A i \in DOMAIN old : old[i].oh \in 0..(r.k - 1)
    BY <1>7
  <2> QED
    BY <1>1, <2>1
<1>12. WellWritten(q)
  BY <1>5 DEF WellWritten
<1>13. WellScanned(q, saved)
  <2>1. \A i \in DOMAIN new :
          new[i].code = 0 <=> \A m \in DOMAIN new[i].words : new[i].words[m] # Old
    <3>1. \A i \in DOMAIN old :
            old[i].code = 0 <=> \A m \in DOMAIN old[i].words : old[i].words[m] # Old
      BY DEF WellScanned
    <3> QED
      BY <1>4, <1>8, <3>1
  <2>2. ASSUME NEW i \in DOMAIN new, NEW j \in DOMAIN new, i < j PROVE new[i].oh < new[j].oh
    <3>1. i \in DOMAIN old /\ new[i] = old[i]
      BY <1>4, <2>2
    <3>2. CASE j = Len(old) + 1
      BY <1>4, <1>6, <1>11, <3>1, <3>2
    <3>3. CASE j \in DOMAIN old
      <4>1. old[i].oh < old[j].oh
        BY <2>2, <3>1, <3>3 DEF WellScanned
      <4> QED
        BY <1>4, <3>1, <3>3, <4>1
    <3> QED
      BY <1>8, <3>2, <3>3
  <2> QED
    BY <1>2, <1>5, <2>1, <2>2 DEF WellScanned
<1>14. Recorded(q, saved)
  <2>1. r.job.output => saved = old
    BY DEF Recorded
  <2>2. (r.k + 1) - 1 = r.k
    BY <1>1
  <2>3. {new[i].oh : i \in DOMAIN new} = r.job.ohs \cap 0..r.k
    BY <1>10
  <2>4. new[Len(new)] = x /\ new = Append(old, x)
    BY <1>4 DEF new
  <2> HIDE DEF old
  <2>5. CASE s = "save"
    <3>1. new = Append(saved, new[Len(new)])
      BY <1>3, <2>1, <2>4, <2>5
    <3> QED
      BY <1>3, <1>5, <2>2, <2>3, <2>5, <3>1 DEF Recorded
  <2>6. CASE s = "loop"
    BY <1>3, <1>5, <2>2, <2>3, <2>6 DEF Recorded
  <2> QED
    BY <1>2, <2>5, <2>6
<1> QED
  BY <1>5, <1>12, <1>13, <1>14 DEF q, n, s, new

\* The record is saved.
LEMMA RunSaves ==
  ASSUME NEW r \in Runs, NEW saved, WellWritten(r), WellScanned(r, saved), Recorded(r, saved),
         r.step = "save"
  PROVE  LET q == [r EXCEPT !.k = r.k + 1, !.step = "loop"]
             now == Append(saved, r.results[Len(r.results)])
         IN  q \in Runs /\ WellWritten(q) /\ WellScanned(q, now) /\ Recorded(q, now)
<1> DEFINE n == r.k + 1
           q == [r EXCEPT !.k = n, !.step = "loop"]
<1>0. n \in Nat
  BY DEF Runs
<1>1. /\ q \in Runs /\ q.step = "loop" /\ q.k = r.k + 1 /\ q.job = r.job /\ q.written = r.written
      /\ q.results = r.results
  <2> HIDE DEF n
  <2>1. /\ q \in Runs /\ q.step = "loop" /\ q.k = n /\ q.job = r.job /\ q.written = r.written
        /\ q.results = r.results
    BY <1>0 DEF Runs
  <2> QED
    BY <2>1 DEF n
<1>2. /\ r.job.name = "gbtPhaseScan" /\ r.results = Append(saved, r.results[Len(r.results)])
      /\ {r.results[i].oh : i \in DOMAIN r.results} = r.job.ohs \cap 0..((r.k + 1) - 1)
  BY DEF Recorded
<1> HIDE DEF q
<1>3. WellWritten(q)
  BY <1>1, <1>2 DEF WellWritten
<1>4. WellScanned(q, r.results)
  BY <1>1 DEF WellScanned
<1>5. Recorded(q, r.results)
  BY <1>1, <1>2 DEF Recorded
<1> QED
  BY <1>1, <1>2, <1>3, <1>4, <1>5 DEF q

LEMMA ToolKeeps ==
  ASSUME ToolIInv, ReturnIInv', NEW t \in Threads, Tool(t)
  PROVE  ToolIInv'
<1> DEFINE r == tool[t]
<1>1. SuiteIInv /\ kind[t] = "tool" /\ UNCHANGED kind /\ RpcIInv
  BY Alone DEF ToolIInv, ReturnIInv, SuiteIInv, Tool, suiteVars
<1>2. tool = [u \in Threads |-> tool[u]] /\ ToolTypes /\ r \in Runs
  BY <1>1 DEF ToolIInv, ToolTypes
<1>3. WellWritten(r) /\ WellScanned(r, file.rows) /\ Recorded(r, file.rows) /\ ToolCalled(t)
  BY <1>1, <1>2, ToolForms DEF ToolIInv
<1>4. r.job \in Jobs /\ r.k \in Nat
  BY <1>2 DEF Runs
<1> HIDE DEF r
<1>5. ASSUME NEW s \in {"connecting", "loop", "called", "raised"}, Goto(t, s), UNCHANGED file,
             r.step \in {"connect", "connecting", "loop"} \/ (r.step = "save" /\ s = "raised"),
             s = "called" =>
               /\ r.k \in Targets(r.job) /\ ~Skipped(r.job, r.k)
               /\ call'[t] # NoCall /\ call'[t].op = Method(r.job)
      PROVE  ToolIInv'
  <2> DEFINE q == [r EXCEPT !.step = s]
  <2>1. q \in Runs /\ WellWritten(q) /\ WellScanned(q, file.rows) /\ Recorded(q, file.rows)
    BY <1>2, <1>3, <1>5, RunMoves
  <2>2. tool' = [tool EXCEPT ![t] = q]
    BY <1>2, <1>5 DEF Goto, r
  <2>3. q.step = s /\ q.k = r.k /\ q.job = r.job
    BY <1>2 DEF Runs
  <2> HIDE DEF q
  <2> QED
    BY <1>1, <1>5, <2>1, <2>2, <2>3, RunGoes
<1>6. CASE ToolConnect(t)
  BY <1>5, <1>6 DEF ToolConnect, At, r
<1>7. CASE ToolConnected(t)
  <2>1. PICK s \in {"raised", "loop"} : Goto(t, s)
    BY <1>7 DEF ToolConnected
  <2> QED
    BY <1>5, <1>7, <2>1 DEF ToolConnected, At, r
<1>8. CASE ToolSkip(t)
  <2> DEFINE q == [r EXCEPT !.k = r.k + 1, !.step = "loop"]
  <2>1. r.step = "loop" /\ Skipped(r.job, r.k) /\ UNCHANGED file
    BY <1>8 DEF ToolSkip, InLoop, At, r
  <2>2. q \in Runs /\ WellWritten(q) /\ WellScanned(q, file.rows) /\ Recorded(q, file.rows)
    BY <1>2, <1>3, <2>1, RunSkips
  <2>3. tool' = [tool EXCEPT ![t] = q]
    BY <1>2, <1>8 DEF ToolSkip, Advance, r
  <2>4. q.step # "called"
    BY <1>2 DEF Runs
  <2> HIDE DEF q
  <2> QED
    BY <1>1, <2>1, <2>2, <2>3, <2>4, RunGoes
<1>9. CASE ToolRaises(t)
  BY <1>5, <1>9 DEF ToolRaises, InLoop, At, r
<1>10. CASE ToolCall(t)
  <2>1. /\ r.step = "loop" /\ r.k \in Targets(r.job) /\ ~Skipped(r.job, r.k)
        /\ Prepare(t, Method(r.job), 0) /\ Goto(t, "called") /\ UNCHANGED file
    BY <1>10 DEF ToolCall, InLoop, At, r
  <2> DEFINE c == [op |-> Method(r.job), arg |-> 0, step |-> "prepared", net |-> 0, with |-> {}]
  <2>2. c \in Entered /\ c.op = Method(r.job)
    BY MethodTypes DEF Entered
  <2>3. call[t] = NoCall /\ Enter(t, c)
    BY <2>1 DEF Prepare
  <2> HIDE DEF c
  <2>4. call'[t] # NoCall /\ call'[t].op = Method(r.job)
    BY <1>1, <2>2, <2>3, EnterEffect
  <2> QED
    BY <1>5, <2>1, <2>4
<1>11. ASSUME At(t, "called")
       PROVE  /\ r.step = "called" /\ r.k \in Targets(r.job) /\ ~Skipped(r.job, r.k)
              /\ last[t] # NoCall /\ last[t].op = Method(r.job) /\ Undisturbed(t)
  BY <1>1, <1>3, <1>11, ToolUndisturbed DEF At, ToolCalled, r
<1>12. CASE ToolWrote(t)
  <2> DEFINE good == last[t].code = 0
             q == [r EXCEPT !.written = IF served[t] THEN r.written \cup {r.k} ELSE r.written,
                            !.k = IF good THEN r.k + 1 ELSE r.k,
                            !.step = IF good THEN "loop" ELSE "raised"]
  <2>1. At(t, "called") /\ r.job.name # "gbtPhaseScan" /\ UNCHANGED file
    BY <1>12 DEF ToolWrote, r
  <2>2. good => served[t]
    <3>1. last[t].op \in {"writeGBTConfig", "writeGBTPhase"}
      BY <1>11, <2>1 DEF Method
    <3>2. last[t].op \in Ops \ (InBand \cup {"putReg", "sbitReadOut"})
      BY <3>1, MethodTypes, <1>11, <2>1 DEF InBand
    <3> QED
      BY <1>11, <2>1, <3>2 DEF ToolIInv, ReturnIInv, OutputsHonest
  <2>3. served[t] \in BOOLEAN /\ good \in BOOLEAN
    BY <1>1 DEF RpcIInv, RpcTypes
  <2>4. q \in Runs /\ WellWritten(q) /\ WellScanned(q, file.rows) /\ Recorded(q, file.rows)
    <3> HIDE DEF good
    <3> QED
      BY <1>2, <1>3, <1>11, <2>1, <2>2, <2>3, RunWrites
  <2>5. tool' = [tool EXCEPT ![t] = q]
    <3>1. CASE good
      BY <1>2, <1>12, <3>1 DEF ToolWrote, Wrote, r
    <3>2. CASE ~good
      <4> DEFINE w == IF served[t] THEN r.written \cup {r.k} ELSE r.written
      <4>1. tool' = [tool EXCEPT ![t].written = w, ![t].step = "raised"]
        BY <1>12, <3>2 DEF ToolWrote, Wrote, r
      <4>2. q = [r EXCEPT !.written = w, !.k = r.k, !.step = "raised"]
        BY <3>2
      <4> HIDE DEF w, q, good
      <4>3. q = [r EXCEPT !.written = w, !.step = "raised"]
        BY <1>2, <4>2 DEF Runs
      <4> QED
        BY <1>2, <4>1, <4>3 DEF r
    <3> QED
      BY <3>1, <3>2
  <2>6. q.step # "called"
    BY <1>2 DEF Runs
  <2> HIDE DEF q
  <2> QED
    BY <1>1, <2>1, <2>4, <2>5, <2>6, RunGoes
<1>13. CASE ToolScanned(t)
  <2> DEFINE x == [oh |-> OH(r.job, r.k), code |-> last[t].code, words |-> last[t].out]
             q == [r EXCEPT !.results = Append(r.results, x),
                            !.k = IF r.job.output THEN r.k ELSE r.k + 1,
                            !.step = IF r.job.output THEN "save" ELSE "loop"]
  <2>1. At(t, "called") /\ r.job.name = "gbtPhaseScan" /\ UNCHANGED file
    BY <1>13 DEF ToolScanned, r
  <2>2. OH(r.job, r.k) = r.k /\ Method(r.job) = "scanGBTPhases"
    BY <1>4, <2>1, ScanCounter
  <2>3. last[t].code = 0 <=> \A n \in DOMAIN last[t].out : last[t].out[n] # Old
    BY <1>11, <2>1, <2>2 DEF ToolIInv, ReturnIInv, OwnReturn
  <2>4. last[t].code \in Int /\ last[t].out \in Seq(Cells)
    <3>1. last[t] \in Returned
      BY <1>1, <1>11, <2>1 DEF RpcIInv, RpcTypes
    <3> QED
      BY <3>1 DEF Returned
  <2>5. /\ x \in Records /\ x.oh = OH(r.job, r.k)
        /\ x.code = 0 <=> \A n \in DOMAIN x.words : x.words[n] # Old
    BY <1>4, <2>2, <2>3, <2>4 DEF Records
  <2>6. tool' = [tool EXCEPT ![t] = q]
    BY <1>2, <1>13 DEF ToolScanned, Store, r
  <2> HIDE DEF x
  <2>7. q \in Runs /\ WellWritten(q) /\ WellScanned(q, file.rows) /\ Recorded(q, file.rows)
    BY <1>2, <1>3, <1>11, <2>1, <2>5, RunScans
  <2>8. q.step # "called"
    BY <1>2 DEF Runs
  <2> HIDE DEF q
  <2> QED
    BY <1>1, <2>1, <2>6, <2>7, <2>8, RunGoes
<1>14. CASE ToolSave(t)
  <2>1. r.step = "save"
    BY <1>14 DEF ToolSave, At, r
  <2>2. CASE Goto(t, "raised") /\ UNCHANGED file
    BY <1>5, <2>1, <2>2
  <2>3. CASE /\ file' = [was |-> "results", rows |-> Append(file.rows, r.results[Len(r.results)])]
             /\ Advance(t)
    <3> DEFINE q == [r EXCEPT !.k = r.k + 1, !.step = "loop"]
               now == Append(file.rows, r.results[Len(r.results)])
    <3>1. q \in Runs /\ WellWritten(q) /\ WellScanned(q, now) /\ Recorded(q, now)
      BY <1>2, <1>3, <2>1, RunSaves
    <3>2. tool' = [tool EXCEPT ![t] = q]
      BY <1>2, <2>3 DEF Advance, r
    <3>3. file'.rows = now
      BY <2>3
    <3>4. q.step # "called"
      BY <1>2 DEF Runs
    <3> HIDE DEF q, now
    <3> QED
      BY <1>1, <3>1, <3>2, <3>3, <3>4, RunGoes
  <2> QED
    BY <1>14, <2>2, <2>3 DEF ToolSave, r
<1>15. CASE ToolReturns(t)
  <2> DEFINE q == [r EXCEPT !.step = "returned"]
  <2>1. r.step = "loop" /\ r.k \notin Targets(r.job) /\ UNCHANGED file
    BY <1>15 DEF ToolReturns, At, r
  <2>2. q \in Runs /\ WellWritten(q) /\ WellScanned(q, file.rows) /\ Recorded(q, file.rows)
    BY <1>2, <1>3, <2>1, RunReturns
  <2>3. tool' = [tool EXCEPT ![t] = q]
    BY <1>2, <1>15 DEF ToolReturns, Goto, r
  <2>4. q.step # "called"
    BY <1>2 DEF Runs
  <2> HIDE DEF q
  <2> QED
    BY <1>1, <2>1, <2>2, <2>3, <2>4, RunGoes
<1> QED
  BY <1>6, <1>7, <1>8, <1>9, <1>10, <1>12, <1>13, <1>14, <1>15 DEF Tool, ToolStep

LEMMA NextTool ==
  ASSUME ToolIInv, [Next]_vars
  PROVE  ToolIInv'
<1>1. ReturnIInv /\ ReturnIInv' /\ SuiteIInv /\ RpcIInv
  BY NextReturn DEF ToolIInv, ReturnIInv, SuiteIInv
<1>2. CASE \E t \in Threads : Tool(t)
  BY <1>1, <1>2, ToolKeeps
<1>3. CASE ~\E t \in Threads : Tool(t)
  <2>1. UNCHANGED <<kind, tool, file>>
    BY <1>3, ZenonT(60) DEF Next, Step, Library, View, Accident, ScriptCall, vars, toolVars, suiteVars, Begin, Lock,
                Ask, TakeList, TakeRegister, TakeAnswer, Finish, Release, Render, QueueGet, Reply
  <2>2. ToolTypes' /\ GbtWritten' /\ ScanRecorded'
    BY <2>1 DEF ToolIInv, ToolTypes, GbtWritten, ScanRecorded
  <2>3. ASSUME NEW t \in Threads, kind'[t] = "tool"
        PROVE  ToolCalled(t)' /\ Recorded(tool[t], file.rows)'
    <3>1. kind[t] = "tool" /\ ToolCalled(t) /\ Recorded(tool[t], file.rows)
      BY <2>1, <2>3 DEF ToolIInv
    <3>2. Recorded(tool[t], file.rows)'
      BY <2>1, <3>1 DEF Recorded
    <3>3. CASE Library(t)
      <4>1. \/ call'[t] # NoCall /\ call'[t].op = call[t].op
            \/ last'[t] # NoCall /\ last'[t].op = call[t].op
        BY <1>1, <3>3, LibraryEffect DEF Library
      <4>2. last[t] = NoCall
        BY <1>1, <3>3, LibraryEffect DEF Library
      <4> QED
        BY <2>1, <3>1, <3>2, <4>1, <4>2 DEF ToolCalled
    <3>4. CASE UNCHANGED <<call, last>>
      BY <2>1, <3>1, <3>2, <3>4 DEF ToolCalled
    <3> QED
      BY <1>1, <1>3, <3>1, <3>3, <3>4, ToolAlone
  <2> QED
    BY <1>1, <2>2, <2>3 DEF ToolIInv
<1> QED
  BY <1>2, <1>3

\* configGBT and the setPhase functions write every target of theirs that they go past.
THEOREM WrittenSafe == Spec => []GbtWritten
<1>1. ToolIInv /\ [Next]_vars => ToolIInv'
  BY NextTool
<1>2. ToolIInv => GbtWritten
  BY DEF ToolIInv
<1> QED
  BY <1>1, <1>2, InitTool, PTL DEF Spec

\* The records of gbtPhaseScan are of its own scans, and its file has all of them.
THEOREM ScanSafe == Spec => []ScanRecorded
<1>1. ToolIInv /\ [Next]_vars => ToolIInv'
  BY NextTool
<1>2. ToolIInv => ScanRecorded
  BY DEF ToolIInv
<1> QED
  BY <1>1, <1>2, InitTool, PTL DEF Spec
====
