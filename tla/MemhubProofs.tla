----------------------------- MODULE MemhubProofs -----------------------------
(***************************************************************************)
(* Proofs about Memhub for every set of processes, every set of register    *)
(* values, every block length and any number of signals.                    *)
(***************************************************************************)
EXTENDS Memhub, TLAPS

\* The argument array of an idle process is a block.
LEMMA NoBlockType == NoBlock \in Blocks
<1>1. (CHOOSE v \in Values : TRUE) \in Values
  BY MemhubAssumption
<1> QED
  BY <1>1 DEF NoBlock, Blocks

\* The end of a process leaves every variable well typed.
LEMMA EndType ==
  ASSUME TypeOK, NEW p \in Procs, End(p)
  PROVE  /\ sem' \in Nat /\ reg' \in Values
         /\ pc' \in [Procs -> Points]
         /\ busy' \in [Procs -> BOOLEAN] /\ sigbus' \in [Procs -> BOOLEAN]
         /\ op' \in [Procs -> {"read", "write"}]
         /\ data' \in [Procs -> Blocks]
         /\ word' \in [Procs -> 0..Words]
         /\ got' \in [Procs -> SUBSET Values]
<1>1. pc' \in [Procs -> Points]
  BY DEF TypeOK, End, Points, OutsidePoints
<1>2. word' \in [Procs -> 0..Words]
  BY MemhubAssumption DEF TypeOK, End, ForgetCall
<1> QED
  BY <1>1, <1>2, NoBlockType DEF TypeOK, End, ForgetCall

\* Every reachable state is well typed, whatever the signals do: the semaphore
\* never goes negative and the copy loops stay inside their blocks.
THEOREM TypeCorrect == Spec => []TypeOK
<1>1. Init => TypeOK
  <2> SUFFICES ASSUME Init PROVE TypeOK
    OBVIOUS
  <2>1. /\ sem \in Nat /\ nsig \in Nat /\ nkill \in Nat /\ reg \in Values
        /\ exposed \in BOOLEAN
    BY DEF Init, SEM_INIT
  <2>2. pc \in [Procs -> Points] /\ op \in [Procs -> {"read", "write"}]
    BY DEF Init, Points, OutsidePoints
  <2>3. busy \in [Procs -> BOOLEAN] /\ sigbus \in [Procs -> BOOLEAN]
    BY DEF Init
  <2>4. data \in [Procs -> Blocks] /\ word \in [Procs -> 0..Words]
    BY NoBlockType, MemhubAssumption DEF Init
  <2>5. got \in [Procs -> SUBSET Values]
    BY DEF Init
  <2> QED
    BY <2>1, <2>2, <2>3, <2>4, <2>5 DEF TypeOK
<1>2. TypeOK /\ [Next]_vars => TypeOK'
  <2> SUFFICES ASSUME TypeOK, [Next]_vars PROVE TypeOK'
    OBVIOUS
  <2> USE NoBlockType, MemhubAssumption
      DEF TypeOK, Points, OutsidePoints, HoldingPoints, DiePoints, Goto, End,
          ForgetCall, accessVars, faultVars
  <2>1. ASSUME NEW p \in Procs, Start(p) PROVE TypeOK'
    BY <2>1 DEF Start
  <2>2. ASSUME NEW p \in Procs, OpenSem(p) PROVE TypeOK'
    <3>1. CASE sem > 1 /\ pc[p] = "open" /\ End(p) /\ UNCHANGED faultVars
      BY <3>1, EndType
    <3>2. CASE Goto(p, "open", "install")
               /\ UNCHANGED <<sem, reg, busy, accessVars, sigbus, faultVars>>
      BY <3>2
    <3> QED
      BY <2>2, <3>1, <3>2 DEF OpenSem
  <2>3. ASSUME NEW p \in Procs, OpenSvc(p) PROVE TypeOK'
    <3>1. CASE End(p) /\ UNCHANGED faultVars
      BY <3>1, EndType
    <3>2. CASE Goto(p, "install", "idle")
               /\ UNCHANGED <<sem, reg, busy, accessVars, sigbus, faultVars>>
      BY <3>2
    <3> QED
      BY <2>3, <3>1, <3>2 DEF OpenSvc
  <2>4. ASSUME NEW p \in Procs, Close(p) PROVE TypeOK'
    BY <2>4 DEF Close
  <2>5. ASSUME NEW p \in Procs, Call(p) PROVE TypeOK'
    BY <2>5 DEF Call
  <2>6. ASSUME NEW p \in Procs, SemWait(p) PROVE TypeOK'
    BY <2>6 DEF SemWait
  <2>7. ASSUME NEW p \in Procs, SetBusy(p) PROVE TypeOK'
    BY <2>7 DEF SetBusy
  <2>8. ASSUME NEW p \in Procs, ReadWord(p) PROVE TypeOK'
    BY <2>8 DEF ReadWord
  <2>9. ASSUME NEW p \in Procs, WriteWord(p) PROVE TypeOK'
    <3>1. data[p][word[p] + 1] \in Values
      BY <2>9 DEF WriteWord, Blocks
    <3> QED
      BY <3>1, <2>9 DEF WriteWord
  <2>10. ASSUME NEW p \in Procs, AccessReturn(p) PROVE TypeOK'
    BY <2>10 DEF AccessReturn
  <2>11. ASSUME NEW p \in Procs, BusError(p) PROVE TypeOK'
    <3>1. CASE End(p) /\ exposed' = TRUE /\ UNCHANGED <<nsig, nkill>>
      BY <3>1, EndType
    <3>2. CASE /\ \E to \in {"post", "die"} : pc' = [pc EXCEPT ![p] = to]
               /\ \/ sigbus' = [sigbus EXCEPT ![p] = TRUE]
                  \/ UNCHANGED sigbus
               /\ UNCHANGED <<sem, reg, busy, accessVars, exposed, nsig, nkill>>
      BY <3>2
    <3> QED
      BY <2>11, <3>1, <3>2 DEF BusError
  <2>12. ASSUME NEW p \in Procs, SemPost(p) PROVE TypeOK'
    BY <2>12 DEF SemPost
  <2>13. ASSUME NEW p \in Procs, ClearBusy(p) PROVE TypeOK'
    BY <2>13 DEF ClearBusy
  <2>14. ASSUME NEW p \in Procs, Signal(p) PROVE TypeOK'
    BY <2>14 DEF Signal, Exposed
  <2>15. ASSUME NEW p \in Procs, Kill(p) PROVE TypeOK'
    BY <2>15 DEF Kill
  <2>16. ASSUME NEW p \in Procs, DieGetValue(p) PROVE TypeOK'
    BY <2>16 DEF DieGetValue
  <2>17. ASSUME NEW p \in Procs, DiePost(p) PROVE TypeOK'
    BY <2>17 DEF DiePost
  <2>18. ASSUME NEW p \in Procs, DieExit(p) PROVE TypeOK'
    BY <2>18 DEF DieExit
  <2>19. CASE UNCHANGED vars
    BY <2>19 DEF vars
  <2> QED
    BY <2>1, <2>2, <2>3, <2>4, <2>5, <2>6, <2>7, <2>8, <2>9, <2>10, <2>11,
       <2>12, <2>13, <2>14, <2>15, <2>16, <2>17, <2>18, <2>19
    DEF Next, Step, Environment
<1> QED
  BY <1>1, <1>2, PTL DEF Spec
-----------------------------------------------------------------------------
\* The initial states satisfy the inductive invariant.
LEMMA InitInductive == Init /\ TypeOK => IInv
  BY DEF Init, IInv, CallFresh, BusyAgrees, PermitConserved, AccessAgrees, Holders,
         SEM_INIT, OutsidePoints, HoldingPoints

\* The step of every action keeps the parts of the inductive invariant.
LEMMA NextInductive == IInv /\ TypeOK' /\ [Next]_vars => IInv'
<1> SUFFICES ASSUME IInv, TypeOK', [Next]_vars PROVE IInv'
  OBVIOUS
<1> USE DEF IInv, TypeOK, CallFresh, BusyAgrees, PermitConserved, AccessAgrees,
            Holders, OutsidePoints, HoldingPoints, DiePoints, Points, Goto, End,
            ForgetCall, accessVars, faultVars
<1>1. ASSUME NEW p \in Procs, Start(p) PROVE IInv'
  <2>1. CallFresh'
    BY <1>1 DEF Start
  <2>2. BusyAgrees'
    BY <1>1 DEF Start
  <2>3. PermitConserved'
    BY <1>1 DEF Start
  <2>4. AccessAgrees'
    BY <1>1 DEF Start
  <2> QED
    BY <2>1, <2>2, <2>3, <2>4
<1>2. ASSUME NEW p \in Procs, OpenSem(p) PROVE IInv'
  <2>1. CallFresh'
    BY <1>2 DEF OpenSem
  <2>2. BusyAgrees'
    BY <1>2 DEF OpenSem
  <2>3. PermitConserved'
    BY <1>2 DEF OpenSem
  <2>4. AccessAgrees'
    BY <1>2 DEF OpenSem
  <2> QED
    BY <2>1, <2>2, <2>3, <2>4
<1>3. ASSUME NEW p \in Procs, OpenSvc(p) PROVE IInv'
  <2>1. CallFresh'
    BY <1>3 DEF OpenSvc
  <2>2. BusyAgrees'
    BY <1>3 DEF OpenSvc
  <2>3. PermitConserved'
    BY <1>3 DEF OpenSvc
  <2>4. AccessAgrees'
    BY <1>3 DEF OpenSvc
  <2> QED
    BY <2>1, <2>2, <2>3, <2>4
<1>4. ASSUME NEW p \in Procs, Close(p) PROVE IInv'
  <2>1. CallFresh'
    BY <1>4 DEF Close
  <2>2. BusyAgrees'
    BY <1>4 DEF Close
  <2>3. PermitConserved'
    BY <1>4 DEF Close
  <2>4. AccessAgrees'
    BY <1>4 DEF Close
  <2> QED
    BY <2>1, <2>2, <2>3, <2>4
<1>5. ASSUME NEW p \in Procs, Call(p) PROVE IInv'
  <2>1. CallFresh'
    BY <1>5 DEF Call
  <2>2. BusyAgrees'
    BY <1>5 DEF Call
  <2>3. PermitConserved'
    BY <1>5 DEF Call
  <2>4. AccessAgrees'
    BY <1>5 DEF Call
  <2> QED
    BY <2>1, <2>2, <2>3, <2>4
<1>6. ASSUME NEW p \in Procs, SemWait(p) PROVE IInv'
  <2>1. CallFresh'
    BY <1>6 DEF SemWait
  <2>2. BusyAgrees'
    BY <1>6 DEF SemWait
  <2>3. PermitConserved'
    BY <1>6 DEF SemWait
  <2>4. AccessAgrees'
    BY <1>6 DEF SemWait
  <2> QED
    BY <2>1, <2>2, <2>3, <2>4
<1>7. ASSUME NEW p \in Procs, SetBusy(p) PROVE IInv'
  <2>1. CallFresh'
    BY <1>7 DEF SetBusy
  <2>2. BusyAgrees'
    BY <1>7 DEF SetBusy
  <2>3. PermitConserved'
    BY <1>7 DEF SetBusy
  <2>4. AccessAgrees'
    BY <1>7 DEF SetBusy
  <2> QED
    BY <2>1, <2>2, <2>3, <2>4
<1>8. ASSUME NEW p \in Procs, ReadWord(p) PROVE IInv'
  <2>1. CallFresh'
    BY <1>8 DEF ReadWord
  <2>2. BusyAgrees'
    BY <1>8 DEF ReadWord
  <2>3. PermitConserved'
    BY <1>8 DEF ReadWord
  <2>4. AccessAgrees'
    BY <1>8 DEF ReadWord
  <2> QED
    BY <2>1, <2>2, <2>3, <2>4
<1>9. ASSUME NEW p \in Procs, WriteWord(p) PROVE IInv'
  <2>1. CallFresh'
    BY <1>9 DEF WriteWord
  <2>2. BusyAgrees'
    BY <1>9 DEF WriteWord
  <2>3. PermitConserved'
    BY <1>9 DEF WriteWord
  <2>4. AccessAgrees'
    BY <1>9 DEF WriteWord
  <2> QED
    BY <2>1, <2>2, <2>3, <2>4
<1>10. ASSUME NEW p \in Procs, AccessReturn(p) PROVE IInv'
  <2>1. CallFresh'
    BY <1>10 DEF AccessReturn
  <2>2. BusyAgrees'
    BY <1>10 DEF AccessReturn
  <2>3. PermitConserved'
    BY <1>10 DEF AccessReturn
  <2>4. AccessAgrees'
    BY <1>10 DEF AccessReturn
  <2> QED
    BY <2>1, <2>2, <2>3, <2>4
<1>11. ASSUME NEW p \in Procs, BusError(p) PROVE IInv'
  <2>1. CallFresh'
    BY <1>11 DEF BusError
  <2>2. BusyAgrees'
    BY <1>11 DEF BusError
  <2>3. PermitConserved'
    BY <1>11 DEF BusError
  <2>4. AccessAgrees'
    BY <1>11 DEF BusError
  <2> QED
    BY <2>1, <2>2, <2>3, <2>4
<1>12. ASSUME NEW p \in Procs, SemPost(p) PROVE IInv'
  <2>1. CallFresh'
    BY <1>12 DEF SemPost
  <2>2. BusyAgrees'
    BY <1>12 DEF SemPost
  <2>3. PermitConserved'
    BY <1>12 DEF SemPost
  <2>4. AccessAgrees'
    BY <1>12 DEF SemPost
  <2> QED
    BY <2>1, <2>2, <2>3, <2>4
<1>13. ASSUME NEW p \in Procs, ClearBusy(p) PROVE IInv'
  <2>1. CallFresh'
    BY <1>13 DEF ClearBusy
  <2>2. BusyAgrees'
    BY <1>13 DEF ClearBusy
  <2>3. PermitConserved'
    BY <1>13 DEF ClearBusy
  <2>4. AccessAgrees'
    BY <1>13 DEF ClearBusy
  <2> QED
    BY <2>1, <2>2, <2>3, <2>4
<1>14. ASSUME NEW p \in Procs, Signal(p) PROVE IInv'
  <2>1. CallFresh'
    BY <1>14 DEF Signal, Exposed
  <2>2. BusyAgrees'
    BY <1>14 DEF Signal, Exposed
  <2>3. PermitConserved'
    <3>1. SUFFICES ASSUME ~exposed' PROVE PermitConserved'
      OBVIOUS
    <3>2. ~exposed /\ ~Exposed(p)
      BY <1>14, <3>1 DEF Signal
    <3>3. \A q \in Procs : q \in Holders' <=> q \in Holders
      <4>1. TAKE q \in Procs
      <4>2. CASE q = p
        BY <1>14, <3>2, <4>2 DEF Signal, Exposed
      <4>3. CASE q # p
        BY <1>14, <4>3 DEF Signal
      <4> QED
        BY <4>2, <4>3
    <3>4. Holders' = Holders
      BY <3>3
    <3> QED
      BY <1>14, <3>2, <3>4 DEF Signal
  <2>4. AccessAgrees'
    BY <1>14 DEF Signal, Exposed
  <2> QED
    BY <2>1, <2>2, <2>3, <2>4
<1>15. ASSUME NEW p \in Procs, Kill(p) PROVE IInv'
  <2>1. CallFresh'
    BY <1>15 DEF Kill
  <2>2. BusyAgrees'
    BY <1>15 DEF Kill
  <2>3. PermitConserved'
    <3>1. SUFFICES ASSUME ~exposed' PROVE PermitConserved'
      OBVIOUS
    <3>2. ~exposed /\ p \notin Holders
      BY <1>15, <3>1 DEF Kill
    <3>3. \A q \in Procs : q \in Holders' <=> q \in Holders
      <4>1. TAKE q \in Procs
      <4>2. CASE q = p
        BY <1>15, <3>2, <4>2 DEF Kill
      <4>3. CASE q # p
        BY <1>15, <4>3 DEF Kill
      <4> QED
        BY <4>2, <4>3
    <3>4. Holders' = Holders
      BY <3>3
    <3> QED
      BY <1>15, <3>2, <3>4 DEF Kill
  <2>4. AccessAgrees'
    BY <1>15 DEF Kill
  <2> QED
    BY <2>1, <2>2, <2>3, <2>4
<1>16. ASSUME NEW p \in Procs, DieGetValue(p) PROVE IInv'
  <2>1. CallFresh'
    BY <1>16 DEF DieGetValue
  <2>2. BusyAgrees'
    BY <1>16 DEF DieGetValue
  <2>3. PermitConserved'
    BY <1>16 DEF DieGetValue
  <2>4. AccessAgrees'
    BY <1>16 DEF DieGetValue
  <2> QED
    BY <2>1, <2>2, <2>3, <2>4
<1>17. ASSUME NEW p \in Procs, DiePost(p) PROVE IInv'
  <2>1. CallFresh'
    BY <1>17 DEF DiePost
  <2>2. BusyAgrees'
    BY <1>17 DEF DiePost
  <2>3. PermitConserved'
    BY <1>17 DEF DiePost
  <2>4. AccessAgrees'
    BY <1>17 DEF DiePost
  <2> QED
    BY <2>1, <2>2, <2>3, <2>4
<1>18. ASSUME NEW p \in Procs, DieExit(p) PROVE IInv'
  <2>1. CallFresh'
    BY <1>18 DEF DieExit
  <2>2. BusyAgrees'
    BY <1>18 DEF DieExit
  <2>3. PermitConserved'
    BY <1>18 DEF DieExit
  <2>4. AccessAgrees'
    BY <1>18 DEF DieExit
  <2> QED
    BY <2>1, <2>2, <2>3, <2>4
<1>19. CASE UNCHANGED vars
  BY <1>19 DEF vars
<1> QED
  BY <1>1, <1>2, <1>3, <1>4, <1>5, <1>6, <1>7, <1>8, <1>9, <1>10, <1>11, <1>12, <1>13, <1>14, <1>15, <1>16, <1>17, <1>18, <1>19 DEF Next, Step, Environment

\* The inductive invariant holds in every reachable state.
LEMMA Inductive == Spec => []IInv
  BY InitInductive, NextInductive, TypeCorrect, PTL DEF Spec

\* As long as no fatal signal strikes at an exposed point, the semaphore and its
\* holders add up to one permit, for any number of processes and signals.
THEOREM PermitSafe == Spec => []PermitConserved
<1>1. IInv => PermitConserved
  BY DEF IInv
<1> QED
  BY <1>1, Inductive, PTL

\* A block read by memhub_read is never torn by another process's write.
THEOREM ReadSafe == Spec => []ReadUntorn
<1>1. IInv => ReadUntorn
  BY DEF IInv, AccessAgrees, ReadUntorn
<1> QED
  BY <1>1, Inductive, PTL

\* memhub_write leaves its last word in the register until it gives the bus free.
THEOREM WriteSafe == Spec => []WriteEffective
<1>1. IInv => WriteEffective
  BY MemhubAssumption DEF IInv, AccessAgrees, WriteEffective
<1> QED
  BY <1>1, Inductive, PTL

\* Only the process that holds the semaphore changes the register.
THEOREM GuardSafe == Spec => RegisterGuarded
<1>1. IInv /\ [Next]_vars =>
        [reg' # reg /\ ~exposed =>
           \E p \in Procs : /\ pc[p] = "access"
                            /\ \A q \in Procs \ {p} : pc[q] \notin HoldingPoints]_vars
  <2> SUFFICES ASSUME IInv, Next, reg' # reg, ~exposed
               PROVE  \E p \in Procs :
                        /\ pc[p] = "access"
                        /\ \A q \in Procs \ {p} : pc[q] \notin HoldingPoints
    OBVIOUS
  <2>1. PICK p \in Procs : WriteWord(p)
    BY DEF Next, Step, Environment, Start, OpenSem, OpenSvc, Close, Call, SemWait,
           SetBusy, ReadWord, AccessReturn, BusError, SemPost, ClearBusy, Signal,
           Kill, DieGetValue, DiePost, DieExit, End
  <2>2. \A q \in Procs \ {p} : pc[q] \notin HoldingPoints
    BY <2>1 DEF IInv, PermitConserved, Holders, HoldingPoints, WriteWord
  <2> QED
    BY <2>1, <2>2 DEF WriteWord
<1> QED
  BY <1>1, Inductive, PTL DEF Spec, RegisterGuarded

-----------------------------------------------------------------------------
\* While nothing is exposed the bus has at most one owner: no other process is
\* among the holders.
LEMMA OneHolder ==
  ASSUME IInv, ~exposed, NEW p \in Procs, p \in Holders
  PROVE  Holders = {p} /\ sem = 0
  BY DEF IInv, PermitConserved, Holders

\* A step that leaves register, holders, samples and damage alone is a stutter of
\* the bus.
LEMMA BusStutters ==
  ASSUME UNCHANGED <<reg, got, exposed>>, Holders' = Holders
  PROVE  UNCHANGED Bus!vars
  BY DEF Bus!vars

\* A process outside the bus that ends its call, or altogether, is a Forget.
LEMMA BusForgets ==
  ASSUME NEW p \in Procs, p \notin Holders, ~exposed, UNCHANGED <<reg, exposed>>,
         got' = [got EXCEPT ![p] = {}], Holders' = Holders
  PROVE  Bus!Next
  BY DEF Bus!Next, Bus!Forget

\* A step that moves one process from a point off the bus to another leaves the
\* holders as they are.
LEMMA HoldersKept ==
  ASSUME TypeOK, NEW p \in Procs, \A q \in Procs \ {p} : pc'[q] = pc[q] /\ busy'[q] = busy[q],
         p \in Holders <=> p \in Holders'
  PROVE  Holders' = Holders
<1>1. \A q \in Procs : q \in Holders' <=> q \in Holders
  BY DEF Holders
<1> QED
  BY <1>1 DEF Holders

\* The statements of memhub and die(), with signals between any two, implement
\* whole transactions on a bus with one owner.
THEOREM BusRefined == Spec => BusTransactions
<1>1. Init => Bus!Init
  BY DEF Init, Bus!Init, Holders, HoldingPoints
<1>2. IInv /\ IInv' /\ [Next]_vars => [Bus!Next]_(Bus!vars)
  <2> SUFFICES ASSUME IInv, IInv', [Next]_vars PROVE Bus!Next \/ UNCHANGED Bus!vars
    OBVIOUS
  <2>1. CASE exposed'
    BY <2>1 DEF IInv, TypeOK, Bus!Next, Bus!Damage
  <2>2. CASE ~exposed'
    <3>1. ~exposed
      BY <2>2 DEF IInv, TypeOK, Next, Step, Environment, Start, OpenSem, OpenSvc, Close, Call,
         SemWait, SetBusy, ReadWord, WriteWord, AccessReturn, BusError, SemPost,
         ClearBusy, Signal, Kill, DieGetValue, DiePost, DieExit, End, faultVars, vars
    <3>2. exposed' = exposed
      BY <2>2, <3>1 DEF IInv, TypeOK
    <3> USE <2>2, <3>1, <3>2 DEF Goto, IInv, accessVars, faultVars
    <3>3. ASSUME NEW p \in Procs, Start(p) PROVE Bus!Next \/ UNCHANGED Bus!vars
      <4>1. p \in Holders <=> p \in Holders'
        BY <3>3, OneHolder DEF Start, Holders, HoldingPoints, TypeOK, BusyAgrees, OutsidePoints
      <4>2. Holders' = Holders
        BY <3>3, <4>1, HoldersKept DEF Start, TypeOK
      <4> QED
        BY <3>3, <4>2, BusStutters DEF Start
    <3>4. ASSUME NEW p \in Procs, Call(p) PROVE Bus!Next \/ UNCHANGED Bus!vars
      <4>1. p \in Holders <=> p \in Holders'
        BY <3>4, OneHolder DEF Call, Holders, HoldingPoints, TypeOK, BusyAgrees, OutsidePoints
      <4>2. Holders' = Holders
        BY <3>4, <4>1, HoldersKept DEF Call, TypeOK
      <4> QED
        BY <3>4, <4>2, BusStutters DEF Call
    <3>5. ASSUME NEW p \in Procs, SetBusy(p) PROVE Bus!Next \/ UNCHANGED Bus!vars
      <4>1. p \in Holders <=> p \in Holders'
        BY <3>5, OneHolder DEF SetBusy, Holders, HoldingPoints, TypeOK, BusyAgrees, OutsidePoints
      <4>2. Holders' = Holders
        BY <3>5, <4>1, HoldersKept DEF SetBusy, TypeOK
      <4> QED
        BY <3>5, <4>2, BusStutters DEF SetBusy
    <3>6. ASSUME NEW p \in Procs, AccessReturn(p) PROVE Bus!Next \/ UNCHANGED Bus!vars
      <4>1. p \in Holders <=> p \in Holders'
        BY <3>6, OneHolder DEF AccessReturn, Holders, HoldingPoints, TypeOK, BusyAgrees, OutsidePoints
      <4>2. Holders' = Holders
        BY <3>6, <4>1, HoldersKept DEF AccessReturn, TypeOK
      <4> QED
        BY <3>6, <4>2, BusStutters DEF AccessReturn
    <3>7. ASSUME NEW p \in Procs, DieGetValue(p) PROVE Bus!Next \/ UNCHANGED Bus!vars
      <4>1. p \in Holders <=> p \in Holders'
        BY <3>7, OneHolder DEF DieGetValue, Holders, HoldingPoints, TypeOK, BusyAgrees, OutsidePoints
      <4>2. Holders' = Holders
        BY <3>7, <4>1, HoldersKept DEF DieGetValue, TypeOK
      <4> QED
        BY <3>7, <4>2, BusStutters DEF DieGetValue
    <3>8. ASSUME NEW p \in Procs, Signal(p) PROVE Bus!Next \/ UNCHANGED Bus!vars
      <4>0. ~Exposed(p)
        BY <3>8 DEF Signal
      <4>1. p \in Holders <=> p \in Holders'
        BY <3>8, <4>0, OneHolder DEF Signal, Exposed, Points, DiePoints, Holders, HoldingPoints, TypeOK, BusyAgrees, OutsidePoints
      <4>2. Holders' = Holders
        BY <3>8, <4>1, HoldersKept DEF Signal, TypeOK
      <4> QED
        BY <3>8, <4>2, BusStutters DEF Signal
    <3>9. ASSUME NEW p \in Procs, Close(p) PROVE Bus!Next \/ UNCHANGED Bus!vars
      <4>1. p \notin Holders /\ p \notin Holders'
        BY <3>9 DEF Close, End, ForgetCall, Holders, HoldingPoints, TypeOK, BusyAgrees, OutsidePoints
      <4>2. Holders' = Holders
        BY <3>9, <4>1, HoldersKept DEF Close, End, ForgetCall, TypeOK
      <4> QED
        BY <3>9, <4>1, <4>2, BusForgets DEF Close, End, ForgetCall
    <3>10. ASSUME NEW p \in Procs, DieExit(p) PROVE Bus!Next \/ UNCHANGED Bus!vars
      <4>1. p \notin Holders /\ p \notin Holders'
        BY <3>10 DEF DieExit, End, ForgetCall, Holders, HoldingPoints, TypeOK, BusyAgrees, OutsidePoints
      <4>2. Holders' = Holders
        BY <3>10, <4>1, HoldersKept DEF DieExit, End, ForgetCall, TypeOK
      <4> QED
        BY <3>10, <4>1, <4>2, BusForgets DEF DieExit, End, ForgetCall
    <3>11. ASSUME NEW p \in Procs, ClearBusy(p) PROVE Bus!Next \/ UNCHANGED Bus!vars
      <4>1. p \notin Holders /\ p \notin Holders'
        BY <3>11 DEF ClearBusy, End, ForgetCall, Holders, HoldingPoints, TypeOK, BusyAgrees, OutsidePoints
      <4>2. Holders' = Holders
        BY <3>11, <4>1, HoldersKept DEF ClearBusy, End, ForgetCall, TypeOK
      <4> QED
        BY <3>11, <4>1, <4>2, BusForgets DEF ClearBusy, End, ForgetCall
    <3>12. ASSUME NEW p \in Procs, Kill(p) PROVE Bus!Next \/ UNCHANGED Bus!vars
      <4>0. p \notin Holders
        BY <3>12 DEF Kill
      <4>1. p \notin Holders /\ p \notin Holders'
        BY <3>12, <4>0 DEF Kill, End, ForgetCall, Holders, HoldingPoints, TypeOK, BusyAgrees, OutsidePoints
      <4>2. Holders' = Holders
        BY <3>12, <4>1, HoldersKept DEF Kill, End, ForgetCall, TypeOK
      <4> QED
        BY <3>12, <4>1, <4>2, BusForgets DEF Kill, End, ForgetCall
    <3>13. ASSUME NEW p \in Procs, OpenSem(p) PROVE Bus!Next \/ UNCHANGED Bus!vars
      <4>1. p \notin Holders /\ p \notin Holders'
        BY <3>13 DEF OpenSem, End, Holders, HoldingPoints, TypeOK, BusyAgrees, OutsidePoints
      <4>2. Holders' = Holders
        BY <3>13, <4>1, HoldersKept DEF OpenSem, End, TypeOK
      <4>3. CASE Goto(p, "open", "install") /\ UNCHANGED <<reg, accessVars, exposed>>
        BY <4>2, <4>3, BusStutters
      <4>4. CASE End(p) /\ UNCHANGED exposed
        BY <4>1, <4>2, <4>4, BusForgets DEF End, ForgetCall
      <4> QED
        BY <3>13, <4>3, <4>4 DEF OpenSem
    <3>14. ASSUME NEW p \in Procs, OpenSvc(p) PROVE Bus!Next \/ UNCHANGED Bus!vars
      <4>1. p \notin Holders /\ p \notin Holders'
        BY <3>14 DEF OpenSvc, End, Holders, HoldingPoints, TypeOK, BusyAgrees, OutsidePoints
      <4>2. Holders' = Holders
        BY <3>14, <4>1, HoldersKept DEF OpenSvc, End, TypeOK
      <4>3. CASE Goto(p, "install", "idle") /\ UNCHANGED <<reg, accessVars, exposed>>
        BY <4>2, <4>3, BusStutters
      <4>4. CASE End(p) /\ UNCHANGED exposed
        BY <4>1, <4>2, <4>4, BusForgets DEF End, ForgetCall
      <4> QED
        BY <3>14, <4>3, <4>4 DEF OpenSvc
    <3>15. ASSUME NEW p \in Procs, BusError(p) PROVE Bus!Next \/ UNCHANGED Bus!vars
      <4>1. UNCHANGED <<reg, got, exposed>>
        BY <3>15 DEF BusError
      <4>2. p \in Holders <=> p \in Holders'
        BY <3>15 DEF BusError, Holders, HoldingPoints, TypeOK, BusyAgrees, OutsidePoints
      <4>3. Holders' = Holders
        BY <3>15, <4>2, HoldersKept DEF BusError, TypeOK
      <4> QED
        BY <4>1, <4>3, BusStutters
    <3>16. ASSUME NEW p \in Procs, SemWait(p) PROVE Bus!Next \/ UNCHANGED Bus!vars
      <4>1. Holders = {}
        BY <3>16 DEF SemWait, PermitConserved
      <4>2. Holders' = {p}
        BY <3>16, <4>1 DEF SemWait, Holders, HoldingPoints, TypeOK, BusyAgrees, OutsidePoints
      <4>3. got[p] = {}
        BY <3>16 DEF SemWait, CallFresh, OutsidePoints
      <4>4. Bus!Acquire(p)
        BY <3>16, <4>1, <4>2, <4>3 DEF SemWait, Bus!Acquire
      <4> QED
        BY <4>4 DEF Bus!Next
    <3>17. ASSUME NEW p \in Procs, ReadWord(p) PROVE Bus!Next \/ UNCHANGED Bus!vars
      <4>1. Holders = {p} /\ Holders' = {p}
        BY <3>17, OneHolder DEF ReadWord, Holders, HoldingPoints, TypeOK, BusyAgrees, OutsidePoints
      <4>2. Bus!Sample(p)
        BY <3>17, <4>1 DEF ReadWord, Bus!Sample, TypeOK
      <4> QED
        BY <4>2 DEF Bus!Next
    <3>18. ASSUME NEW p \in Procs, WriteWord(p) PROVE Bus!Next \/ UNCHANGED Bus!vars
      <4>1. Holders = {p} /\ Holders' = {p}
        BY <3>18, OneHolder DEF WriteWord, Holders, HoldingPoints, TypeOK, BusyAgrees, OutsidePoints
      <4>2. Bus!Store(p)
        BY <3>18, <4>1 DEF WriteWord, Bus!Store, TypeOK
      <4> QED
        BY <4>2 DEF Bus!Next
    <3>19. ASSUME NEW p \in Procs, SemPost(p) PROVE Bus!Next \/ UNCHANGED Bus!vars
      <4>1. Holders = {p} /\ Holders' = {}
        BY <3>19, OneHolder DEF SemPost, Holders, HoldingPoints, TypeOK, BusyAgrees, OutsidePoints
      <4>2. Bus!Release(p)
        BY <3>19, <4>1 DEF SemPost, Bus!Release
      <4> QED
        BY <4>2 DEF Bus!Next
    <3>20. ASSUME NEW p \in Procs, DiePost(p) PROVE Bus!Next \/ UNCHANGED Bus!vars
      <4>1. Holders = {p} /\ Holders' = {}
        BY <3>20, OneHolder DEF DiePost, Holders, HoldingPoints, TypeOK, BusyAgrees, OutsidePoints
      <4>2. Bus!Release(p)
        BY <3>20, <4>1 DEF DiePost, Bus!Release
      <4> QED
        BY <4>2 DEF Bus!Next
    <3>21. CASE UNCHANGED vars
      BY <3>21 DEF vars, Holders, Bus!vars
    <3> QED
      BY <3>3, <3>4, <3>5, <3>6, <3>7, <3>8, <3>9, <3>10, <3>11, <3>12, <3>13, <3>14, <3>15, <3>16, <3>17, <3>18, <3>19, <3>20, <3>21 DEF Next, Step, Environment
  <2> QED
    BY <2>1, <2>2
<1> QED
  BY <1>1, <1>2, Inductive, PTL DEF Spec, BusTransactions, Bus!Spec
=============================================================================
