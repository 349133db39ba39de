----------------------------- MODULE RwRegProofs ------------------------------
(***************************************************************************)
(* Proofs about RwReg, for every configuration of libmemsvc and every set   *)
(* of addresses: getReg and putReg use the library as any caller may, so    *)
(* what MemsvcProofs shows of it holds for them, and a value they return    *)
(* comes from the bus.                                                      *)
(***************************************************************************)
EXTENDS RwReg, MemsvcProofs

-----------------------------------------------------------------------------
(* Calls of libmemsvc *)

\* A step of getReg or putReg is a step of libmemsvc, or leaves it alone.
LEMMA StepsOfLibrary ==
  ASSUME memCall \in Calls \cup {NoCall}, [RwNext]_allVars
  PROVE  [Next]_vars
<1>1. ASSUME NEW place \in Places, At(place)
      PROVE  memCall.addr \in Addrs /\ 1 \in Counts
  BY <1>1, RwRegAssumption DEF At, Calls
<1>2. CASE OpenHandle
  BY <1>2 DEF OpenHandle, Next
<1>3. CASE Access
  <2>1. memCall.addr \in Addrs /\ 1 \in Counts
    BY <1>1, <1>3 DEF Access, Places
  <2>2. ReadBegin(memCall.addr, 1) \/ WriteBegin(memCall.addr, 1)
    BY <1>3 DEF Access
  <2> QED
    BY <2>1, <2>2 DEF Next
<1>4. CASE Copy
  BY <1>4 DEF Copy, Next
<1>5. CASE Finish
  BY <1>5 DEF Finish, Next
<1>6. ASSUME NEW fn \in Fns, NEW addr \in Addrs, CallReg(fn, addr)
      PROVE  [Next]_vars
  BY <1>6 DEF CallReg
<1>7. CASE Restart \/ Environment
  BY <1>7 DEF Next
<1>8. CASE UNCHANGED allVars
  BY <1>8 DEF allVars
<1> QED
  BY <1>2, <1>3, <1>4, <1>5, <1>6, <1>7, <1>8 DEF RwNext, RwStep

\* What backs a call stays as long as the handle, its mappings and the call do.
LEMMA BackedStays ==
  ASSUME Backed, UNCHANGED <<handle, map, opened>>,
         memCall'.addr = memCall.addr, memCall'.fn = memCall.fn
  PROVE  Backed'
  BY DEF Backed, Covers, Elements

\* A read or a write that find_range gave a range and nothing refused is backed.
LEMMA AccessBacked ==
  ASSUME IInv, IInv', memCall \in Calls, memCall' = [memCall EXCEPT !.at = "copy"],
         handle = "valid", UNCHANGED <<handle, opened>>,
         NEW i \in FirstHit(memCall.addr, memCall.fn = "putReg"),
         ~Refused(first[i], memCall.addr, 1)
  PROVE  Backed'
<1> DEFINE r == first[i]
           addr == memCall.addr
<1>1. /\ i \in DOMAIN first /\ addr % 4 = 0 /\ Covers(r, addr, memCall.fn = "putReg")
      /\ r \in map' /\ InRange(r, addr, 1)
  BY DEF FirstHit, Hits, Refused
<1>2. memCall'.addr = addr /\ memCall'.fn = memCall.fn
  BY DEF Calls
<1>3. r \in Elements(opened)
  BY <1>1 DEF IInv, RangesKept, Elements
<1>4. r \in Ranges /\ Start[r] % PageSize = 0
  BY <1>1 DEF IInv, TypeOK, MapsAligned
<1>5. AddrMod \in Nat \ {0} /\ addr \in 0..(AddrMod - 1) /\ Start[r] \in Nat /\ End[r] \in Nat
  BY <1>4, MemsvcAssumption DEF Calls
<1>6. addr + 3 < Start[r] + MapLen(r)
  <2>1. Start[r] <= addr /\ addr <= End[r]
    BY <1>1 DEF Covers
  <2> QED
    BY <1>1, <1>4, <1>5, <2>1, WordInside
<1>7. addr + 3 <= End[r] \/ addr + 4 >= AddrMod
  <2>1. (addr + 4) % AddrMod <= End[r]
    BY <1>1 DEF InRange
  <2> HIDE DEF addr, r
  <2>2. addr + 4 < AddrMod => (addr + 4) % AddrMod = addr + 4
    BY <1>5
  <2> QED
    BY <1>5, <2>1, <2>2
<1> HIDE DEF r, addr
<1>8. /\ r \in map' \cap Elements(opened')
      /\ Covers(r, memCall'.addr, memCall'.fn = "putReg")
      /\ memCall'.addr + 3 <= End[r] \/ memCall'.addr + 4 >= AddrMod
      /\ memCall'.addr + 3 < Start[r] + MapLen(r)
  BY <1>1, <1>2, <1>3, <1>6, <1>7
<1> QED
  BY <1>8 DEF Backed, Covers, Elements, MapLen

\* memsvc_read or memsvc_write begins: the call is refused, or it is backed.
LEMMA AccessBegins ==
  ASSUME RwIInv, IInv', Access
  PROVE  CallInLibrary'
<1>1. /\ memCall \in Calls /\ At("access") /\ memCall' = [memCall EXCEPT !.at = "copy"]
      /\ job = Idle
  BY DEF RwIInv, CallInLibrary, Access, GoTo, At
<1>2. IInv
  BY DEF RwIInv
<1>3. memCall' \in Calls /\ memCall' # NoCall /\ memCall'.at = "copy" /\ At("copy")'
  BY <1>1 DEF Calls, Places, NoCall, At
<1>4. job' \in Jobs \cup {Idle, Dead}
  BY DEF IInv, TypeOK
<1>5. CASE job' = Idle /\ ret' = "fail"
  BY <1>3, <1>5 DEF CallInLibrary
<1>6. CASE job' \in Jobs /\ Backed'
  BY <1>3, <1>6 DEF CallInLibrary
<1>7. CASE memCall.fn = "getReg" /\ ReadBegin(memCall.addr, 1)
  <2>1. UNCHANGED <<handle, opened>>
    BY <1>7 DEF ReadBegin
  <2>2. CASE Fail(TRUE) \/ Fail(FALSE)
    BY <1>1, <1>5, <2>2 DEF Fail, Return
  <2>3. ASSUME NEW i \in FirstHit(memCall.addr, FALSE), handle = "valid",
               ~Refused(first[i], memCall.addr, 1),
               job' = [op |-> "read", range |-> first[i], addr |-> memCall.addr, left |-> 1]
        PROVE  CallInLibrary'
    <3>1. i \in FirstHit(memCall.addr, memCall.fn = "putReg")
      BY <1>7
    <3>2. Backed'
      BY <1>1, <1>2, <2>1, <2>3, <3>1, AccessBacked
    <3>3. job' \in Jobs
      BY <1>4, <2>3 DEF Idle, Dead
    <3> QED
      BY <1>6, <3>2, <3>3
  <2> QED
    BY <1>7, <2>2, <2>3 DEF ReadBegin
<1>8. CASE memCall.fn = "putReg" /\ WriteBegin(memCall.addr, 1)
  <2>1. UNCHANGED <<handle, opened>>
    BY <1>8 DEF WriteBegin
  <2>2. CASE Fail(TRUE)
    BY <1>1, <1>5, <2>2 DEF Fail, Return
  <2>3. ASSUME NEW i \in FirstHit(memCall.addr, TRUE), handle = "valid",
               ~Refused(first[i], memCall.addr, 1),
               job' = [op |-> "write", range |-> first[i], addr |-> memCall.addr, left |-> 1]
        PROVE  CallInLibrary'
    <3>1. i \in FirstHit(memCall.addr, memCall.fn = "putReg")
      BY <1>8
    <3>2. Backed'
      BY <1>1, <1>2, <2>1, <2>3, <3>1, AccessBacked
    <3>3. job' \in Jobs
      BY <1>4, <2>3 DEF Idle, Dead
    <3> QED
      BY <1>6, <3>2, <3>3
  <2> QED
    BY <1>8, <2>2, <2>3 DEF WriteBegin
<1> QED
  BY <1>7, <1>8 DEF Access

-----------------------------------------------------------------------------
(* The invariant *)

LEMMA RwInitInductive == RwInit => RwIInv
<1> SUFFICES ASSUME RwInit PROVE RwIInv
  OBVIOUS
<1>1. IInv
  BY InitInductive DEF RwInit
<1>2. CallInLibrary
  BY DEF RwInit, Init, CallInLibrary, At
<1> QED
  BY <1>1, <1>2 DEF RwIInv

\* Every step of getReg and putReg, and of their environment, keeps the invariant.
LEMMA RwNextInductive == RwIInv /\ [RwNext]_allVars => RwIInv'
<1> SUFFICES ASSUME RwIInv, [RwNext]_allVars PROVE RwIInv'
  OBVIOUS
<1>1. IInv /\ CallInLibrary /\ memCall \in Calls \cup {NoCall}
  BY DEF RwIInv, CallInLibrary
<1>2. IInv'
  BY <1>1, StepsOfLibrary, NextInductive
<1>3. SUFFICES CallInLibrary'
  BY <1>2 DEF RwIInv
<1>4. CASE OpenHandle
  <2>1. memCall \in Calls /\ memCall # NoCall /\ memCall.at = "open" /\ job = Idle
    BY <1>1, <1>4 DEF OpenHandle, At, CallInLibrary
  <2>2. job' = Idle
    BY <1>4, <2>1 DEF OpenHandle, Open, vars
  <2>3. CASE GoTo("access")
    <3>1. memCall' \in Calls /\ memCall' # NoCall /\ memCall'.at = "access"
      BY <2>1, <2>3 DEF GoTo, Calls, Places, NoCall
    <3> QED
      BY <2>2, <3>1 DEF CallInLibrary, At
  <2>4. CASE memCall' = NoCall
    BY <2>2, <2>4 DEF CallInLibrary, At
  <2> QED
    BY <1>4, <2>3, <2>4 DEF OpenHandle, RwReturn
<1>5. CASE Access
  BY <1>2, <1>5, AccessBegins
<1>6. CASE Copy
  <2>1. /\ memCall \in Calls /\ memCall # NoCall /\ memCall.at = "copy" /\ At("copy")
        /\ job \in Jobs /\ Backed
    <3>1. At("copy") /\ (CopyWord \/ CopyDone \/ BusError)
      BY <1>6 DEF Copy
    <3>2. job.op \in {"read", "write"}
      BY <3>1 DEF CopyWord, CopyDone, BusError
    <3>3. job # Idle
      BY <3>2 DEF Idle
    <3> QED
      BY <1>1, <3>1, <3>3 DEF At, CallInLibrary
  <2>2. CASE CopyWord /\ UNCHANGED rwVars
    <3>1. UNCHANGED <<handle, map, opened, memCall>>
      BY <2>2 DEF CopyWord, handleVars, rwVars
    <3>2. job' \in Jobs
      BY <1>2, <2>1, <2>2 DEF CopyWord, IInv, TypeOK, Jobs, Idle, Dead
    <3> QED
      BY <2>1, <3>1, <3>2, BackedStays DEF CallInLibrary, At
  <2>3. CASE CopyDone /\ UNCHANGED rwVars
    <3>1. UNCHANGED <<handle, map, opened, memCall>> /\ job' = Idle /\ ret' = "ok"
      BY <2>3 DEF CopyDone, handleVars, rwVars, Return
    <3> QED
      BY <2>1, <3>1, BackedStays DEF CallInLibrary, At
  <2>4. CASE BusError /\ IF job' = Dead THEN RwReturn("none") ELSE UNCHANGED rwVars
    <3>1. CASE job' = Dead
      <4>1. memCall' = NoCall
        BY <2>4, <3>1 DEF RwReturn
      <4> QED
        BY <3>1, <4>1 DEF CallInLibrary, At
    <3>2. CASE job' # Dead
      <4>1. memCall' = memCall /\ job' = Idle /\ ret' = "fail"
        BY <2>4, <3>2 DEF BusError, ProcessDies, Return, rwVars
      <4> QED
        BY <2>1, <4>1 DEF CallInLibrary, At
    <3> QED
      BY <3>1, <3>2
  <2> QED
    BY <1>6, <2>2, <2>3, <2>4 DEF Copy
<1>7. CASE Finish
  <2>1. memCall' = NoCall
    BY <1>7 DEF Finish, RwReturn
  <2>2. job' = Idle
    BY <1>7 DEF Finish, Close, vars
  <2> QED
    BY <2>1, <2>2 DEF CallInLibrary, At
<1>8. ASSUME NEW fn \in Fns, NEW addr \in Addrs, CallReg(fn, addr)
      PROVE  CallInLibrary'
  <2>1. memCall' = [fn |-> fn, addr |-> addr, at |-> "open"] /\ job' = Idle
    BY <1>8 DEF CallReg, vars
  <2>2. memCall' \in Calls /\ memCall'.at = "open" /\ memCall' # NoCall
    BY <2>1, RwRegAssumption DEF Calls, Places, NoCall
  <2> QED
    BY <2>1, <2>2 DEF CallInLibrary, At
<1>9. CASE Restart /\ UNCHANGED rwVars
  <2>1. memCall' = memCall /\ job = Dead /\ job' = Idle
    BY <1>9 DEF Restart, rwVars
  <2>2. memCall = NoCall
    BY <1>1, <2>1 DEF CallInLibrary, At, Jobs, Idle, Dead, Calls, Places
  <2> QED
    BY <2>1, <2>2 DEF CallInLibrary, At
<1>10. CASE (Environment /\ UNCHANGED rwVars) \/ UNCHANGED allVars
  <2>1. UNCHANGED <<memCall, job, ret, handle, map, opened>>
    BY <1>10 DEF Environment, rwVars, allVars, vars, handleVars
  <2>2. Backed => Backed'
    BY <2>1, BackedStays
  <2> QED
    BY <1>1, <2>1, <2>2 DEF CallInLibrary, At
<1> QED
  BY <1>4, <1>5, <1>6, <1>7, <1>8, <1>9, <1>10 DEF RwNext, RwStep

-----------------------------------------------------------------------------
(* The theorems *)

\* The invariant holds in every state of a program that calls getReg and putReg.
LEMMA RwInductive == RwSpec => []RwIInv
  BY RwInitInductive, RwNextInductive, PTL DEF RwSpec

\* getReg and putReg use libmemsvc as its callers may: they never open a handle
\* twice, close one in a call or begin an access with none.  So whatever holds of
\* every behaviour of the library holds for them.
THEOREM LibraryUsed == RwSpec => Spec
<1>1. RwInit => Init
  BY DEF RwInit
<1>2. RwIInv /\ [RwNext]_allVars => [Next]_vars
  BY StepsOfLibrary DEF RwIInv, CallInLibrary
<1> QED
  BY <1>1, <1>2, RwInductive, PTL DEF RwSpec, Spec

\* No copy loop that getReg or putReg starts leaves its mapping.
THEOREM RwAccessSafe == RwSpec => []AccessInside
  BY LibraryUsed, AccessSafe, PTL

\* getReg and putReg return a value only when their word went over the bus, through
\* an accepted handle and a mapped range that covers it.
THEOREM ValueSafe == RwSpec => ValueFromBus
<1>1. RwIInv /\ [RwNext]_allVars => [out # "value" /\ out' = "value" => Backed]_allVars
  <2> SUFFICES ASSUME RwIInv, RwNext, out # "value", out' = "value"
               PROVE  Backed
    BY DEF allVars
  <2>1. CASE Finish
    <3>1. At("copy") /\ job = Idle /\ ret = "ok"
      BY <2>1 DEF Finish, RwReturn
    <3>2. job \notin Jobs
      BY <3>1 DEF Jobs, Idle
    <3> QED
      BY <3>1, <3>2 DEF RwIInv, CallInLibrary
  <2>2. CASE OpenHandle
    BY <2>2 DEF OpenHandle, GoTo, RwReturn
  <2>3. CASE Access \/ Copy
    BY <2>3 DEF Access, Copy, GoTo, RwReturn, rwVars
  <2>4. ASSUME NEW fn \in Fns, NEW addr \in Addrs, CallReg(fn, addr) PROVE Backed
    BY <2>4 DEF CallReg
  <2>5. CASE UNCHANGED rwVars
    BY <2>5 DEF rwVars
  <2> QED
    BY <2>1, <2>2, <2>3, <2>4, <2>5 DEF RwNext, RwStep
<1> QED
  BY <1>1, RwInductive, PTL DEF RwSpec, ValueFromBus
=============================================================================
