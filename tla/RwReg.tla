-------------------------------- MODULE RwReg ---------------------------------
(***************************************************************************)
(* librwreg (xcompile/lib_rw_ctp7/rwreg.cc): getReg and putReg, the single  *)
(* word accesses of the command line tools.  They share one static handle,  *)
(* opened on demand.  getReg closes the handle after a failed access, so    *)
(* that the next call opens a new one; putReg does not.                     *)
(*                                                                         *)
(* A call is a sequence of calls of libmemsvc; the environment of Memsvc    *)
(* may change between any two of them.                                      *)
(***************************************************************************)
EXTENDS Memsvc

CONSTANT Fns    \* the functions the program calls: getReg, putReg or both

ASSUME RwRegAssumption ==
  /\ Fns \subseteq {"getReg", "putReg"}
  /\ 1 \in Counts

VARIABLES
  memCall,   \* the call in progress: function, address and where it is
  out        \* what the last call returned: a value or an error code

rwVars == <<memCall, out>>
allVars == <<vars, rwVars>>

NoCall == [fn |-> "none"]

RwInit ==
  /\ Init
  /\ memCall = NoCall
  /\ out = "none"

At(place) == memCall # NoCall /\ memCall.at = place

GoTo(place) ==
  /\ memCall' = [memCall EXCEPT !.at = place]
  /\ UNCHANGED out

RwReturn(value) ==
  /\ memCall' = NoCall
  /\ out' = value

CallReg(fn, addr) ==
  /\ memCall = NoCall
  /\ job = Idle
  /\ memCall' = [fn |-> fn, addr |-> addr, at |-> "open"]
  /\ out' = "none"
  /\ UNCHANGED vars

\* if (memHandle == NULL) memsvc_open(&memHandle): a failure is returned at once
\* and the invalid handle stays in memHandle.
OpenHandle ==
  /\ At("open")
  /\ \/ /\ handle # "null"
        /\ GoTo("access")
        /\ UNCHANGED vars
     \/ /\ handle = "null"
        /\ Open
        /\ \/ ret' = "ok" /\ GoTo("access")
           \/ ret' = "fail" /\ RwReturn(IF memCall.fn = "getReg" THEN "0xfefe" ELSE "4")

\* memsvc_read (through getData) or memsvc_write of one word.
Access ==
  /\ At("access")
  /\ \/ memCall.fn = "getReg" /\ ReadBegin(memCall.addr, 1)
     \/ memCall.fn = "putReg" /\ WriteBegin(memCall.addr, 1)
  /\ GoTo("copy")

Copy ==
  /\ At("copy")
  /\ \/ CopyWord /\ UNCHANGED rwVars
     \/ CopyDone /\ UNCHANGED rwVars
     \/ BusError /\ IF job' = Dead THEN RwReturn("none") ELSE UNCHANGED rwVars

\* Mutant: getReg gives up like putReg and keeps the handle.
FinishKeepingHandle ==
  /\ At("copy")
  /\ job = Idle
  /\ \/ ret = "ok" /\ RwReturn("value")
     \/ ret = "fail" /\ RwReturn("0xdeaddead")
  /\ UNCHANGED vars

\* Mutant: the result of the access is not tested.
FinishUnchecked ==
  /\ At("copy")
  /\ job = Idle
  /\ RwReturn("value")
  /\ UNCHANGED vars

\* The value, or after a failure 0xdeaddead: getReg closes the handle first.
Finish ==
  /\ At("copy")
  /\ job = Idle
  /\ \/ ret = "ok" /\ RwReturn("value") /\ UNCHANGED vars
     \/ /\ ret = "fail"
        /\ RwReturn("0xdeaddead")
        /\ \/ memCall.fn = "getReg" /\ Close
           \/ memCall.fn = "putReg" /\ UNCHANGED vars

RwStep == OpenHandle \/ Access \/ Copy \/ Finish

RwNext ==
  \/ RwStep
  \/ \E fn \in Fns, addr \in Addrs : CallReg(fn, addr)
  \/ (Restart \/ Environment) /\ UNCHANGED rwVars

\* A call that was started runs on.
RwSpec == RwInit /\ [][RwNext]_allVars /\ WF_allVars(RwStep)

-----------------------------------------------------------------------------
(* Properties *)

Healthy == service /\ ConfigOk(config) /\ memory /\ bridge

\* Every range of the configuration file that covers the address can serve it.
Served(fn, addr) ==
  LET covering == {r \in Elements(config) : r \in Ranges /\ Covers(r, addr, fn = "putReg")}
  IN  /\ addr % 4 = 0
      /\ covering # {}
      /\ \A r \in covering : /\ InRange(r, addr, 1)
                             /\ Start[r] % PageSize = 0
                             /\ fn = "getReg" => Start[r] # 0

\* The environment ends up, and stays, in order with one configuration file.
Settles(c) == <>[](Healthy /\ config = c)

\* Once the service, the configuration file, the memory and the bridge stay in
\* order, a program that keeps reading a register the file covers gets values
\* again, whatever failed before: a dead service, a bad or since replaced file, a
\* failed mmap, a bus error.
GetRegRecovers ==
  \A c \in Configs :
    /\ Settles(c)
    /\ []<>(memCall.fn = "getReg" /\ Served("getReg", memCall.addr))
    => []<>(out = "value")

\* The same of putReg, as libmemsvc.h asks of callers: the handle of a failed
\* memsvc_open must be freed with memsvc_close.
PutRegRecovers ==
  \A c \in Configs :
    /\ Settles(c)
    /\ []<>(memCall.fn = "putReg" /\ Served("putReg", memCall.addr))
    => []<>(out = "value")

\* The handle was accepted by memsvc_open and has a mapped range that covers the
\* address of the call.  Its word ends inside the range, unless the end of the
\* block wraps around 32 bits, and inside the mapping in any case.
Backed ==
  /\ handle = "valid"
  /\ \E r \in map \cap Elements(opened) :
       /\ Covers(r, memCall.addr, memCall.fn = "putReg")
       /\ memCall.addr + 3 <= End[r] \/ memCall.addr + 4 >= AddrMod
       /\ memCall.addr + 3 < Start[r] + MapLen(r)

\* A call returns a value only when its word went over the bus: through a handle
\* that memsvc_open accepted and a mapped range that covers the word.
ValueFromBus ==
  [][out # "value" /\ out' = "value" => Backed]_allVars

Places == {"open", "access", "copy"}
Calls == [fn : {"getReg", "putReg"}, addr : Addrs, at : Places]

\* Where the call is in libmemsvc: outside it until the access, and behind a
\* successful access only with a mapping that backs it.
CallInLibrary ==
  /\ memCall \in Calls \cup {NoCall}
  /\ memCall = NoCall => job \in {Idle, Dead}
  /\ memCall # NoCall => (memCall.at # "copy" => job = Idle)
  /\ At("copy") =>
       \/ job \in Jobs /\ Backed
       \/ job = Idle /\ ret = "fail"
       \/ job = Idle /\ ret = "ok" /\ Backed

\* The inductive invariant behind ValueFromBus.
RwIInv == IInv /\ CallInLibrary
=============================================================================
