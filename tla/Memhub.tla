-------------------------------- MODULE Memhub --------------------------------
(***************************************************************************)
(* The memhub library (xcompile/memhub/memhub.cpp): a wrapper around        *)
(* libmemsvc through which the processes of one card (the IPbus server, the *)
(* register tools) take turns at the memory bus.  The turn is one POSIX     *)
(* semaphore shared by all processes; a per-process flag "busy" tells the   *)
(* signal handler die() whether the dying process has to give it back.      *)
(*                                                                         *)
(* Each statement of memhub_read / memhub_write that touches shared state   *)
(* is an action, since a signal or another process may come in between.     *)
(* The register is accessed once per word, always at the same address, as   *)
(* libmemsvc does.  A process may be restarted after it ended.              *)
(***************************************************************************)
EXTENDS Naturals

CONSTANTS
  Procs,        \* the processes that link memhub
  Values,       \* the values of a register word
  Words,        \* the number of words of one memhub_read or memhub_write
  MaxSignals,   \* bound: fatal signals that die() handles
  MaxKills,     \* bound: fatal signals no handler is installed for (SIGKILL...)
  BusFaults     \* whether the bus may answer an access with SIGBUS

ASSUME MemhubAssumption ==
  /\ Values # {}
  /\ Words \in Nat \ {0}
  /\ MaxSignals \in Nat
  /\ MaxKills \in Nat
  /\ BusFaults \in BOOLEAN

SEM_INIT == 1

VARIABLES
  sem,      \* the value of the semaphore "/memhub"
  reg,      \* the register on the bus
  pc,       \* what each process executes next
  busy,     \* the static flag busy of each process
  op,       \* the transaction of each process: "read" or "write"
  data,     \* the words a write still holds in its argument array
  word,     \* the loop counter of memsvc_read / memsvc_write
  got,      \* the values a read found, word after word
  sigbus,   \* the SIGBUS handler of libmemsvc is installed in this process
  nsig,     \* number of handled signals so far
  nkill,    \* number of unhandled signals so far
  exposed   \* history: a fatal signal struck where die() cannot repair it

accessVars == <<op, data, word, got>>
faultVars == <<nsig, nkill, exposed>>
vars == <<sem, reg, pc, busy, op, data, word, got, sigbus, nsig, nkill, exposed>>

(***************************************************************************)
(* Program points.  "off": not running.  "open": before sem_open.           *)
(* "install": the semaphore is open, the handlers are not yet in place.     *)
(* "idle": between two calls.  "wait" .. "clearbusy": the statements of     *)
(* memhub_read / memhub_write.  "die" .. "dieexit": the ones of die().      *)
(***************************************************************************)
OutsidePoints == {"off", "open", "install", "idle", "wait"}
HoldingPoints == {"setbusy", "access", "post"}
DiePoints == {"die", "diepost", "dieexit"}
Points == OutsidePoints \cup HoldingPoints \cup {"clearbusy"} \cup DiePoints

Blocks == [1..Words -> Values]

\* The argument array of a process that is not inside a call.
NoBlock == [i \in 1..Words |-> CHOOSE v \in Values : TRUE]

\* The processes that took the semaphore and still owe a sem_post.
Holders ==
  {p \in Procs : \/ pc[p] \in HoldingPoints
                 \/ pc[p] \in {"die", "diepost"} /\ busy[p]}

Init ==
  /\ sem = SEM_INIT
  /\ reg \in Values
  /\ pc = [p \in Procs |-> "off"]
  /\ busy = [p \in Procs |-> FALSE]
  /\ op = [p \in Procs |-> "read"]
  /\ data = [p \in Procs |-> NoBlock]
  /\ word = [p \in Procs |-> 0]
  /\ got = [p \in Procs |-> {}]
  /\ sigbus = [p \in Procs |-> FALSE]
  /\ nsig = 0
  /\ nkill = 0
  /\ exposed = FALSE

-----------------------------------------------------------------------------
(* memhub_open and memhub_close *)

Goto(p, from, to) ==
  /\ pc[p] = from
  /\ pc' = [pc EXCEPT ![p] = to]

\* The arguments and locals of a call are gone when it returns.
ForgetCall(p) ==
  /\ op' = [op EXCEPT ![p] = "read"]
  /\ data' = [data EXCEPT ![p] = NoBlock]
  /\ word' = [word EXCEPT ![p] = 0]
  /\ got' = [got EXCEPT ![p] = {}]

\* The process image disappears with all its variables; the semaphore keeps
\* its value.
End(p) ==
  /\ pc' = [pc EXCEPT ![p] = "off"]
  /\ busy' = [busy EXCEPT ![p] = FALSE]
  /\ sigbus' = [sigbus EXCEPT ![p] = FALSE]
  /\ ForgetCall(p)
  /\ UNCHANGED <<sem, reg>>

Start(p) ==
  /\ Goto(p, "off", "open")
  /\ UNCHANGED <<sem, reg, busy, accessVars, sigbus, faultVars>>

\* sem_open and sem_getvalue; a value above 1 makes the process exit.
OpenSem(p) ==
  \/ /\ sem <= 1
     /\ Goto(p, "open", "install")
     /\ UNCHANGED <<sem, reg, busy, accessVars, sigbus, faultVars>>
  \/ /\ sem > 1
     /\ pc[p] = "open"
     /\ End(p)
     /\ UNCHANGED faultVars

\* The handlers are installed and memsvc_open runs: the callers exit when it
\* returns -1.
OpenSvc(p) ==
  \/ /\ Goto(p, "install", "idle")
     /\ UNCHANGED <<sem, reg, busy, accessVars, sigbus, faultVars>>
  \/ /\ pc[p] = "install"
     /\ End(p)
     /\ UNCHANGED faultVars

\* memhub_close, after which the callers end.
Close(p) ==
  /\ pc[p] = "idle"
  /\ End(p)
  /\ UNCHANGED faultVars

-----------------------------------------------------------------------------
(* memhub_read and memhub_write, statement by statement *)

Call(p) ==
  /\ Goto(p, "idle", "wait")
  /\ \/ UNCHANGED <<op, data>>
     \/ /\ op' = [op EXCEPT ![p] = "write"]
        /\ \E d \in Blocks : data' = [data EXCEPT ![p] = d]
  /\ UNCHANGED <<sem, reg, busy, word, got, sigbus, faultVars>>

\* Mutant: sem_trywait, its result ignored.
SemTryWait(p) ==
  /\ Goto(p, "wait", "setbusy")
  /\ sem' = IF sem > 0 THEN sem - 1 ELSE 0
  /\ UNCHANGED <<reg, busy, accessVars, sigbus, faultVars>>

SemWait(p) ==
  /\ Goto(p, "wait", "setbusy")
  /\ sem > 0
  /\ sem' = sem - 1
  /\ UNCHANGED <<reg, busy, accessVars, sigbus, faultVars>>

\* Mutant: the semaphore is given back before the access.
SetBusyAndPost(p) ==
  /\ Goto(p, "setbusy", "access")
  /\ busy' = [busy EXCEPT ![p] = TRUE]
  /\ sem' = sem + 1
  /\ UNCHANGED <<reg, accessVars, sigbus, faultVars>>

SetBusy(p) ==
  /\ Goto(p, "setbusy", "access")
  /\ busy' = [busy EXCEPT ![p] = TRUE]
  /\ UNCHANGED <<sem, reg, accessVars, sigbus, faultVars>>

\* Mutant: the copy loop runs one turn too far.
ReadWordPastEnd(p) ==
  /\ pc[p] = "access"
  /\ op[p] = "read"
  /\ word[p] <= Words
  /\ got' = [got EXCEPT ![p] = @ \cup {reg}]
  /\ word' = [word EXCEPT ![p] = @ + 1]
  /\ sigbus' = [sigbus EXCEPT ![p] = TRUE]
  /\ UNCHANGED <<sem, reg, pc, busy, op, data, faultVars>>

\* One turn of the copy loop of memsvc_read, which first installs the SIGBUS
\* handler.
ReadWord(p) ==
  /\ pc[p] = "access"
  /\ op[p] = "read"
  /\ word[p] < Words
  /\ got' = [got EXCEPT ![p] = @ \cup {reg}]
  /\ word' = [word EXCEPT ![p] = @ + 1]
  /\ sigbus' = [sigbus EXCEPT ![p] = TRUE]
  /\ UNCHANGED <<sem, reg, pc, busy, op, data, faultVars>>

\* Mutant: the loop never advances in the argument array.
WriteFirstWord(p) ==
  /\ pc[p] = "access"
  /\ op[p] = "write"
  /\ word[p] < Words
  /\ reg' = data[p][1]
  /\ word' = [word EXCEPT ![p] = @ + 1]
  /\ UNCHANGED <<sem, pc, busy, op, data, got, sigbus, faultVars>>

\* One turn of the copy loop of memsvc_write.
WriteWord(p) ==
  /\ pc[p] = "access"
  /\ op[p] = "write"
  /\ word[p] < Words
  /\ reg' = data[p][word[p] + 1]
  /\ word' = [word EXCEPT ![p] = @ + 1]
  /\ UNCHANGED <<sem, pc, busy, op, data, got, sigbus, faultVars>>

\* Mutant: a failed access returns at once, without sem_post.
AccessReturnEarly(p) ==
  /\ Goto(p, "access", IF word[p] = 0 THEN "clearbusy" ELSE "post")
  /\ word[p] \in {0, Words}
  /\ UNCHANGED <<sem, reg, busy, accessVars, sigbus, faultVars>>

\* memsvc_read / memsvc_write return: with 0 after the last word, or with -1
\* before the first one when the handle or the address is refused.
AccessReturn(p) ==
  /\ Goto(p, "access", "post")
  /\ word[p] \in {0, Words}
  /\ UNCHANGED <<sem, reg, busy, accessVars, sigbus, faultVars>>

\* The bus answers an access with SIGBUS.  memsvc_read jumps out and returns
\* -1.  memsvc_write has no handler of its own: without an earlier read the
\* process is killed on the spot; after one, it jumps into the frame of a
\* memsvc_read that has returned, and either carries on as if the call had
\* returned -1 or dies of SIGSEGV.
BusError(p) ==
  /\ BusFaults
  /\ pc[p] = "access"
  /\ word[p] < Words
  /\ \/ /\ op[p] = "read"
        /\ pc' = [pc EXCEPT ![p] = "post"]
        /\ sigbus' = [sigbus EXCEPT ![p] = TRUE]
        /\ UNCHANGED <<sem, reg, busy, accessVars, exposed>>
     \/ /\ op[p] = "write"
        /\ sigbus[p]
        /\ \E to \in {"post", "die"} : pc' = [pc EXCEPT ![p] = to]
        /\ UNCHANGED <<sem, reg, busy, accessVars, sigbus, exposed>>
     \/ /\ op[p] = "write"
        /\ ~sigbus[p]
        /\ End(p)
        /\ exposed' = TRUE
  /\ UNCHANGED <<nsig, nkill>>

SemPost(p) ==
  /\ Goto(p, "post", "clearbusy")
  /\ sem' = sem + 1
  /\ UNCHANGED <<reg, busy, accessVars, sigbus, faultVars>>

ClearBusy(p) ==
  /\ Goto(p, "clearbusy", "idle")
  /\ busy' = [busy EXCEPT ![p] = FALSE]
  /\ ForgetCall(p)
  /\ UNCHANGED <<sem, reg, sigbus, faultVars>>

-----------------------------------------------------------------------------
(* Fatal signals and die() *)

\* Where a handled signal makes die() give back nothing although the permit is
\* held, or leaves it free to give back a permit that is not its own.
Exposed(p) ==
  \/ pc[p] \in {"setbusy", "clearbusy"}
  \/ pc[p] = "dieexit" /\ busy[p]

\* SIGABRT, SIGFPE, SIGILL, SIGINT, SIGSEGV or SIGTERM: die() is entered, from
\* die() itself too when a second, different signal arrives.
Signal(p) ==
  /\ nsig < MaxSignals
  /\ pc[p] \notin {"off", "open", "install"}
  /\ pc' = [pc EXCEPT ![p] = "die"]
  /\ nsig' = nsig + 1
  /\ exposed' = (exposed \/ Exposed(p))
  /\ UNCHANGED <<sem, reg, busy, accessVars, sigbus, nkill>>

\* SIGKILL, or any signal without a handler: the process is gone.
Kill(p) ==
  /\ nkill < MaxKills
  /\ pc[p] # "off"
  /\ End(p)
  /\ nkill' = nkill + 1
  /\ exposed' = (exposed \/ p \in Holders)
  /\ UNCHANGED nsig

\* Mutant: die() posts whenever the semaphore is taken, by whomever.
DieGetValueOnly(p) ==
  /\ Goto(p, "die", IF sem = 0 THEN "diepost" ELSE "dieexit")
  /\ UNCHANGED <<sem, reg, busy, accessVars, sigbus, faultVars>>

\* sem_getvalue, and the test that decides whether to post.
DieGetValue(p) ==
  /\ Goto(p, "die", IF busy[p] /\ sem = 0 THEN "diepost" ELSE "dieexit")
  /\ UNCHANGED <<sem, reg, busy, accessVars, sigbus, faultVars>>

DiePost(p) ==
  /\ Goto(p, "diepost", "dieexit")
  /\ sem' = sem + 1
  /\ UNCHANGED <<reg, busy, accessVars, sigbus, faultVars>>

DieExit(p) ==
  /\ pc[p] = "dieexit"
  /\ End(p)
  /\ UNCHANGED faultVars

-----------------------------------------------------------------------------
\* The steps a running process takes by itself.
Step(p) ==
  \/ OpenSem(p) \/ OpenSvc(p)
  \/ SemWait(p) \/ SetBusy(p)
  \/ ReadWord(p) \/ WriteWord(p) \/ AccessReturn(p)
  \/ SemPost(p) \/ ClearBusy(p)
  \/ DieGetValue(p) \/ DiePost(p) \/ DieExit(p)

\* What the user, the bus and the operating system decide.
Environment(p) ==
  \/ Start(p) \/ Call(p) \/ Close(p)
  \/ BusError(p) \/ Signal(p) \/ Kill(p)

Next == \E p \in Procs : Step(p) \/ Environment(p)

Spec == Init /\ [][Next]_vars

\* Every runnable process is scheduled.  Which waiter sem_wait wakes up is not
\* fixed: no strong fairness.
FairSpec == Spec /\ \A p \in Procs : WF_vars(Step(p))

-----------------------------------------------------------------------------
(* Properties *)

TypeOK ==
  /\ sem \in Nat
  /\ reg \in Values
  /\ pc \in [Procs -> Points]
  /\ busy \in [Procs -> BOOLEAN]
  /\ op \in [Procs -> {"read", "write"}]
  /\ data \in [Procs -> Blocks]
  /\ word \in [Procs -> 0..Words]
  /\ got \in [Procs -> SUBSET Values]
  /\ sigbus \in [Procs -> BOOLEAN]
  /\ nsig \in Nat
  /\ nkill \in Nat
  /\ exposed \in BOOLEAN

\* As long as no fatal signal struck at an exposed point, the semaphore and
\* the processes that owe a sem_post add up to one permit: no signal that die()
\* handles, bus error or restart creates a second permit or loses the only one.
PermitConserved ==
  ~exposed =>
    /\ sem = IF Holders = {} THEN 1 ELSE 0
    /\ \A p, q \in Holders : p = q

\* The words of one memhub_read are samples of one register state: no other
\* process writes between two words of a block.
ReadUntorn ==
  ~exposed => \A p \in Procs :
    pc[p] \in {"access", "post"} => \A v, w \in got[p] : v = w

\* When memhub_write is about to give the bus free, the register holds the
\* last word it wrote.
WriteEffective ==
  ~exposed => \A p \in Procs :
    /\ pc[p] = "post"
    /\ op[p] = "write"
    /\ word[p] = Words
    => reg = data[p][Words]

\* A step changes the register only on behalf of the process that holds the
\* semaphore, and no two processes are inside the copy loop across the step.
RegisterGuarded ==
  [][reg' # reg /\ ~exposed =>
       \E p \in Procs : /\ pc[p] = "access"
                        /\ \A q \in Procs \ {p} : pc[q] \notin HoldingPoints]_vars

\* Outside a call and before its access nothing is left of an earlier call; a
\* write collects nothing.
CallFresh ==
  \A p \in Procs :
    /\ pc[p] \in OutsidePoints \cup {"setbusy"} => word[p] = 0 /\ got[p] = {}
    /\ op[p] = "write" => got[p] = {}

\* busy is raised exactly between SetBusy and ClearBusy: what die() relies on.
BusyAgrees ==
  ~exposed => \A p \in Procs :
    /\ pc[p] \in {"access", "post", "clearbusy", "diepost"} => busy[p]
    /\ pc[p] \in OutsidePoints \cup {"setbusy"} => ~busy[p]

\* What the process on the bus knows about the register.
AccessAgrees ==
  ~exposed => \A p \in Procs : pc[p] \in {"access", "post"} =>
    /\ \A v \in got[p] : v = reg
    /\ op[p] = "write" /\ word[p] > 0 => reg = data[p][word[p]]

\* The bus the processes see, as long as nothing was exposed: whoever owes a
\* sem_post owns it.
Bus ==
  INSTANCE RegisterBus WITH owner <- IF exposed THEN {} ELSE Holders,
                            seen <- got, intact <- ~exposed

\* The statements of memhub_read, memhub_write and die, interleaved and struck by
\* signals as they may be, implement whole transactions on a bus with one owner:
\* until a signal strikes at an exposed point, a dead owner's turn is given back
\* by its own die() and nobody else's turn ever is.
BusTransactions == Bus!Spec

\* The inductive invariant behind the safety properties.
IInv == TypeOK /\ CallFresh /\ BusyAgrees /\ PermitConserved /\ AccessAgrees

\* Waiting processes do not block each other for ever: some process gets the
\* semaphore, or all waiters are gone, unless the permit was lost at an exposed
\* point.
BusProgress ==
  (\E p \in Procs : pc[p] = "wait")
    ~> \/ exposed
       \/ \E p \in Procs : pc[p] = "setbusy"
       \/ \A p \in Procs : pc[p] # "wait"

\* What the comment above the signal() calls promises: once every process has
\* ended, however the handled signals struck, the semaphore is back.
PermitUndone ==
  (\A p \in Procs : pc[p] = "off") => sem = SEM_INIT
=============================================================================
