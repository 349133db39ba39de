----------------------------- MODULE RegisterBus ------------------------------
(***************************************************************************)
(* What memhub promises: a register on a bus that one process at a time     *)
(* owns for the length of a transaction.  The owner samples and stores the  *)
(* register as often as it likes, nobody else touches it, and what a        *)
(* transaction has sampled is dropped only after the bus was given free.    *)
(* The promise ends when the bus is damaged (a process died where its turn  *)
(* cannot be given back); after that anything may happen.                   *)
(***************************************************************************)
CONSTANTS Procs, Values

VARIABLES
  reg,      \* the register
  owner,    \* the process whose transaction is running, as a set
  seen,     \* the values each transaction sampled
  intact    \* no process has died on the bus so far

vars == <<reg, owner, seen, intact>>

Init ==
  /\ reg \in Values
  /\ owner = {}
  /\ seen = [p \in Procs |-> {}]
  /\ intact = TRUE

\* A transaction begins: the bus was free, nothing is left of the one before.
Acquire(p) ==
  /\ owner = {}
  /\ seen[p] = {}
  /\ owner' = {p}
  /\ UNCHANGED <<reg, seen, intact>>

Sample(p) ==
  /\ owner = {p}
  /\ seen' = [seen EXCEPT ![p] = @ \cup {reg}]
  /\ UNCHANGED <<reg, owner, intact>>

Store(p) ==
  /\ owner = {p}
  /\ \E v \in Values : reg' = v
  /\ UNCHANGED <<owner, seen, intact>>

Release(p) ==
  /\ owner = {p}
  /\ owner' = {}
  /\ UNCHANGED <<reg, seen, intact>>

\* The transaction, or its process, is over.
Forget(p) ==
  /\ p \notin owner
  /\ seen' = [seen EXCEPT ![p] = {}]
  /\ UNCHANGED <<reg, owner, intact>>

\* The owner is gone and nobody can give its turn back.
Damage ==
  /\ intact' = FALSE
  /\ owner' = {}
  /\ reg' \in Values
  /\ seen' \in [Procs -> SUBSET Values]

Next ==
  \/ intact /\ \E p \in Procs : Acquire(p) \/ Sample(p) \/ Store(p) \/ Release(p) \/ Forget(p)
  \/ Damage

Spec == Init /\ [][Next]_vars
=============================================================================
