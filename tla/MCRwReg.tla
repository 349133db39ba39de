------------------------------- MODULE MCRwReg --------------------------------
(***************************************************************************)
(* An instance of RwReg for TLC, over the ranges and files of MCMemsvc.     *)
(* The process runs one of two kinds of program: one that calls libmemsvc   *)
(* itself, as memhub does, with blocks of any length and memsvc_close at    *)
(* any time; or one that calls getReg and putReg, which keep the handle to  *)
(* themselves.                                                              *)
(***************************************************************************)
EXTENDS RwReg, MCMemsvc

\* In place of a call of librwreg, in a program that does not use it.
Direct == [fn |-> "direct", at |-> "outside"]

ProgramInit ==
  /\ Init
  /\ memCall \in {NoCall, Direct}
  /\ out = "none"

ProgramNext ==
  \/ RwNext
  \/ memCall = Direct /\ Next /\ UNCHANGED rwVars

\* A call of getReg or putReg that was started runs on; libmemsvc by itself
\* promises nothing that needs fairness.
ProgramSpec == ProgramInit /\ [][ProgramNext]_allVars /\ WF_allVars(RwStep)
=============================================================================
