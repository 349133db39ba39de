------------------------------- MODULE GbtUtils -------------------------------
(***************************************************************************)
(* The GBT tools of python/reg_interface_gem/core/gbt_utils_extended.py over *)
(* librpcman: configGBT, setPhase, setPhaseAllVFATs and setPhaseAllOHs write *)
(* to every GBT or VFAT of the optohybrids of a mask, gbtPhaseScan scans     *)
(* them and may append what it found to a file.                              *)
(*                                                                         *)
(* A tool is a process with one thread.  Its two nested loops are one        *)
(* counter k over the pairs of an optohybrid and an item: a configuration    *)
(* file, the phase of a VFAT, or the one scan.                               *)
(***************************************************************************)
EXTENDS RpcManager

CONSTANTS
  Jobs,     \* what a tool may be asked to do
  NOH       \* number of optohybrids of the card

\* name: the function.  ohs: the optohybrids of the mask.  listed: those the
\* dictionary of phases has a list for.  items: "good", or "bad" for a file that
\* cannot be used and for the phase 0xdeaddead.  output: a file was named.
\* narrow: nVFAT is less than 24.
ASSUME GbtAssumption ==
  /\ NOH \in Nat
  /\ \A j \in Jobs :
       /\ j.name \in {"configGBT", "gbtPhaseScan", "setPhase", "setPhaseAllVFATs",
                      "setPhaseAllOHs"}
       /\ j.ohs \subseteq 0..(NOH - 1)
       /\ j.items \in Seq({"good", "bad"})
       /\ j.name = "gbtPhaseScan" => Len(j.items) = 1
       /\ {j.output, j.narrow} \subseteq BOOLEAN

VARIABLES
  tool,     \* the run of each tool
  file      \* the output file: what it was, and the records appended to it

toolVars == <<tool, file>>

NoTool == [step |-> "none"]

\* written: the targets the card has written, a history.  results:
\* dict_phaseScanResults in the order in which it was filled, each with the
\* code the scan returned.
Fresh(job) == [job |-> job, step |-> "connect", k |-> 0, written |-> {}, results |-> <<>>]

ToolInit(tools) ==
  /\ \E job \in Jobs : tool = [t \in Threads |-> IF t \in tools THEN Fresh(job) ELSE NoTool]
  /\ \E was \in IF \E t \in tools : tool[t].job.output
                THEN {"new", "results", "foreign", "torn"} ELSE {"new"} :
       file = [was |-> was, rows |-> <<>>]

---------------------------------------------------------------------------
Items(job) == Len(job.items)
Targets(job) == 0..(NOH * Items(job) - 1)
OH(job, k) == k \div Items(job)
Item(job, k) == job.items[(k % Items(job)) + 1]

Method(job) ==
  CASE job.name = "configGBT" -> "writeGBTConfig"
    [] job.name = "gbtPhaseScan" -> "scanGBTPhases"
    [] OTHER -> "writeGBTPhase"

\* Optohybrids that are masked, and bad phases, are passed over.
Skipped(job, k) ==
  \/ OH(job, k) \notin job.ohs
  \/ /\ job.name \in {"setPhaseAllVFATs", "setPhaseAllOHs"}
     /\ job.name = "setPhaseAllOHs" => OH(job, k) \in job.listed
     /\ Item(job, k) = "bad"

\* readGBTConfigFile raises; the dictionary has no list for an optohybrid.
Raises(job, k) ==
  \/ job.name = "configGBT" /\ Item(job, k) = "bad"
  \/ job.name = "setPhaseAllOHs" /\ OH(job, k) \notin job.listed

At(t, step) ==
  /\ tool[t].step = step
  /\ call[t] = NoCall

Goto(t, step) == tool' = [tool EXCEPT ![t].step = step]

\* rpc_connect, whose result no tool looks at.
ToolConnect(t) ==
  /\ At(t, "connect")
  /\ Connect(t) \/ ConnectFails(t)
  /\ Goto(t, "connecting")
  /\ UNCHANGED file

ToolConnected(t) ==
  /\ At(t, "connecting")
  /\ Taken(t)
  /\ Goto(t, IF tool[t].job.name = "configGBT" /\ Items(tool[t].job) > 3 THEN "raised" ELSE "loop")
  /\ UNCHANGED file

InLoop(t) == At(t, "loop") /\ tool[t].k \in Targets(tool[t].job)

Advance(t) == tool' = [tool EXCEPT ![t].k = @ + 1, ![t].step = "loop"]

ToolSkip(t) ==
  /\ InLoop(t)
  /\ Skipped(tool[t].job, tool[t].k)
  /\ Advance(t)
  /\ UNCHANGED <<rpcVars, file>>

ToolRaises(t) ==
  /\ InLoop(t)
  /\ ~Skipped(tool[t].job, tool[t].k)
  /\ Raises(tool[t].job, tool[t].k)
  /\ Goto(t, "raised")
  /\ UNCHANGED <<rpcVars, file>>

ToolCall(t) ==
  /\ InLoop(t)
  /\ ~Skipped(tool[t].job, tool[t].k)
  /\ ~Raises(tool[t].job, tool[t].k)
  /\ Prepare(t, Method(tool[t].job), 0)
  /\ Goto(t, "called")
  /\ UNCHANGED file

Wrote(t) == IF served[t] THEN tool[t].written \cup {tool[t].k} ELSE tool[t].written

\* Mutant: the return code of the write is not looked at.
ToolWroteUnchecked(t) ==
  /\ At(t, "called")
  /\ tool[t].job.name # "gbtPhaseScan"
  /\ Taken(t)
  /\ tool' = [tool EXCEPT ![t].written = Wrote(t), ![t].k = @ + 1, ![t].step = "loop"]
  /\ UNCHANGED file

\* A write is back: the tool raises if its code is not 0.
ToolWrote(t) ==
  /\ At(t, "called")
  /\ tool[t].job.name # "gbtPhaseScan"
  /\ Taken(t)
  /\ tool' = IF last[t].code = 0
             THEN [tool EXCEPT ![t].written = Wrote(t), ![t].k = @ + 1, ![t].step = "loop"]
             ELSE [tool EXCEPT ![t].written = Wrote(t), ![t].step = "raised"]
  /\ UNCHANGED file

\* What a tool does with the words of a scan.
Store(t, words) ==
  LET job == tool[t].job
      result == [oh |-> OH(job, tool[t].k), code |-> last[t].code, words |-> words]
  IN  tool' = [tool EXCEPT ![t].results = Append(@, result),
                           ![t].k = IF job.output THEN @ ELSE @ + 1,
                           ![t].step = IF job.output THEN "save" ELSE "loop"]

\* Mutant: one array for all optohybrids, which keeps the words of the one before.
ToolScannedShared(t) ==
  /\ At(t, "called")
  /\ tool[t].job.name = "gbtPhaseScan"
  /\ Taken(t)
  /\ LET n == Len(tool[t].results)
     IN  Store(t, [i \in DOMAIN last[t].out |->
                     IF last[t].out[i] = Old /\ n > 0 THEN tool[t].results[n].words[i]
                     ELSE last[t].out[i]])
  /\ UNCHANGED file

\* A scan is back: what its array holds is stored, whatever it returned.
ToolScanned(t) ==
  /\ At(t, "called")
  /\ tool[t].job.name = "gbtPhaseScan"
  /\ Taken(t)
  /\ Store(t, last[t].out)
  /\ UNCHANGED file

\* saveGBTPhaseScanResults: it takes 24 VFATs from the array, writes a header to
\* a new file and refuses one with another header or without a last end of line.
ToolSave(t) ==
  /\ At(t, "save")
  /\ IF tool[t].job.narrow \/ file.was \in {"foreign", "torn"}
     THEN Goto(t, "raised") /\ UNCHANGED file
     ELSE /\ file' = [was |-> "results",
                      rows |-> Append(file.rows, tool[t].results[Len(tool[t].results)])]
          /\ Advance(t)
  /\ UNCHANGED rpcVars

ToolReturns(t) ==
  /\ At(t, "loop")
  /\ tool[t].k \notin Targets(tool[t].job)
  /\ Goto(t, "returned")
  /\ UNCHANGED <<rpcVars, file>>

ToolStep(t) ==
  \/ ToolConnect(t) \/ ToolConnected(t) \/ ToolSkip(t) \/ ToolRaises(t) \/ ToolCall(t)
  \/ ToolWrote(t) \/ ToolScanned(t) \/ ToolSave(t) \/ ToolReturns(t)

---------------------------------------------------------------------------
(* Properties of the tools.                                                *)

\* The targets before k, all of which a tool means to write.
Wanted(job, k) == {i \in Targets(job) : i < k /\ ~Skipped(job, i)}

\* A tool that writes is through with every target it has gone past, although it
\* does not look at what rpc_connect returned: configGBT and the setPhase functions
\* return only if the card has written all of them.  When one raises, the targets
\* before the failing one are written and those after it are not; the failing one
\* itself may be, if the answer was lost.
GbtWritten ==
  \A t \in Threads :
    LET job == tool[t].job
        k == tool[t].k
    IN  tool[t] # NoTool /\ job.name # "gbtPhaseScan" =>
          /\ Wanted(job, k) \subseteq tool[t].written
          /\ tool[t].written \subseteq Wanted(job, k + 1)
          /\ tool[t].step = "returned" => tool[t].written = Wanted(job, NOH * Items(job))

\* The record of an optohybrid is complete exactly if its own scan returned 0; the
\* rest of an incomplete one, which nothing marks, is the zeros of a new array and
\* never the words of another optohybrid.  A scan that returns has one record for
\* every optohybrid of the mask, and has appended all of them to its file.
ScanRecorded ==
  \A t \in Threads :
    LET job == tool[t].job
        results == tool[t].results
    IN  tool[t] # NoTool /\ job.name = "gbtPhaseScan" =>
          /\ \A i \in DOMAIN results :
               results[i].code = 0 <=> \A n \in DOMAIN results[i].words : results[i].words[n] # Old
          /\ \A i, j \in DOMAIN results : i < j => results[i].oh < results[j].oh
          /\ tool[t].step = "returned" =>
               /\ {results[i].oh : i \in DOMAIN results} = job.ohs
               /\ job.output => file.rows = results
====
