------------------------------- MODULE DaqSuite -------------------------------
(***************************************************************************)
(* The web pages of python/daq_suite over librpcman: the requests Django    *)
(* serves, each in a thread, and the scripts and tools that use the library *)
(* alone.                                                                  *)
(*                                                                         *)
(* views.py serialises the pages that talk to the card with one lock, but   *)
(* for two that read the board id without it.  The main page fills global   *)
(* lists under the lock and renders them after it.  The worker thread a     *)
(* request starts and joins is the request itself here; an exception in it  *)
(* ends its work, and the request goes on behind the join.                  *)
(*                                                                         *)
(* rw_reg is not in the repository: readReg and writeReg are one getReg or  *)
(* putReg, and readReg may give a text or raise for a word 0xdeaddead.      *)
(***************************************************************************)
EXTENDS GbtUtils

CONSTANTS
  Scenarios,   \* which requests are made together: functions from Threads to Kinds
  Tables,      \* what fills each list of the main page, in updateMain's order
  Regs,        \* number of registers on the page of a module
  Resets,      \* number of writes of err_counters_reset: 3 * NOH
  FwReads,     \* number of reads of read_fw: 1000
  MaxCalls     \* calls of a script: bounds the behaviours

\* A script, a tool, or a page: the board id (hello, read_fw), the main page, a module's
\* page (read; with a register to update; with an update that cannot be parsed),
\* the expert controls.
Unlocked == {"hello", "read_fw"}
ModuleKinds == {"module", "update", "wrong"}
ExpertKinds == {"on", "off", "write", "reset"}
Kinds == {"none", "script", "tool", "main"} \cup Unlocked \cup ModuleKinds \cup ExpertKinds

ASSUME SuiteAssumption ==
  /\ Scenarios \subseteq [Threads -> Kinds]
  /\ \A s \in Scenarios : \A t \in Threads :
       s[t] \in {"script", "tool"} => \A u \in Threads \ {t} : s[u] = "none"
  /\ Tables \in Seq({"getReg"} \cup DOMAIN File.daq_monitor) \ {<<>>}
  /\ {Regs, Resets, FwReads, MaxCalls} \subseteq Nat

VARIABLES
  kind,            \* the request of each thread
  at,              \* where its view is
  k,               \* index of its loop over lists, registers or writes
  lock,            \* who holds the lock
  monitoringOFF,
  lists,           \* each global list of the main page: the requests that had begun
                   \* when what it holds was fetched
  asked,           \* requests that had begun when the thread made its call
  shown,           \* whether each list rendered was fetched since the request began
  valuelist,       \* valuelist and rowcolors of updateModule, as what they are of
  rowcolors,
  rows             \* the ziplist in the queue, if it was put there

suiteVars == <<kind, at, k, lock, monitoringOFF, lists, asked, shown, valuelist, rowcolors, rows>>
vars == <<rpcVars, toolVars, suiteVars>>

NoRows == [put |-> FALSE, zip |-> <<>>]

Init ==
  /\ RpcInit
  /\ kind \in Scenarios
  /\ ToolInit({t \in Threads : kind[t] = "tool"})
  /\ \/ /\ \A t \in Threads : kind[t] # "tool"
        /\ link = TRUE
        /\ loaded = Len(LoadOrder)
     \/ link = FALSE /\ loaded = 0
  /\ at = [t \in Threads |-> "idle"]
  /\ k = [t \in Threads |-> 1]
  /\ lock = None
  /\ monitoringOFF \in IF \E t \in Threads : kind[t] \in {"script", "tool"} THEN {TRUE} ELSE BOOLEAN
  /\ lists = [i \in DOMAIN Tables |-> {}]
  /\ asked = [t \in Threads |-> {}]
  /\ shown = [t \in Threads |-> <<>>]
  /\ valuelist = [t \in Threads |-> <<>>]
  /\ rowcolors = [t \in Threads |-> <<>>]
  /\ rows = [t \in Threads |-> NoRows]

---------------------------------------------------------------------------
(* The requests.                                                           *)

Started == {t \in Threads : at[t] # "idle"}

Go(t, place) == at' = [at EXCEPT ![t] = place]

\* The view begins: the main page looks at monitoringOFF, without the lock.
Begin(t) ==
  /\ at[t] = "idle"
  /\ kind[t] # "none"
  /\ Go(t, CASE kind[t] \in {"script", "tool"} -> kind[t]
             [] kind[t] \in Unlocked -> "work"
             [] kind[t] = "main" /\ monitoringOFF -> "render"
             [] OTHER -> "lock")
  /\ k' = [k EXCEPT ![t] = IF kind[t] = "update" THEN 0 ELSE 1]
  /\ UNCHANGED <<rpcVars, kind, lock, monitoringOFF, lists, asked, shown, valuelist, rowcolors,
                 rows>>

\* Mutant: without the lock.
LockIgnored(t) ==
  /\ at[t] = "lock"
  /\ lock' = t
  /\ Go(t, "work")
  /\ UNCHANGED <<rpcVars, kind, k, monitoringOFF, lists, asked, shown, valuelist, rowcolors, rows>>

\* with lock:
Lock(t) ==
  /\ at[t] = "lock"
  /\ lock = None
  /\ lock' = t
  /\ Go(t, "work")
  /\ UNCHANGED <<rpcVars, kind, k, monitoringOFF, lists, asked, shown, valuelist, rowcolors, rows>>

\* How many calls the work of a request has, and the next of them.
Total(t) ==
  CASE kind[t] = "main" -> Len(Tables)
    [] kind[t] \in {"module", "update"} -> Regs
    [] kind[t] = "reset" -> Resets
    [] kind[t] = "read_fw" -> FwReads
    [] kind[t] \in {"hello", "write"} -> 1
    [] OTHER -> 0

NextCall(t) ==
  CASE kind[t] = "main" -> Tables[k[t]]
    [] kind[t] \in {"write", "reset"} \/ k[t] = 0 -> "putReg"
    [] OTHER -> "getReg"

Ask(t) ==
  /\ at[t] = "work"
  /\ k[t] <= Total(t)
  /\ Prepare(t, NextCall(t), IF NextCall(t) = "putReg" THEN 1 ELSE 0)
  /\ asked' = [asked EXCEPT ![t] = Started]
  /\ Go(t, "asked")
  /\ UNCHANGED <<kind, k, lock, monitoringOFF, lists, shown, valuelist, rowcolors, rows>>

\* What readReg makes of what getReg returned.
readReg(code) == IF code = Dead THEN {"hex", "text", "raise"} ELSE {"hex"}

\* Mutant: without the global statement the assignment is to a local variable.
FillListLocal(t) ==
  /\ UNCHANGED lists
  /\ k' = [k EXCEPT ![t] = @ + 1]
  /\ Go(t, "work")

\* A function of helper_main.py returns, and updateMain assigns its list.
FillList(t) ==
  /\ lists' = [lists EXCEPT ![k[t]] = asked[t]]
  /\ k' = [k EXCEPT ![t] = @ + 1]
  /\ Go(t, "work")

\* int(readReg(reg), 16) of a mask raises: updateMain ends there.
UpdateEnds(t) ==
  /\ Go(t, "release")
  /\ UNCHANGED <<k, lists>>

\* The call the view has made is back.
Answered(t) ==
  /\ at[t] = "asked"
  /\ call[t] = NoCall
  /\ Taken(t)
  /\ asked' = [asked EXCEPT ![t] = {}]

TakeList(t) ==
  /\ Answered(t)
  /\ kind[t] = "main"
  /\ \E r \in IF Tables[k[t]] = "getReg" THEN readReg(last[t].code) ELSE {"hex"} :
       IF r = "hex" THEN FillList(t) ELSE UpdateEnds(t)
  /\ UNCHANGED <<kind, lock, monitoringOFF, shown, valuelist, rowcolors, rows>>

\* Mutant: the except clause adds a colour.
TakeRegisterColoured(t) ==
  /\ Answered(t)
  /\ kind[t] \in ModuleKinds
  /\ k[t] > 0
  /\ \E r \in readReg(last[t].code) :
       valuelist' = IF r = "raise" THEN valuelist ELSE [valuelist EXCEPT ![t] = Append(@, k[t])]
  /\ rowcolors' = [rowcolors EXCEPT ![t] = Append(@, k[t])]
  /\ k' = [k EXCEPT ![t] = @ + 1]
  /\ Go(t, "work")
  /\ UNCHANGED <<kind, lock, monitoringOFF, lists, shown, rows>>

\* A register of a module's page: one that raises has neither value nor colour.  After
\* the value is appended nothing raises but what has an except clause of its own:
\* parseInt of an error text, and an attribute the node has not got.
TakeRegister(t) ==
  /\ Answered(t)
  /\ kind[t] \in ModuleKinds
  /\ k[t] > 0
  /\ \E r \in readReg(last[t].code) :
       IF r = "raise" THEN UNCHANGED <<valuelist, rowcolors>>
       ELSE /\ valuelist' = [valuelist EXCEPT ![t] = Append(@, k[t])]
            /\ rowcolors' = [rowcolors EXCEPT ![t] = Append(@, k[t])]
  /\ k' = [k EXCEPT ![t] = @ + 1]
  /\ Go(t, "work")
  /\ UNCHANGED <<kind, lock, monitoringOFF, lists, shown, rows>>

\* The reads of the board id, where an exception ends the request, and writeReg.
TakeAnswer(t) ==
  /\ Answered(t)
  /\ kind[t] \in Unlocked \cup ExpertKinds \/ k[t] = 0
  /\ k' = [k EXCEPT ![t] = @ + 1]
  /\ \E r \in IF kind[t] \in Unlocked THEN readReg(last[t].code) ELSE {"hex"} :
       Go(t, IF r = "raise" THEN "done" ELSE "work")
  /\ UNCHANGED <<kind, lock, monitoringOFF, lists, shown, valuelist, rowcolors, rows>>

\* zip stops at the end of the shortest list.
Zip(t) ==
  [i \in DOMAIN valuelist[t] |->
     [name |-> i, value |-> valuelist[t][i], color |-> rowcolors[t][i]]]

\* The end of the work.  An update that cannot be parsed raised before it began,
\* and nothing is put into the queue.
Finish(t) ==
  /\ at[t] = "work"
  /\ k[t] > Total(t)
  /\ Go(t, IF kind[t] \in Unlocked THEN "done" ELSE "release")
  /\ monitoringOFF' = CASE kind[t] = "on" -> FALSE [] kind[t] = "off" -> TRUE
                        [] OTHER -> monitoringOFF
  /\ rows' = IF kind[t] \in {"module", "update"} THEN [rows EXCEPT ![t] = [put |-> TRUE, zip |-> Zip(t)]] ELSE rows
  /\ UNCHANGED <<rpcVars, kind, k, lock, lists, asked, shown, valuelist, rowcolors>>

\* Mutant: q.get() inside the with statement.
ReleaseAfterGet(t) ==
  /\ at[t] = "release"
  /\ kind[t] \in ModuleKinds => rows[t].put
  /\ lock' = None
  /\ Go(t, CASE kind[t] = "main" -> "render"
             [] kind[t] \in ModuleKinds -> "queue"
             [] OTHER -> "reply")
  /\ UNCHANGED <<rpcVars, kind, k, monitoringOFF, lists, asked, shown, valuelist, rowcolors, rows>>

\* The worker is joined and the lock released.
Release(t) ==
  /\ at[t] = "release"
  /\ lock' = None
  /\ Go(t, CASE kind[t] = "main" -> "render"
             [] kind[t] \in ModuleKinds -> "queue"
             [] OTHER -> "reply")
  /\ UNCHANGED <<rpcVars, kind, k, monitoringOFF, lists, asked, shown, valuelist, rowcolors, rows>>

\* The main page takes the global lists, one after the other, without the lock.
Render(t) ==
  /\ at[t] = "render"
  /\ shown' = [shown EXCEPT ![t] = Append(@, t \in lists[Len(@) + 1])]
  /\ Go(t, IF Len(shown'[t]) = Len(Tables) THEN "done" ELSE "render")
  /\ UNCHANGED <<rpcVars, kind, k, lock, monitoringOFF, lists, asked, valuelist, rowcolors, rows>>

\* The page of a module takes the rows from the queue.
QueueGet(t) ==
  /\ at[t] = "queue"
  /\ rows[t].put
  /\ Go(t, "done")
  /\ UNCHANGED <<rpcVars, kind, k, lock, monitoringOFF, lists, asked, shown, valuelist, rowcolors,
                 rows>>

\* The expert controls name request.POST["id"] in a message: without it the page
\* is an error, after the work.
Reply(t) ==
  /\ at[t] = "reply"
  /\ \E place \in {"done", "error"} : Go(t, place)
  /\ UNCHANGED <<rpcVars, kind, k, lock, monitoringOFF, lists, asked, shown, valuelist, rowcolors,
                 rows>>

\* A script calls any function of the library, and init and deinit as it likes.
ScriptCall(t) ==
  /\ at[t] = "script"
  /\ \/ /\ k[t] <= MaxCalls
        /\ \E op \in Ops : \E arg \in Arguments(op) : Prepare(t, op, arg)
        /\ k' = [k EXCEPT ![t] = @ + 1]
     \/ /\ Connect(t) \/ ConnectFails(t) \/ deinit(t)
        /\ UNCHANGED k
  /\ UNCHANGED <<kind, at, lock, monitoringOFF, lists, asked, shown, valuelist, rowcolors, rows>>

Library(t) == LibraryStep(t) /\ UNCHANGED <<toolVars, suiteVars>>

Tool(t) ==
  /\ at[t] = "tool"
  /\ ToolStep(t)
  /\ UNCHANGED suiteVars

View(t) ==
  /\ \/ Begin(t) \/ Lock(t) \/ Ask(t) \/ TakeList(t) \/ TakeRegister(t) \/ TakeAnswer(t)
     \/ Finish(t) \/ Release(t) \/ Render(t) \/ QueueGet(t) \/ Reply(t)
  /\ UNCHANGED toolVars

Step(t) ==
  /\ alive
  /\ Library(t) \/ Tool(t) \/ View(t)

Accident ==
  /\ alive
  /\ LinkBreaks \/ \E t, u \in Threads : Race(t, u)
  /\ UNCHANGED <<toolVars, suiteVars>>

Next ==
  \/ \E t \in Threads : Step(t)
  \/ \E t \in Threads : alive /\ ScriptCall(t) /\ UNCHANGED toolVars
  \/ Accident

\* Every thread runs, and the service answers.
Spec == Init /\ [][Next]_vars /\ \A t \in Threads : WF_vars(Step(t))

---------------------------------------------------------------------------
(* Properties of the pages.                                                *)

\* The views keep to their places; a request holds the lock while it works.
TypeOK ==
  /\ alive \in BOOLEAN
  /\ link \in BOOLEAN
  /\ loaded \in 0..Len(LoadOrder)
  /\ \A f \in Files : req[f].to \in Threads \cup {None} /\ rsp[f].to \in Threads \cup {None}
  /\ \A i \in DOMAIN wire : wire[i].to \in Threads
  /\ faults \in 0..MaxFaults
  /\ lock \in Threads \cup {None}
  /\ monitoringOFF \in BOOLEAN
  /\ \A t \in Threads :
       /\ call[t].step \in {"none", "prepared", "sent", "received", "loading"}
       /\ at[t] \in {"idle", "lock", "work", "asked", "release", "render", "queue", "reply",
                     "done", "error", "script", "tool"}
       /\ Len(shown[t]) <= Len(Tables)

\* What fills a list or a row is the answer to the request's own call, or the
\* value that stands for a failure, unless one of the pages that do not take the
\* lock was in the library at the same time: the static req and rsp and the one
\* connection of librpcman are otherwise used by one thread at a time.
OwnAnswers ==
  \A t \in Threads :
    at[t] = "asked" /\ last[t] # NoCall /\ kind[t] \notin Unlocked =>
      last[t].from \in {t, None} \/ \E u \in last[t].with : kind[u] \in Unlocked

\* A main page with monitoring on shows lists fetched after the request began,
\* also when other requests update them while it is rendered: all of them up to
\* the mask whose reading raised, if one did.
FreshPage ==
  \A t \in Threads : kind[t] = "main" =>
    \A i \in DOMAIN shown[t] : i < k[t] => shown[t][i]

\* A row of a module's page shows the value and the colour of one register, and
\* it is the register the row names unless an earlier one, or itself, could not
\* be read.
RowsAligned ==
  \A t \in Threads : \A i \in DOMAIN rows[t].zip :
    LET read == {valuelist[t][j] : j \in DOMAIN valuelist[t]}
    IN  /\ rows[t].zip[i].color = rows[t].zip[i].value
        /\ rows[t].zip[i].name # rows[t].zip[i].value => \E j \in 1..i : j \notin read

\* Every request is answered, also while others fail or hang: only the one whose
\* own update could not be parsed waits for ever for rows nobody puts.  Every tool
\* returns or raises.
RequestAnswered ==
  \A t \in Threads :
    at[t] \in {"work", "lock", "tool"}
      ~> \/ at[t] \in {"done", "error"}
         \/ at[t] = "queue" /\ kind[t] = "wrong"
         \/ at[t] = "tool" /\ tool[t].step \in {"returned", "raised"}
         \/ ~alive

\* Every call returns, unless the process ends or sbitReadOut is given an answer
\* that stands for no time at all: it then asks again, for ever if the answers
\* stay so.
CallReturns ==
  \A t \in Threads :
    t \in Inside
      ~> (t \notin Inside \/ ~alive
          \/ (call[t].step = "received" /\ call[t].op = "sbitReadOut" /\ rsp.amc.word = 0))

---------------------------------------------------------------------------
(* What holds in every state: the inductive invariants.                     *)

PagePlaces == {"lock", "work", "asked", "release", "render", "queue", "reply", "done", "error"}

\* Where a thread is says what it is; only a view that has asked, a script or a
\* tool is in the library; who works behind the lock holds it.
Placed(t) ==
  /\ at[t] \in {"idle", "script", "tool"} \cup PagePlaces
  /\ at[t] \in {"script", "tool"} => kind[t] = at[t]
  /\ at[t] \in PagePlaces => kind[t] \notin {"none", "script", "tool"}
  /\ call[t] # NoCall => at[t] \in {"asked", "script", "tool"}
  /\ at[t] \in {"lock", "release"} => kind[t] \notin Unlocked
  /\ at[t] \in {"work", "asked", "release"} /\ kind[t] \notin Unlocked => lock = t

\* A request that takes the lock meets nobody in the library but one that does not.
Company(t) ==
  kind[t] \notin Unlocked =>
    /\ call[t] # NoCall => \A u \in call[t].with : kind[u] \in Unlocked
    /\ last[t] # NoCall => \A u \in last[t].with : kind[u] \in Unlocked

SuiteTypes ==
  /\ kind \in Scenarios
  /\ at = [t \in Threads |-> at[t]]
  /\ k \in [Threads -> Nat]
  /\ \A t \in Threads : kind[t] # "update" => k[t] > 0
  /\ lock \in Threads \cup {None}
  /\ monitoringOFF \in BOOLEAN

SuiteIInv ==
  /\ RpcIInv
  /\ SuiteTypes
  /\ \A t \in Threads : Placed(t) /\ Company(t)

\* A call of sbitReadOut is a script's.
ScriptsAcquire == \A t \in Threads : call[t] # NoCall /\ call[t].op = "sbitReadOut" => kind[t] = "script"

\* A call of readSCAADCSensor is a script's, with one of its masks.
ScriptsSense ==
  \A t \in Threads :
    call[t] # NoCall /\ call[t].op = "readSCAADCSensor" =>
      kind[t] = "script" /\ call[t].arg \in Masks

ReturnIInv ==
  /\ SuiteIInv
  /\ \A t \in Threads : OwnReturn(t)
  /\ OutputsHonest
  /\ InBandHonest

\* A call of init is a script's or a tool's.
ScriptsConnect ==
  \A t \in Threads :
    \/ call[t] # NoCall /\ call[t].op = "init"
    \/ last[t] # NoCall /\ last[t].op = "init"
    => kind[t] \in {"script", "tool"}

ConnectIInv == SuiteIInv /\ ScriptsConnect /\ InitComplete

TimeIInv == SuiteIInv /\ ScriptsAcquire /\ NetBounded /\ AcquireBounded

SensorIInv == SuiteIInv /\ ScriptsSense

\* The lists a main page has filled were fetched since it began, and stay so: who
\* fetches them again asked when it had begun.
Filled(t) ==
  kind[t] = "main" =>
    /\ \A i \in DOMAIN Tables : i < k[t] => t \in lists[i]
    /\ k[t] > 1 => at[t] # "idle"
    /\ \A u \in Threads : kind[u] = "main" /\ at[u] = "asked" /\ (t = u \/ k[t] > 1) => t \in asked[u]
    /\ at[t] \in {"idle", "lock", "work", "asked", "release"} => shown[t] = <<>>

PageTypes ==
  /\ lists \in [DOMAIN Tables -> SUBSET Threads]
  /\ asked \in [Threads -> SUBSET Threads]
  /\ shown \in [Threads -> Seq(BOOLEAN)]
  /\ \A t \in Threads : /\ Len(shown[t]) <= Len(Tables)
                        /\ at[t] = "render" => kind[t] = "main" /\ Len(shown[t]) < Len(Tables)

PageIInv == SuiteIInv /\ PageTypes /\ (\A t \in Threads : Filled(t)) /\ FreshPage

\* The registers read before the nth, v, are numbered without a gap up to the first that
\* could not be read.
Numbered(v, n) ==
  LET read == {v[j] : j \in DOMAIN v}
  IN  /\ read \subseteq 1..(n - 1)
      /\ n = 0 \/ \E first \in 1..n :
           /\ first \notin read
           /\ first <= Len(v) + 1
           /\ \A i \in DOMAIN v : i < first => v[i] = i
           /\ first = n => Len(v) = n - 1

RowTypes ==
  /\ valuelist \in [Threads -> Seq(Nat)]
  /\ rowcolors = valuelist
  /\ rows = [t \in Threads |-> rows[t]]
  /\ \A t \in Threads :
       /\ at[t] = "idle" => valuelist[t] = <<>>
       /\ rows[t] # NoRows =>
            /\ rows[t].zip = Zip(t)
            /\ at[t] \notin {"idle", "lock", "work", "asked"}
            /\ kind[t] \in ModuleKinds
            /\ k[t] > 0

RowIInv ==
  /\ SuiteIInv
  /\ RowTypes
  /\ \A t \in Threads : kind[t] \in ModuleKinds => Numbered(valuelist[t], k[t])

\* A tool that has made its call is past the checks of its loop, and waits for that
\* call or has its result.
ToolCalled(t) ==
  tool[t].step = "called" =>
    /\ tool[t].k \in Targets(tool[t].job)
    /\ ~Skipped(tool[t].job, tool[t].k)
    /\ \/ call[t] # NoCall /\ call[t].op = Method(tool[t].job)
       \/ last[t] # NoCall /\ last[t].op = Method(tool[t].job)

Records == [oh : Int, code : Int, words : Seq(Cells)]
Runs ==
  [job : Jobs, k : Nat, written : SUBSET Nat, results : Seq(Records),
   step : {"connect", "connecting", "loop", "called", "save", "returned", "raised"}]

ToolTypes ==
  /\ tool = [t \in Threads |-> tool[t]]
  /\ \A t \in Threads :
       /\ kind[t] # "tool" => tool[t] = NoTool
       /\ kind[t] = "tool" => tool[t] \in Runs

\* The records of a scan are of the optohybrids it has passed; the file has all of
\* them, but for the one that is being saved or could not be.
Recorded(run, saved) ==
  LET next == IF run.step = "save" THEN run.k + 1 ELSE run.k
      results == run.results
  IN  /\ run.step = "save" => run.job.name = "gbtPhaseScan"
      /\ run.job.name = "gbtPhaseScan" /\ run.step # "raised" =>
           /\ {results[i].oh : i \in DOMAIN results} = run.job.ohs \cap 0..(next - 1)
           /\ run.job.output /\ run.step # "save" => saved = results
           /\ run.step = "save" => results = Append(saved, results[Len(results)])

ToolIInv ==
  /\ ReturnIInv
  /\ ToolTypes
  /\ \A t \in Threads : kind[t] = "tool" => ToolCalled(t) /\ Recorded(tool[t], file.rows)
  /\ GbtWritten
  /\ ScanRecorded
====
