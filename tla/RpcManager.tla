------------------------------ MODULE RpcManager ------------------------------
(***************************************************************************)
(* librpcman (xhalcore/src/common/rpc_manager): the C functions through     *)
(* which Python tools and the web pages call the RPC service of the card.   *)
(*                                                                         *)
(* A function fills the static req of its source file, has call_method send *)
(* it and wait, gets the answer in the static rsp of the file, and copies   *)
(* the words of the answer to the caller's arrays.  All files share one     *)
(* connection.  Python releases its lock during a foreign call, so threads  *)
(* of one process interleave between these steps.                           *)
(*                                                                         *)
(* A word of an answer is named by the thread whose request it answers and  *)
(* by its key.  An answer has at most one fault: the functions look at the  *)
(* keys in order and leave at the first bad one.                            *)
(***************************************************************************)
EXTENDS Integers, Sequences, FiniteSets

CONSTANTS
  Threads,       \* threads of the process
  None,          \* no thread
  Data,          \* what a register may hold, and what putReg is given
  Masks,         \* the ohMask values given to readSCAADCSensor
  AcquireTime,   \* seconds asked of sbitReadOut
  LiveTimes,     \* seconds an answer of sbitReadOut that is full may stand for
  MaxFaults      \* faulty answers and lost connections: bounds the behaviours

ASSUME RpcAssumption ==
  /\ IsFiniteSet(Threads)
  /\ None \notin Threads
  /\ Data \subseteq Int
  /\ \A mask \in Masks : mask \in Nat /\ mask < 4096
  /\ AcquireTime \in Nat \ {0}
  /\ LiveTimes \subseteq 0..AcquireTime
  /\ MaxFaults \in Nat

VARIABLES
  alive,    \* the process has not been terminated
  link,     \* rpc: the connection is open
  loaded,   \* number of modules load_module has loaded on it
  wire,     \* answers on their way, in the order of their requests
  req,      \* the static req of each file
  rsp,      \* the static rsp of each file
  call,     \* where each thread is in the library
  served,   \* history: the server has done what the thread's call asks
  last,     \* what the last call of each thread returned
  faults    \* faults so far

rpcVars == <<alive, link, loaded, wire, req, rsp, call, served, last, faults>>

---------------------------------------------------------------------------
(* The functions, file by file: the keys each takes from the answer, in order, *)
(* and what it returns for an answer with "error" and for a key that is not    *)
(* there.                                                                      *)

\* 0xdeaddead and 0xffffffff, as signed words.
Dead == -559038737
All == -1

\* A BadKeyException no catch clause awaits: std::terminate.
Uncaught == -2

\* sbitReadOut found no file it could write: errno EIO.
EIO == 5

\* An answer without maxNetworkSizeReached: all of the time was acquired.
Full == -1

\* What a caller's array holds that no word was put into, and a counter that was
\* set to 0xdeaddead.
Old == <<None, "old">>
Marked == <<None, "dead">>

\* What a function takes from an answer: words or arrays (whose size is
\* compared), and its return values.
Entry(keys, onError, onLack, sized) ==
  [keys |-> keys, fields |-> keys, onError |-> onError, onLack |-> onLack, sized |-> sized]

Ack == Entry(<<>>, 1, 1, FALSE)
Arrays(keys) == Entry(keys, 1, 1, TRUE)
Words(keys) == Entry(keys, 1, Dead, FALSE)
Value(key) == Entry(<<key>>, All, Uncaught, FALSE)

UtilsCalls ==
  [update_atdb  |-> Ack,
   getRegInfoDB |-> Words(<<"address", "mask", "permissions">>),
   getReg       |-> Entry(<<"data">>, Dead, Dead, TRUE),
   getBlock     |-> Entry(<<"data">>, 1, Dead, TRUE),
   getList      |-> Entry(<<"data">>, 1, Dead, TRUE),
   putReg       |-> Entry(<<>>, Dead, Dead, FALSE)]

AmcCalls ==
  [getOHVFATMask          |-> Value("vfatMask"),
   getOHVFATMaskMultiLink |-> Arrays(<<"ohVfatMaskArray">>),
   repeatedRegRead        |-> Value("SUM"),
   sbitReadOut            |-> Entry(<<"approxLiveTime", "storedSbits">>, 1, 1, FALSE)]

GbtCalls ==
  [scanGBTPhases  |-> Arrays(<<"VFAT0", "VFAT1">>),
   writeGBTConfig |-> Ack,
   writeGBTPhase  |-> Ack]

ScaCalls ==
  [readSCAADCSensor                |-> Arrays(<<"data">>),
   readSCAADCTemperatureSensors    |-> Arrays(<<"data">>),
   readSCAADCVoltageSensors        |-> Arrays(<<"data">>),
   readSCAADCSignalStrengthSensors |-> Arrays(<<"data">>),
   readAllSCAADCSensors            |-> Arrays(<<"data">>)]

OptohybridCalls ==
  [broadcastRead            |-> Arrays(<<"data">>),
   broadcastWrite           |-> Ack,
   configureScanModule      |-> Ack,
   printScanConfiguration   |-> Ack,
   startScanModule          |-> Ack,
   getUltraScanResults      |-> Arrays(<<"data">>),
   stopCalPulse2AllChannels |-> Ack]

Vfat3Calls ==
  [configureVFAT3s                    |-> Ack,
   configureVFAT3DacMonitor           |-> Ack,
   configureVFAT3DacMonitorMultiLink  |-> Ack,
   getChannelRegistersVFAT3           |-> Arrays(<<"chanRegData">>),
   getVFAT3ChipIDs                    |-> Entry(<<"VFAT0", "VFAT1">>, 1, Uncaught, FALSE),
   readVFAT3ADC                       |-> Arrays(<<"adcData">>),
   readVFAT3ADCMultiLink              |-> Arrays(<<"adcDataAll">>),
   setChannelRegistersVFAT3           |-> Ack,
   setChannelRegistersVFAT3Simple     |-> Ack]

PulseCalls ==
  [checkSbitMappingWithCalPulse |-> Arrays(<<"data">>),
   checkSbitRateWithCalPulse    |-> Arrays(<<"outDataCTP7Rate", "outDataFPGAClusterCntRate",
                                             "outDataVFATSBits">>)]

ScanCalls ==
  [dacScan          |-> Arrays(<<"dacScanResults">>),
   dacScanMultiLink |-> Arrays(<<"dacScanResultsAll">>),
   genScan          |-> Arrays(<<"data">>),
   genChannelScan   |-> Arrays(<<"data">>)]

RateCalls ==
  [sbitRateScan |-> Arrays(<<"outDataDacValue", "outDataCTP7Rate", "outDataVFATRate">>),
   ttcGenConf   |-> Ack,
   ttcGenToggle |-> Ack,
   confCalPulse |-> Ack]

MonitorMainCalls ==
  [getmonTTCmain       |-> Words(<<"MMCM_LOCKED", "TTC_SINGLE_ERROR_CNT", "BC0_LOCKED", "L1A_ID",
                                   "L1A_RATE">>),
   getmonTRIGGERmain   |-> Words(<<"OR_TRIGGER_RATE", "TRIGGER_RATE">>),
   getmonTRIGGEROHmain |-> Words(<<"LINK0_MISSED_COMMA_CNT", "LINK1_MISSED_COMMA_CNT">>),
   getmonDAQmain       |-> Words(<<"DAQ_ENABLE", "DAQ_LINK_READY", "TTS_STATE">>)]

\* getmonOHLink puts SYNC_ERR_CNT into daqCRCErrCnt and DAQ_CRC_ERROR_CNT into
\* syncErrCnt: "fields" names the key that belongs where each word is put.
MonitorLinkCalls ==
  [getmonDAQOHmain |-> Words(<<"EVT_SIZE_ERR", "EVENT_FIFO_HAD_OFLOW">>),
   getmonGBTLink   |-> Words(<<"READY", "WAS_NOT_READY">>),
   getmonOHLink    |-> [Words(<<"READY", "SYNC_ERR_CNT", "DAQ_EVENT_CNT", "DAQ_CRC_ERROR_CNT">>)
                          EXCEPT !.fields = <<"READY", "DAQ_CRC_ERROR_CNT", "DAQ_EVENT_CNT",
                                              "SYNC_ERR_CNT">>]]

MonitorOHCalls ==
  [getmonOHmain    |-> Words(<<"FW_VERSION", "EVENT_COUNTER">>),
   getmonOHSCAmain |-> Words(<<"SCA_TEMP", "BOARD_TEMP1">>),
   getmonOHSysmon  |-> Words(<<"OVERTEMP", "CNT_OVERTEMP">>)]

\* A VFAT the answer says nothing of gets 0xdeaddead in its three counters.
MonitorVFATCalls ==
  [getmonVFATLink |-> Words(<<"DAQ_CRC_ERROR_CNT", "DAQ_EVENT_CNT", "SYNC_ERR_CNT">>)]

\* The functions of two parts of a file.
Both(f, g) == [op \in DOMAIN f \cup DOMAIN g |-> IF op \in DOMAIN f THEN f[op] ELSE g[op]]

\* Each source file has a static req and a static rsp of its own (utils.h).
File ==
  [utils |-> UtilsCalls, amc |-> AmcCalls, gbt |-> GbtCalls, sca |-> ScaCalls,
   optohybrid |-> OptohybridCalls, vfat3 |-> Vfat3Calls,
   calibration_routines |-> Both(PulseCalls, Both(ScanCalls, RateCalls)),
   daq_monitor |-> Both(Both(MonitorMainCalls, MonitorLinkCalls),
                        Both(MonitorOHCalls, MonitorVFATCalls))]

Files == DOMAIN File

Ops == UNION {DOMAIN File[f] : f \in Files}

Unit == [op \in Ops |-> CHOOSE f \in Files : op \in DOMAIN File[f]]

Calls == [op \in Ops |-> File[Unit[op]][op]]

\* The module whose method a function calls.
Module(op) ==
  CASE op \in {"getReg", "putReg"} -> "memory"
    [] op \in {"getBlock", "getList"} -> "extras"
    [] op = "readSCAADCSensor" -> "amc"
    [] OTHER -> Unit[op]

\* The modules init loads, in its order.
LoadOrder ==
  <<"memory", "extras", "utils", "optohybrid", "amc", "daq_monitor", "calibration_routines",
    "vfat3", "gbt">>

\* Bit i of a word; x & y and x >> n, for words of up to 16 bits: a mask has 12.
Bit(x, i) == (x \div 2^i) % 2
And(x, y) ==
  LET bit(i) == 2^i * Bit(x, i) * Bit(y, i)
  IN  bit(0) + bit(1) + bit(2) + bit(3) + bit(4) + bit(5) + bit(6) + bit(7)
        + bit(8) + bit(9) + bit(10) + bit(11) + bit(12) + bit(13) + bit(14) + bit(15)
Shr(x, n) == x \div 2^n

\* The ones of each pair of bits, from those the ones of each four, and two parts
\* of a word added up: 0x5555 and 0x3333.
Pairs(x) == x - And(Shr(x, 1), 21845)
Nibbles(x) == And(x, 13107) + And(Shr(x, 2), 13107)
Plus(x, n) == x + Shr(x, n)

\* The number of optohybrids of a mask, as the size check computes it.
count_1bits(x) == And(Plus(Plus(Nibbles(Pairs(x)), 8), 16), 63)

Count == [mask \in Masks |-> count_1bits(mask)]

\* The optohybrids of a mask.
Links(mask) == {i \in 0..11 : Bit(mask, i) = 1}

---------------------------------------------------------------------------
(* The service behind the connection.                                      *)

\* The functions that return a word of the answer in the place of a code.
InBand == {"getReg", "getOHVFATMask", "repeatedRegRead"}

\* What an answer without a fault carries besides its keys.
Extra(m) ==
  CASE m.op \in InBand -> Data
    [] m.op = "readSCAADCSensor" -> {Cardinality(Links(m.arg))}
    [] m.op = "sbitReadOut" -> LiveTimes \cup {Full}
    [] OTHER -> {0}

Answer(m, fault, pos, word) ==
  [to |-> m.to, op |-> m.op, fault |-> fault, pos |-> pos, word |-> word]

\* The method may report an error, or leave out a key, or send an array of
\* another size; the RPC service itself may refuse, and does so when the module
\* of the method is not loaded.
Good(m) == {Answer(m, "none", 0, w) : w \in Extra(m)}

Faulty(m) ==
  LET keys == 1..Len(Calls[m.op].keys)
  IN  {Answer(m, f, 0, 0) : f \in {"error", "refused"}}
        \cup {Answer(m, "lacks", i, w) :
                 i \in keys, w \in IF m.op = "sbitReadOut" THEN Extra(m) ELSE {0}}
        \cup {Answer(m, "size", i, 0) : i \in {k \in keys : Calls[m.op].sized}}

Available(m) == \E i \in 1..loaded : LoadOrder[i] = Module(m.op)

---------------------------------------------------------------------------
(* A call.                                                                 *)

NoCall == [step |-> "none"]

NoMessage == [to |-> None]

Arguments(op) ==
  CASE op = "putReg" -> Data
    [] op = "readSCAADCSensor" -> Masks
    [] op = "sbitRateScan" -> {0, 1}   \* 1: dacStep does not divide the range
    [] OTHER -> {0}

RpcInit ==
  /\ alive = TRUE
  /\ wire = <<>>
  /\ req = [f \in Files |-> NoMessage]
  /\ rsp = [f \in Files |-> NoMessage]
  /\ call = [t \in Threads |-> NoCall]
  /\ served = [t \in Threads |-> FALSE]
  /\ last = [t \in Threads |-> NoCall]
  /\ faults = 0

Inside == {t \in Threads : call[t].step # "none"}

\* The call joins those in progress, and they note it.
Enter(t, c) ==
  /\ call' = [u \in Threads |->
                IF u = t THEN [c EXCEPT !.with = Inside]
                ELSE IF u \in Inside THEN [call[u] EXCEPT !.with = @ \cup {t}]
                ELSE call[u]]
  /\ served' = [served EXCEPT ![t] = FALSE]
  /\ last' = [last EXCEPT ![t] = NoCall]

\* req = RPCMsg(...) and the set_ calls.
Prepare(t, op, arg) ==
  /\ call[t] = NoCall
  /\ Enter(t, [op |-> op, arg |-> arg, step |-> "prepared", net |-> 0, with |-> {}])
  /\ req' = [req EXCEPT ![Unit[op]] = [to |-> t, op |-> op, arg |-> arg]]
  /\ UNCHANGED <<alive, link, loaded, wire, rsp, faults>>

\* What req and rsp hold between calls is never read: Prepare and Receive assign
\* them first.
Forget(t) ==
  LET f == Unit[call[t].op]
      idle == \A u \in Inside \ {t} : Unit[call[u].op] # f
  IN  /\ req' = IF idle THEN [req EXCEPT ![f] = NoMessage] ELSE req
      /\ rsp' = IF idle THEN [rsp EXCEPT ![f] = NoMessage] ELSE rsp

\* The call returns: its code, the thread whose answer it took, its arrays.
Return(t, code, from, out) ==
  /\ Forget(t)
  /\ last' = [last EXCEPT ![t] =
                [step |-> "returned", op |-> call[t].op, arg |-> call[t].arg, code |-> code,
                 from |-> from, out |-> out, with |-> call[t].with, net |-> call[t].net]]
  /\ call' = [call EXCEPT ![t] = NoCall]

Untouched(op) == [i \in 1..Len(Calls[op].keys) |-> Old]

\* Mutant: an exception or an error that is reported as success.
FailSilently(t, code) == Return(t, 0, None, Untouched(call[t].op))

Fail(t, code) == Return(t, code, None, Untouched(call[t].op))

\* The caller has looked at what its call returned.
Taken(t) ==
  /\ last' = [last EXCEPT ![t] = NoCall]
  /\ served' = [served EXCEPT ![t] = FALSE]
  /\ UNCHANGED <<alive, link, loaded, wire, req, rsp, call, faults>>

\* sbitRateScan checks its steps after it has filled req.
Refuse(t) ==
  /\ call[t].step = "prepared"
  /\ call[t].op = "sbitRateScan"
  /\ call[t].arg = 1
  /\ Fail(t, 1)
  /\ UNCHANGED <<alive, link, loaded, wire, served, faults>>

\* sbitReadOut opens a file before each of its calls.
OpenFails(t) ==
  /\ call[t].step = "prepared"
  /\ call[t].op = "sbitReadOut"
  /\ Fail(t, EIO)
  /\ UNCHANGED <<alive, link, loaded, wire, served, faults>>

Ready(t) ==
  /\ call[t].step = "prepared"
  /\ call[t].op = "sbitRateScan" => call[t].arg = 0

\* call_method without a connection: STANDARD_CATCH returns 1.
NotConnected(t) ==
  /\ Ready(t)
  /\ ~link
  /\ Fail(t, 1)
  /\ UNCHANGED <<alive, link, loaded, wire, served, faults>>

\* call_method sends what req holds now; the server answers in the order of
\* the requests.
Send(t) ==
  /\ Ready(t)
  /\ link
  /\ LET m == req[Unit[call[t].op]]
     IN  \E a \in IF ~Available(m) THEN {Answer(m, "refused", 0, 0)}
                  ELSE Good(m) \cup (IF faults < MaxFaults THEN Faulty(m) ELSE {}) :
           /\ wire' = Append(wire, a)
           /\ served' = [served EXCEPT ![m.to] = @ \/ a.fault \notin {"error", "refused"}]
           /\ faults' = IF Available(m) /\ a.fault # "none" THEN faults + 1 ELSE faults
  /\ call' = [call EXCEPT ![t].step = "sent"]
  /\ UNCHANGED <<alive, link, loaded, req, rsp, last>>

\* call_method takes the next answer of the connection; rsp is assigned.
Receive(t) ==
  /\ call[t].step = "sent"
  /\ wire # <<>>
  /\ Head(wire).fault # "refused"
  /\ wire' = Tail(wire)
  /\ rsp' = [rsp EXCEPT ![Unit[call[t].op]] = Head(wire)]
  /\ call' = [call EXCEPT ![t].step = "received"]
  /\ UNCHANGED <<alive, link, loaded, req, served, last, faults>>

\* Mutant: a broken connection is not noticed by who waits for an answer.
CallThrowsConnected(t) ==
  /\ call[t].step = "sent"
  /\ wire # <<>>
  /\ Head(wire).fault = "refused"
  /\ wire' = Tail(wire)
  /\ Fail(t, 1)
  /\ UNCHANGED <<alive, link, loaded, served, faults>>

\* call_method throws: the service refused, or the connection broke.
CallThrows(t) ==
  /\ call[t].step = "sent"
  /\ \/ wire # <<>> /\ Head(wire).fault = "refused" /\ wire' = Tail(wire)
     \/ ~link /\ wire = <<>> /\ UNCHANGED wire
  /\ Fail(t, 1)
  /\ UNCHANGED <<alive, link, loaded, served, faults>>

\* What a call makes of an answer.  The first key that cannot be taken ends it;
\* of an answer to another function no key can.
FirstBad(c, a) ==
  CASE a.op # c.op -> 1
    [] a.fault \in {"lacks", "size"} -> a.pos
    [] c.op = "readSCAADCSensor" /\ a.word # Count[c.arg] -> 1
    [] OTHER -> Len(Calls[c.op].keys) + 1

Code(c, a) ==
  LET e == Calls[c.op]
      b == FirstBad(c, a)
      lacking == a.op # c.op \/ a.fault = "lacks"
  IN  CASE a.fault = "error" -> e.onError
        [] a.fault # "error" /\ b > Len(e.keys) ->
             CASE c.op \in InBand -> a.word [] c.op = "putReg" -> c.arg [] OTHER -> 0
        [] a.fault # "error" /\ b <= Len(e.keys) /\ lacking ->
             IF c.op = "getmonVFATLink" /\ b = 1 THEN 0 ELSE e.onLack
        [] OTHER -> 1

Outputs(c, a) ==
  LET e == Calls[c.op]
      b == FirstBad(c, a)
  IN  [i \in 1..Len(e.keys) |->
         IF a.fault = "error" THEN Old
         ELSE IF i < b THEN <<a.to, e.keys[i]>>
         ELSE IF c.op = "getmonVFATLink" /\ b = 1 THEN Marked
         ELSE Old]

Collect(t) ==
  LET c == call[t]
      a == rsp[Unit[c.op]]
      code == Code(c, a)
  IN  /\ c.step = "received"
      /\ c.op # "sbitReadOut"
      /\ IF code = Uncaught
         THEN alive' = FALSE /\ UNCHANGED <<req, rsp, call, last>>
         ELSE /\ Return(t, code,
                        IF a.fault = "error" \/ FirstBad(c, a) <= Len(Calls[c.op].keys)
                        THEN None ELSE a.to,
                        Outputs(c, a))
              /\ UNCHANGED alive
      /\ UNCHANGED <<link, loaded, wire, served, faults>>

\* Mutant: <= in the condition of the loop.
TimeLeftInclusive(net) == net <= AcquireTime

TimeLeft(net) == net < AcquireTime

\* One round of sbitReadOut: the time is counted, the data written to a file,
\* and the same req is sent again while time is left.
Acquire(t) ==
  LET c == call[t]
      a == rsp.amc
      net == c.net + (IF a.word = Full THEN AcquireTime ELSE a.word)
  IN  /\ c.step = "received"
      /\ c.op = "sbitReadOut"
      /\ \/ /\ a.fault = "error"
            /\ Fail(t, 1)
            /\ UNCHANGED alive
         \/ /\ a.fault = "lacks" /\ a.pos = 1 /\ a.word # Full
            /\ alive' = FALSE
            /\ UNCHANGED <<req, rsp, call, last>>
         \/ /\ a.fault = "lacks" /\ a.pos = 2
            /\ Fail(t, 1)
            /\ UNCHANGED alive
         \/ /\ a.fault = "none" \/ (a.fault = "lacks" /\ a.pos = 1 /\ a.word = Full)
            /\ IF TimeLeft(net)
               THEN /\ call' = [call EXCEPT ![t].step = "prepared", ![t].net = net]
                    /\ UNCHANGED <<req, rsp, last>>
               ELSE /\ Forget(t)
                    /\ last' = [last EXCEPT ![t] =
                                  [step |-> "returned", op |-> c.op, arg |-> c.arg, code |-> 0,
                                   from |-> a.to, out |-> <<>>, with |-> c.with, net |-> net]]
                    /\ call' = [call EXCEPT ![t] = NoCall]
            /\ UNCHANGED alive
      /\ UNCHANGED <<link, loaded, wire, served, faults>>

---------------------------------------------------------------------------
(* init and deinit.                                                        *)

Result(t, op, code) ==
  /\ last' = [last EXCEPT ![t] = [step |-> "returned", op |-> op, arg |-> 0, code |-> code,
                                  from |-> None, out |-> <<>>, with |-> {}, net |-> 0]]
  /\ call' = [call EXCEPT ![t] = NoCall]

Connect(t) ==
  /\ call[t] = NoCall
  /\ Enter(t, [op |-> "init", arg |-> 0, step |-> "loading", net |-> 0, with |-> {}])
  /\ link' = TRUE
  /\ loaded' = 0
  /\ wire' = <<>>
  /\ UNCHANGED <<alive, req, rsp, faults>>

ConnectFails(t) ==
  /\ call[t] = NoCall
  /\ faults < MaxFaults
  /\ faults' = faults + 1
  /\ Result(t, "init", 1)
  /\ link' = FALSE
  /\ loaded' = 0
  /\ wire' = <<>>
  /\ UNCHANGED <<alive, req, rsp, served>>

\* Mutant: <= in the condition of the loop over the modules.
LoadModuleBeyond(t) ==
  /\ call[t].step = "loading"
  /\ link
  /\ loaded <= Len(LoadOrder)
  /\ loaded' = loaded + 1
  /\ UNCHANGED <<alive, link, wire, req, rsp, call, served, last, faults>>

LoadModule(t) ==
  /\ call[t].step = "loading"
  /\ link
  /\ loaded < Len(LoadOrder)
  /\ loaded' = loaded + 1
  /\ UNCHANGED <<alive, link, wire, req, rsp, call, served, last, faults>>

\* Mutant: without the ASSERT around load_module.
LoadFailsUnnoticed(t) ==
  /\ call[t].step = "loading"
  /\ loaded < Len(LoadOrder)
  /\ \/ link /\ faults < MaxFaults /\ faults' = faults + 1
     \/ ~link /\ UNCHANGED faults
  /\ Result(t, "init", 0)
  /\ UNCHANGED <<alive, link, loaded, wire, req, rsp, served>>

\* load_module returns false, or throws: 1, and the connection stays as it is.
LoadFails(t) ==
  /\ call[t].step = "loading"
  /\ loaded < Len(LoadOrder)
  /\ \/ link /\ faults < MaxFaults /\ faults' = faults + 1
     \/ ~link /\ UNCHANGED faults
  /\ Result(t, "init", 1)
  /\ UNCHANGED <<alive, link, loaded, wire, req, rsp, served>>

InitReturns(t) ==
  /\ call[t].step = "loading"
  /\ loaded = Len(LoadOrder)
  /\ Result(t, "init", 0)
  /\ UNCHANGED <<alive, link, loaded, wire, req, rsp, served, faults>>

\* deinit reports a connection that was not open as a success; another
\* exception of disconnect is 1.
deinit(t) ==
  /\ call[t] = NoCall
  /\ \/ Result(t, "deinit", 0) /\ UNCHANGED faults
     \/ link /\ faults < MaxFaults /\ faults' = faults + 1 /\ Result(t, "deinit", 1)
  /\ link' = FALSE
  /\ loaded' = 0
  /\ wire' = <<>>
  /\ UNCHANGED <<alive, req, rsp, served>>

\* The card goes away: what was on its way is lost.
LinkBreaks ==
  /\ alive
  /\ link
  /\ faults < MaxFaults
  /\ faults' = faults + 1
  /\ link' = FALSE
  /\ loaded' = 0
  /\ wire' = <<>>
  /\ UNCHANGED <<alive, req, rsp, call, served, last>>

\* Two threads of one file assign and read its req and rsp at the same time: a
\* data race on a map of strings, which may end the process.
Race(t, u) ==
  /\ t # u
  /\ {t, u} \subseteq Inside
  /\ {call[t].step, call[u].step} \cap {"loading"} = {}
  /\ Unit[call[t].op] = Unit[call[u].op]
  /\ alive' = FALSE
  /\ UNCHANGED <<link, loaded, wire, req, rsp, call, served, last, faults>>

LibraryStep(t) ==
  \/ Refuse(t) \/ OpenFails(t) \/ NotConnected(t) \/ Send(t) \/ Receive(t) \/ CallThrows(t)
  \/ Collect(t) \/ Acquire(t) \/ LoadModule(t) \/ LoadFails(t) \/ InitReturns(t)

---------------------------------------------------------------------------
(* Properties of the library.                                              *)

\* The last call of the thread has returned, and no other thread was in the
\* library meanwhile.
Undisturbed(t) == last[t] # NoCall /\ last[t].with = {}

\* Return code 0 means that the service did what was asked and that every array
\* the caller passed holds the words of this call's own answer, each in its
\* place; getmonOHLink exchanges the CRC and the sync counters, and getmonVFATLink
\* marks a VFAT that was left out.  Another code may leave some of the arrays
\* filled, the first ones.
OutputsHonest ==
  \A t \in Threads :
    LET r == last[t]
        f == Calls[r.op].fields
    IN  Undisturbed(t) /\ r.op \in Ops \ (InBand \cup {"putReg", "sbitReadOut"}) =>
          /\ r.code = 0 =>
               /\ served[t]
               /\ \/ \A i \in DOMAIN f : r.out[i] = <<t, f[i]>>
                  \/ r.op = "getmonOHLink"
                     /\ r.out = <<<<t, f[1]>>, <<t, f[4]>>, <<t, f[3]>>, <<t, f[2]>>>>
                  \/ r.op = "getmonVFATLink" /\ \A i \in DOMAIN f : r.out[i] = Marked
          /\ \A i, j \in DOMAIN f : i < j /\ r.out[j] # Old => r.out[i] # Old

\* A function that returns a word in the place of a code gives what the service
\* sent, and putReg gives back the value it wrote, unless the word is one of the
\* three that also stand for a failure.
InBandHonest ==
  \A t \in Threads :
    LET r == last[t]
    IN  Undisturbed(t) /\ r.op \in InBand \cup {"putReg"} /\ r.code \notin {1, Dead, All} =>
          /\ served[t] /\ r.from = t
          /\ r.op = "putReg" => r.code = r.arg

\* What the comment on readSCAADCSensor says, "which OH's to read from" of the mask
\* and "0 if AOK" of the result: an answer with one word for each optohybrid of the
\* mask, and without a fault, is taken.
SensorsAccepted ==
  \A t \in Threads :
    /\ call[t].step = "received"
    /\ call[t].op = "readSCAADCSensor"
    /\ rsp.sca.fault = "none"
    => Code(call[t], rsp.sca) = 0

\* What it does: such an answer is taken exactly if the mask has none of links 4 to
\* 7, because count_1bits does not add up the two halves of a byte.
SensorsByMask ==
  \A t \in Threads :
    /\ call[t].step = "received"
    /\ call[t].op = "readSCAADCSensor"
    /\ rsp.sca.fault = "none"
    => (Code(call[t], rsp.sca) = 0 <=> Links(call[t].arg) \cap 4..7 = {})

\* After an init that returned 0 all modules are loaded as long as the connection
\* lasts.
InitComplete ==
  \A t \in Threads :
    last[t] # NoCall /\ last[t].op = "init" /\ last[t].code = 0 /\ link =>
      loaded = Len(LoadOrder)

\* sbitReadOut returns 0 only after the time asked for, and takes less than twice
\* as long: each of its calls asks for the whole time again.
AcquireBounded ==
  \A t \in Threads :
    last[t] # NoCall /\ last[t].op = "sbitReadOut" /\ last[t].code = 0 =>
      last[t].net \in AcquireTime..(2 * AcquireTime - 1)

---------------------------------------------------------------------------
(* What holds in every state of the library: the inductive invariant.       *)

Messages == [to : Threads, op : Ops, arg : Int]
Answers ==
  [to : Threads, op : Ops, fault : {"none", "error", "refused", "lacks", "size"}, pos : Nat,
   word : Int]
Entered ==
  [op : Ops, arg : Int, step : {"prepared", "sent", "received"}, net : Int, with : SUBSET Threads]
Loading ==
  [op : {"init"}, arg : {0}, step : {"loading"}, net : {0}, with : SUBSET Threads]
\* What may stand in an array of the caller.
Cells == (Threads \cup {None}) \X
            ({"old", "dead"} \cup UNION {{Calls[op].keys[i] : i \in DOMAIN Calls[op].keys} : op \in Ops})
Returned ==
  [step : {"returned"}, op : Ops \cup {"init", "deinit"}, arg : Int, code : Int,
   from : Threads \cup {None}, out : Seq(Cells), with : SUBSET Threads, net : Int]

RpcTypes ==
  /\ alive \in BOOLEAN /\ link \in BOOLEAN
  /\ loaded \in 0..Len(LoadOrder) /\ faults \in 0..MaxFaults
  /\ wire \in Seq(Answers)
  /\ req \in [Files -> Messages \cup {NoMessage}]
  /\ rsp \in [Files -> Answers \cup {NoMessage}]
  /\ call \in [Threads -> Entered \cup Loading \cup {NoCall}]
  /\ served \in [Threads -> BOOLEAN]
  /\ last \in [Threads -> Returned \cup {NoCall}]

\* While a call is in the library its file keeps a req, and the rsp it received;
\* it has not returned yet.
Kept(t) ==
  /\ call[t] \in Entered => req[Unit[call[t].op]] \in Messages
  /\ call[t].step = "received" => rsp[Unit[call[t].op]] \in Answers
  /\ call[t] # NoCall => last[t] = NoCall

\* Every call knows who is in the library with it.
Joined == \A t, u \in Inside : u # t => u \in call[t].with

\* There is one answer on its way for every call that waits for one, unless the
\* connection is gone.
Waiting == {t \in Threads : call[t].step = "sent"}
Wired == (~link /\ wire = <<>>) \/ Len(wire) = Cardinality(Waiting)

\* a answers the call t is making.
Own(t, a) ==
  /\ a.to = t
  /\ a.op = call[t].op
  /\ a.fault \notin {"error", "refused"} => served[t]
  /\ a.op = "sbitReadOut" => a.word \in LiveTimes \cup {Full} \/ a.fault \in {"error", "refused"}
  /\ a.op = "readSCAADCSensor" /\ a.fault = "none" => a.word = Cardinality(Links(call[t].arg))

\* A call nobody else joined has req, the connection and rsp to itself.
Private(t) ==
  /\ call[t] \in Entered =>
       req[Unit[call[t].op]] = [to |-> t, op |-> call[t].op, arg |-> call[t].arg]
  /\ call[t].step # "sent" => wire = <<>>
  /\ call[t].step = "sent" =>
       (~link /\ wire = <<>>) \/ (Len(wire) = 1 /\ Own(t, wire[1]))
  /\ call[t].step = "received" =>
       Own(t, rsp[Unit[call[t].op]]) /\ rsp[Unit[call[t].op]].fault # "refused"

\* What a call that was alone returned is of its own answer; a scan is complete
\* exactly if its code is 0.
OwnReturn(t) ==
  Undisturbed(t) =>
    /\ last[t].from \in {t, None}
    /\ last[t].op = "scanGBTPhases" =>
         (last[t].code = 0 <=> \A n \in DOMAIN last[t].out : last[t].out[n] # Old)

RpcIInv ==
  /\ RpcTypes
  /\ \A t \in Threads : Kept(t)
  /\ Joined
  /\ Wired
  /\ \A t \in Inside : call[t].with = {} => Private(t)

\* sbitReadOut goes on while less than the time asked for has been counted.
NetBounded ==
  \A t \in Threads : call[t] # NoCall /\ call[t].op = "sbitReadOut" =>
    call[t].net \in 0..(AcquireTime - 1)
====
