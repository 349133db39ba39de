------------------------------- MODULE RpcProofs ------------------------------
(***************************************************************************)
(* Proofs about librpcman under the web pages, the scripts and the GBT tools, *)
(* for every number of threads, every set of requests made together, every    *)
(* list of the main page and any number of faults.                            *)
(***************************************************************************)
EXTENDS DaqSuite, FiniteSetTheorems, TLAPS

-----------------------------------------------------------------------------
(* The table of functions *)

IsTuple(s) == Len(s) \in Nat /\ s = [i \in 1..Len(s) |-> s[i]]

\* What all entries of the table have in common.
Regular(op, e) ==
  /\ IsTuple(e.keys)
  /\ e.onError \in {1, Dead, All}
  /\ e.onLack \in {1, Dead, Uncaught}
  /\ op = "getmonOHLink" \/ e.fields = e.keys
  /\ op = "sbitReadOut" => e.sized = FALSE

LEMMA TupleLaw ==
  ASSUME NEW S, NEW s \in Seq(S) PROVE IsTuple(s)
  BY DEF IsTuple

LEMMA Tuples ==
  /\ IsTuple(<<>>)
  /\ \A a : IsTuple(<<a>>)
  /\ \A a, b : IsTuple(<<a, b>>)
  /\ \A a, b, c : IsTuple(<<a, b, c>>)
  /\ \A a, b, c, d : IsTuple(<<a, b, c, d>>)
  /\ \A a, b, c, d, e : IsTuple(<<a, b, c, d, e>>)
<1>1. IsTuple(<<>>)
  BY DEF IsTuple
<1>2. ASSUME NEW a PROVE IsTuple(<<a>>)
  <2>1. <<a>> \in Seq({a})
    OBVIOUS
  <2> QED
    BY <2>1, TupleLaw
<1>3. ASSUME NEW a, NEW b PROVE IsTuple(<<a, b>>)
  <2>1. <<a, b>> \in Seq({a, b})
    OBVIOUS
  <2> QED
    BY <2>1, TupleLaw
<1>4. ASSUME NEW a, NEW b, NEW c PROVE IsTuple(<<a, b, c>>)
  <2>1. <<a, b, c>> \in Seq({a, b, c})
    OBVIOUS
  <2> QED
    BY <2>1, TupleLaw
<1>5. ASSUME NEW a, NEW b, NEW c, NEW d PROVE IsTuple(<<a, b, c, d>>)
  <2>1. <<a, b, c, d>> \in Seq({a, b, c, d})
    OBVIOUS
  <2> QED
    BY <2>1, TupleLaw
<1>6. ASSUME NEW a, NEW b, NEW c, NEW d, NEW e PROVE IsTuple(<<a, b, c, d, e>>)
  <2>1. <<a, b, c, d, e>> \in Seq({a, b, c, d, e})
    OBVIOUS
  <2> QED
    BY <2>1, TupleLaw
<1> QED
  BY <1>1, <1>2, <1>3, <1>4, <1>5, <1>6

LEMMA EntryRegular ==
  ASSUME NEW op, NEW keys, IsTuple(keys), NEW onError \in {1, Dead, All},
         NEW onLack \in {1, Dead, Uncaught}, NEW sized \in BOOLEAN,
         op = "sbitReadOut" => sized = FALSE
  PROVE  Regular(op, Entry(keys, onError, onLack, sized))
  BY DEF Regular, Entry

LEMMA FormsRegular ==
  ASSUME NEW op
  PROVE  /\ Regular(op, Ack)
         /\ \A key : Regular(op, Value(key))
         /\ \A keys : IsTuple(keys) => Regular(op, Words(keys))
         /\ op # "sbitReadOut" => \A keys : IsTuple(keys) => Regular(op, Arrays(keys))
  BY EntryRegular, Tuples DEF Ack, Value, Words, Arrays

LEMMA BothRegular ==
  ASSUME NEW f, NEW g,
         \A op \in DOMAIN f : Regular(op, f[op]), \A op \in DOMAIN g : Regular(op, g[op])
  PROVE  \A op \in DOMAIN Both(f, g) : Regular(op, Both(f, g)[op])
  BY DEF Both

LEMMA UtilsRegular == \A op \in DOMAIN UtilsCalls : Regular(op, UtilsCalls[op])
<1>1. /\ Regular("getReg", Entry(<<"data">>, Dead, Dead, TRUE))
      /\ Regular("getBlock", Entry(<<"data">>, 1, Dead, TRUE))
      /\ Regular("getList", Entry(<<"data">>, 1, Dead, TRUE))
      /\ Regular("putReg", Entry(<<>>, Dead, Dead, FALSE))
  BY EntryRegular, Tuples
<1>2. DOMAIN UtilsCalls = {"update_atdb", "getRegInfoDB", "getReg", "getBlock", "getList", "putReg"}
  BY DEF UtilsCalls
<1>3. /\ UtilsCalls["update_atdb"] = Ack
      /\ UtilsCalls["getRegInfoDB"] = Words(<<"address", "mask", "permissions">>)
      /\ UtilsCalls["getReg"] = Entry(<<"data">>, Dead, Dead, TRUE)
      /\ UtilsCalls["getBlock"] = Entry(<<"data">>, 1, Dead, TRUE)
      /\ UtilsCalls["getList"] = Entry(<<"data">>, 1, Dead, TRUE)
      /\ UtilsCalls["putReg"] = Entry(<<>>, Dead, Dead, FALSE)
  BY Zenon DEF UtilsCalls
<1> QED
  BY <1>1, <1>2, <1>3, FormsRegular, Tuples, Zenon

LEMMA AmcRegular == \A op \in DOMAIN AmcCalls : Regular(op, AmcCalls[op])
<1>1. Regular("sbitReadOut", Entry(<<"approxLiveTime", "storedSbits">>, 1, 1, FALSE))
  BY EntryRegular, Tuples
<1>2. DOMAIN AmcCalls = {"getOHVFATMask", "getOHVFATMaskMultiLink", "repeatedRegRead", "sbitReadOut"}
  BY DEF AmcCalls
<1>3. /\ AmcCalls["getOHVFATMask"] = Value("vfatMask")
      /\ AmcCalls["getOHVFATMaskMultiLink"] = Arrays(<<"ohVfatMaskArray">>)
      /\ AmcCalls["repeatedRegRead"] = Value("SUM")
      /\ AmcCalls["sbitReadOut"] = Entry(<<"approxLiveTime", "storedSbits">>, 1, 1, FALSE)
  BY Zenon DEF AmcCalls
<1> QED
  BY <1>1, <1>2, <1>3, FormsRegular, Tuples, Zenon

LEMMA GbtRegular == \A op \in DOMAIN GbtCalls : Regular(op, GbtCalls[op])
<1>1. \A op \in DOMAIN GbtCalls :
        op # "sbitReadOut" /\ GbtCalls[op] \in {Ack, Arrays(<<"VFAT0", "VFAT1">>)}
  BY DEF GbtCalls
<1> QED
  BY <1>1, FormsRegular, Tuples

LEMMA ScaRegular == \A op \in DOMAIN ScaCalls : Regular(op, ScaCalls[op])
<1>1. \A op \in DOMAIN ScaCalls : op # "sbitReadOut" /\ ScaCalls[op] = Arrays(<<"data">>)
  BY DEF ScaCalls
<1> QED
  BY <1>1, FormsRegular, Tuples

LEMMA OptohybridRegular == \A op \in DOMAIN OptohybridCalls : Regular(op, OptohybridCalls[op])
<1>1. \A op \in DOMAIN OptohybridCalls :
        op # "sbitReadOut" /\ OptohybridCalls[op] \in {Ack, Arrays(<<"data">>)}
  BY DEF OptohybridCalls
<1> QED
  BY <1>1, FormsRegular, Tuples

LEMMA Vfat3Regular == \A op \in DOMAIN Vfat3Calls : Regular(op, Vfat3Calls[op])
<1>1. Regular("getVFAT3ChipIDs", Entry(<<"VFAT0", "VFAT1">>, 1, Uncaught, FALSE))
  BY EntryRegular, Tuples
<1>2. Vfat3Calls["getVFAT3ChipIDs"] = Entry(<<"VFAT0", "VFAT1">>, 1, Uncaught, FALSE)
  BY Zenon DEF Vfat3Calls
<1>3. \A op \in DOMAIN Vfat3Calls \ {"getVFAT3ChipIDs"} :
        /\ op # "sbitReadOut"
        /\ Vfat3Calls[op] \in {Ack, Arrays(<<"chanRegData">>), Arrays(<<"adcData">>),
                               Arrays(<<"adcDataAll">>)}
  BY DEF Vfat3Calls
<1> QED
  BY <1>1, <1>2, <1>3, FormsRegular, Tuples, Zenon

LEMMA CalibrationRegular ==
  \A op \in DOMAIN File.calibration_routines : Regular(op, File.calibration_routines[op])
<1>1. \A op \in DOMAIN PulseCalls : Regular(op, PulseCalls[op])
  <2>1. \A op \in DOMAIN PulseCalls :
          /\ op # "sbitReadOut"
          /\ PulseCalls[op] \in {Arrays(<<"data">>), Arrays(<<"outDataCTP7Rate",
               "outDataFPGAClusterCntRate", "outDataVFATSBits">>)}
    BY DEF PulseCalls
  <2> QED
    BY <2>1, FormsRegular, Tuples
<1>2. \A op \in DOMAIN ScanCalls : Regular(op, ScanCalls[op])
  <2>1. \A op \in DOMAIN ScanCalls :
          /\ op # "sbitReadOut"
          /\ ScanCalls[op] \in {Arrays(<<"data">>), Arrays(<<"dacScanResults">>),
               Arrays(<<"dacScanResultsAll">>)}
    BY DEF ScanCalls
  <2> QED
    BY <2>1, FormsRegular, Tuples
<1>3. \A op \in DOMAIN RateCalls : Regular(op, RateCalls[op])
  <2>1. \A op \in DOMAIN RateCalls :
          /\ op # "sbitReadOut"
          /\ RateCalls[op] \in {Ack, Arrays(<<"outDataDacValue", "outDataCTP7Rate",
                                              "outDataVFATRate">>)}
    BY DEF RateCalls
  <2> QED
    BY <2>1, FormsRegular, Tuples
<1>4. File.calibration_routines = Both(PulseCalls, Both(ScanCalls, RateCalls))
  BY DEF File
<1> QED
  BY <1>1, <1>2, <1>3, <1>4, BothRegular

LEMMA MonitorRegular == \A op \in DOMAIN File.daq_monitor : Regular(op, File.daq_monitor[op])
<1>1. \A op \in DOMAIN MonitorMainCalls : Regular(op, MonitorMainCalls[op])
  <2>1. DOMAIN MonitorMainCalls =
          {"getmonTTCmain", "getmonTRIGGERmain", "getmonTRIGGEROHmain", "getmonDAQmain"}
    BY DEF MonitorMainCalls
  <2>2. /\ MonitorMainCalls["getmonTTCmain"] =
             Words(<<"MMCM_LOCKED", "TTC_SINGLE_ERROR_CNT", "BC0_LOCKED", "L1A_ID", "L1A_RATE">>)
        /\ MonitorMainCalls["getmonTRIGGERmain"] = Words(<<"OR_TRIGGER_RATE", "TRIGGER_RATE">>)
        /\ MonitorMainCalls["getmonTRIGGEROHmain"] =
             Words(<<"LINK0_MISSED_COMMA_CNT", "LINK1_MISSED_COMMA_CNT">>)
        /\ MonitorMainCalls["getmonDAQmain"] = Words(<<"DAQ_ENABLE", "DAQ_LINK_READY", "TTS_STATE">>)
    BY Zenon DEF MonitorMainCalls
  <2> QED
    BY <2>1, <2>2, FormsRegular, Tuples, Zenon
<1>2. \A op \in DOMAIN MonitorLinkCalls : Regular(op, MonitorLinkCalls[op])
  <2> DEFINE e == Words(<<"READY", "SYNC_ERR_CNT", "DAQ_EVENT_CNT", "DAQ_CRC_ERROR_CNT">>)
             f == [e EXCEPT !.fields = <<"READY", "DAQ_CRC_ERROR_CNT", "DAQ_EVENT_CNT",
                                         "SYNC_ERR_CNT">>]
  <2>1. DOMAIN MonitorLinkCalls = {"getmonDAQOHmain", "getmonGBTLink", "getmonOHLink"}
    BY DEF MonitorLinkCalls
  <2>2. /\ MonitorLinkCalls["getmonDAQOHmain"] = Words(<<"EVT_SIZE_ERR", "EVENT_FIFO_HAD_OFLOW">>)
        /\ MonitorLinkCalls["getmonGBTLink"] = Words(<<"READY", "WAS_NOT_READY">>)
        /\ MonitorLinkCalls["getmonOHLink"] = f
    BY Zenon DEF MonitorLinkCalls
  <2>3. Regular("getmonOHLink", f)
    <3>1. Regular("getmonOHLink", e)
      BY FormsRegular, Tuples
    <3>2. f.keys = e.keys /\ f.onError = e.onError /\ f.onLack = e.onLack
      BY DEF Words, Entry
    <3> QED
      BY <3>1, <3>2 DEF Regular
  <2> HIDE DEF f
  <2> QED
    BY <2>1, <2>2, <2>3, FormsRegular, Tuples, Zenon
<1>3. \A op \in DOMAIN MonitorOHCalls : Regular(op, MonitorOHCalls[op])
  <2>1. \A op \in DOMAIN MonitorOHCalls :
          MonitorOHCalls[op] \in {Words(<<"FW_VERSION", "EVENT_COUNTER">>),
            Words(<<"SCA_TEMP", "BOARD_TEMP1">>), Words(<<"OVERTEMP", "CNT_OVERTEMP">>)}
    BY DEF MonitorOHCalls
  <2> QED
    BY <2>1, FormsRegular, Tuples, Zenon
<1>4. \A op \in DOMAIN MonitorVFATCalls : Regular(op, MonitorVFATCalls[op])
  <2>1. \A op \in DOMAIN MonitorVFATCalls :
          MonitorVFATCalls[op] = Words(<<"DAQ_CRC_ERROR_CNT", "DAQ_EVENT_CNT", "SYNC_ERR_CNT">>)
    BY DEF MonitorVFATCalls
  <2> QED
    BY <2>1, FormsRegular, Tuples, Zenon
<1>5. File.daq_monitor = Both(Both(MonitorMainCalls, MonitorLinkCalls),
                              Both(MonitorOHCalls, MonitorVFATCalls))
  BY DEF File
<1>6. \A op \in DOMAIN Both(MonitorMainCalls, MonitorLinkCalls) :
        Regular(op, Both(MonitorMainCalls, MonitorLinkCalls)[op])
  BY <1>1, <1>2, BothRegular
<1>7. \A op \in DOMAIN Both(MonitorOHCalls, MonitorVFATCalls) :
        Regular(op, Both(MonitorOHCalls, MonitorVFATCalls)[op])
  BY <1>3, <1>4, BothRegular
<1> QED
  BY <1>5, <1>6, <1>7, BothRegular

\* The file of a function, and its entry.
LEMMA UnitOf ==
  ASSUME NEW op \in Ops
  PROVE  /\ Unit[op] \in Files
         /\ op \in DOMAIN File[Unit[op]]
         /\ Calls[op] = File[Unit[op]][op]
<1>1. \E f \in Files : op \in DOMAIN File[f]
  BY DEF Ops
<1>2. Unit[op] = CHOOSE f \in Files : op \in DOMAIN File[f]
  BY DEF Unit
<1> QED
  BY <1>1, <1>2 DEF Calls

LEMMA CallsRegular ==
  ASSUME NEW op \in Ops
  PROVE  Regular(op, Calls[op])
<1>1. Unit[op] \in {"utils", "amc", "gbt", "sca", "optohybrid", "vfat3", "calibration_routines",
                    "daq_monitor"}
  BY UnitOf DEF Files, File
<1>2. /\ File["utils"] = UtilsCalls /\ File["amc"] = AmcCalls /\ File["gbt"] = GbtCalls
      /\ File["sca"] = ScaCalls /\ File["optohybrid"] = OptohybridCalls
      /\ File["vfat3"] = Vfat3Calls
  BY DEF File
<1>3. \A g \in DOMAIN File[Unit[op]] : Regular(g, File[Unit[op]][g])
  BY <1>1, <1>2, UtilsRegular, AmcRegular, GbtRegular, ScaRegular, OptohybridRegular,
     Vfat3Regular, CalibrationRegular, MonitorRegular
<1> QED
  BY <1>3, UnitOf

\* The functions of each file.
LEMMA Domains ==
  /\ Files = {"utils", "amc", "gbt", "sca", "optohybrid", "vfat3", "calibration_routines",
              "daq_monitor"}
  /\ DOMAIN File["utils"] =
       {"update_atdb", "getRegInfoDB", "getReg", "getBlock", "getList", "putReg"}
  /\ DOMAIN File["amc"] =
       {"getOHVFATMask", "getOHVFATMaskMultiLink", "repeatedRegRead", "sbitReadOut"}
  /\ DOMAIN File["gbt"] = {"scanGBTPhases", "writeGBTConfig", "writeGBTPhase"}
  /\ DOMAIN File["sca"] =
       {"readSCAADCSensor", "readSCAADCTemperatureSensors", "readSCAADCVoltageSensors",
        "readSCAADCSignalStrengthSensors", "readAllSCAADCSensors"}
  /\ DOMAIN File["optohybrid"] =
       {"broadcastRead", "broadcastWrite", "configureScanModule", "printScanConfiguration",
        "startScanModule", "getUltraScanResults", "stopCalPulse2AllChannels"}
  /\ DOMAIN File["vfat3"] =
       {"configureVFAT3s", "configureVFAT3DacMonitor", "configureVFAT3DacMonitorMultiLink",
        "getChannelRegistersVFAT3", "getVFAT3ChipIDs", "readVFAT3ADC", "readVFAT3ADCMultiLink",
        "setChannelRegistersVFAT3", "setChannelRegistersVFAT3Simple"}
  /\ DOMAIN File["calibration_routines"] =
       {"checkSbitMappingWithCalPulse", "checkSbitRateWithCalPulse", "dacScan",
        "dacScanMultiLink", "genScan", "genChannelScan", "sbitRateScan", "ttcGenConf",
        "ttcGenToggle", "confCalPulse"}
  /\ DOMAIN File["daq_monitor"] =
       {"getmonTTCmain", "getmonTRIGGERmain", "getmonTRIGGEROHmain", "getmonDAQmain",
        "getmonDAQOHmain", "getmonGBTLink", "getmonOHLink", "getmonOHmain", "getmonOHSCAmain",
        "getmonOHSysmon", "getmonVFATLink"}
<1>1. Files = {"utils", "amc", "gbt", "sca", "optohybrid", "vfat3", "calibration_routines",
               "daq_monitor"}
  BY DEF Files, File
<1>2. DOMAIN File["utils"] =
        {"update_atdb", "getRegInfoDB", "getReg", "getBlock", "getList", "putReg"}
  BY DEF File, UtilsCalls
<1>3. DOMAIN File["amc"] =
       {"getOHVFATMask", "getOHVFATMaskMultiLink", "repeatedRegRead", "sbitReadOut"}
  BY DEF File, AmcCalls
<1>4. DOMAIN File["gbt"] = {"scanGBTPhases", "writeGBTConfig", "writeGBTPhase"}
  BY DEF File, GbtCalls
<1>5. DOMAIN File["sca"] =
       {"readSCAADCSensor", "readSCAADCTemperatureSensors", "readSCAADCVoltageSensors",
        "readSCAADCSignalStrengthSensors", "readAllSCAADCSensors"}
  BY DEF File, ScaCalls
<1>6. DOMAIN File["optohybrid"] =
       {"broadcastRead", "broadcastWrite", "configureScanModule", "printScanConfiguration",
        "startScanModule", "getUltraScanResults", "stopCalPulse2AllChannels"}
  BY DEF File, OptohybridCalls
<1>7. DOMAIN File["vfat3"] =
       {"configureVFAT3s", "configureVFAT3DacMonitor", "configureVFAT3DacMonitorMultiLink",
        "getChannelRegistersVFAT3", "getVFAT3ChipIDs", "readVFAT3ADC", "readVFAT3ADCMultiLink",
        "setChannelRegistersVFAT3", "setChannelRegistersVFAT3Simple"}
  BY DEF File, Vfat3Calls
<1>8. DOMAIN File["calibration_routines"] =
       {"checkSbitMappingWithCalPulse", "checkSbitRateWithCalPulse", "dacScan",
        "dacScanMultiLink", "genScan", "genChannelScan", "sbitRateScan", "ttcGenConf",
        "ttcGenToggle", "confCalPulse"}
  <2>1. DOMAIN File["calibration_routines"] =
          DOMAIN PulseCalls \cup DOMAIN ScanCalls \cup DOMAIN RateCalls
    BY DEF File, Both
  <2>2. DOMAIN PulseCalls = {"checkSbitMappingWithCalPulse", "checkSbitRateWithCalPulse"}
    BY DEF PulseCalls
  <2>3. DOMAIN ScanCalls = {"dacScan", "dacScanMultiLink", "genScan", "genChannelScan"}
    BY DEF ScanCalls
  <2>4. DOMAIN RateCalls = {"sbitRateScan", "ttcGenConf", "ttcGenToggle", "confCalPulse"}
    BY DEF RateCalls
  <2> QED
    BY <2>1, <2>2, <2>3, <2>4
<1>9. DOMAIN File["daq_monitor"] =
       {"getmonTTCmain", "getmonTRIGGERmain", "getmonTRIGGEROHmain", "getmonDAQmain",
        "getmonDAQOHmain", "getmonGBTLink", "getmonOHLink", "getmonOHmain", "getmonOHSCAmain",
        "getmonOHSysmon", "getmonVFATLink"}
  <2>1. DOMAIN File["daq_monitor"] =
          DOMAIN MonitorMainCalls \cup DOMAIN MonitorLinkCalls
            \cup DOMAIN MonitorOHCalls \cup DOMAIN MonitorVFATCalls
    BY DEF File, Both
  <2>2. DOMAIN MonitorMainCalls =
          {"getmonTTCmain", "getmonTRIGGERmain", "getmonTRIGGEROHmain", "getmonDAQmain"}
    BY DEF MonitorMainCalls
  <2>3. DOMAIN MonitorLinkCalls = {"getmonDAQOHmain", "getmonGBTLink", "getmonOHLink"}
    BY DEF MonitorLinkCalls
  <2>4. /\ DOMAIN MonitorOHCalls = {"getmonOHmain", "getmonOHSCAmain", "getmonOHSysmon"}
        /\ DOMAIN MonitorVFATCalls = {"getmonVFATLink"}
    BY DEF MonitorOHCalls, MonitorVFATCalls
  <2> QED
    BY <2>1, <2>2, <2>3, <2>4
<1> QED
  BY <1>1, <1>2, <1>3, <1>4, <1>5, <1>6, <1>7, <1>8, <1>9

\* init and deinit are no functions of the table; the functions of the pages and of
\* the tools are, and none of them is sbitReadOut, which is one of amc's.
LEMMA Names ==
  /\ "init" \notin Ops /\ "deinit" \notin Ops
  /\ DOMAIN File["daq_monitor"] \subseteq Ops /\ {"getReg", "putReg"} \subseteq Ops
  /\ {"scanGBTPhases", "writeGBTConfig", "writeGBTPhase"} \subseteq Ops
  /\ "sbitReadOut" \notin DOMAIN File["daq_monitor"]
  /\ "sbitReadOut" \in Ops /\ Unit["sbitReadOut"] = "amc"
  /\ "readSCAADCSensor" \notin DOMAIN File["daq_monitor"]
  /\ "readSCAADCSensor" \in Ops /\ Unit["readSCAADCSensor"] = "sca"
<1>1. \A f \in Files : "init" \notin DOMAIN File[f] /\ "deinit" \notin DOMAIN File[f]
  BY Domains
<1>2. "init" \notin Ops /\ "deinit" \notin Ops
  BY <1>1 DEF Ops
<1>3. /\ "daq_monitor" \in Files /\ "utils" \in Files /\ "gbt" \in Files /\ "amc" \in Files
      /\ {"getReg", "putReg"} \subseteq DOMAIN File["utils"]
      /\ {"scanGBTPhases", "writeGBTConfig", "writeGBTPhase"} \subseteq DOMAIN File["gbt"]
      /\ "sbitReadOut" \in DOMAIN File["amc"]
      /\ "sbitReadOut" \notin DOMAIN File["daq_monitor"]
  BY Domains
<1>4. \A f \in Files : DOMAIN File[f] \subseteq Ops
  BY DEF Ops
<1>5. \A f \in Files : "sbitReadOut" \in DOMAIN File[f] => f = "amc"
  BY Domains
<1>6. "sbitReadOut" \in Ops
  BY <1>3, <1>4
<1>7. Unit["sbitReadOut"] = "amc"
  BY <1>5, <1>6, UnitOf
<1>8. /\ "sca" \in Files /\ "readSCAADCSensor" \in DOMAIN File["sca"]
      /\ "readSCAADCSensor" \notin DOMAIN File["daq_monitor"]
      /\ \A f \in Files : "readSCAADCSensor" \in DOMAIN File[f] => f = "sca"
  BY Domains
<1>9. "readSCAADCSensor" \in Ops
  BY <1>4, <1>8
<1>10. Unit["readSCAADCSensor"] = "sca"
  BY <1>8, <1>9, UnitOf
<1> QED
  BY <1>2, <1>3, <1>4, <1>6, <1>7, <1>8, <1>9, <1>10

\* The keys of getmonOHLink and where their words are put.
LEMMA OHLinkEntry ==
  /\ "getmonOHLink" \in Ops
  /\ Calls["getmonOHLink"].keys = <<"READY", "SYNC_ERR_CNT", "DAQ_EVENT_CNT", "DAQ_CRC_ERROR_CNT">>
  /\ Calls["getmonOHLink"].fields =
       <<"READY", "DAQ_CRC_ERROR_CNT", "DAQ_EVENT_CNT", "SYNC_ERR_CNT">>
<1>1. /\ "daq_monitor" \in Files /\ "getmonOHLink" \in DOMAIN File["daq_monitor"]
      /\ \A f \in Files : "getmonOHLink" \in DOMAIN File[f] => f = "daq_monitor"
  BY Domains
<1>2. "getmonOHLink" \in Ops
  BY <1>1 DEF Ops
<1>3. Calls["getmonOHLink"] = File["daq_monitor"]["getmonOHLink"]
  BY <1>1, <1>2, UnitOf
<1>4. File["daq_monitor"]["getmonOHLink"] = MonitorLinkCalls["getmonOHLink"]
  <2>1. /\ "getmonOHLink" \notin DOMAIN MonitorMainCalls
        /\ "getmonOHLink" \in DOMAIN MonitorLinkCalls
    BY DEF MonitorMainCalls, MonitorLinkCalls
  <2> QED
    BY <2>1 DEF File, Both
<1>5. MonitorLinkCalls["getmonOHLink"] =
        [Words(<<"READY", "SYNC_ERR_CNT", "DAQ_EVENT_CNT", "DAQ_CRC_ERROR_CNT">>)
           EXCEPT !.fields = <<"READY", "DAQ_CRC_ERROR_CNT", "DAQ_EVENT_CNT", "SYNC_ERR_CNT">>]
  BY Zenon DEF MonitorLinkCalls
<1> QED
  BY <1>2, <1>3, <1>4, <1>5 DEF Words, Entry

\* scanGBTPhases takes the words of some VFATs.
LEMMA ScanEntry ==
  "scanGBTPhases" \in Ops /\ Calls["scanGBTPhases"].keys = <<"VFAT0", "VFAT1">>
<1>1. /\ "gbt" \in Files /\ "scanGBTPhases" \in DOMAIN File["gbt"]
      /\ \A f \in Files : "scanGBTPhases" \in DOMAIN File[f] => f = "gbt"
  BY Domains
<1>2. "scanGBTPhases" \in Ops
  BY <1>1 DEF Ops
<1>3. Calls["scanGBTPhases"] = File["gbt"]["scanGBTPhases"]
  BY <1>1, <1>2, UnitOf
<1>4. File["gbt"] = GbtCalls
  BY DEF File
<1>5. GbtCalls["scanGBTPhases"] = Arrays(<<"VFAT0", "VFAT1">>)
  BY Zenon DEF GbtCalls
<1> QED
  BY <1>2, <1>3, <1>4, <1>5 DEF Arrays, Entry

\* The key of readSCAADCSensor.
LEMMA SensorEntry ==
  Len(Calls["readSCAADCSensor"].keys) = 1
<1>1. Calls["readSCAADCSensor"] = File["sca"]["readSCAADCSensor"]
  BY Names, UnitOf
<1>2. File["sca"] = ScaCalls
  BY DEF File
<1>3. ScaCalls["readSCAADCSensor"] = Arrays(<<"data">>)
  BY Zenon DEF ScaCalls
<1> QED
  BY <1>1, <1>2, <1>3 DEF Arrays, Entry

-----------------------------------------------------------------------------
(* Calls and answers *)

\* Where a call is says what it is.
LEMMA CallCases ==
  ASSUME RpcTypes, NEW t \in Threads
  PROVE  /\ call[t].step = "none" <=> call[t] = NoCall
         /\ call[t].step \in {"prepared", "sent", "received"} <=> call[t] \in Entered
         /\ call[t].step = "loading" <=> call[t] \in Loading
         /\ call[t] # NoCall => call[t] \in Entered \/ call[t] \in Loading
         /\ t \in Inside <=> call[t] # NoCall
         /\ last[t] # NoCall => last[t] \in Returned
<1>1. call[t] \in Entered \cup Loading \cup {NoCall} /\ last[t] \in Returned \cup {NoCall}
  BY DEF RpcTypes
<1>2. /\ call[t] \in Entered => call[t].step \in {"prepared", "sent", "received"}
      /\ call[t] \in Loading => call[t].step = "loading"
      /\ call[t] = NoCall => call[t].step = "none"
  BY DEF Entered, Loading, NoCall
<1>3. t \in Inside <=> call[t].step # "none"
  BY DEF Inside
<1> QED
  BY <1>1, <1>2, <1>3

-----------------------------------------------------------------------------
(* The optohybrids of a mask, as count_1bits counts them *)

\* & 0x3F takes the remainder.
LEMMA LowBits ==
  ASSUME NEW x \in Nat
  PROVE  And(x, 63) = x % 64
  BY SMTT(60) DEF And, Bit

\* What the bits of a mask are.
LEMMA MaskBits ==
  ASSUME NEW x \in Nat PROVE \A i \in 0..11 : Bit(x, i) \in {0, 1}
<1>1. \A y \in Nat : y % 2 \in {0, 1}
  OBVIOUS
<1>2. /\ Bit(x, 0) \in {0, 1} /\ Bit(x, 1) \in {0, 1} /\ Bit(x, 2) \in {0, 1} /\ Bit(x, 3) \in {0, 1}
      /\ Bit(x, 4) \in {0, 1} /\ Bit(x, 5) \in {0, 1} /\ Bit(x, 6) \in {0, 1} /\ Bit(x, 7) \in {0, 1}
      /\ Bit(x, 8) \in {0, 1} /\ Bit(x, 9) \in {0, 1} /\ Bit(x, 10) \in {0, 1} /\ Bit(x, 11) \in {0, 1}
  BY <1>1, SMT DEF Bit
<1>3. \A i \in 0..11 : i \in {0, 1, 2, 3, 4, 5, 6, 7, 8, 9, 10, 11}
  OBVIOUS
<1> QED
  BY <1>2, <1>3

\* A mask is the sum of its bits.
LEMMA MaskSum ==
  ASSUME NEW x \in Nat, x < 4096
  PROVE  x = Bit(x, 0) + 2 * Bit(x, 1) + 4 * Bit(x, 2) + 8 * Bit(x, 3) + 16 * Bit(x, 4)
               + 32 * Bit(x, 5) + 64 * Bit(x, 6) + 128 * Bit(x, 7) + 256 * Bit(x, 8)
               + 512 * Bit(x, 9) + 1024 * Bit(x, 10) + 2048 * Bit(x, 11)
<1> DEFINE q1 == x \div 2
           q2 == x \div 4
           q3 == x \div 8
           q4 == x \div 16
           q5 == x \div 32
           q6 == x \div 64
           q7 == x \div 128
           q8 == x \div 256
           q9 == x \div 512
           q10 == x \div 1024
           q11 == x \div 2048
           q12 == x \div 4096
<1>1. x = Bit(x, 0) + 2 * q1 /\ Bit(x, 0) \in Int /\ q1 \in Int
  BY SMT DEF Bit
<1>2. q1 = Bit(x, 1) + 2 * q2 /\ Bit(x, 1) \in Int /\ q2 \in Int
  BY SMT DEF Bit
<1>3. q2 = Bit(x, 2) + 2 * q3 /\ Bit(x, 2) \in Int /\ q3 \in Int
  BY SMT DEF Bit
<1>4. q3 = Bit(x, 3) + 2 * q4 /\ Bit(x, 3) \in Int /\ q4 \in Int
  BY SMT DEF Bit
<1>5. q4 = Bit(x, 4) + 2 * q5 /\ Bit(x, 4) \in Int /\ q5 \in Int
  BY SMT DEF Bit
<1>6. q5 = Bit(x, 5) + 2 * q6 /\ Bit(x, 5) \in Int /\ q6 \in Int
  BY SMT DEF Bit
<1>7. q6 = Bit(x, 6) + 2 * q7 /\ Bit(x, 6) \in Int /\ q7 \in Int
  BY SMT DEF Bit
<1>8. q7 = Bit(x, 7) + 2 * q8 /\ Bit(x, 7) \in Int /\ q8 \in Int
  BY SMT DEF Bit
<1>9. q8 = Bit(x, 8) + 2 * q9 /\ Bit(x, 8) \in Int /\ q9 \in Int
  BY SMT DEF Bit
<1>10. q9 = Bit(x, 9) + 2 * q10 /\ Bit(x, 9) \in Int /\ q10 \in Int
  BY SMT DEF Bit
<1>11. q10 = Bit(x, 10) + 2 * q11 /\ Bit(x, 10) \in Int /\ q11 \in Int
  BY SMT DEF Bit
<1>12. q11 = Bit(x, 11) + 2 * q12 /\ Bit(x, 11) \in Int /\ q12 \in Int
  BY SMT DEF Bit
<1>13. q12 = 0
  OBVIOUS
<1> HIDE DEF q1, q2, q3, q4, q5, q6, q7, q8, q9, q10, q11, q12
<1> QED
  BY <1>1, <1>2, <1>3, <1>4, <1>5, <1>6, <1>7, <1>8, <1>9, <1>10, <1>11, <1>12, <1>13

\* The first step of count_1bits counts the ones of each pair of bits.
LEMMA PairsCounted ==
  ASSUME NEW x \in Nat, x < 4096
  PROVE  Pairs(x) =
           Bit(x, 0) + Bit(x, 1) + 4 * (Bit(x, 2) + Bit(x, 3)) + 16 * (Bit(x, 4) + Bit(x, 5))
             + 64 * (Bit(x, 6) + Bit(x, 7)) + 256 * (Bit(x, 8) + Bit(x, 9))
             + 1024 * (Bit(x, 10) + Bit(x, 11))
<1> DEFINE y == Shr(x, 1)
<1>1. y \in Nat /\ y = x \div 2
  BY SMT DEF Shr
<1>2. And(y, 21845) = Bit(x, 1) + 4 * Bit(x, 3) + 16 * Bit(x, 5) + 64 * Bit(x, 7)
                        + 256 * Bit(x, 9) + 1024 * Bit(x, 11)
  <2>1. y % 2 = Bit(x, 1)
    BY <1>1, SMT DEF Bit
  <2>2. (y \div 4) % 2 = Bit(x, 3)
    BY <1>1, SMT DEF Bit
  <2>3. (y \div 16) % 2 = Bit(x, 5)
    BY <1>1, SMT DEF Bit
  <2>4. (y \div 64) % 2 = Bit(x, 7)
    BY <1>1, SMT DEF Bit
  <2>5. (y \div 256) % 2 = Bit(x, 9)
    BY <1>1, SMT DEF Bit
  <2>6. (y \div 1024) % 2 = Bit(x, 11)
    BY <1>1, SMT DEF Bit
  <2>7. (y \div 4096) % 2 = 0
    BY <1>1, SMT DEF Bit
  <2>8. (y \div 16384) % 2 = 0
    BY <1>1, SMT DEF Bit
  <2> HIDE DEF y
  <2>9. And(y, 21845) = (y % 2) + 4 * ((y \div 4) % 2) + 16 * ((y \div 16) % 2) + 64 * ((y \div 64) % 2)
           + 256 * ((y \div 256) % 2) + 1024 * ((y \div 1024) % 2)
           + 4096 * ((y \div 4096) % 2) + 16384 * ((y \div 16384) % 2)
    BY <1>1, SMTT(60) DEF And, Bit
  <2>10. \A i \in 0..11 : Bit(x, i) \in Int
    BY MaskBits
  <2> QED
    BY <2>1, <2>2, <2>3, <2>4, <2>5, <2>6, <2>7, <2>8, <2>9, <2>10
<1>3. \A i \in 0..11 : Bit(x, i) \in Int
  BY MaskBits
<1> QED
  BY <1>2, <1>3, MaskSum DEF Pairs

\* The second those of each half of a byte.
LEMMA HalvesCounted ==
  ASSUME NEW s0 \in 0..2, NEW s1 \in 0..2, NEW s2 \in 0..2, NEW s3 \in 0..2, NEW s4 \in 0..2,
         NEW s5 \in 0..2, NEW a, a = s0 + 4 * s1 + 16 * s2 + 64 * s3 + 256 * s4 + 1024 * s5
  PROVE  Nibbles(a) = (s0 + s1) + 16 * (s2 + s3) + 256 * (s4 + s5)
<1> DEFINE y == Shr(a, 2)
<1>1. a \in Nat
  OBVIOUS
<1>2. y \in Nat /\ y = s1 + 4 * s2 + 16 * s3 + 64 * s4 + 256 * s5
  BY SMT DEF Shr
<1>3. a % 4 = s0 /\ (a \div 16) % 4 = s2 /\ (a \div 256) % 4 = s4 /\ (a \div 4096) % 4 = 0
  OBVIOUS
<1> HIDE DEF y
<1>4. y % 4 = s1 /\ (y \div 16) % 4 = s3 /\ (y \div 256) % 4 = s5 /\ (y \div 4096) % 4 = 0
  BY <1>2
<1>5. And(a, 13107) = s0 + 16 * s2 + 256 * s4
  <2>1. And(a, 13107) = (a % 4) + 16 * ((a \div 16) % 4) + 256 * ((a \div 256) % 4) + 4096 * ((a \div 4096) % 4)
    BY <1>1, SMTT(60) DEF And, Bit
  <2> QED
    BY <1>3, <2>1
<1>6. And(y, 13107) = s1 + 16 * s3 + 256 * s5
  <2>1. And(y, 13107) = (y % 4) + 16 * ((y \div 16) % 4) + 256 * ((y \div 256) % 4) + 4096 * ((y \div 4096) % 4)
    BY <1>2, SMTT(60) DEF And, Bit
  <2> QED
    BY <1>4, <2>1
<1> QED
  BY <1>5, <1>6 DEF Nibbles, y

\* The optohybrids of a mask are as many as its ones.
LEMMA OnesCounted ==
  ASSUME NEW x \in Nat, x < 4096
  PROVE  Cardinality(Links(x)) =
           Bit(x, 0) + Bit(x, 1) + Bit(x, 2) + Bit(x, 3) + Bit(x, 4) + Bit(x, 5) + Bit(x, 6)
             + Bit(x, 7) + Bit(x, 8) + Bit(x, 9) + Bit(x, 10) + Bit(x, 11)
<1> DEFINE Ones(n) == {i \in 0..(n - 1) : Bit(x, i) = 1}
<1>1. ASSUME NEW n \in 0..11 , IsFiniteSet(Ones(n))
      PROVE  IsFiniteSet(Ones(n + 1)) /\ Cardinality(Ones(n + 1)) = Cardinality(Ones(n)) + Bit(x, n)
  <2>1. n \notin Ones(n)
    OBVIOUS
  <2>2. Bit(x, n) \in {0, 1} /\ Cardinality(Ones(n)) \in Nat
    BY <1>1, MaskBits, FS_CardinalityType
  <2>3. CASE Bit(x, n) = 1
    <3>1. Ones(n + 1) = Ones(n) \cup {n}
      BY <2>3
    <3> HIDE DEF Ones
    <3> QED
      BY <1>1, <2>1, <2>3, <3>1, FS_AddElement
  <2>4. CASE Bit(x, n) = 0
    <3>1. Ones(n + 1) = Ones(n)
      <4>1. \A i \in 0..(n + 1 - 1) : Bit(x, i) = 1 => i \in 0..(n - 1)
        BY <2>4
      <4> QED
        BY <4>1
    <3> HIDE DEF Ones
    <3> QED
      BY <1>1, <2>2, <2>4, <3>1
  <2> QED
    BY <2>2, <2>3, <2>4
<1>2. Ones(0) = {} /\ Ones(12) = Links(x)
  BY DEF Links
<1> HIDE DEF Ones
<1>3. IsFiniteSet(Ones(0)) /\ Cardinality(Ones(0)) = 0
  BY <1>2, FS_EmptySet
<1>4. \A n \in 0..11 : Bit(x, n) \in Int
  BY MaskBits
<1> DEFINE C(n) == Cardinality(Ones(n))
           F(n) == IsFiniteSet(Ones(n))
<1>5. \A n \in 0..11 : F(n) => F(n + 1) /\ C(n + 1) = C(n) + Bit(x, n)
  BY <1>1
<1>6. F(0) /\ C(0) = 0
  BY <1>3
<1> HIDE DEF C, F
<1>7. /\ F(3) /\ C(3) = Bit(x, 0) + Bit(x, 1) + Bit(x, 2)
  BY <1>4, <1>5, <1>6
<1>8. /\ F(6) /\ C(6) = C(3) + Bit(x, 3) + Bit(x, 4) + Bit(x, 5)
  BY <1>4, <1>5, <1>7
<1>9. /\ F(9) /\ C(9) = C(6) + Bit(x, 6) + Bit(x, 7) + Bit(x, 8)
  BY <1>4, <1>5, <1>7, <1>8
<1>10. C(12) = C(9) + Bit(x, 9) + Bit(x, 10) + Bit(x, 11)
  BY <1>4, <1>5, <1>7, <1>8, <1>9
<1> QED
  BY <1>2, <1>4, <1>7, <1>8, <1>9, <1>10 DEF C

\* count_1bits counts the links of a mask exactly if none of 4 to 7 is among them.
LEMMA BitsCounted ==
  ASSUME NEW x \in Nat, x < 4096
  PROVE  count_1bits(x) = Cardinality(Links(x)) <=> Links(x) \cap 4..7 = {}
<1> DEFINE s0 == Bit(x, 0) + Bit(x, 1)
           s1 == Bit(x, 2) + Bit(x, 3)
           s2 == Bit(x, 4) + Bit(x, 5)
           s3 == Bit(x, 6) + Bit(x, 7)
           s4 == Bit(x, 8) + Bit(x, 9)
           s5 == Bit(x, 10) + Bit(x, 11)
           a == Pairs(x)
           b == Nibbles(a)
           c == Plus(b, 8)
           d == Plus(c, 16)
<1>1. \A i \in 0..11 : Bit(x, i) \in {0, 1}
  BY MaskBits
<1>2. s0 \in 0..2 /\ s1 \in 0..2 /\ s2 \in 0..2 /\ s3 \in 0..2 /\ s4 \in 0..2 /\ s5 \in 0..2
  BY <1>1
<1>3. a = s0 + 4 * s1 + 16 * s2 + 64 * s3 + 256 * s4 + 1024 * s5
  BY PairsCounted
<1>4. Cardinality(Links(x)) = s0 + s1 + s2 + s3 + s4 + s5
  BY <1>1, OnesCounted
<1>5. s2 + s3 = 0 <=> Links(x) \cap 4..7 = {}
  BY <1>1 DEF Links
<1>6. count_1bits(x) = And(d, 63)
  BY DEF count_1bits
<1> HIDE DEF s0, s1, s2, s3, s4, s5, a
<1>7. b = (s0 + s1) + 16 * (s2 + s3) + 256 * (s4 + s5)
  BY <1>2, <1>3, HalvesCounted
<1> HIDE DEF b
<1>8. b \in Nat /\ b < 65536 /\ Shr(b, 8) = s4 + s5
  BY <1>2, <1>7, SMT DEF Shr
<1>9. c \in Nat /\ c < 65536 /\ c = b + s4 + s5
  BY <1>2, <1>7, <1>8 DEF Plus
<1> HIDE DEF c
<1>10. d = c
  BY <1>9, SMT DEF Plus, Shr
<1>11. And(d, 63) = (s0 + s1 + 16 * (s2 + s3) + 257 * (s4 + s5)) % 64
  BY <1>2, <1>7, <1>8, <1>9, <1>10, LowBits
<1> QED
  BY <1>2, <1>4, <1>5, <1>6, <1>11

-----------------------------------------------------------------------------
(* The answers of the service *)

\* No answer has more links than a mask.
LEMMA LinksCounted ==
  ASSUME NEW mask PROVE Cardinality(Links(mask)) \in Nat
<1>1. 0 \in Int /\ 11 \in Int
  OBVIOUS
<1>3. IsFiniteSet(0..11)
  BY <1>1, FS_Interval, Zenon
<1>2. Links(mask) \subseteq 0..11
  BY DEF Links
<1> QED
  BY <1>2, <1>3, FS_Subset, FS_CardinalityType

\* What the service may answer.
LEMMA AnswerTypes ==
  ASSUME NEW m \in Messages,
         NEW a \in Good(m) \cup Faulty(m) \cup {Answer(m, "refused", 0, 0)}
  PROVE  /\ a \in Answers
         /\ a.to = m.to
         /\ a.op = m.op
         /\ a.op = "sbitReadOut" => a.word \in LiveTimes \cup {Full} \/ a.fault \in {"error", "refused"}
         /\ a.op = "readSCAADCSensor" /\ a.fault = "none" => a.word = Cardinality(Links(m.arg))
<1>1. m.op \in Ops /\ m.to \in Threads
  BY DEF Messages
<1>2. Extra(m) \subseteq Int
  <2>1. Data \subseteq Int /\ LiveTimes \cup {Full} \subseteq Int
    BY RpcAssumption DEF Full
  <2>2. {Cardinality(Links(m.arg))} \subseteq Int
    BY LinksCounted
  <2> QED
    BY <2>1, <2>2, SMT DEF Extra
<1>3. m.op = "sbitReadOut" => Extra(m) = LiveTimes \cup {Full}
  BY SMT DEF Extra, InBand
<1>6. m.op = "readSCAADCSensor" => Extra(m) = {Cardinality(Links(m.arg))}
  BY SMT DEF Extra, InBand
<1>4. Regular(m.op, Calls[m.op])
  BY <1>1, CallsRegular
<1>5. PICK f \in {"none", "error", "refused", "lacks", "size"}, n \in Nat, w \in Int :
        /\ a = Answer(m, f, n, w)
        /\ m.op = "sbitReadOut" => w \in LiveTimes \cup {Full} \/ f \in {"error", "refused"}
        /\ m.op = "readSCAADCSensor" /\ f = "none" => w = Cardinality(Links(m.arg))
  <2>1. CASE a \in Good(m)
    BY <1>2, <1>3, <1>6, <2>1 DEF Good
  <2>2. CASE a = Answer(m, "refused", 0, 0)
    BY <2>2
  <2>3. CASE a \in Faulty(m)
    <3> DEFINE keys == 1..Len(Calls[m.op].keys)
    <3>1. keys \subseteq Nat
      BY <1>4 DEF Regular, IsTuple
    <3>2. CASE a \in {Answer(m, f, 0, 0) : f \in {"error", "refused"}}
      BY <3>2
    <3>3. CASE a \in {Answer(m, "lacks", i, w) :
                        i \in keys, w \in IF m.op = "sbitReadOut" THEN Extra(m) ELSE {0}}
      <4>1. PICK i \in keys, w \in IF m.op = "sbitReadOut" THEN Extra(m) ELSE {0} :
              a = Answer(m, "lacks", i, w)
        BY <3>3
      <4>2. w \in Int /\ i \in Nat /\ (m.op = "sbitReadOut" => w \in LiveTimes \cup {Full})
        BY <1>2, <1>3, <3>1
      <4> QED
        BY <4>1, <4>2
    <3>4. CASE a \in {Answer(m, "size", i, 0) : i \in {q \in keys : Calls[m.op].sized}}
      <4>1. PICK i \in keys : a = Answer(m, "size", i, 0) /\ Calls[m.op].sized
        BY <3>4
      <4>2. m.op # "sbitReadOut"
        BY <1>4, <4>1 DEF Regular
      <4> QED
        BY <3>1, <4>1, <4>2
    <3> QED
      BY <2>3, <3>2, <3>3, <3>4 DEF Faulty
  <2> QED
    BY <2>1, <2>2, <2>3
<1> QED
  BY <1>1, <1>5 DEF Answer, Answers

\* The words that stand for a failure.
LEMMA CodesDiffer ==
  /\ {Dead, All, Uncaught} \subseteq Int
  /\ Dead # 0 /\ All # 0 /\ Uncaught # 0
  BY SMT DEF Dead, All, Uncaught

\* What a function returns for an answer, and leaves in the caller's arrays.
LEMMA ResultTypes ==
  ASSUME NEW c \in Entered, NEW a \in Answers
  PROVE  /\ FirstBad(c, a) \in Int
         /\ Code(c, a) \in Int
         /\ Outputs(c, a) \in Seq(Cells)
         /\ Untouched(c.op) \in Seq(Cells)
<1> DEFINE e == Calls[c.op]
           n == Len(e.keys)
<1>1. c.op \in Ops /\ c.arg \in Int /\ a.to \in Threads /\ a.pos \in Int /\ a.word \in Int
  BY DEF Entered, Answers
<1>2. /\ n \in Nat /\ DOMAIN e.keys = 1..n
      /\ e.onError \in Int /\ e.onLack \in Int
  <2>1. Regular(c.op, e)
    BY <1>1, CallsRegular
  <2>2. n \in Nat /\ e.keys = [i \in 1..n |-> e.keys[i]]
    BY <2>1 DEF Regular, IsTuple
  <2>3. DOMAIN e.keys = 1..n
    BY <2>2
  <2> QED
    BY <2>1, <2>2, <2>3, CodesDiffer DEF Regular
<1>3. FirstBad(c, a) \in Int
  BY <1>1, <1>2, SMT DEF FirstBad
<1>4. Code(c, a) \in Int
  <2> DEFINE b == FirstBad(c, a)
  <2> HIDE DEF b
  <2>1. b \in Int
    BY <1>3 DEF b
  <2> QED
    BY <1>1, <1>2, <2>1, SMT DEF Code, b
<1>5. Old \in Cells /\ Marked \in Cells /\ \A i \in 1..n : <<a.to, e.keys[i]>> \in Cells
  BY <1>1, <1>2, SMT DEF Cells, Old, Marked
<1>6. Outputs(c, a) \in Seq(Cells)
  <2> DEFINE v(i) == IF a.fault = "error" THEN Old
                     ELSE IF i < FirstBad(c, a) THEN <<a.to, e.keys[i]>>
                     ELSE IF c.op = "getmonVFATLink" /\ FirstBad(c, a) = 1 THEN Marked
                     ELSE Old
  <2>1. \A i \in 1..n : v(i) \in Cells
    BY <1>5
  <2>2. Outputs(c, a) = [i \in 1..n |-> v(i)]
    BY DEF Outputs
  <2> HIDE DEF v, n
  <2>3. [i \in 1..n |-> v(i)] \in Seq(Cells)
    BY <1>2, <2>1
  <2> QED
    BY <2>2, <2>3
<1>7. Untouched(c.op) \in Seq(Cells)
  BY <1>2, <1>5 DEF Untouched
<1> QED
  BY <1>3, <1>4, <1>6, <1>7

-----------------------------------------------------------------------------
(* The steps of the library *)

\* A call that is not alone knows it.
LEMMA NotAlone ==
  ASSUME RpcIInv, NEW t \in Inside, NEW u \in Inside, u # t
  PROVE  call[u].with # {}
  BY DEF RpcIInv, Joined

\* Only finitely many calls wait for an answer.
LEMMA WaitingFinite ==
  IsFiniteSet(Waiting) /\ Cardinality(Waiting) \in Nat
<1>1. Waiting \subseteq Threads
  BY DEF Waiting
<1> QED
  BY <1>1, RpcAssumption, FS_Subset, FS_CardinalityType

\* What a step that changes the calls of t only leaves of the others.
LEMMA OthersKept ==
  ASSUME RpcIInv, NEW t \in Threads, t \in Inside,
         \A u \in Threads \ {t} : call'[u] = call[u],
         \A f \in Files : req'[f] = req[f] \/ \A u \in Inside \ {t} : Unit[call[u].op] # f,
         \A f \in Files : rsp'[f] = rsp[f] \/ rsp'[f] \in Answers \/ \A u \in Inside \ {t} : Unit[call[u].op] # f,
         \A u \in Threads \ {t} : last'[u] = last[u],
         NEW u \in Threads, u # t
  PROVE  /\ Kept(u)'
         /\ u \in Inside' <=> u \in Inside
         /\ u \in Inside' => call'[u].with # {}
<1>1. call'[u] = call[u] /\ last'[u] = last[u]
  OBVIOUS
<1>2. u \in Inside' <=> u \in Inside
  BY <1>1 DEF Inside
<1>3. u \in Inside => call[u].with # {}
  BY NotAlone
<1>4. Kept(u)'
  <2> DEFINE f == Unit[call[u].op]
  <2>1. Kept(u)
    BY DEF RpcIInv
  <2>2. CASE call[u] \in Entered
    <3>1. u \in Inside /\ f \in Files
      BY <2>2, UnitOf DEF Entered, Inside
    <3>2. req'[f] = req[f] /\ (rsp'[f] = rsp[f] \/ rsp'[f] \in Answers)
      BY <3>1
    <3> QED
      BY <1>1, <2>1, <2>2, <3>2 DEF Kept
  <2>3. CASE call[u] \notin Entered
    <3>1. call[u].step # "received"
      BY <2>3, CallCases DEF RpcIInv
    <3> QED
      BY <1>1, <2>1, <2>3, <3>1 DEF Kept
  <2> QED
    BY <2>2, <2>3
<1> QED
  BY <1>1, <1>2, <1>3, <1>4

\* Forget takes req and rsp from nobody who is in the library.
LEMMA ForgetKeeps ==
  ASSUME RpcTypes, NEW t \in Threads, Forget(t) \/ UNCHANGED <<req, rsp>>
  PROVE  /\ req' \in [Files -> Messages \cup {NoMessage}]
         /\ rsp' \in [Files -> Answers \cup {NoMessage}]
         /\ \A f \in Files : req'[f] = req[f] \/ \A u \in Inside \ {t} : Unit[call[u].op] # f
         /\ \A f \in Files : rsp'[f] = rsp[f] \/ \A u \in Inside \ {t} : Unit[call[u].op] # f
<1>1. req \in [Files -> Messages \cup {NoMessage}] /\ rsp \in [Files -> Answers \cup {NoMessage}]
  BY DEF RpcTypes
<1>2. CASE UNCHANGED <<req, rsp>>
  BY <1>1, <1>2
<1>3. CASE Forget(t)
  <2> DEFINE g == Unit[call[t].op]
             idle == \A u \in Inside \ {t} : Unit[call[u].op] # g
  <2>1. CASE idle
    <3>1. req' = [req EXCEPT ![g] = NoMessage] /\ rsp' = [rsp EXCEPT ![g] = NoMessage]
      BY <1>3, <2>1 DEF Forget
    <3> HIDE DEF g
    <3>2. \A f \in Files : f # g => req'[f] = req[f] /\ rsp'[f] = rsp[f]
      BY <1>1, <3>1
    <3>3. /\ req' \in [Files -> Messages \cup {NoMessage}]
          /\ rsp' \in [Files -> Answers \cup {NoMessage}]
      BY <1>1, <3>1
    <3> QED
      BY <2>1, <3>2, <3>3
  <2>2. CASE ~idle
    <3>1. UNCHANGED <<req, rsp>>
      BY <1>3, <2>2 DEF Forget
    <3> QED
      BY <1>1, <3>1
  <2> QED
    BY <2>1, <2>2
<1> QED
  BY <1>2, <1>3

\* A call returns.
LEMMA ReturnKeeps ==
  ASSUME RpcIInv, NEW t \in Threads, t \in Inside,
         call' = [call EXCEPT ![t] = NoCall],
         NEW r \in Returned, last' = [last EXCEPT ![t] = r],
         Forget(t) \/ UNCHANGED <<req, rsp>>,
         UNCHANGED <<alive, link, loaded, served>>, faults' \in 0..MaxFaults,
         IF call[t].step = "sent"
         THEN (wire # <<>> /\ wire' = Tail(wire)) \/ (~link /\ wire = <<>> /\ wire' = wire)
         ELSE wire' = wire
  PROVE  RpcIInv'
<1>1. RpcTypes
  BY DEF RpcIInv
<1>2. call \in [Threads -> Entered \cup Loading \cup {NoCall}] /\ last \in [Threads -> Returned \cup {NoCall}]
  BY <1>1 DEF RpcTypes
<1>3. call'[t] = NoCall /\ \A u \in Threads \ {t} : call'[u] = call[u]
  BY <1>2
<1>4. last'[t] = r /\ \A u \in Threads \ {t} : last'[u] = last[u]
  BY <1>2
<1>5. RpcTypes'
  <2>1. call' \in [Threads -> Entered \cup Loading \cup {NoCall}]
    BY <1>2
  <2>2. last' \in [Threads -> Returned \cup {NoCall}]
    BY <1>2
  <2>3. wire' \in Seq(Answers)
    <3>1. wire \in Seq(Answers)
      BY <1>1 DEF RpcTypes
    <3>2. wire # <<>> => Tail(wire) \in Seq(Answers)
      BY <3>1
    <3>3. wire' = wire \/ (wire # <<>> /\ wire' = Tail(wire))
      OBVIOUS
    <3> QED
      BY <3>1, <3>2, <3>3
  <2> QED
    BY <1>1, <2>1, <2>2, <2>3, ForgetKeeps DEF RpcTypes
<1>6. ASSUME NEW u \in Threads, u # t
      PROVE  Kept(u)' /\ (u \in Inside' <=> u \in Inside) /\ (u \in Inside' => call'[u].with # {})
  BY <1>1, <1>3, <1>4, <1>6, ForgetKeeps, OthersKept
<1>7. t \notin Inside'
  BY <1>3 DEF Inside, NoCall
<1>8. \A u \in Threads : Kept(u)'
  <2>1. Kept(t)'
    BY <1>3, <1>5, CallCases DEF Kept, NoCall, Entered
  <2> QED
    BY <1>6, <2>1
<1>9. Joined'
  <2>1. ASSUME NEW u \in Inside', NEW v \in Inside', u # v PROVE v \in call'[u].with
    <3>1. u \in Threads /\ v \in Threads /\ u # t /\ v # t
      BY <1>7 DEF Inside
    <3>2. u \in Inside /\ v \in Inside /\ call'[u] = call[u]
      BY <1>3, <1>6, <3>1
    <3> QED
      BY <2>1, <3>2 DEF RpcIInv, Joined
  <2> QED
    BY <2>1 DEF Joined
<1>10. Wired'
  <2>1. Wired /\ wire \in Seq(Answers)
    BY <1>1 DEF RpcIInv, RpcTypes
  <2>2. CASE call[t].step = "sent"
    <3>1. t \in Waiting /\ Waiting' = Waiting \ {t}
      BY <1>3, <2>2 DEF Waiting, NoCall
    <3>2. CASE wire # <<>> /\ wire' = Tail(wire)
      <4>1. Len(wire) = Cardinality(Waiting)
        BY <2>1, <3>2 DEF Wired
      <4>2. Cardinality(Waiting') = Cardinality(Waiting) - 1
        BY <3>1, WaitingFinite, FS_RemoveElement
      <4>3. Len(wire') = Len(wire) - 1
        BY <2>1, <3>2
      <4> QED
        BY <4>1, <4>2, <4>3 DEF Wired
    <3>3. CASE ~link /\ wire = <<>> /\ wire' = wire
      BY <3>3 DEF Wired
    <3> QED
      BY <2>2, <3>2, <3>3
  <2>3. CASE call[t].step # "sent"
    <3>1. Waiting' = Waiting
      BY <1>3, <2>3 DEF Waiting, NoCall
    <3> QED
      BY <2>1, <2>3, <3>1 DEF Wired
  <2> QED
    BY <2>2, <2>3
<1>11. \A u \in Inside' : call'[u].with # {}
  BY <1>6, <1>7 DEF Inside
<1> QED
  BY <1>5, <1>8, <1>9, <1>10, <1>11 DEF RpcIInv

\* Nothing but the modules that are loaded and the life of the process changes.
LEMMA IdleKeeps ==
  ASSUME RpcIInv, alive' \in BOOLEAN, loaded' \in 0..Len(LoadOrder),
         UNCHANGED <<link, wire, req, rsp, call, served, last, faults>>
  PROVE  RpcIInv'
<1>1. RpcTypes'
  BY DEF RpcIInv, RpcTypes
<1>2. \A t \in Threads : Kept(t)'
  BY DEF RpcIInv, Kept
<1>3. Joined' /\ Wired'
  BY DEF RpcIInv, Joined, Wired, Inside, Waiting
<1>4. \A t \in Inside' : call'[t].with = {} => Private(t)'
  BY DEF RpcIInv, Private, Own, Inside
<1> QED
  BY <1>1, <1>2, <1>3, <1>4 DEF RpcIInv

\* A call goes on to its next step.
LEMMA StepKeeps ==
  ASSUME RpcIInv, NEW t \in Threads, call[t] \in Entered,
         NEW s \in {"prepared", "sent", "received"}, NEW n \in Int,
         call' = [call EXCEPT ![t] = [call[t] EXCEPT !.step = s, !.net = n]],
         UNCHANGED <<alive, link, loaded, req, last>>, faults' \in 0..MaxFaults,
         wire' \in Seq(Answers), served' \in [Threads -> BOOLEAN],
         NEW a \in Answers \cup {NoMessage}, rsp' = [rsp EXCEPT ![Unit[call[t].op]] = a],
         a \in Answers \/ rsp' = rsp, s = "received" => a \in Answers,
         Wired', call[t].with = {} => Private(t)'
  PROVE  RpcIInv'
<1> DEFINE f == Unit[call[t].op]
           c == [call[t] EXCEPT !.step = s, !.net = n]
<1>1. RpcTypes /\ f \in Files /\ t \in Inside
  BY UnitOf DEF RpcIInv, Entered, Inside
<1>2. c \in Entered /\ c.op = call[t].op /\ c.with = call[t].with /\ c.step = s
  BY DEF Entered
<1> HIDE DEF c, f
<1>3. call'[t] = c /\ \A u \in Threads \ {t} : call'[u] = call[u]
  BY <1>1 DEF RpcTypes, c
<1>4. rsp'[f] = a /\ \A g \in Files : rsp'[g] = rsp[g] \/ rsp'[g] \in Answers
  BY <1>1 DEF RpcTypes, f
<1>5. RpcTypes'
  <2>1. call' \in [Threads -> Entered \cup Loading \cup {NoCall}]
    BY <1>1, <1>2 DEF RpcTypes, c
  <2>2. rsp' \in [Files -> Answers \cup {NoMessage}]
    BY <1>1 DEF RpcTypes, f
  <2> QED
    BY <1>1, <2>1, <2>2 DEF RpcTypes
<1>6. ASSUME NEW u \in Threads, u # t
      PROVE  Kept(u)' /\ (u \in Inside' <=> u \in Inside) /\ (u \in Inside' => call'[u].with # {})
  BY <1>1, <1>3, <1>4, <1>6, OthersKept
<1>7. Kept(t)'
  <2>1. req'[f] \in Messages /\ last'[t] = NoCall
    BY DEF RpcIInv, Kept, f, NoCall, Entered
  <2> QED
    BY <1>2, <1>3, <1>4, <2>1 DEF Kept, f
<1>8. t \in Inside'
  BY <1>2, <1>3 DEF Inside
<1>9. Joined'
  <2>1. ASSUME NEW u \in Inside', NEW v \in Inside', u # v PROVE v \in call'[u].with
    <3>1. u \in Threads /\ v \in Threads
      BY DEF Inside
    <3>2. u \in Inside /\ v \in Inside /\ call'[u].with = call[u].with
      BY <1>1, <1>2, <1>3, <1>6, <3>1
    <3> QED
      BY <2>1, <3>2 DEF RpcIInv, Joined
  <2> QED
    BY <2>1 DEF Joined
<1>10. ASSUME NEW u \in Inside', call'[u].with = {} PROVE Private(u)'
  <2>1. u = t
    BY <1>6, <1>10, SMTT(60) DEF Inside
  <2> QED
    BY <1>2, <1>3, <1>10, <2>1
<1> QED
  BY <1>5, <1>6, <1>7, <1>9, <1>10 DEF RpcIInv

\* call_method sends the request.
LEMMA SendKeeps ==
  ASSUME RpcIInv, NEW t \in Threads, Send(t)
  PROVE  RpcIInv'
<1> DEFINE f == Unit[call[t].op]
           m == req[f]
<1>1. RpcTypes /\ call[t] \in Entered /\ call[t].step = "prepared" /\ link
  BY CallCases DEF RpcIInv, Send, Ready
<1>2. m \in Messages /\ f \in Files
  BY <1>1, UnitOf, SMTT(60) DEF RpcIInv, Kept, Entered
<1>3. PICK a \in Good(m) \cup Faulty(m) \cup {Answer(m, "refused", 0, 0)} :
        /\ wire' = Append(wire, a)
        /\ served' = [served EXCEPT ![m.to] = @ \/ a.fault \notin {"error", "refused"}]
        /\ faults' = IF Available(m) /\ a.fault # "none" THEN faults + 1 ELSE faults
        /\ faults < MaxFaults \/ ~Available(m) \/ a \in Good(m)
  BY DEF Send
<1>4. /\ a \in Answers /\ a.to = m.to /\ a.op = m.op
      /\ a.op = "sbitReadOut" => a.word \in LiveTimes \cup {Full} \/ a.fault \in {"error", "refused"}
      /\ a.op = "readSCAADCSensor" /\ a.fault = "none" => a.word = Cardinality(Links(m.arg))
  BY <1>2, AnswerTypes
<1>5. faults' \in 0..MaxFaults
  <2>1. a \in Good(m) => a.fault = "none"
    BY DEF Good, Answer
  <2> QED
    BY <1>1, <1>3, <2>1, RpcAssumption, SMTT(60) DEF RpcTypes
<1>6. wire \in Seq(Answers) /\ wire' \in Seq(Answers) /\ Len(wire') = Len(wire) + 1
  BY <1>1, <1>3, <1>4 DEF RpcTypes
<1>7. m.to \in Threads /\ served \in [Threads -> BOOLEAN]
  BY <1>1, <1>2 DEF Messages, RpcTypes
<1>8. /\ served' \in [Threads -> BOOLEAN]
      /\ a.fault \notin {"error", "refused"} => served'[m.to]
  BY <1>3, <1>7
<1>9. /\ call' = [call EXCEPT ![t].step = "sent"]
      /\ UNCHANGED <<alive, link, loaded, req, rsp, last>>
  BY DEF Send
<1>10. call' = [call EXCEPT ![t] = [call[t] EXCEPT !.step = "sent", !.net = call[t].net]]
  BY <1>1, <1>9 DEF RpcTypes, Entered
<1>11. Wired'
  <2>1. Len(wire) = Cardinality(Waiting)
    BY <1>1 DEF RpcIInv, Wired
  <2>2. t \notin Waiting /\ Waiting' = Waiting \cup {t}
    BY <1>1, <1>10 DEF Waiting, RpcTypes, Entered
  <2>3. Cardinality(Waiting') = Cardinality(Waiting) + 1
    BY <2>2, WaitingFinite, FS_AddElement
  <2> QED
    BY <1>6, <2>1, <2>3 DEF Wired
<1>12. ASSUME call[t].with = {} PROVE Private(t)'
  <2>1. m = [to |-> t, op |-> call[t].op, arg |-> call[t].arg] /\ wire = <<>>
    BY <1>1, <1>12 DEF RpcIInv, Private, Inside
  <2>2. Len(wire') = 1 /\ wire'[1] = a
    BY <1>3, <2>1
  <2>3. /\ call'[t].op = call[t].op /\ call'[t].arg = call[t].arg /\ call'[t].step = "sent"
    BY <1>1, <1>10 DEF RpcTypes, Entered
  <2>4. Own(t, a)'
    BY <1>4, <1>8, <2>1, <2>3 DEF Own
  <2> QED
    BY <1>9, <2>1, <2>2, <2>3, <2>4 DEF Private, Own
<1>13. rsp' = [rsp EXCEPT ![f] = rsp[f]] /\ rsp[f] \in Answers \cup {NoMessage} /\ call[t].net \in Int
  BY <1>1, <1>2, <1>9 DEF RpcTypes, Entered
<1> QED
  BY <1>1, <1>5, <1>6, <1>8, <1>9, <1>10, <1>11, <1>12, <1>13, StepKeeps

\* call_method takes an answer.
LEMMA ReceiveKeeps ==
  ASSUME RpcIInv, NEW t \in Threads, Receive(t)
  PROVE  RpcIInv'
<1> DEFINE f == Unit[call[t].op]
           a == Head(wire)
<1>1. RpcTypes /\ call[t] \in Entered /\ call[t].step = "sent" /\ wire # <<>>
  BY CallCases DEF RpcIInv, Receive
<1>2. f \in Files /\ call[t].net \in Int
  BY <1>1, UnitOf DEF Entered
<1>3. /\ wire \in Seq(Answers) /\ wire' = Tail(wire) /\ wire' \in Seq(Answers)
      /\ Len(wire') = Len(wire) - 1 /\ a \in Answers /\ a = wire[1]
  BY <1>1 DEF RpcTypes, Receive
<1>4. /\ rsp' = [rsp EXCEPT ![f] = a]
      /\ UNCHANGED <<alive, link, loaded, req, served, last, faults>>
      /\ call' = [call EXCEPT ![t].step = "received"]
  BY DEF Receive
<1>5. call' = [call EXCEPT ![t] = [call[t] EXCEPT !.step = "received", !.net = call[t].net]]
  BY <1>1, <1>4 DEF RpcTypes, Entered
<1>6. Wired'
  <2>1. Len(wire) = Cardinality(Waiting)
    BY <1>1 DEF RpcIInv, Wired
  <2>2. t \in Waiting /\ Waiting' = Waiting \ {t}
    BY <1>1, <1>5 DEF Waiting, RpcTypes, Entered
  <2>3. Cardinality(Waiting') = Cardinality(Waiting) - 1
    BY <2>2, WaitingFinite, FS_RemoveElement
  <2> QED
    BY <1>3, <2>1, <2>3 DEF Wired
<1>7. ASSUME call[t].with = {} PROVE Private(t)'
  <2>1. Private(t)
    BY <1>1, <1>7 DEF RpcIInv, Inside
  <2>2. Len(wire) = 1 /\ Own(t, a)
    BY <1>1, <1>3, <2>1 DEF Private
  <2>3. wire' = <<>>
    BY <1>3, <2>2
  <2>4. /\ call'[t].op = call[t].op /\ call'[t].arg = call[t].arg /\ call'[t].step = "received"
        /\ call'[t] \in Entered
    BY <1>1, <1>5 DEF RpcTypes, Entered
  <2>5. rsp'[f] = a /\ a.fault # "refused"
    BY <1>1, <1>2, <1>4 DEF RpcTypes, Receive
  <2>6. Own(t, rsp[f])'
    BY <1>4, <2>2, <2>4, <2>5 DEF Own
  <2>7. req[f] = [to |-> t, op |-> call[t].op, arg |-> call[t].arg]
    BY <1>1, <2>1 DEF Private
  <2> HIDE DEF f
  <2> QED
    BY <1>4, <2>3, <2>4, <2>5, <2>6, <2>7 DEF Private, f
<1>8. served' \in [Threads -> BOOLEAN] /\ faults' \in 0..MaxFaults
  BY <1>1, <1>4 DEF RpcTypes
<1> QED
  BY <1>1, <1>2, <1>3, <1>4, <1>5, <1>6, <1>7, <1>8, StepKeeps

\* What a call that returns reports.
LEMMA ReturnTypes ==
  ASSUME RpcIInv, NEW t \in Threads, call[t] \in Entered,
         NEW code \in Int, NEW from \in Threads \cup {None}, NEW out \in Seq(Cells),
         NEW net \in Int
  PROVE  [step |-> "returned", op |-> call[t].op, arg |-> call[t].arg, code |-> code,
          from |-> from, out |-> out, with |-> call[t].with, net |-> net] \in Returned
  BY DEF Entered, Returned

\* A call fails.
LEMMA FailKeeps ==
  ASSUME RpcIInv, NEW t \in Threads, call[t] \in Entered, NEW code \in Int, Fail(t, code),
         UNCHANGED <<alive, link, loaded, served, faults>>,
         IF call[t].step = "sent"
         THEN (wire # <<>> /\ wire' = Tail(wire)) \/ (~link /\ wire = <<>> /\ wire' = wire)
         ELSE wire' = wire
  PROVE  RpcIInv'
<1>1. RpcTypes /\ t \in Inside
  BY CallCases DEF RpcIInv, Inside, Entered
<1>2. Untouched(call[t].op) \in Seq(Cells)
  <2>1. Regular(call[t].op, Calls[call[t].op])
    BY CallsRegular DEF Entered
  <2>2. Len(Calls[call[t].op].keys) \in Nat
    BY <2>1 DEF Regular, IsTuple
  <2>3. Old \in Cells
    BY DEF Cells, Old
  <2> QED
    BY <2>2, <2>3 DEF Untouched
<1>3. call[t].net \in Int
  BY DEF Entered
<1>4. faults' \in 0..MaxFaults
  BY <1>1 DEF RpcTypes
<1>5. PICK r \in Returned : last' = [last EXCEPT ![t] = r]
  BY <1>2, <1>3, ReturnTypes DEF Fail, Return
<1> QED
  BY <1>1, <1>4, <1>5, ReturnKeeps DEF Fail, Return

\* A call copies its answer to the caller.
LEMMA CollectKeeps ==
  ASSUME RpcIInv, NEW t \in Threads, Collect(t)
  PROVE  RpcIInv'
<1> DEFINE c == call[t]
           a == rsp[Unit[c.op]]
           code == Code(c, a)
           from == IF a.fault = "error" \/ FirstBad(c, a) <= Len(Calls[c.op].keys)
                   THEN None ELSE a.to
<1>1. RpcTypes /\ c.step = "received" /\ c \in Entered /\ t \in Inside
  BY CallCases DEF RpcIInv, Collect, Inside
<1>2. a \in Answers
  BY <1>1 DEF RpcIInv, Kept
<1>3. code \in Int /\ Outputs(c, a) \in Seq(Cells) /\ from \in Threads \cup {None} /\ c.net \in Int
  BY <1>1, <1>2, ResultTypes DEF Answers, Entered
<1>4. UNCHANGED <<link, loaded, wire, served, faults>>
  BY DEF Collect
<1>5. faults' \in 0..MaxFaults /\ loaded' \in 0..Len(LoadOrder)
  BY <1>1, <1>4 DEF RpcTypes
<1>6. CASE code = Uncaught
  <2>1. alive' = FALSE /\ UNCHANGED <<req, rsp, call, last>>
    BY <1>6 DEF Collect
  <2> QED
    BY <1>4, <1>5, <2>1, IdleKeeps
<1>7. CASE code # Uncaught
  <2>1. Return(t, code, from, Outputs(c, a)) /\ UNCHANGED alive
    BY <1>7 DEF Collect
  <2>2. PICK r \in Returned : last' = [last EXCEPT ![t] = r]
    BY <1>1, <1>3, <2>1, ReturnTypes DEF Return
  <2> QED
    BY <1>1, <1>4, <1>5, <2>1, <2>2, ReturnKeeps DEF Return
<1> QED
  BY <1>6, <1>7

\* sbitReadOut takes an answer.
LEMMA AcquireKeeps ==
  ASSUME RpcIInv, NEW t \in Threads, Acquire(t)
  PROVE  RpcIInv'
<1> DEFINE c == call[t]
           a == rsp.amc
           net == c.net + (IF a.word = Full THEN AcquireTime ELSE a.word)
<1>1. RpcTypes /\ c.step = "received" /\ c.op = "sbitReadOut" /\ c \in Entered /\ t \in Inside
  BY CallCases DEF RpcIInv, Acquire, Inside
<1>2. a \in Answers /\ Unit[c.op] = "amc"
  BY <1>1, Names DEF RpcIInv, Kept
<1>3. net \in Int /\ a.to \in Threads
  <2>1. c.net \in Int /\ a.word \in Int /\ a.to \in Threads
    BY <1>1, <1>2 DEF Answers, Entered
  <2>2. AcquireTime \in Int
    BY RpcAssumption
  <2> HIDE DEF c, a
  <2> QED
    BY <2>1, <2>2
<1>4. UNCHANGED <<link, loaded, wire, served, faults>>
  BY DEF Acquire
<1>5. faults' \in 0..MaxFaults /\ loaded' \in 0..Len(LoadOrder)
  BY <1>1, <1>4 DEF RpcTypes
<1>6. CASE Fail(t, 1) /\ UNCHANGED alive
  BY <1>1, <1>4, <1>6, FailKeeps
<1>7. CASE alive' = FALSE /\ UNCHANGED <<req, rsp, call, last>>
  BY <1>4, <1>5, <1>7, IdleKeeps
<1>8. CASE /\ call' = [call EXCEPT ![t].step = "prepared", ![t].net = net]
           /\ UNCHANGED <<alive, req, rsp, last>>
  <2> HIDE DEF net
  <2>1. call' = [call EXCEPT ![t] = [call[t] EXCEPT !.step = "prepared", !.net = net]]
    BY <1>1, <1>8 DEF RpcTypes, Entered
  <2>2. /\ call'[t].op = c.op /\ call'[t].arg = c.arg /\ call'[t].step = "prepared"
        /\ \A u \in Threads \ {t} : call'[u] = call[u]
    BY <1>1, <1>3, <2>1 DEF RpcTypes, Entered
  <2>3. Wired'
    <3>1. Waiting' = Waiting
      BY <1>1, <2>2 DEF Waiting
    <3> QED
      BY <1>4, <3>1 DEF RpcIInv, Wired
  <2>4. ASSUME c.with = {} PROVE Private(t)'
    <3>1. Private(t)
      BY <1>1, <2>4 DEF RpcIInv
    <3>2. req[Unit[c.op]] = [to |-> t, op |-> c.op, arg |-> c.arg] /\ wire = <<>>
      BY <1>1, <3>1 DEF Private
    <3> QED
      BY <1>4, <1>8, <2>2, <3>2 DEF Private
  <2>5. rsp' = [rsp EXCEPT ![Unit[c.op]] = a]
    BY <1>1, <1>2, <1>8 DEF RpcTypes
  <2>6. wire' \in Seq(Answers) /\ served' \in [Threads -> BOOLEAN]
    BY <1>1, <1>4 DEF RpcTypes
  <2> QED
    BY <1>1, <1>2, <1>3, <1>4, <1>5, <1>8, <2>1, <2>3, <2>4, <2>5, <2>6, StepKeeps
<1>9. CASE /\ Forget(t)
           /\ last' = [last EXCEPT ![t] =
                         [step |-> "returned", op |-> c.op, arg |-> c.arg, code |-> 0,
                          from |-> a.to, out |-> <<>>, with |-> c.with, net |-> net]]
           /\ call' = [call EXCEPT ![t] = NoCall]
           /\ UNCHANGED alive
  <2> HIDE DEF net
  <2>1. <<>> \in Seq(Cells)
    OBVIOUS
  <2> DEFINE r == [step |-> "returned", op |-> c.op, arg |-> c.arg, code |-> 0,
                   from |-> a.to, out |-> <<>>, with |-> c.with, net |-> net]
  <2>2. r \in Returned
    BY <1>1, <1>3, <2>1 DEF Returned, Entered
  <2>3. last' = [last EXCEPT ![t] = r]
    BY <1>9
  <2> HIDE DEF r
  <2> QED
    BY <1>1, <1>4, <1>5, <1>9, <2>2, <2>3, ReturnKeeps
<1> QED
  BY <1>6, <1>7, <1>8, <1>9 DEF Acquire

\* A module is loaded, or is not, or all are.
LEMMA LoadingKeeps ==
  ASSUME RpcIInv, NEW t \in Threads, LoadModule(t) \/ LoadFails(t) \/ InitReturns(t)
  PROVE  RpcIInv'
<1>1. RpcTypes /\ call[t].step = "loading" /\ t \in Inside
  BY CallCases DEF RpcIInv, LoadModule, LoadFails, InitReturns, Inside
<1>2. Len(LoadOrder) \in Nat /\ loaded \in 0..Len(LoadOrder) /\ faults \in 0..MaxFaults
  BY <1>1 DEF RpcTypes, LoadOrder
<1>3. CASE LoadModule(t)
  <2>1. loaded' \in 0..Len(LoadOrder)
    BY <1>2, <1>3 DEF LoadModule
  <2>2. alive' \in BOOLEAN
    BY <1>1, <1>3 DEF LoadModule, RpcTypes
  <2> QED
    BY <1>3, <2>1, <2>2, IdleKeeps DEF LoadModule
<1>4. ASSUME NEW code \in {0, 1}, Result(t, "init", code), faults' \in 0..MaxFaults,
             UNCHANGED <<alive, link, loaded, wire, req, rsp, served>>
      PROVE  RpcIInv'
  <2> DEFINE r == [step |-> "returned", op |-> "init", arg |-> 0, code |-> code,
                   from |-> None, out |-> <<>>, with |-> {}, net |-> 0]
  <2>1. r \in Returned
    BY DEF Returned
  <2>2. last' = [last EXCEPT ![t] = r] /\ call' = [call EXCEPT ![t] = NoCall]
    BY <1>4 DEF Result
  <2> HIDE DEF r
  <2> QED
    BY <1>1, <1>4, <2>1, <2>2, ReturnKeeps
<1>5. CASE LoadFails(t)
  <2>1. faults' \in 0..MaxFaults
    BY <1>2, <1>5, RpcAssumption, SMTT(60) DEF LoadFails
  <2> QED
    BY <1>4, <1>5, <2>1 DEF LoadFails
<1>6. CASE InitReturns(t)
  BY <1>2, <1>4, <1>6 DEF InitReturns
<1> QED
  BY <1>3, <1>5, <1>6

\* Every step of a thread in the library keeps the invariant.
LEMMA LibraryKeeps ==
  ASSUME RpcIInv, NEW t \in Threads, LibraryStep(t)
  PROVE  RpcIInv'
<1>1. RpcTypes
  BY DEF RpcIInv
<1>2. CASE Refuse(t) \/ OpenFails(t) \/ NotConnected(t)
  <2>1. call[t].step = "prepared" /\ call[t] \in Entered
    BY <1>1, <1>2, CallCases DEF Refuse, OpenFails, NotConnected, Ready
  <2>2. \E code \in Int : Fail(t, code)
    BY <1>2 DEF Refuse, OpenFails, NotConnected, EIO
  <2>3. UNCHANGED <<alive, link, loaded, wire, served, faults>>
    BY <1>2 DEF Refuse, OpenFails, NotConnected
  <2> QED
    BY <2>1, <2>2, <2>3, FailKeeps
<1>3. CASE CallThrows(t)
  <2>1. call[t].step = "sent" /\ call[t] \in Entered
    BY <1>1, <1>3, CallCases DEF CallThrows
  <2> QED
    BY <1>3, <2>1, FailKeeps DEF CallThrows
<1> QED
  BY <1>2, <1>3, SendKeeps, ReceiveKeeps, CollectKeeps, AcquireKeeps, LoadingKeeps DEF LibraryStep

-----------------------------------------------------------------------------
(* Calls begin, results are looked at, the connection opens and closes *)

\* With nobody in the library nothing is on its way.
LEMMA NobodyWaits ==
  ASSUME RpcIInv, Inside = {}
  PROVE  Waiting = {} /\ Cardinality(Waiting) = 0 /\ wire = <<>>
<1>1. Waiting = {}
  BY DEF Waiting, Inside
<1>2. Cardinality(Waiting) = 0
  BY <1>1, FS_EmptySet
<1>3. wire \in Seq(Answers) /\ Wired
  BY DEF RpcIInv, RpcTypes
<1> QED
  BY <1>1, <1>2, <1>3 DEF Wired

\* A call joins those in progress.
LEMMA EnterKeeps ==
  ASSUME RpcIInv, NEW t \in Threads, call[t] = NoCall,
         NEW c \in Entered \cup Loading, c.step \in {"prepared", "loading"}, Enter(t, c),
         UNCHANGED <<alive, rsp, faults>>, link' \in BOOLEAN, loaded' \in 0..Len(LoadOrder),
         (link' = link /\ wire' = wire) \/ (Inside = {} /\ wire' = <<>>),
         req' \in [Files -> Messages \cup {NoMessage}],
         \A f \in Files : req'[f] = req[f] \/ req'[f] \in Messages,
         c \in Entered => req'[Unit[c.op]] = [to |-> t, op |-> c.op, arg |-> c.arg]
  PROVE  RpcIInv'
<1> DEFINE d == [c EXCEPT !.with = Inside]
           e(u) == [call[u] EXCEPT !.with = @ \cup {t}]
<1>1. RpcTypes /\ Inside \subseteq Threads /\ t \notin Inside
  BY CallCases DEF RpcIInv, Inside
<1>2. /\ call' = [u \in Threads |-> IF u = t THEN d ELSE IF u \in Inside THEN e(u) ELSE call[u]]
      /\ served' = [served EXCEPT ![t] = FALSE]
      /\ last' = [last EXCEPT ![t] = NoCall]
  BY DEF Enter
<1>3. /\ d \in Entered \cup Loading /\ d.op = c.op /\ d.arg = c.arg /\ d.step = c.step
      /\ d.with = Inside /\ (d \in Entered <=> c \in Entered)
  BY <1>1 DEF Entered, Loading
<1>4. ASSUME NEW u \in Inside
      PROVE  /\ e(u) \in Entered \cup Loading /\ e(u).op = call[u].op /\ e(u).step = call[u].step
             /\ e(u).with = call[u].with \cup {t} /\ (e(u) \in Entered <=> call[u] \in Entered)
  <2>1. call[u] \in Entered \cup Loading /\ u \in Threads
    BY <1>1, <1>4, CallCases
  <2> QED
    BY <2>1 DEF Entered, Loading
<1> HIDE DEF d, e
<1>5. /\ call'[t] = d
      /\ \A u \in Inside : call'[u] = e(u)
      /\ \A u \in Threads : u # t /\ u \notin Inside => call'[u] = call[u]
  BY <1>1, <1>2
<1>6. served' \in [Threads -> BOOLEAN] /\ last' \in [Threads -> Returned \cup {NoCall}]
  BY <1>1, <1>2 DEF RpcTypes
<1>7. last'[t] = NoCall /\ \A u \in Threads \ {t} : last'[u] = last[u]
  BY <1>1, <1>2 DEF RpcTypes
<1>8. RpcTypes'
  <2>1. \A u \in Threads : call[u] \in Entered \cup Loading \cup {NoCall}
    BY <1>1 DEF RpcTypes
  <2>2. call' \in [Threads -> Entered \cup Loading \cup {NoCall}]
    BY <1>2, <1>3, <1>4, <2>1
  <2>3. wire \in Seq(Answers) /\ <<>> \in Seq(Answers)
    BY <1>1 DEF RpcTypes
  <2>4. wire' \in Seq(Answers)
    BY <2>3
  <2> QED
    BY <1>1, <1>6, <2>2, <2>4 DEF RpcTypes
<1>9. Inside' = Inside \cup {t}
  <2>1. d.step # "none"
    BY <1>3
  <2> QED
    BY <1>1, <1>4, <1>5, <2>1 DEF Inside
<1>10. ASSUME NEW u \in Threads PROVE Kept(u)'
  <2>1. CASE u = t
    <3>1. d \in Entered => req'[Unit[d.op]] \in Messages
      BY <1>3 DEF Messages, Entered
    <3>2. d.step # "received"
      BY <1>3
    <3> QED
      BY <1>5, <1>7, <2>1, <3>1, <3>2 DEF Kept
  <2>2. CASE u \in Inside
    <3>1. Kept(u) /\ u # t
      BY <1>1, <2>2 DEF RpcIInv
    <3>2. call[u] \in Entered => Unit[call[u].op] \in Files
      BY UnitOf DEF Entered
    <3>3. call[u] # NoCall /\ call'[u] = e(u)
      BY <1>1, <1>5, <2>2, CallCases
    <3> QED
      BY <1>4, <1>7, <2>2, <3>1, <3>2, <3>3 DEF Kept
  <2>3. CASE u # t /\ u \notin Inside
    <3>1. call'[u] = NoCall
      BY <1>1, <1>5, <2>3, CallCases
    <3> QED
      BY <1>8, <3>1, CallCases DEF Kept, Entered, NoCall
  <2> QED
    BY <2>1, <2>2, <2>3
<1>11. Joined'
  <2>1. ASSUME NEW u \in Inside', NEW v \in Inside', u # v PROVE v \in call'[u].with
    <3>1. CASE u = t
      BY <1>3, <1>5, <1>9, <2>1, <3>1
    <3>2. CASE u \in Inside /\ v = t
      BY <1>4, <1>5, <3>2
    <3>3. CASE u \in Inside /\ v \in Inside
      BY <1>4, <1>5, <2>1, <3>3 DEF RpcIInv, Joined
    <3> QED
      BY <1>9, <2>1, <3>1, <3>2, <3>3
  <2> QED
    BY <2>1 DEF Joined
<1>12. Wired'
  <2>1. Waiting' = Waiting
    <3>1. d.step # "sent" /\ call[t].step # "sent"
      BY <1>3 DEF NoCall
    <3> QED
      BY <1>4, <1>5, <3>1 DEF Waiting
  <2>2. CASE link' = link /\ wire' = wire
    BY <2>1, <2>2 DEF RpcIInv, Wired
  <2>3. CASE Inside = {} /\ wire' = <<>>
    BY <2>1, <2>3, NobodyWaits DEF Wired
  <2> QED
    BY <2>2, <2>3
<1>13. ASSUME NEW u \in Inside', call'[u].with = {} PROVE Private(u)'
  <2>1. u = t
    BY <1>4, <1>5, <1>9, <1>13
  <2>2. Inside = {}
    BY <1>3, <1>5, <1>13, <2>1
  <2>3. wire' = <<>>
    BY <2>2, NobodyWaits
  <2>4. d.step \notin {"sent", "received"}
    BY <1>3
  <2> QED
    BY <1>3, <1>5, <2>1, <2>3, <2>4 DEF Private
<1> QED
  BY <1>8, <1>10, <1>11, <1>12, <1>13 DEF RpcIInv

LEMMA PrepareKeeps ==
  ASSUME RpcIInv, NEW t \in Threads, NEW op \in Ops, NEW arg \in Int, Prepare(t, op, arg)
  PROVE  RpcIInv'
<1> DEFINE c == [op |-> op, arg |-> arg, step |-> "prepared", net |-> 0, with |-> {}]
           m == [to |-> t, op |-> op, arg |-> arg]
<1>1. c \in Entered /\ c.step = "prepared" /\ c.op = op /\ c.arg = arg
  BY DEF Entered
<1>2. /\ call[t] = NoCall /\ Enter(t, c) /\ req' = [req EXCEPT ![Unit[op]] = m]
      /\ UNCHANGED <<alive, link, loaded, wire, rsp, faults>>
  BY DEF Prepare
<1>3. m \in Messages /\ Unit[op] \in Files
  BY UnitOf DEF Messages
<1>4. /\ req \in [Files -> Messages \cup {NoMessage}]
      /\ link \in BOOLEAN /\ loaded \in 0..Len(LoadOrder)
  BY DEF RpcIInv, RpcTypes
<1> HIDE DEF c
<1>5. req' \in [Files -> Messages \cup {NoMessage}] /\ req'[Unit[op]] = m
  BY <1>2, <1>3, <1>4
<1>6. \A f \in Files : req'[f] = req[f] \/ req'[f] \in Messages
  BY <1>2, <1>3, <1>4
<1> QED
  BY <1>1, <1>2, <1>4, <1>5, <1>6, EnterKeeps

LEMMA ConnectKeeps ==
  ASSUME RpcIInv, NEW t \in Threads, Connect(t), Inside = {}
  PROVE  RpcIInv'
<1> DEFINE c == [op |-> "init", arg |-> 0, step |-> "loading", net |-> 0, with |-> {}]
<1>1. c \in Loading /\ c.step = "loading" /\ c \notin Entered
  BY DEF Loading, Entered
<1>2. /\ call[t] = NoCall /\ Enter(t, c) /\ link' = TRUE /\ loaded' = 0 /\ wire' = <<>>
      /\ UNCHANGED <<alive, req, rsp, faults>>
  BY DEF Connect
<1>3. 0 \in 0..Len(LoadOrder)
  BY DEF LoadOrder
<1>4. req' \in [Files -> Messages \cup {NoMessage}]
  BY <1>2 DEF RpcIInv, RpcTypes
<1> HIDE DEF c
<1> QED
  BY <1>1, <1>2, <1>3, <1>4, EnterKeeps

\* The connection goes: by deinit or a failed init with nobody else in the library,
\* or by an accident.
LEMMA CutKeeps ==
  ASSUME RpcIInv, link' = FALSE, loaded' = 0, wire' = <<>>, faults' \in 0..MaxFaults,
         UNCHANGED <<alive, req, rsp, served, call>>,
         last' \in [Threads -> Returned \cup {NoCall}],
         \A t \in Threads : last'[t] = last[t] \/ call[t] = NoCall
  PROVE  RpcIInv'
<1>1. RpcTypes'
  <2>1. 0 \in 0..Len(LoadOrder)
    BY DEF LoadOrder
  <2>2. <<>> \in Seq(Answers)
    OBVIOUS
  <2> QED
    BY <2>1, <2>2 DEF RpcIInv, RpcTypes
<1>2. \A t \in Threads : Kept(t)'
  BY DEF RpcIInv, Kept
<1>3. Joined' /\ Wired'
  BY DEF RpcIInv, Joined, Inside, Wired
<1>4. ASSUME NEW t \in Inside', call'[t].with = {} PROVE Private(t)'
  <2>1. Private(t)
    BY <1>4 DEF RpcIInv, Inside
  <2> QED
    BY <2>1 DEF Private, Own
<1> QED
  BY <1>1, <1>2, <1>3, <1>4 DEF RpcIInv

LEMMA CloseKeeps ==
  ASSUME RpcIInv, NEW t \in Threads, ConnectFails(t) \/ deinit(t)
  PROVE  RpcIInv' /\ call' = call
<1>1. RpcTypes /\ call[t] = NoCall
  BY DEF RpcIInv, ConnectFails, deinit
<1>2. faults' \in 0..MaxFaults
  <2>1. faults' = faults \/ (faults < MaxFaults /\ faults' = faults + 1)
    BY DEF ConnectFails, deinit
  <2>2. faults \in 0..MaxFaults /\ MaxFaults \in Nat
    BY <1>1, RpcAssumption DEF RpcTypes
  <2> QED
    BY <2>1, <2>2
<1>3. PICK op \in {"init", "deinit"}, code \in {0, 1} : Result(t, op, code)
  BY DEF ConnectFails, deinit
<1> DEFINE r == [step |-> "returned", op |-> op, arg |-> 0, code |-> code,
                 from |-> None, out |-> <<>>, with |-> {}, net |-> 0]
<1>4. r \in Returned
  BY DEF Returned
<1>5. last' = [last EXCEPT ![t] = r] /\ call' = [call EXCEPT ![t] = NoCall]
  BY <1>3 DEF Result
<1> HIDE DEF r
<1>6. call' = call
  BY <1>1, <1>5 DEF RpcTypes
<1>7. last' \in [Threads -> Returned \cup {NoCall}] /\ \A u \in Threads \ {t} : last'[u] = last[u]
  BY <1>1, <1>4, <1>5 DEF RpcTypes
<1>8. link' = FALSE /\ loaded' = 0 /\ wire' = <<>> /\ UNCHANGED <<alive, req, rsp, served>>
  BY DEF ConnectFails, deinit
<1> QED
  BY <1>1, <1>2, <1>6, <1>7, <1>8, CutKeeps

LEMMA AccidentKeeps ==
  ASSUME RpcIInv, LinkBreaks \/ \E t, u \in Threads : Race(t, u)
  PROVE  RpcIInv'
<1>1. RpcTypes
  BY DEF RpcIInv
<1>2. CASE LinkBreaks
  <2>1. faults' \in 0..MaxFaults
    BY <1>1, <1>2, RpcAssumption DEF LinkBreaks, RpcTypes
  <2>2. last' \in [Threads -> Returned \cup {NoCall}]
    BY <1>1, <1>2 DEF LinkBreaks, RpcTypes
  <2> QED
    BY <1>2, <2>1, <2>2, CutKeeps DEF LinkBreaks
<1>3. CASE \E t, u \in Threads : Race(t, u)
  BY <1>1, <1>3, IdleKeeps DEF Race, RpcTypes
<1> QED
  BY <1>2, <1>3

\* The caller has looked at its result.
LEMMA TakenKeeps ==
  ASSUME RpcIInv, NEW t \in Threads, call[t] = NoCall, Taken(t)
  PROVE  RpcIInv'
<1>1. RpcTypes /\ UNCHANGED <<alive, link, loaded, wire, req, rsp, call, faults>>
  BY DEF RpcIInv, Taken
<1>2. /\ last' \in [Threads -> Returned \cup {NoCall}] /\ served' \in [Threads -> BOOLEAN]
      /\ last'[t] = NoCall
      /\ \A u \in Threads \ {t} : last'[u] = last[u] /\ served'[u] = served[u]
  BY <1>1 DEF RpcTypes, Taken
<1>3. RpcTypes'
  BY <1>1, <1>2 DEF RpcTypes
<1>4. ASSUME NEW u \in Threads PROVE Kept(u)'
  BY <1>1, <1>2 DEF RpcIInv, Kept
<1>5. Joined' /\ Wired' /\ Inside' = Inside
  BY <1>1 DEF RpcIInv, Joined, Wired, Inside, Waiting
<1>6. ASSUME NEW u \in Inside', call'[u].with = {} PROVE Private(u)'
  <2>1. u \in Threads \ {t} /\ Private(u)
    BY <1>1, <1>5, <1>6 DEF RpcIInv, Inside, NoCall
  <2>2. served'[u] = served[u]
    BY <1>2, <2>1
  <2> QED
    BY <1>1, <2>1, <2>2 DEF Private, Own
<1> QED
  BY <1>3, <1>4, <1>5, <1>6 DEF RpcIInv

-----------------------------------------------------------------------------
(* What a call returns *)

\* What the return r of thread t shows, where s says that the service did what was
\* asked: OutputsHonest, InBandHonest and OwnReturn, of one call.
Honest(t, r, s) ==
  LET f == Calls[r.op].fields
  IN  /\ r.from \in {t, None}
      /\ r.op = "scanGBTPhases" => (r.code = 0 <=> \A n \in DOMAIN r.out : r.out[n] # Old)
      /\ r.op \in Ops \ (InBand \cup {"putReg", "sbitReadOut"}) =>
           /\ r.code = 0 =>
                /\ s
                /\ \/ \A i \in DOMAIN f : r.out[i] = <<t, f[i]>>
                   \/ r.op = "getmonOHLink"
                      /\ r.out = <<<<t, f[1]>>, <<t, f[4]>>, <<t, f[3]>>, <<t, f[2]>>>>
                   \/ r.op = "getmonVFATLink" /\ \A i \in DOMAIN f : r.out[i] = Marked
           /\ \A i, j \in DOMAIN f : i < j /\ r.out[j] # Old => r.out[i] # Old
      /\ r.op \in InBand \cup {"putReg"} /\ r.code \notin {1, Dead, All} =>
           s /\ r.from = t /\ (r.op = "putReg" => r.code = r.arg)

\* The keys of a function and the places of their words have the same numbers.
LEMMA FieldNumbers ==
  ASSUME NEW op \in Ops
  PROVE  /\ Len(Calls[op].keys) \in Nat
         /\ DOMAIN Calls[op].keys = 1..Len(Calls[op].keys)
         /\ DOMAIN Calls[op].fields = 1..Len(Calls[op].keys)
         /\ op # "getmonOHLink" => Calls[op].fields = Calls[op].keys
<1>1. Regular(op, Calls[op])
  BY CallsRegular
<1>2. /\ Len(Calls[op].keys) \in Nat
      /\ Calls[op].keys = [i \in 1..Len(Calls[op].keys) |-> Calls[op].keys[i]]
  BY <1>1 DEF Regular, IsTuple
<1>3. DOMAIN Calls[op].keys = 1..Len(Calls[op].keys)
  BY <1>2
<1>4. CASE op = "getmonOHLink"
  <2>1. Len(Calls[op].keys) = 4 /\ DOMAIN Calls[op].fields = 1..4
    BY <1>4, OHLinkEntry
  <2> QED
    BY <1>2, <1>3, <1>4, <2>1
<1>5. CASE op # "getmonOHLink"
  BY <1>1, <1>2, <1>3, <1>5 DEF Regular
<1> QED
  BY <1>4, <1>5

\* A call that fails leaves the arrays alone and says so.
LEMMA FailHonest ==
  ASSUME NEW t \in Threads, NEW r, NEW s, r.op \in Ops, r.from = None,
         r.code = 1 \/ (r.op = "sbitReadOut" /\ r.code = EIO), r.out = Untouched(r.op)
  PROVE  Honest(t, r, s)
<1>1. r.code # 0 /\ (r.op \in InBand \cup {"putReg"} => r.code = 1)
  BY DEF EIO, InBand
<1>2. \A i \in DOMAIN Calls[r.op].fields : r.out[i] = Old
  BY FieldNumbers DEF Untouched
<1>3. r.op = "scanGBTPhases" => 1 \in DOMAIN r.out /\ r.out[1] = Old
  <2>1. r.op = "scanGBTPhases" => Len(Calls[r.op].keys) = 2
    BY ScanEntry
  <2> QED
    BY <2>1 DEF Untouched
<1> QED
  BY <1>1, <1>2, <1>3 DEF Honest

\* A call that takes its own answer.
LEMMA AnswerHonest ==
  ASSUME NEW t \in Threads, NEW c \in Entered, NEW a \in Answers, NEW s,
         a.to = t, a.op = c.op, a.fault # "refused", a.fault # "error" => s,
         c.op # "sbitReadOut", NEW r, r.op = c.op, r.arg = c.arg, r.code = Code(c, a), r.code # Uncaught,
         r.from = (IF a.fault = "error" \/ FirstBad(c, a) <= Len(Calls[c.op].keys)
                   THEN None ELSE a.to),
         r.out = Outputs(c, a)
  PROVE  Honest(t, r, s)
<1> DEFINE e == Calls[c.op]
           n == Len(e.keys)
           b == FirstBad(c, a)
           f == e.fields
           out(i) == IF a.fault = "error" THEN Old
                     ELSE IF i < b THEN <<a.to, e.keys[i]>>
                     ELSE IF c.op = "getmonVFATLink" /\ b = 1 THEN Marked
                     ELSE Old
<1>1. c.op \in Ops /\ b \in Int
  BY ResultTypes DEF Entered
<1>2. n \in Nat /\ DOMAIN f = 1..n /\ (c.op # "getmonOHLink" => f = e.keys)
  BY <1>1, FieldNumbers
<1>3. DOMAIN r.out = 1..n /\ \A i \in 1..n : r.out[i] = out(i)
  BY DEF Outputs
<1>4. e.onError \in {1, Dead, All} /\ e.onLack \in {1, Dead, Uncaught}
  BY <1>1, CallsRegular DEF Regular
<1>5. \A x : <<t, x>> # Old
  BY RpcAssumption DEF Old
<1>6. Marked # Old
  BY DEF Marked, Old
<1>7. c.op = "scanGBTPhases" => n = 2
  <2>1. Len(Calls["scanGBTPhases"].keys) = 2
    BY ScanEntry
  <2> QED
    BY <2>1
<1> HIDE DEF b, n, e
<1>8. CASE a.fault = "error"
  <2>1. r.code = e.onError /\ r.from = None
    BY <1>8, SMT DEF Code, e
  <2>2. r.code # 0 /\ r.code \in {1, Dead, All}
    BY <1>4, <2>1, CodesDiffer
  <2>3. \A i \in 1..n : r.out[i] = Old
    BY <1>3, <1>8
  <2>4. c.op = "scanGBTPhases" => 1 \in DOMAIN r.out
    BY <1>3, <1>7
  <2> HIDE DEF out
  <2> QED
    BY <1>1, <1>2, <1>3, <2>1, <2>2, <2>3, <2>4, SMT DEF Honest, e
<1>9. CASE a.fault # "error" /\ b > n
  <2>1. /\ r.code = CASE c.op \in InBand -> a.word [] c.op = "putReg" -> c.arg [] OTHER -> 0
        /\ r.from = t
    BY <1>1, <1>2, <1>9, SMT DEF Code, b, n, e
  <2>2. s
    BY <1>9
  <2>3. \A i \in 1..n : r.out[i] = <<t, e.keys[i]>> /\ r.out[i] # Old
    BY <1>1, <1>2, <1>3, <1>5, <1>9
  <2>4. c.op = "scanGBTPhases" => r.code = 0
    BY <2>1, SMT DEF InBand
  <2>5. \/ \A i \in DOMAIN f : r.out[i] = <<t, f[i]>>
        \/ r.op = "getmonOHLink" /\ r.out = <<<<t, f[1]>>, <<t, f[4]>>, <<t, f[3]>>, <<t, f[2]>>>>
    <3>1. CASE c.op # "getmonOHLink"
      BY <1>2, <2>3, <3>1
    <3>2. CASE c.op = "getmonOHLink"
      <4>1. /\ n = 4 /\ e.keys[1] = f[1] /\ e.keys[2] = f[4] /\ e.keys[3] = f[3] /\ e.keys[4] = f[2]
        BY <3>2, OHLinkEntry DEF e, n
      <4>2. r.out[1] = <<t, f[1]>> /\ r.out[2] = <<t, f[4]>> /\ r.out[3] = <<t, f[3]>>
            /\ r.out[4] = <<t, f[2]>> /\ DOMAIN r.out = 1..4
        BY <1>3, <2>3, <4>1
      <4>3. r.out = [i \in 1..n |-> out(i)]
        BY DEF Outputs, n, b, e
      <4> HIDE DEF f, out
      <4>4. r.out = [i \in 1..4 |-> r.out[i]]
        BY <4>1, <4>3
      <4>5. r.out = <<<<t, f[1]>>, <<t, f[4]>>, <<t, f[3]>>, <<t, f[2]>>>>
        BY <4>2, <4>4
      <4> QED
        BY <3>2, <4>5
    <3> QED
      BY <3>1, <3>2
  <2> HIDE DEF out
  <2> QED
    BY <1>1, <1>2, <1>3, <2>1, <2>2, <2>3, <2>4, <2>5 DEF Honest, e, InBand
<1>10. CASE a.fault # "error" /\ b <= n
  <2>1. r.from = None
    BY <1>10 DEF b, n, e
  <2>2. \/ r.code = 0 /\ c.op = "getmonVFATLink" /\ b = 1
        \/ r.code \in {1, Dead, Uncaught} /\ ~(c.op = "getmonVFATLink" /\ b = 1 /\ a.fault = "lacks")
    BY <1>1, <1>2, <1>4, <1>10, SMT DEF Code, b, n, e
  <2>3. CASE r.code = 0 /\ c.op = "getmonVFATLink" /\ b = 1
    <3>1. \A i \in 1..n : r.out[i] = Marked
      BY <1>1, <1>2, <1>3, <1>10, <2>3
    <3>2. s
      BY <1>10
    <3> HIDE DEF out
    <3> QED
      BY <1>1, <1>2, <1>3, <1>6, <2>1, <2>3, <3>1, <3>2, SMT DEF Honest, e, InBand
  <2>4. CASE r.code \in {1, Dead}
    <3>1. r.code # 0
      BY <2>4, CodesDiffer
    <3>2. ASSUME NEW i \in 1..n, NEW j \in 1..n, i < j, r.out[j] # Old PROVE r.out[i] # Old
      <4>1. CASE j < b
        BY <1>1, <1>2, <1>3, <1>5, <1>10, <3>2, <4>1
      <4>2. CASE ~(j < b) /\ c.op = "getmonVFATLink" /\ b = 1
        BY <1>1, <1>2, <1>3, <1>6, <1>10, <3>2, <4>2
      <4> QED
        BY <1>1, <1>3, <1>10, <3>2, <4>1, <4>2
    <3>3. c.op = "scanGBTPhases" => 2 \in DOMAIN r.out /\ r.out[2] = Old
      <4> SUFFICES ASSUME c.op = "scanGBTPhases" PROVE 2 \in DOMAIN r.out /\ r.out[2] = Old
        OBVIOUS
      <4>1. n = 2 /\ 2 \in 1..n /\ ~(2 < b) /\ c.op # "getmonVFATLink"
        BY <1>1, <1>7, <1>10
      <4>2. out(2) = Old
        BY <4>1
      <4> HIDE DEF out
      <4> QED
        BY <1>3, <4>1, <4>2
    <3> HIDE DEF out
    <3> QED
      BY <1>1, <1>2, <1>3, <2>1, <2>4, <3>1, <3>2, <3>3, SMT DEF Honest, e
  <2> QED
    BY <2>2, <2>3, <2>4
<1> QED
  BY <1>1, <1>2, <1>8, <1>9, <1>10

\* A call that nobody else joined returns what is its own.
LEMMA LibraryHonest ==
  ASSUME RpcIInv, NEW t \in Threads, LibraryStep(t), last'[t] # last[t], last'[t].with = {}
  PROVE  Honest(t, last'[t], served'[t])
<1> DEFINE c == call[t]
<1>1. RpcTypes /\ last \in [Threads -> Returned \cup {NoCall}]
  BY DEF RpcIInv, RpcTypes
<1>2. ASSUME c \in Entered, NEW code, NEW out, NEW from, NEW net,
             last' = [last EXCEPT ![t] =
                        [step |-> "returned", op |-> c.op, arg |-> c.arg, code |-> code,
                         from |-> from, out |-> out, with |-> c.with, net |-> net]]
      PROVE  /\ last'[t].op = c.op /\ last'[t].arg = c.arg /\ last'[t].code = code /\ last'[t].from = from
             /\ last'[t].out = out /\ Private(t) /\ c.op \in Ops
  <2>1. /\ last'[t].op = c.op /\ last'[t].arg = c.arg /\ last'[t].code = code /\ last'[t].from = from
        /\ last'[t].out = out /\ last'[t].with = c.with
    BY <1>1, <1>2
  <2>2. c.with = {} /\ t \in Inside
    BY <1>2, <2>1 DEF Entered, Inside
  <2> QED
    BY <1>2, <2>1, <2>2 DEF RpcIInv, Entered
<1>3. ASSUME c \in Entered, NEW code, code = 1 \/ (c.op = "sbitReadOut" /\ code = EIO), Fail(t, code)
      PROVE  Honest(t, last'[t], served'[t])
  <2>1. last' = [last EXCEPT ![t] =
                   [step |-> "returned", op |-> c.op, arg |-> c.arg, code |-> code,
                    from |-> None, out |-> Untouched(c.op), with |-> c.with, net |-> c.net]]
    BY <1>3 DEF Fail, Return
  <2>2. /\ last'[t].op = c.op /\ last'[t].code = code /\ last'[t].from = None
        /\ last'[t].out = Untouched(c.op) /\ c.op \in Ops
    BY <1>2, <1>3, <2>1, Zenon
  <2> QED
    BY <1>3, <2>2, FailHonest
<1>4. CASE Refuse(t) \/ OpenFails(t) \/ NotConnected(t) \/ CallThrows(t)
  <2>1. c \in Entered
    BY <1>1, <1>4, CallCases DEF Refuse, OpenFails, NotConnected, Ready, CallThrows
  <2>2. Fail(t, 1) \/ (c.op = "sbitReadOut" /\ Fail(t, EIO))
    BY <1>4 DEF Refuse, OpenFails, NotConnected, CallThrows
  <2> QED
    BY <1>3, <2>1, <2>2
<1>5. CASE Send(t) \/ Receive(t) \/ LoadModule(t)
  BY <1>5 DEF Send, Receive, LoadModule
<1>6. CASE Collect(t)
  <2> DEFINE a == rsp[Unit[c.op]]
             from == IF a.fault = "error" \/ FirstBad(c, a) <= Len(Calls[c.op].keys)
                     THEN None ELSE a.to
  <2>1. c.step = "received" /\ c \in Entered /\ a \in Answers /\ c.op # "sbitReadOut"
    BY <1>1, <1>6, CallCases DEF Collect, RpcIInv, Kept
  <2>2. Code(c, a) # Uncaught /\ Return(t, Code(c, a), from, Outputs(c, a)) /\ UNCHANGED served
    BY <1>6 DEF Collect
  <2>3. last' = [last EXCEPT ![t] =
                   [step |-> "returned", op |-> c.op, arg |-> c.arg, code |-> Code(c, a),
                    from |-> from, out |-> Outputs(c, a), with |-> c.with, net |-> c.net]]
    BY <2>2 DEF Return
  <2>4. /\ last'[t].op = c.op /\ last'[t].arg = c.arg /\ last'[t].code = Code(c, a) /\ last'[t].from = from
        /\ last'[t].out = Outputs(c, a) /\ Private(t)
    <3> DEFINE code == Code(c, a)
               out == Outputs(c, a)
    <3>1. last' = [last EXCEPT ![t] =
                     [step |-> "returned", op |-> c.op, arg |-> c.arg, code |-> code,
                      from |-> from, out |-> out, with |-> c.with, net |-> c.net]]
      BY <2>3
    <3> HIDE DEF code, out, from
    <3>2. /\ last'[t].op = c.op /\ last'[t].arg = c.arg /\ last'[t].code = code /\ last'[t].from = from
          /\ last'[t].out = out /\ Private(t)
      BY <1>2, <2>1, <3>1, ZenonT(60)
    <3> QED
      BY <3>2 DEF code, out
  <2>5. Own(t, a) /\ a.fault # "refused"
    BY <2>1, <2>4 DEF Private
  <2>6. a.to = t /\ a.op = c.op /\ (a.fault # "error" => served'[t])
    BY <2>2, <2>5 DEF Own
  <2>7. /\ last'[t].from = (IF a.fault = "error" \/ FirstBad(c, a) <= Len(Calls[c.op].keys)
                            THEN None ELSE a.to)
        /\ last'[t].code # Uncaught
    BY <2>2, <2>4
  <2> HIDE DEF a, from, c
  <2> QED
    BY <2>1, <2>4, <2>5, <2>6, <2>7, AnswerHonest
<1>7. CASE Acquire(t)
  <2> DEFINE net == c.net + (IF rsp.amc.word = Full THEN AcquireTime ELSE rsp.amc.word)
  <2>1. c \in Entered /\ c.step = "received" /\ c.op = "sbitReadOut"
    BY <1>1, <1>7, CallCases DEF Acquire
  <2>2. \/ Fail(t, 1)
        \/ last' = [last EXCEPT ![t] =
                      [step |-> "returned", op |-> c.op, arg |-> c.arg, code |-> 0,
                       from |-> rsp.amc.to, out |-> <<>>, with |-> c.with, net |-> net]]
    BY <1>7 DEF Acquire
  <2>3. CASE Fail(t, 1)
    BY <1>3, <2>1, <2>3
  <2>4. CASE ~Fail(t, 1)
    <3>1. last'[t].op = c.op /\ last'[t].from = rsp.amc.to /\ Private(t)
      <4> DEFINE from == rsp.amc.to
      <4>1. last' = [last EXCEPT ![t] =
                      [step |-> "returned", op |-> c.op, arg |-> c.arg, code |-> 0,
                       from |-> from, out |-> <<>>, with |-> c.with, net |-> net]]
        BY <2>2, <2>4
      <4> HIDE DEF from, net
      <4>2. last'[t].op = c.op /\ last'[t].from = from /\ Private(t)
        BY <1>2, <2>1, <4>1, ZenonT(60)
      <4> QED
        BY <4>2 DEF from
    <3>2. Own(t, rsp["amc"])
      BY <2>1, <3>1, Names DEF Private
    <3>3. last'[t].from = t
      BY <3>1, <3>2 DEF Own
    <3>4. last'[t].op = "sbitReadOut"
      BY <2>1, <3>1
    <3> QED
      BY <3>3, <3>4 DEF Honest, InBand
  <2> QED
    BY <2>3, <2>4
<1>8. CASE LoadFails(t) \/ InitReturns(t)
  <2>1. PICK code : Result(t, "init", code)
    BY <1>8 DEF LoadFails, InitReturns
  <2>2. last'[t].op = "init" /\ last'[t].from = None
    BY <1>1, <2>1 DEF Result
  <2> QED
    BY <2>2, Names DEF Honest, InBand
<1> QED
  BY <1>4, <1>5, <1>6, <1>7, <1>8 DEF LibraryStep
====
