-------------------------------- MODULE Memsvc --------------------------------
(***************************************************************************)
(* libmemsvc (xcompile/lib_rw_ctp7/libmemsvc.c): the library through which  *)
(* one process reaches the memory bus.  memsvc_open gets a descriptor of    *)
(* the memory device from the memory service and reads the address ranges   *)
(* from the configuration file; memsvc_read and memsvc_write find the range *)
(* of an address, map it on first use, check the bounds and the Chip2Chip   *)
(* bridge, and copy the words.                                             *)
(*                                                                         *)
(* The library is sequential.  What changes under its feet is the           *)
(* environment: the service, the configuration file, the memory left for    *)
(* mmap, and the bridge, which may go down between the check and the copy.  *)
(* The contents of the words do not matter here and are left out.           *)
(***************************************************************************)
EXTENDS Integers, Sequences

CONSTANTS
  Ranges,     \* identities of the ranges a configuration file can name
  Start, End, \* first and last byte of each range, as configured
  ReadOnly,   \* the ranges marked readonly
  Bridged,    \* the ranges with a c2c_reg, behind the Chip2Chip bridge
  Configs,    \* possible configuration files: sequences of lines
  Addrs,      \* the addresses callers ask for
  Counts,     \* the numbers of words callers ask for
  AddrMod,    \* the number of uint32_t addresses: 2^32, scaled down for TLC
  PageSize    \* getpagesize()

\* A line that is not a comment names a range (by its identity) or is
\* something the parser cannot read.
Garbled == "garbled"

ASSUME MemsvcAssumption ==
  /\ AddrMod \in Nat \ {0}
  /\ PageSize \in Nat \ {0}
  /\ PageSize % 4 = 0
  /\ Garbled \notin Ranges
  /\ Start \in [Ranges -> 0..(AddrMod - 1)]
  /\ End \in [Ranges -> 0..(AddrMod - 1)]
  /\ Configs \subseteq Seq(Ranges \cup {Garbled})
  /\ \A c \in Configs : \A i, j \in DOMAIN c : c[i] = c[j] => i = j
  /\ Addrs \subseteq 0..(AddrMod - 1)
  /\ Counts \subseteq Nat

VARIABLES
  handle,    \* "null", "valid" or "invalid" (the magic number)
  memfd,     \* the descriptor of the memory device is open
  first,     \* the linked list first_range, as a sequence of ranges
  map,       \* the ranges whose field map is set
  c2cmap,    \* the ranges whose field c2creg_map is set
  job,       \* the memsvc_read or memsvc_write in its copy loop, or Idle
  ret,       \* what the last call returned: "ok", "fail", "none" if none yet
  told,      \* the last call stored an error message in last_error
  sigbus,    \* the SIGBUS handler is installed
  service,   \* environment: the memory service hands out descriptors
  config,    \* environment: the configuration file
  memory,    \* environment: mmap finds room
  bridge,    \* environment: the Chip2Chip bridge is up
  osfds,     \* kernel: open descriptors of the process
  osmaps,    \* kernel: live mappings, <<range, kind>>
  opened     \* history: the configuration file the handle was opened with

handleVars == <<handle, memfd, first, map, c2cmap, opened>>
envVars == <<service, config, memory, bridge>>
kernelVars == <<osfds, osmaps>>
vars == <<handle, memfd, first, map, c2cmap, job, ret, told, sigbus,
          service, config, memory, bridge, osfds, osmaps, opened>>

Idle == [op |-> "idle"]
Dead == [op |-> "dead"]
Jobs == [op : {"read", "write"}, range : Ranges, addr : Addrs, left : Nat]

Init ==
  /\ handle = "null"
  /\ memfd = FALSE
  /\ first = <<>>
  /\ map = {}
  /\ c2cmap = {}
  /\ job = Idle
  /\ ret = "none"
  /\ told = FALSE
  /\ sigbus = FALSE
  /\ service \in BOOLEAN
  /\ config \in Configs
  /\ memory \in BOOLEAN
  /\ bridge \in BOOLEAN
  /\ osfds = 0
  /\ osmaps = {}
  /\ opened = <<>>

\* Return with 0, or with -1 and possibly a message.
Return(r, message) == ret' = r /\ told' = message

-----------------------------------------------------------------------------
(* The configuration file *)

\* What the parser accepts, comments aside: ranges with start < end.
LineOk(line) == line \in Ranges /\ Start[line] < End[line]

ConfigOk(c) == \A i \in DOMAIN c : LineOk(c[i])

\* Each line that is read is put in front of the list.
RangeList(c) == [i \in 1..Len(c) |-> c[Len(c) + 1 - i]]

-----------------------------------------------------------------------------
(* memsvc_open and memsvc_close *)

\* memsvc_open: a handle comes back either way.  Whatever fails after the
\* descriptor arrived (a missing or bad configuration file), memsvc_invalidate
\* closes it and frees the ranges; the socket is closed on every path.
Open ==
  /\ job = Idle
  /\ handle = "null"
  /\ \/ /\ service
        /\ ConfigOk(config)
        /\ handle' = "valid"
        /\ memfd' = TRUE
        /\ first' = RangeList(config)
        /\ opened' = config
        /\ osfds' = osfds + 1
        /\ Return("ok", FALSE)
     \/ /\ ~service \/ ~ConfigOk(config)
        /\ handle' = "invalid"
        /\ memfd' = FALSE
        /\ first' = <<>>
        /\ opened' = <<>>
        /\ UNCHANGED osfds
        /\ Return("fail", TRUE)
  /\ map' = {}
  /\ c2cmap' = {}
  /\ UNCHANGED <<job, sigbus, envVars, osmaps>>

\* The mappings free_ranges takes back: those of the ranges on the list.
Unmapped ==
  {m \in osmaps : \E i \in DOMAIN first :
     \/ m = <<first[i], "map">> /\ first[i] \in map
     \/ m = <<first[i], "c2c">> /\ first[i] \in c2cmap}

\* Mutant: free_ranges forgets the mappings of the status registers.
CloseKeepsStatusMaps ==
  /\ job = Idle
  /\ handle # "null"
  /\ handle' = "null"
  /\ memfd' = FALSE
  /\ osfds' = IF memfd THEN osfds - 1 ELSE osfds
  /\ osmaps' = {m \in osmaps : m[2] = "c2c"}
  /\ first' = <<>>
  /\ opened' = <<>>
  /\ map' = {}
  /\ c2cmap' = {}
  /\ Return("ok", FALSE)
  /\ UNCHANGED <<job, sigbus, envVars>>

\* Mutant: memsvc_invalidate closes the descriptor without looking at it.
CloseAnyDescriptor ==
  /\ job = Idle
  /\ handle # "null"
  /\ handle' = "null"
  /\ memfd' = FALSE
  /\ osfds' = osfds - 1
  /\ osmaps' = osmaps \ Unmapped
  /\ first' = <<>>
  /\ opened' = <<>>
  /\ map' = {}
  /\ c2cmap' = {}
  /\ Return("ok", FALSE)
  /\ UNCHANGED <<job, sigbus, envVars>>

\* memsvc_close: memsvc_invalidate, free_ranges, free.
Close ==
  /\ job = Idle
  /\ handle # "null"
  /\ handle' = "null"
  /\ memfd' = FALSE
  /\ osfds' = IF memfd THEN osfds - 1 ELSE osfds
  /\ osmaps' = osmaps \ Unmapped
  /\ first' = <<>>
  /\ opened' = <<>>
  /\ map' = {}
  /\ c2cmap' = {}
  /\ Return("ok", FALSE)
  /\ UNCHANGED <<job, sigbus, envVars>>

-----------------------------------------------------------------------------
(* find_range *)

Covers(r, addr, writeable) ==
  /\ Start[r] <= addr
  /\ addr <= End[r]
  /\ ~writeable \/ r \notin ReadOnly

Hits(addr, writeable) ==
  {i \in DOMAIN first : addr % 4 = 0 /\ Covers(first[i], addr, writeable)}

\* The position of the first range on the list that covers the address, if any.
FirstHit(addr, writeable) ==
  {i \in Hits(addr, writeable) : \A j \in Hits(addr, writeable) : i <= j}

\* Mutant: the parent is not relinked to the child's tail.
MoveToFrontDropping(list, i) ==
  [j \in 1..Len(list) |-> IF j = 1 THEN list[i] ELSE list[j - 1]]

MoveToFront(list, i) ==
  [j \in 1..Len(list) |->
     IF j = 1 THEN list[i] ELSE IF j <= i THEN list[j - 1] ELSE list[j]]

\* Mutant: the mapping ends with the configured range, whatever the page size.
MapLenUnrounded(r) == End[r] - Start[r]

\* The length that is mapped: the range, rounded up to whole pages.  In 32 bits this
\* could wrap to 0, which mmap refuses, only for a range of all pages from 0 on; one
\* that starts off a page mmap refuses at any length.
MapLen(r) ==
  LET len == End[r] - Start[r] + 1
  IN  IF len % PageSize # 0 THEN len + PageSize - (len % PageSize) ELSE len

\* mmap succeeds at page boundaries and while there is memory.
MapOutcomes(offset) ==
  IF offset % PageSize # 0 THEN {FALSE} ELSE IF memory THEN {TRUE} ELSE BOOLEAN

\* Relink the range at position i and, if told to, map it and its status page;
\* when the first mmap fails the second is not tried.
FindRange(i, activate) ==
  LET r == first[i] IN
  /\ first' = MoveToFront(first, i)
  /\ \E m \in MapOutcomes(Start[r]), c \in MapOutcomes(0) :
       LET mapped == r \in map \/ (activate /\ m)
           status == r \in c2cmap \/ (activate /\ mapped /\ c)
       IN  /\ map' = IF mapped THEN map \cup {r} ELSE map
           /\ c2cmap' = IF status THEN c2cmap \cup {r} ELSE c2cmap
  /\ osmaps' = osmaps \cup {<<s, "map">> : s \in map' \ map}
                      \cup {<<s, "c2c">> : s \in c2cmap' \ c2cmap}

-----------------------------------------------------------------------------
(* memsvc_read and memsvc_write *)

\* range_check: the end of the block is computed in 32 bits and compared with
\* the last byte of the range.
InRange(r, addr, words) ==
  Start[r] <= addr /\ (addr + 4 * words) % AddrMod <= End[r]

BridgeOk(r) == r \in Bridged => bridge

\* What stops a call after find_range gave it the range r, in the order of the
\* tests: a mapping is missing, the block leaves the range, the bridge is down.
Refused(r, addr, words) ==
  \/ r \notin map'
  \/ r \notin c2cmap'
  \/ ~InRange(r, addr, words)
  \/ ~BridgeOk(r)

Fail(message) ==
  /\ Return("fail", message)
  /\ UNCHANGED job

\* memsvc_read up to its copy loop.  A range that starts at 0 is refused without
\* a message.
ReadBegin(addr, words) ==
  /\ job = Idle
  /\ handle # "null"
  /\ \/ /\ handle = "invalid" \/ Hits(addr, FALSE) = {}
        /\ Fail(TRUE)
        /\ UNCHANGED <<first, map, c2cmap, sigbus, osmaps>>
     \/ /\ handle = "valid"
        /\ \E i \in FirstHit(addr, FALSE) :
             LET r == first[i] IN
             /\ FindRange(i, TRUE)
             /\ \/ /\ Refused(r, addr, words)
                   /\ Fail(TRUE)
                   /\ UNCHANGED sigbus
                \/ /\ ~Refused(r, addr, words)
                   /\ Start[r] = 0
                   /\ Fail(FALSE)
                   /\ UNCHANGED sigbus
                \/ /\ ~Refused(r, addr, words)
                   /\ Start[r] # 0
                   /\ job' = [op |-> "read", range |-> r, addr |-> addr, left |-> words]
                   /\ sigbus' = TRUE
                   /\ UNCHANGED <<ret, told>>
  /\ UNCHANGED <<handle, memfd, opened, envVars, osfds>>

\* memsvc_write up to its copy loop.  An address only a readonly range covers is
\* refused, but the range is moved to the front all the same.
WriteBegin(addr, words) ==
  /\ job = Idle
  /\ handle # "null"
  /\ \/ /\ handle = "invalid" \/ Hits(addr, FALSE) = {}
        /\ Fail(TRUE)
        /\ UNCHANGED <<first, map, c2cmap, osmaps>>
     \/ /\ handle = "valid"
        /\ Hits(addr, TRUE) = {}
        /\ \E i \in FirstHit(addr, FALSE) : FindRange(i, FALSE)
        /\ Fail(TRUE)
     \/ /\ handle = "valid"
        /\ \E i \in FirstHit(addr, TRUE) :
             LET r == first[i] IN
             /\ FindRange(i, TRUE)
             /\ \/ /\ Refused(r, addr, words)
                   /\ Fail(TRUE)
                \/ /\ ~Refused(r, addr, words)
                   /\ job' = [op |-> "write", range |-> r, addr |-> addr, left |-> words]
                   /\ UNCHANGED <<ret, told>>
  /\ UNCHANGED <<handle, memfd, opened, sigbus, envVars, osfds>>

\* One turn of a copy loop while the bus answers.
CopyWord ==
  /\ job.op \in {"read", "write"}
  /\ job.left > 0
  /\ BridgeOk(job.range)
  /\ job' = [job EXCEPT !.left = @ - 1]
  /\ UNCHANGED <<handleVars, ret, told, sigbus, envVars, kernelVars>>

CopyDone ==
  /\ job.op \in {"read", "write"}
  /\ job.left = 0
  /\ job' = Idle
  /\ Return("ok", FALSE)
  /\ UNCHANGED <<handleVars, sigbus, envVars, kernelVars>>

\* The kernel takes everything back from a process that died.
ProcessDies ==
  /\ handle' = "null"
  /\ memfd' = FALSE
  /\ first' = <<>>
  /\ opened' = <<>>
  /\ map' = {}
  /\ c2cmap' = {}
  /\ job' = Dead
  /\ ret' = "none"
  /\ told' = FALSE
  /\ sigbus' = FALSE
  /\ osfds' = 0
  /\ osmaps' = {}

\* The bridge went down after the check: SIGBUS.  memsvc_read jumps to its
\* sigsetjmp and returns -1, with no message.  memsvc_write has no landing point:
\* without a handler the process dies; with the handler of an earlier read it
\* jumps into a frame that is gone, and returns -1 or crashes.
BusError ==
  /\ job.op \in {"read", "write"}
  /\ job.left > 0
  /\ ~BridgeOk(job.range)
  /\ \/ /\ job.op = "read" \/ sigbus
        /\ job' = Idle
        /\ Return("fail", FALSE)
        /\ UNCHANGED <<handleVars, sigbus, kernelVars>>
     \/ /\ job.op = "write"
        /\ ProcessDies
  /\ UNCHANGED envVars

-----------------------------------------------------------------------------
(* The environment *)

\* A new process takes the place of one that died.
Restart ==
  /\ job = Dead
  /\ job' = Idle
  /\ UNCHANGED <<handleVars, ret, told, sigbus, envVars, kernelVars>>

Environment ==
  /\ \/ service' = ~service /\ UNCHANGED <<config, memory, bridge>>
     \/ config' \in Configs \ {config} /\ UNCHANGED <<service, memory, bridge>>
     \/ memory' = ~memory /\ UNCHANGED <<service, config, bridge>>
     \/ bridge' = ~bridge /\ UNCHANGED <<service, config, memory>>
  /\ UNCHANGED <<handleVars, job, ret, told, sigbus, kernelVars>>

Next ==
  \/ Open \/ Close
  \/ \E addr \in Addrs, words \in Counts :
       ReadBegin(addr, words) \/ WriteBegin(addr, words)
  \/ CopyWord \/ CopyDone \/ BusError
  \/ Restart \/ Environment

Spec == Init /\ [][Next]_vars

-----------------------------------------------------------------------------
(* Properties *)

Kinds == {"map", "c2c"}

TypeOK ==
  /\ handle \in {"null", "valid", "invalid"}
  /\ memfd \in BOOLEAN
  /\ first \in Seq(Ranges)
  /\ map \in SUBSET Ranges
  /\ c2cmap \in SUBSET Ranges
  /\ job \in Jobs \cup {Idle, Dead}
  /\ ret \in {"none", "ok", "fail"}
  /\ told \in BOOLEAN
  /\ sigbus \in BOOLEAN
  /\ service \in BOOLEAN
  /\ config \in Configs
  /\ memory \in BOOLEAN
  /\ bridge \in BOOLEAN
  /\ osfds \in Nat
  /\ osmaps \in SUBSET (Ranges \X Kinds)
  /\ opened \in Configs \cup {<<>>}

Elements(list) == {list[i] : i \in DOMAIN list}

\* However often find_range relinks the list, a valid handle has exactly the
\* ranges of the configuration file it was opened with, each once.
RangesKept ==
  /\ Len(first) = Len(opened)
  /\ Elements(first) = Elements(opened)
  /\ \A i, j \in DOMAIN first : first[i] = first[j] => i = j
  /\ handle # "valid" => first = <<>>

\* The descriptor and the mappings the kernel holds for the process are those
\* the handle will give back: a failed memsvc_open, a failed mmap, a refused call
\* or a bus error leaks nothing.
ResourcesOwned ==
  /\ osfds = IF memfd THEN 1 ELSE 0
  /\ memfd <=> handle = "valid"
  /\ osmaps = {<<r, "map">> : r \in map} \cup {<<r, "c2c">> : r \in c2cmap}
  /\ c2cmap \subseteq map
  /\ map \subseteq Elements(first)

\* Every bus access of a copy loop lies inside a live mapping of the memory
\* device, even when the end of the block wrapped around 32 bits and range_check
\* let it pass; and a write never goes through a readonly range.
AccessInside ==
  job.op \in {"read", "write"} /\ job.left > 0 =>
    /\ <<job.range, "map">> \in osmaps
    /\ Start[job.range] <= job.addr
    /\ job.addr + 3 < Start[job.range] + MapLen(job.range)
    /\ job.op = "write" => job.range \notin ReadOnly

\* A range is mapped only if it starts on a page.
MapsAligned == \A r \in map : Start[r] % PageSize = 0

\* The call in its copy loop got an aligned address and a mapped range that
\* covers it, writable for a write.
JobCovered ==
  job.op \in {"read", "write"} =>
    /\ job.range \in map
    /\ job.addr % 4 = 0
    /\ Covers(job.range, job.addr, job.op = "write")

\* The inductive invariant behind the safety properties.
IInv == TypeOK /\ RangesKept /\ ResourcesOwned /\ MapsAligned /\ JobCovered

\* What libmemsvc.h says of memsvc_read and memsvc_write: "On error, the error
\* message will be available via memsvc_get_last_error()".
ErrorReported == ret = "fail" => told
=============================================================================
