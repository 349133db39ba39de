# A verification project for xhal

xhal is the hardware access library of the CMS GEM read-out: programs on a
back-end card (CTP7) and on control PCs read and write the card's registers.
This directory holds TLA+ models of the parts of it that carry state, the TLC
configurations that check them and TLAPS proofs about them. `PROJECT.json` lists
components, runs, mutants, the source lines of every definition, findings,
hazards and theorems.

## 1. Inventory

| Component | Source | State | Operations | Hard part |
|---|---|---|---|---|
| memhub | `xcompile/memhub/memhub.cpp` | POSIX semaphore `/memhub` shared by all processes; per process the flag `busy` | `memhub_open/close/read/write`, signal handler `die` | processes and signals interleave between any two statements; a dying process must give the permit back |
| libmemsvc | `xcompile/lib_rw_ctp7/libmemsvc.c` | handle (magic, descriptor, error text), linked list of ranges with lazy mappings, SIGBUS handler | `memsvc_open/close/read/write` | partial failures, 32-bit bounds, list relinking, bridge lost between check and access |
| librwreg | `xcompile/lib_rw_ctp7/rwreg.cc` | one static handle | `getReg`, `putReg` | recovery after a failed open or access |
| IPbus packets | `xcompile/ipbus/Client.cpp`, `Client.h` | request and response deques, the registers | one method per transaction type | data taken for headers after an error |
| IPbus server | `xcompile/ipbus/ipbus.cpp`, `Client::run_io` | vector of clients, input and output buffer of each | select loop, accept, purge, `run_io` | TCP splits and joins; slow and dead clients; limits |
| XHALInterface | `xhalcore/src/common/XHALInterface.cpp` | RPC connection, current node | `init`, `loadModule`, `readReg`, `writeReg` | masked write is a read and a write over RPC |
| XML parser | `xhalcore/src/common/utils/XHALXMLParser.cpp` | map from names to nodes | `parseXML`, `makeTree`, `getNode` | generated nodes, name clashes, numbers |
| RPC manager | `xhalcore/src/common/rpc_manager/*.cc` | one static RPC connection; a static request and response per source file | `init`, `deinit`, about 60 functions of one remote call each, `sbitReadOut` | errors inside answers, array sizes, values that stand for failures, threads that share the messages |
| GBT tools | `python/reg_interface_gem/core/gbt_utils_extended.py` | position in two nested loops, results, output file | `configGBT`, `setPhase*`, `gbtPhaseScan` | a failure in the middle; results of calls that are not looked at |
| daq_suite | `python/daq_suite/daq_suite/views.py`, `helper_main.py` | global lists, a lock, `monitoringOFF`, a queue per request | one view per page | requests in threads, two of them without the lock; lists used after it |

How they interact: the IPbus server calls `memhub_*` for each transaction and
`memhub` calls `memsvc_*` inside its critical section. The command line tools
call `getReg`/`putReg`, which call `memsvc_*` directly. XHALInterface and the RPC
manager talk to a remote procedure service on the card; XHALInterface finds
addresses and masks in the table the XML parser made. The Python tools and the web
pages call the RPC manager through ctypes, which releases the interpreter lock
during a call.

The correctness properties by component: memhub gives the bus to one process at
a time and the permit survives what `die` handles; libmemsvc never touches
memory it did not map, never loses a range and leaks nothing; librwreg returns a
value only if the bus gave it and recovers; the packet processor executes what
the packet says and always ends; the server keeps the clients' streams apart,
in order and going; the address table says of every register what the document
says; a masked write leaves the other fields alone; a function of the RPC manager
that reports success delivers its own answer; a page shows what was fetched for it,
and every request is answered; a GBT tool that reports success has written everything.

## 2. Modules

| Module | Models | Correspondence |
|---|---|---|
| `Memhub` | `memhub.cpp` and the copy loops it protects | `pc[p]` is the next statement of process p; `SemWait`, `SetBusy`, `ReadWord`/`WriteWord`, `AccessReturn`, `SemPost`, `ClearBusy` are the lines of `memhub_read`/`memhub_write`; `DieGetValue`, `DiePost`, `DieExit` those of `die` |
| `Memsvc` | `libmemsvc.c` | one action per function; `memsvc_read/write` are a begin step (validation, `find_range`, `range_check`), one step per word and an end, since the bridge may fail in between |
| `RwReg` | `rwreg.cc` | extends `Memsvc` and composes its actions: a call of `getReg`/`putReg` is open, access, copy, finish |
| `IPbusPacket` | packet processing in `Client.cpp` | the deques are sequences of words; one action per transaction method, several where the method makes several memhub calls |
| `IPbusServer` | `ipbus.cpp` and `run_io` | `Select`, `Purge`, `Accept` are the parts of the loop; one `RunIO` is one call of `run_io` |
| `RegisterBus` | what memhub promises, an abstract specification | a register owned by one process for the length of a transaction; Memhub instantiates it with `owner` = `Holders`, the processes that hold the permit, `intact` = nothing was exposed, `seen` = the word a call got |
| `XMLParser` | `XHALXMLParser.cpp` | each call of the recursive `makeTree` is a frame on an explicit stack; one step runs one call up to the calls it makes |
| `XHALInterface` | `XHALInterface.cpp` | extends `XMLParser`; a call of `readReg`/`writeReg` is its lookup and one or two remote calls, which fail before or after they took effect |
| `RpcManager` | `rpc_manager/*.cc` | one table of what each function takes from its answer and returns; `Prepare`, `Send`, `Receive`, `Collect` are the steps of a call, `Acquire` a round of `sbitReadOut` |
| `GbtUtils` | `gbt_utils_extended.py` | extends `RpcManager`; a tool is one loop over its targets |
| `DaqSuite` | `views.py`, `helper_main.py` | extends `GbtUtils` and `RpcManager` and runs scripts, tools and web requests over the library, a thread each |
| `MemhubProofs`, `MemsvcProofs`, `RwRegProofs`, `IPbusPacketProofs`, `IPbusServerProofs`, `XHALProofs` | theorems about `Memhub`, `Memsvc`, `RwReg`, `IPbusPacket`, `IPbusServer`, and `XHALInterface` with `XMLParser` | |
| `RpcProofs`, `DaqSuiteProofs` | lemmas about a call of the library, and the theorems about `RpcManager`, `GbtUtils` and `DaqSuite` | |
| `MC*` | the instances for TLC | |

Definitions called *Mutant* in a comment belong to no specification. Each is a
plausible bug; with it in place of the definition it follows, TLC refutes the
property `PROJECT.json` pairs it with.

What is abstracted: words of Memhub are opaque values; Memsvc leaves out the
words altogether and reduces a configuration line to the range it names or to
"cannot be read"; error texts are reduced to whether one was stored; a reply in
IPbusServer is a number of words. IPbusPacket keeps the header fields with their
widths and the arithmetic modulo the word size (2^30 instead of 2^32, because
TLC's integers are 32-bit signed: the header fields need bits 0 to 29). Streams
in IPbusServer are made of words, not bytes: a recv that ends inside a word is
dispatched by the same test as one that ends at its border, and is not told
apart from it.

In IPbusPacket the registers may be behind the Chip2Chip bridge (`BusFaults`), which goes
down and comes back at any moment: every memhub call then succeeds or fails, before or
under its copy loop. A failing read returns -1 (`libmemsvc.c:371-375`, `426-428`). A failing
write has stored some of its words; it returns -1 from the check of the bridge, and a SIGBUS
in its copy loop, for which `memsvc_write` has no landing point, returns -1 from a stale frame
or kills the process (`"dead"`), as in Memsvc and Memhub. The history `fate` records how
far each finished transaction came: the words the bus carried before a call failed, or
`All`. One write of another process may come at any moment of a packet;
its registers and values are a constant. In XMLParser a name is a sequence of
components, a mask the set of its bits, an attribute a base and a number. A binary
numeral reads as 0 when `StoiTakes0b` is FALSE, which is what older C libraries do with
`std::stoi("0b...", nullptr, 2)`; documents have no binary numeral of 32 digits or more, for which
other C libraries throw `std::out_of_range` through `parseXML` and `init` (`WellFormed`). In RpcManager a word of an answer is named by the
thread whose request it answers and by its key, each function has a few
representative keys for the arrays and loops of the code, and an answer has at most
one fault, because the functions leave at the first bad key. What `req` and `rsp` hold
between calls is forgotten, since it is assigned before it is read. In DaqSuite the
worker thread a view starts and joins is the request itself. `rw_reg`, from which the
views take `readReg` and `writeReg`, is not in the repository: one `getReg` or `putReg`,
where a word 0xdeaddead may become a text or an exception. In Memsvc the length of a
mapping does not wrap: in 32 bits it would, to 0, only for a range of all pages from 0 on.

Undefined behaviour is a choice: a SIGBUS in `memsvc_write` with a stale jump
buffer either returns -1 or kills the process; `pop_front` on an empty deque
ends the processor ("undefined"); FD_SET of descriptor -1 goes unnoticed or ends the
server; `strcat` onto a string literal goes unnoticed or ends the program; a shift by
32 gives any word; two threads that use one file's messages at once go on or end the
process.

## 3. Runs

| Run | Question | Bounds | Result |
|---|---|---|---|
| `memhub` | do the processes exclude each other, and does `die` repair what it can? | 2 processes, 2 values, blocks of 2 words, 2 handled signals, 1 SIGKILL, bus errors anywhere | holds, 717,968 states |
| `memhub_undo` | is the semaphore always back after handled signals? | 1 signal, no kill, no bus error | violated |
| `memsvc` | list, resources, bounds; are values real, does a reader recover? | a program that calls libmemsvc itself or one that calls `getReg` and `putReg`; 6 ranges in 4 configuration files (overlapping, readonly, at 0, off page, inverted, garbled line), 9 addresses, blocks of 0, 1, 2, 15 words in a 64-byte address space | holds, 784,512 states |
| `memsvc_error` | does every failure leave a message? | one good file, 1-word blocks | violated |
| `rwreg_put` | does a writer recover? | one good file, three addresses | violated |
| `ipbus_packet` | does the processor do what packets say, whatever others write? | all pairs of 49 good transactions, triples with bad ones, 7 packet headers, any memhub call fails, one write of another process | holds, 148,534 states |
| `ipbus_packet_cfg` | are configuration writes ignored? | a configuration write between a write and a read, no bus failures | violated |
| `ipbus_server` | streams, clients, replies | 2 connections, 2 and 1 frames of 1 and 2 words, recv up to 3 words, 2 words of kernel buffer, 2 clients before a purge, accept may fail | holds, 327,243 states |
| `ipbus_frame` | is a dispatched frame a frame? | same | violated |
| `xhal` | is the table right, are fields kept apart? | 324 documents of 4 elements on 3 levels and one of 7 fields and registers; 2 programs with 2 calls each, 5 overlapping fields of a 4-bit register, 64 addresses | holds, 169,609 states |
| `daq_suite` | are answers, pages and tools honest, does everything end? | every function once by a script; 9 jobs of the tools; 7 pairs of requests; one fault; 17 masks; lists of 3 tables, pages of 2 registers | holds, 142,098 states |
| `daq_sensors` | is a right answer of the sensors accepted? | same | violated |

Why the bounds are enough. Two processes suffice for every pairwise
interleaving in `memhub`, and the theorems of section 5 remove the bound; two
signals are needed for the re-entry of `die`, the kill for a holder that
vanishes. In `memsvc` a block of 15 words wraps around the address space, three
overlapping ranges are the least in which relinking the middle of the list
differs from swapping; two of the files can be read, so that a handle may have been opened
with a file since replaced. The two kinds of program do not meet in one process: the handle of
`rwreg.cc` is static. In `ipbus_server` a second frame from one client is
needed for joined frames and unfinished replies, a second client for fairness
between clients and for the purge; a kernel buffer smaller than the output gives
partial and failing sends. In `ipbus_packet` the transactions have up to two words, so that
each kind fails before, between and after words, with and without data left, and the
packets are long enough for one to follow; `RepliesSafe` removes the bound. In `xhal` two generated levels with one or two variables
are the least in which shadowing, late substitution and name clashes occur, and an
address near the end wraps around; two programs suffice for every lost update between
the two calls of a masked write, and `FieldsSafe` removes the bound. In `daq_suite` the
pairs are those in which requests can disturb each other: two that fill the lists, a
page without the lock beside one with it, a writer beside a reader, one that hangs
beside one that needs the lock. A script makes one call, because nothing is carried
from one call to the next but the connection, and that breaks, is closed and is opened
anywhere. The masks are all subsets of links 0, 4, 5 and 9, and all links: both halves of
a byte, alone and together, and the second byte.

Deadlock is checked in `memsvc`. It is not in `memhub` (a permit lost
at an exposed point stops everybody, which is what `exposed` records), in
`ipbus_packet` (a packet has an end), in `ipbus_server` (the server may end and
clients may have nothing left to say), in `xhal` and in `daq_suite` (programs, requests
and tools come to an end).

Fairness. `memhub`: weak fairness of each process's own steps: the operating
system schedules runnable processes; starting, calling, closing, signals and bus
errors are not fair, and no strong fairness is assumed of `sem_wait`, so a given
waiter may starve and only progress of *some* waiter is claimed. `memsvc`: a call
of `getReg` or `putReg` that has begun runs on, and nothing is assumed of libmemsvc alone; the premise that the environment settles is part of the
property. `ipbus_packet`: the loop runs. `ipbus_server`: the single-threaded loop
runs, and a client reads what the kernel holds for it. `xhal` has safety properties only and
assumes no fairness. `daq_suite`: every thread runs (the operating system and
the interpreter schedule them), and the service answers or the connection breaks;
scripts are not made to call, and faults need not happen.

### What the properties exclude, and why

`PermitConserved`, `ReadUntorn`, `WriteEffective` and `RegisterGuarded` hold until
`exposed`: a fatal signal hit between `sem_wait` and `busy = true`, between
`sem_post` and `busy = false`, in `die` after its post, or a SIGKILL or unhandled
SIGBUS hit a holder. Those are exactly the places where the code cannot know
better; the run `memhub_undo` shows the first. `FramesInOrder` and `ReplyArrives`
are claimed while each recv returned exactly one frame (`ragged` records when
not) because the framing test is inverted; `RepliesIntact` until a send failed
(`cut`), since a failed send erases the output. `RepliesMatch` is claimed of
packets without configuration writes, as long as no non-incrementing write failed before
its last word (`Astray`: its data is then parsed as headers, `Client.cpp:291`); for all others
`WritesNamed` and `PacketEnds` still hold. All other failures are in it: each transaction is
answered by what its last memhub call returned, and the next one is executed. A process the
bus killed has not answered; the registers are those of the transactions up to there.
A write of another process that comes between two words of a non-incrementing read of its
register, or between the two halves of a read-modify-write of it, is excluded.
If the second half fails that write stays and `RepliesMatch` holds again; if it succeeds the
write is lost (`torn` = `"lost"`), and `TornWriteLost` says that this is all: every transaction
is answered as if that write had not been.

`FieldsKept` excludes the bits of `lost`: those another program wrote between the read
and the write of a masked `writeReg`, which puts the old ones back. `ReadsBack` excludes
fields with such bits and fields that were also written under another name.
`OutputsHonest` and `InBandHonest` are about calls during which no other thread was in the
library, `OwnAnswers` about calls beside which no page without the lock ran: the code
gives no protection there, and TLC shows the exchanged answers as soon as the exclusion
is dropped. `RequestAnswered` excludes the one request whose own update could not be
parsed, `CallReturns` an `sbitReadOut` that is told of a live time of 0. `RowsAligned` says
that values move up from the first register that could not be read on and not before,
`ScanRecorded` that a failed scan, and no other, leaves zeros, `OutputsHonest` that the
counters of `getmonOHLink` are the only exchanged ones, and `ReplyArrives` admits that the
server ends: these are what the code does, and the properties say how far it reaches.

## 4. Findings

1. `memhub.cpp:51`: a signal before `busy = true` loses the permit (`memhub_undo`).
2. `libmemsvc.c:428`: a bus error returns -1 without a message (`memsvc_error`).
3. `rwreg.cc:64`: `putReg` keeps an invalid handle for ever (`rwreg_put`).
4. `Client.cpp:400`: a configuration write pops the response (`ipbus_packet_cfg`).
5. `Client.cpp:65`: the framing test accepts incomplete frames (`ipbus_frame`).
6. `utils.cc:179`: `count_1bits` does not add up the halves of a byte, and `readSCAADCSensor`
   refuses right answers for masks with links 4 to 7 (`daq_sensors`; `SensorsSafe` shows that
   it does for exactly these).

Seen and modelled, but said wrong by no document: the copy loops never advance
the address (`libmemsvc.c:432`, `471`); the last word of a range can be found but
not accessed (`libmemsvc.c:70` and `366`); a failed block write answers
`BUSERR_READ` (`Client.cpp:242`); the byte-swapped header test never matches a
control packet (`Client.cpp:114`); a client that is only writable ends the server
(`Client.cpp:55`); `init` never loads the module `sca` that four functions of `sca.cc` call;
`getmonOHLink` exchanges two counters (`daq_monitor.cc:266`); `getReg` returns 1 or
0xdeaddead for a failure, in the place of a value (`InBandHonest`); a missing key ends the
process in `getOHVFATMask`, `repeatedRegRead`, `getVFAT3ChipIDs` and `sbitReadOut`; a page whose
update cannot be parsed hangs (`views.py:244`); values move up a row behind a register
that could not be read (`views.py:135`); a failed phase scan is stored as zeros
(`gbt_utils_extended.py:63`).

Seen, and outside the models: the bindings pass two of the three arguments of
`getmonTRIGGERmain`, `getmonTRIGGEROHmain`, `getmonDAQOHmain` and `getmonOHmain`, so that `ohMask`
is whatever the register holds (`reg_extra_ops.py:30`; the model's keys stand for the
optohybrids it selects); a dacStep of 0 divides by zero (`calibration_routines.cc:270`);
an NGBT above 3 writes past an array (`daq_monitor.cc:217`); masks are formatted with 10
digits for 12 optohybrids (`helper_main.py:73`); the error threshold of a node overwrites
its warning threshold (`XHALXMLParser.cpp:208`); `T1Off` and `T1On` do not look at the effect
of their last toggle (`vfat_config.py:143`).

## 5. Proofs

`MemhubProofs` proves, for every set of processes, every non-empty set of values,
every block length and every number of signals (`MemhubAssumption` is all that is
assumed):

- `TypeCorrect`: `Spec => []TypeOK`;
- `PermitSafe`: `Spec => []PermitConserved`;
- `ReadSafe`, `WriteSafe`: `Spec => []ReadUntorn`, `Spec => []WriteEffective`;
- `GuardSafe`: `Spec => RegisterGuarded`;
- `BusRefined`: `Spec => BusTransactions`, that is, Memhub implements `RegisterBus`.

The argument is one inductive invariant `IInv`, the conjunction of `TypeOK`,
`PermitConserved` and three strengthenings. `BusyAgrees` ties `busy` to the program
point: `die` decides by `busy`, so conservation is not inductive without it.
`AccessAgrees` says what the process on the bus knows of the register: all words
read so far equal it, the last word written is in it; `ReadUntorn` and
`WriteEffective` follow, and other processes cannot disturb it because of
`PermitConserved`. `CallFresh` says a call starts with nothing left of the one
before. `InitInductive` and `NextInductive` have one step per action; the theorems
follow by PTL. The refinement uses the same invariant: every step of Memhub is, under
the mapping, a step of `RegisterBus` or leaves its variables alone; `PermitConserved` makes
the owner unique, `CallFresh` gives `Acquire` its premise that nothing is left of an
earlier transaction, and an exposed step is `Damage`.

`MemsvcProofs` proves, for every set of ranges, configuration files, addresses and
block lengths and every page size that is a multiple of four (`MemsvcAssumption`):

- `TypeCorrect`: `Spec => []TypeOK`;
- `RangesSafe`: `Spec => []RangesKept`;
- `ResourcesSafe`: `Spec => []ResourcesOwned`;
- `AccessSafe`: `Spec => []AccessInside`.

The inductive invariant is again called `IInv`: `TypeOK`, `RangesKept`,
`ResourcesOwned` and two strengthenings. `AccessInside` is not inductive: a copy loop
only keeps its range and address, so `JobCovered` records what the begin step
established (the range is mapped, the address is aligned and `find_range` found it
in the range) and `MapsAligned` that a range is mapped only if it starts on a page.
From these, `WordInside` shows that the four bytes of an aligned address up to the
last byte of the range lie inside the mapping, which is rounded up to whole pages
(`PageIsWords`, `MapLenRounds`): the check of the block's end, which may wrap
around, is not needed. `MoveToFrontKeeps` is the lemma about relinking the list.

`RwRegProofs` proves `LibraryUsed`: `RwSpec => Spec`, that is, whatever getReg and putReg do is
a behaviour of libmemsvc, so that its theorems hold here too (`RwAccessSafe`:
`RwSpec => []AccessInside`), and `ValueSafe`: `RwSpec => ValueFromBus`. The inductive
invariant `RwIInv` adds to that of Memsvc where a call is in the library
(`CallInLibrary`): after a successful access there is a mapping that backs it. The proof
corrected the property: the range need not cover all four bytes of the word when the end
of the block wraps around 32 bits (`range_check`, `libmemsvc.c:366`); the mapping always
does. Assumed besides `MemsvcAssumption`: the functions ask for one word (`1 \in Counts`).

`IPbusPacketProofs` proves, for any memory range, registers, packets, failures of memhub calls
and writes of another process (`PacketAssumption`: the fields of a transaction have the widths of `IPBusTxnHdr`,
and what others write they may write):

- `WordsInductive`: `Spec => []WordsIInv`;
- `NamedSafe`: `Spec => WritesNamed`;
- `ParseInductive`: `Spec => []ParseIInv`;
- `RepliesSafe`, `TornSafe`: `Spec => []RepliesMatch`, `Spec => []TornWriteLost`.

`WordsIInv` says that the deque holds words of the packet only, that a loop over words
has an address from one of them and finds its data on the deque. That it holds at the
start needs what the recursive function in `Encode` computes. The library's induction
theorems cannot be used for this (section "Only model-checked"), but a well-founded order
has minimal elements, which is a fact without an operator parameter: `Least` says that a
set of numbers has a least one, and `BehindExists` and `EncodeWords` look at the
least number of transactions for which they would fail. `StatesDef` and `StatesAgree`
do the same for the reference run (`RefStates`).

`ParseIInv` is the invariant behind the other two. As long as no failed write put the
processor astray, at every step there are an `i` and a `k`
such that exactly the first `i` transactions are done and at most the next one is under way
(`Reached`: `Between`, `Begun`, `Looping`, `Looped`, `Modifying`). The deque holds what is left of that transaction
and then exactly the words of the later ones (`Behind(Txns)[i + 1]`); registers and response
are those of the reference after `i` transactions that came as far as `fate` says (`Stage(i, k)`),
each of which may have come so far (`Fated`, `Fates`), or on the way to those of the next one; and the write of the other process is counted after transaction `k`, which is
`Len(Txns) + 1` while there is none and for a lost one. `OtherStep` chooses `k` when that write comes:
right behind the transactions done (a loop of writes under way overwrites it; a loop of reads that has ended read before it but
counts as done), or nowhere if a read-modify-write of its register is under way. When the
second half of that one, or the last word of a loop of writes, fails, `FinishOther` counts the write right after it; the reference is the same up to there (`StatesAgree`). Each action has a lemma (`BlockStep`, `NiReadStep`, `RmwWriteStep`, ...) which
shows that it does what `RefTxn` says, stated case by case in the `Meaning` lemmas and, for how far it may come, in the `Fates` lemmas.
`DecodeSerialize` is the arithmetic of the header. The invariant says nothing once another
process wrote into a non-incrementing read, which `RepliesMatch` excludes.

`IPbusServerProofs` proves, for any connections, frames, limits and sizes of replies and
buffers (`ServerAssumption`):

- `TypeCorrect`, `ClientsSafe`: `Spec => []TypeOK`, `Spec => []ClientsAreConnections`;
- `FramesSafe`, `RepliesSafe`: `Spec => []FramesInOrder`, `Spec => []RepliesIntact`.

`IInv` adds `LoopPhases` (there is room for the client that accept may add) and `Arriving`:
as long as each recv returned one frame, what is still to be received is made of the
frames not yet dispatched, one behind the other. `Consecutive` says that with the offsets
at which the frames begin, so that taking one frame off the front or sending one more at
the end changes one offset and no recursive definition is needed.

`XHALProofs` proves, for every set of documents, every number of programs, registers,
names and values and any word width:

- `FieldsSafe`: `Spec => []FieldsKept`;
- `TypeCorrect`: `Spec => []TypeOK`;
- `ReadsSafe`: `Spec => ReadsBack`;
- `TableSafe`: `Spec => []TableMatches`.

No assumption about the masks is needed; documents are trees whose elements exist and come
after their parents, as a document is written (`DocsAssumption`), and addresses are words
(`InterfaceAssumption`). `FieldsKept` is not
inductive: a masked write stores what it read earlier. `IInv` adds `CurrentKnown`: between
its two calls a program knows every bit outside its mask but those in `since` (written by
others meanwhile) and in `lost`; and `Shape`, that the variables are functions on programs
and registers. `Store`, the only step that changes a register, is a lemma of its own.
For `ReadsBack`, `ReadsIInv` ties what was last written to a name to the bits of `field`
(`LastKnown`), and a call to the node the parser made for its name (`Named`), which is
never taken back or changed.

`TableMatches` compares a walk with a stack to `Instances`, which says nothing of a stack.
`TableIInv` ties the two: each frame has a ghost, the way from the root to its parent and
the copies it stands for (`Fits`: its name, variables and base address are those of the
way), and with it a region, the instances that begin that way (`Region`). The regions of
the stack, in its order, come one before the other in document order, behind the instances
already stored, and no instance is left out (`Ordered`); the table is `TableMatches` for
the instances stored (`Stored`). One call of makeTree replaces the first region by those of
its copies (`CopiesReplace`), or by one instance and the regions of its children
(`NodeInstance`, `ChildrenReplace`), and `OrderedNext` puts them in its place. The ghosts
are not variables: `TableIInv` says that they exist. That `Address` wraps at every level and
`RefAddress` only once is `ModAdd` and `ModBytes`; the sum along a way is a recursive
function, and what it computes is found by the least place where it would go wrong
(`SumExists`, `SumsAgree`).

`DaqSuiteProofs` proves, for any threads, pairings of requests, jobs, tables, registers and
faults (`RpcAssumption`, `GbtAssumption`, `SuiteAssumption`):

- of the library: `OutputsSafe`, `InBandSafe`, `InitSafe`, `AcquireSafe`, `SensorsSafe`:
  `Spec => []OutputsHonest`, `[]InBandHonest`, `[]InitComplete`, `[]AcquireBounded`,
  `[]SensorsByMask`;
- of the tools: `WrittenSafe`, `ScanSafe`: `Spec => []GbtWritten`, `[]ScanRecorded`;
- of the web pages: `OwnSafe`, `FreshSafe`, `RowsSafe`: `Spec => []OwnAnswers`,
  `[]FreshPage`, `[]RowsAligned`;
- `SuiteInductive`, `TypeCorrect`: `Spec => []SuiteIInv`, `Spec => []TypeOK`.

`RpcIInv` is the invariant of the library: every call knows who is in the library with
it (`Joined`), there is one answer on its way for every call that waits (`Wired`), and a
call nobody joined has `req`, the connection and `rsp` to itself (`Private`). `SuiteIInv`
adds where each thread is (`Placed`): who works behind the lock holds it, so a request
that takes the lock meets in the library only requests that do not (`Company`), which is
`OwnAnswers`. `ReturnIInv` carries what an undisturbed call found in its own answer over
to what it returns, function by function of the table. `TimeIInv` and `ConnectIInv` need
that only scripts acquire and only scripts and tools connect. `SensorIInv` needs that only
scripts read sensors: a script is alone, so the answer it finds in `rsp` is the one to its
own mask. What `count_1bits` returns is then computed from the 12 bits of the mask, pair by
pair, and compared with the number of its links. In `PageIInv`, `Filled`
says that a list a main page has filled holds what was fetched since it began,
although others fill the same list: who fills it after that asked after that. `RowIInv` numbers the
values read: without a gap up to the first register that could not be read
(`Numbered`). In `ToolIInv` a tool is alone, so its calls are undisturbed and a code of 0
means the card served them.

What is assumed of the constants is what the code gives: the threads are finitely many,
no answer has a live time above the time asked for (this is the service's part), a mask
has a bit for each of the 12 optohybrids, scripts
and tools run alone in their process, there is a list on the main page, a phase
scan has one phase range.

Only model-checked: `BusProgress`, `GetRegRecovers`, `PacketEnds`, `ReplyArrives`,
`RequestAnswered`, `CallReturns` (liveness under fairness is out of the
prover's reach). Every invariant and every action property of a passing run is the
statement of a theorem. The library's induction theorems take an operator as a parameter,
which the installed provers cannot instantiate; where a proof needs induction over data
(`Encode`, the sums of `TableMatches`) it takes the least counterexample instead, from the
well-foundedness of the numbers.

## 6. Not modelled

The access list of the IPbus server is compiled out. Socket set-up and
daemonising run once. The race of two first `sem_open` calls is left to the kernel.
`process_status_packet` is empty and is part of `Frame`. Of the address table the models
keep what register access uses: names, addresses and masks; descriptions,
permissions, thresholds, parents and children are read by nothing in the repository,
and `getNodeFromAddress` has no implementation. The request of a masked `writeReg`
has no `count` (`XHALInterface.cpp:190`); the service, which is external, is modelled as
accepting both forms. The VFAT helpers and
the register prompt print single reads and writes made through `reg_utils`, which is
another repository; their loops and read-modify-writes follow patterns the other
models cover. The layout and the colours of the web pages are left out.

Almost all lines of the repository (about 330,000 of 335,000) are vendored: Xerces-C,
lmdb and log4cplus, kept to be cross-compiled for the card. Nothing of them is logic
of this system, so the share of the repository the models cover stays small; of the
system's own code, the parts that keep state or interact are modelled; what is left
is named above and in the components of `PROJECT.json`.

## 7. Plan

Done: all modules of section 2, the refinement of `RegisterBus`, and a proof of every safety
property the passing runs check. Left to TLC, and out of the prover's reach, are the
liveness properties and what they need of fairness.
