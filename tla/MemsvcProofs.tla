---------------------------- MODULE MemsvcProofs ------------------------------
(***************************************************************************)
(* Proofs about Memsvc, for every set of ranges, configuration files,       *)
(* addresses and block lengths and every page size that is a multiple of    *)
(* four.                                                                    *)
(***************************************************************************)
EXTENDS Memsvc, TLAPS

-----------------------------------------------------------------------------
(* Page arithmetic *)

\* Division with remainder.
LEMMA Division ==
  ASSUME NEW n \in Nat, NEW p \in Nat \ {0}
  PROVE  /\ n \div p \in Nat
         /\ n % p \in 0..(p - 1)
         /\ n = p * (n \div p) + (n % p)
  OBVIOUS

\* A multiple leaves no remainder.
LEMMA MultipleRemainder ==
  ASSUME NEW k \in Nat, NEW p \in Nat \ {0}
  PROVE  (p * k) % p = 0
  OBVIOUS

\* A multiple of a multiple of four is a multiple of four: what starts on a page
\* starts on a word.
LEMMA PageIsWords ==
  ASSUME NEW n \in Nat, NEW p \in Nat \ {0}, p % 4 = 0, n % p = 0
  PROVE  n % 4 = 0
<1>1. n = p * (n \div p) /\ n \div p \in Nat
  BY Division
<1>2. p = 4 * (p \div 4) /\ p \div 4 \in Nat
  BY Division
<1>3. \A a, b \in Nat : (4 * a) * b = 4 * (a * b) /\ a * b \in Nat
  OBVIOUS
<1>4. n = 4 * ((p \div 4) * (n \div p)) /\ (p \div 4) * (n \div p) \in Nat
  BY <1>1, <1>2, <1>3
<1> QED
  BY <1>4, MultipleRemainder

\* The mapped length is the length of the range rounded up to whole pages.
LEMMA MapLenRounds ==
  ASSUME NEW r \in Ranges, Start[r] <= End[r]
  PROVE  /\ MapLen(r) \in Nat
         /\ MapLen(r) >= End[r] - Start[r] + 1
         /\ MapLen(r) % PageSize = 0
<1> DEFINE len == End[r] - Start[r] + 1
           q == len \div PageSize
<1>1. Start[r] \in Nat /\ End[r] \in Nat /\ PageSize \in Nat \ {0}
  BY MemsvcAssumption
<1>2. len \in Nat
  BY <1>1
<1>3. MapLen(r) = IF len % PageSize # 0 THEN len + PageSize - (len % PageSize) ELSE len
  BY DEF MapLen
<1> HIDE DEF len
<1>4. /\ q \in Nat
      /\ len % PageSize \in 0..(PageSize - 1)
      /\ len = PageSize * q + (len % PageSize)
  BY <1>1, <1>2, Division
<1> HIDE DEF q
<1>5. CASE len % PageSize = 0
  BY <1>2, <1>3, <1>5 DEF len
<1>6. CASE len % PageSize # 0
  <2>1. PageSize * (q + 1) = PageSize * q + PageSize
    BY <1>1, <1>4
  <2>2. MapLen(r) = PageSize * (q + 1)
    BY <1>1, <1>2, <1>3, <1>4, <1>6, <2>1
  <2>3. MapLen(r) \in Nat /\ MapLen(r) >= len
    BY <1>1, <1>2, <1>3, <1>4, <1>6
  <2>4. q + 1 \in Nat
    BY <1>4
  <2>5. (PageSize * (q + 1)) % PageSize = 0
    BY <1>1, <2>4, MultipleRemainder, Zenon
  <2> QED
    BY <2>2, <2>3, <2>5 DEF len
<1> QED
  BY <1>5, <1>6

\* Every aligned word whose first byte is in a range that starts on a page lies
\* completely inside the mapping.
LEMMA WordInside ==
  ASSUME NEW r \in Ranges, NEW addr \in Nat, addr % 4 = 0,
         Start[r] <= addr, addr <= End[r], Start[r] % PageSize = 0
  PROVE  addr + 3 < Start[r] + MapLen(r)
<1>1. /\ Start[r] \in Nat /\ End[r] \in Nat
      /\ PageSize \in Nat \ {0} /\ PageSize % 4 = 0
  BY MemsvcAssumption
<1>2. /\ MapLen(r) \in Nat
      /\ MapLen(r) >= End[r] - Start[r] + 1
      /\ MapLen(r) % PageSize = 0
  BY <1>1, MapLenRounds
<1>3. Start[r] % 4 = 0 /\ MapLen(r) % 4 = 0
  BY <1>1, <1>2, PageIsWords
<1>4. MapLen(r) + Start[r] >= addr + 1
  BY <1>1, <1>2
<1> QED
  BY <1>1, <1>2, <1>3, <1>4

-----------------------------------------------------------------------------
(* The range list *)

\* Relinking keeps the list's length, its ranges, and each of them once.
LEMMA MoveToFrontKeeps ==
  ASSUME NEW list \in Seq(Ranges), NEW i \in DOMAIN list
  PROVE  /\ MoveToFront(list, i) \in Seq(Ranges)
         /\ Len(MoveToFront(list, i)) = Len(list)
         /\ Elements(MoveToFront(list, i)) = Elements(list)
         /\ (\A j, k \in DOMAIN list : list[j] = list[k] => j = k)
            => \A j, k \in DOMAIN MoveToFront(list, i) :
                 MoveToFront(list, i)[j] = MoveToFront(list, i)[k] => j = k
<1> DEFINE moved == MoveToFront(list, i)
<1>1. /\ Len(list) \in Nat
      /\ DOMAIN list = 1..Len(list)
      /\ \A j \in 1..Len(list) : list[j] \in Ranges
      /\ i \in 1..Len(list)
  OBVIOUS
<1>2. moved = [j \in 1..Len(list) |->
                 IF j = 1 THEN list[i] ELSE IF j <= i THEN list[j - 1] ELSE list[j]]
  BY DEF MoveToFront
<1> HIDE DEF moved
<1>3. \A j \in 1..Len(list) : moved[j] \in Ranges
  BY <1>1, <1>2
<1>4. moved \in Seq(Ranges) /\ Len(moved) = Len(list) /\ DOMAIN moved = 1..Len(list)
  BY <1>1, <1>2, <1>3
<1>5. Elements(moved) \subseteq Elements(list)
  BY <1>1, <1>2, <1>4 DEF Elements
<1>6. ASSUME NEW j \in 1..Len(list)
      PROVE  \E k \in 1..Len(list) : moved[k] = list[j]
  <2>1. CASE j < i
    <3>1. j + 1 \in 1..Len(list) /\ moved[j + 1] = list[j]
      BY <1>1, <1>2, <2>1
    <3> QED
      BY <3>1
  <2>2. CASE j = i
    <3>1. 1 \in 1..Len(list) /\ moved[1] = list[j]
      BY <1>1, <1>2, <2>2
    <3> QED
      BY <3>1
  <2>3. CASE j > i
    <3>1. moved[j] = list[j]
      BY <1>1, <1>2, <2>3
    <3> QED
      BY <3>1
  <2> QED
    BY <1>1, <2>1, <2>2, <2>3
<1>7. Elements(list) \subseteq Elements(moved)
  BY <1>1, <1>4, <1>6 DEF Elements
<1>8. ASSUME \A j, k \in 1..Len(list) : list[j] = list[k] => j = k
      PROVE  \A j, k \in 1..Len(list) : moved[j] = moved[k] => j = k
  <2> DEFINE from(j) == IF j = 1 THEN i ELSE IF j <= i THEN j - 1 ELSE j
  <2>1. \A j \in 1..Len(list) : from(j) \in 1..Len(list) /\ moved[j] = list[from(j)]
    BY <1>1, <1>2
  <2>2. \A j, k \in 1..Len(list) : from(j) = from(k) => j = k
    BY <1>1
  <2> HIDE DEF from
  <2> QED
    BY <1>8, <2>1, <2>2
<1> QED
  BY <1>1, <1>4, <1>5, <1>7, <1>8 DEF moved

\* The list memsvc_open makes holds the ranges of the file, each once.
LEMMA RangeListKeeps ==
  ASSUME NEW c \in Configs, ConfigOk(c)
  PROVE  /\ RangeList(c) \in Seq(Ranges)
         /\ Len(RangeList(c)) = Len(c)
         /\ Elements(RangeList(c)) = Elements(c)
         /\ \A i, j \in DOMAIN RangeList(c) : RangeList(c)[i] = RangeList(c)[j] => i = j
<1>1. /\ c \in Seq(Ranges \cup {Garbled})
      /\ \A i, j \in DOMAIN c : c[i] = c[j] => i = j
  BY MemsvcAssumption
<1>2. Len(c) \in Nat /\ DOMAIN c = 1..Len(c)
  BY <1>1
<1>3. \A i \in 1..Len(c) : c[i] \in Ranges
  BY <1>2 DEF ConfigOk, LineOk
<1> DEFINE list == RangeList(c)
<1>4. list = [i \in 1..Len(c) |-> c[Len(c) + 1 - i]]
  BY DEF RangeList
<1> HIDE DEF list
<1>5. \A i \in 1..Len(c) : Len(c) + 1 - i \in 1..Len(c)
  BY <1>2
<1>6. list \in Seq(Ranges) /\ Len(list) = Len(c) /\ DOMAIN list = 1..Len(c)
  BY <1>2, <1>3, <1>4, <1>5
<1>7. Elements(list) \subseteq Elements(c)
  BY <1>2, <1>4, <1>5, <1>6 DEF Elements
<1>8. \A i \in 1..Len(c) : list[Len(c) + 1 - i] = c[i]
  BY <1>2, <1>4, <1>5
<1>9. Elements(c) \subseteq Elements(list)
  BY <1>2, <1>5, <1>6, <1>8 DEF Elements
<1>10. \A i, j \in 1..Len(c) : list[i] = list[j] => i = j
  BY <1>1, <1>2, <1>4, <1>5
<1> QED
  BY <1>6, <1>7, <1>9, <1>10 DEF list

-----------------------------------------------------------------------------
(* find_range *)

\* find_range keeps the list, and what it maps it records: the range at the
\* position it was given, only if that starts on a page.
LEMMA FindRangeKeeps ==
  ASSUME TypeOK, RangesKept, ResourcesOwned, MapsAligned,
         NEW i \in DOMAIN first, NEW activate \in BOOLEAN,
         FindRange(i, activate),
         UNCHANGED <<handle, memfd, opened, osfds>>
  PROVE  /\ first' \in Seq(Ranges)
         /\ map' \in SUBSET Ranges
         /\ c2cmap' \in SUBSET Ranges
         /\ osmaps' \in SUBSET (Ranges \X Kinds)
         /\ RangesKept'
         /\ ResourcesOwned'
         /\ MapsAligned'
<1> DEFINE r == first[i]
<1>1. /\ r \in Ranges
      /\ r \in Elements(first)
      /\ first # <<>>
  BY DEF TypeOK, Elements
<1>2. first' = MoveToFront(first, i)
  BY DEF FindRange
<1>3. /\ first' \in Seq(Ranges)
      /\ Len(first') = Len(first)
      /\ Elements(first') = Elements(first)
      /\ \A j, k \in DOMAIN first' : first'[j] = first'[k] => j = k
  BY <1>2, MoveToFrontKeeps DEF TypeOK, RangesKept
<1>4. RangesKept'
  <2>1. handle' = "valid"
    BY <1>1 DEF RangesKept
  <2>2. Elements(first') = Elements(opened')
    BY <1>3 DEF RangesKept
  <2>3. Len(first') = Len(opened')
    BY <1>3 DEF RangesKept
  <2>4. Elements(first)' = Elements(first') /\ Elements(opened)' = Elements(opened')
    BY DEF Elements
  <2> QED
    BY <1>3, <2>1, <2>2, <2>3, <2>4 DEF RangesKept
<1>5. /\ map' \in {map, map \cup {r}}
      /\ c2cmap' \in {c2cmap, c2cmap \cup {r}}
      /\ r \notin map /\ r \in map' => Start[r] % PageSize = 0
      /\ r \in c2cmap' => r \in map'
  BY DEF FindRange, MapOutcomes, ResourcesOwned
<1>6. osmaps' = osmaps \cup {<<s, "map">> : s \in map' \ map}
                       \cup {<<s, "c2c">> : s \in c2cmap' \ c2cmap}
  BY DEF FindRange
<1> HIDE DEF r
<1>7. map' \in SUBSET Ranges /\ c2cmap' \in SUBSET Ranges
  BY <1>1, <1>5 DEF TypeOK
<1>8. MapsAligned'
  BY <1>5 DEF MapsAligned
<1>9. map \subseteq map' /\ c2cmap \subseteq c2cmap' /\ c2cmap' \subseteq map'
  BY <1>5 DEF ResourcesOwned
<1>10. osmaps' = {<<s, "map">> : s \in map'} \cup {<<s, "c2c">> : s \in c2cmap'}
  BY <1>6, <1>9 DEF ResourcesOwned
<1>11. osmaps' \in SUBSET (Ranges \X Kinds)
  BY <1>7, <1>10 DEF Kinds
<1>12. map' \subseteq Elements(first')
  BY <1>1, <1>3, <1>5 DEF ResourcesOwned
<1>13. Elements(first)' = Elements(first')
  BY DEF Elements
<1>14. ResourcesOwned'
  BY <1>9, <1>10, <1>12, <1>13 DEF ResourcesOwned
<1> QED
  BY <1>3, <1>4, <1>7, <1>8, <1>11, <1>14

-----------------------------------------------------------------------------
(* The inductive invariant *)

\* The empty list is a list of ranges.
LEMMA EmptyList == <<>> \in Seq(Ranges)
  OBVIOUS

\* The initial state satisfies the inductive invariant.
LEMMA InitInductive == Init => IInv
<1> SUFFICES ASSUME Init
             PROVE  IInv
  OBVIOUS
<1>1. TypeOK
  BY EmptyList DEF Init, TypeOK
<1>2. RangesKept /\ ResourcesOwned /\ MapsAligned
  BY DEF Init, RangesKept, ResourcesOwned, MapsAligned, Elements
<1>3. JobCovered
  BY DEF Init, JobCovered, Idle
<1> QED
  BY <1>1, <1>2, <1>3 DEF IInv

\* A handle without ranges owns nothing.
LEMMA NoHandleOwnsNothing ==
  ASSUME TypeOK, RangesKept, ResourcesOwned, handle # "valid"
  PROVE  /\ map = {} /\ c2cmap = {} /\ osmaps = {}
         /\ memfd = FALSE /\ osfds = 0
         /\ first = <<>>
<1>1. first = <<>>
  BY DEF RangesKept
<1>2. Elements(first) = {}
  BY <1>1 DEF Elements
<1>3. map = {} /\ c2cmap = {}
  BY <1>2 DEF ResourcesOwned
<1>4. osmaps = {}
  BY <1>3 DEF ResourcesOwned
<1>5. memfd = FALSE /\ osfds = 0
  BY DEF ResourcesOwned, TypeOK
<1> QED
  BY <1>1, <1>3, <1>4, <1>5

\* A state with no handle, or an invalid one, and nothing open is consistent.
LEMMA NothingOpen ==
  ASSUME handle' \in {"null", "invalid"}, memfd' = FALSE, osfds' = 0,
         first' = <<>>, opened' = <<>>, map' = {}, c2cmap' = {}, osmaps' = {}
  PROVE  RangesKept' /\ ResourcesOwned' /\ MapsAligned'
<1>1. Elements(first)' = {} /\ Elements(opened)' = {}
  BY DEF Elements
<1> QED
  BY <1>1 DEF RangesKept, ResourcesOwned, MapsAligned

\* memsvc_open keeps the invariant, whether it succeeds or fails.
LEMMA OpenInductive == IInv /\ Open => IInv'
<1> SUFFICES ASSUME IInv, Open
             PROVE  IInv'
  OBVIOUS
<1> USE DEF IInv
<1>1. /\ map = {} /\ c2cmap = {} /\ osmaps = {}
      /\ memfd = FALSE /\ osfds = 0
      /\ first = <<>>
  BY NoHandleOwnsNothing DEF Open
<1>2. JobCovered'
  BY DEF Open, JobCovered, Idle
<1>3. CASE handle' = "valid"
  <2>1. /\ ConfigOk(config)
        /\ config \in Configs
        /\ memfd' = TRUE /\ osfds' = 1
        /\ first' = RangeList(config)
        /\ opened' = config
        /\ map' = {} /\ c2cmap' = {} /\ osmaps' = {}
    BY <1>1, <1>3 DEF Open, TypeOK
  <2>2. /\ first' \in Seq(Ranges)
        /\ Len(first') = Len(opened')
        /\ Elements(first') = Elements(opened')
        /\ \A i, j \in DOMAIN first' : first'[i] = first'[j] => i = j
    BY <2>1, RangeListKeeps
  <2>3. Elements(first)' = Elements(first') /\ Elements(opened)' = Elements(opened')
    BY DEF Elements
  <2>4. RangesKept'
    BY <1>3, <2>2, <2>3 DEF RangesKept
  <2>5. ResourcesOwned' /\ MapsAligned'
    BY <1>3, <2>1 DEF ResourcesOwned, MapsAligned
  <2>6. TypeOK'
    BY <1>3, <2>1, <2>2 DEF TypeOK, Open, Return, envVars
  <2> QED
    BY <1>2, <2>4, <2>5, <2>6
<1>4. CASE handle' # "valid"
  <2>1. /\ handle' = "invalid"
        /\ memfd' = FALSE /\ osfds' = 0
        /\ first' = <<>> /\ opened' = <<>>
        /\ map' = {} /\ c2cmap' = {} /\ osmaps' = {}
    BY <1>1, <1>4 DEF Open
  <2>2. RangesKept' /\ ResourcesOwned' /\ MapsAligned'
    BY <2>1, NothingOpen
  <2>3. TypeOK'
    BY <1>4, <2>1, EmptyList DEF TypeOK, Open, Return, envVars
  <2> QED
    BY <1>2, <2>2, <2>3
<1> QED
  BY <1>3, <1>4

\* memsvc_close gives everything back and keeps the invariant.
LEMMA CloseInductive == IInv /\ Close => IInv'
<1> SUFFICES ASSUME IInv, Close
             PROVE  IInv'
  OBVIOUS
<1> USE DEF IInv
<1>1. osmaps \subseteq Unmapped
  BY DEF ResourcesOwned, Unmapped, Elements
<1>2. osfds' = 0
  BY DEF Close, ResourcesOwned
<1>3. /\ handle' = "null"
      /\ memfd' = FALSE
      /\ first' = <<>> /\ opened' = <<>>
      /\ map' = {} /\ c2cmap' = {} /\ osmaps' = {}
  BY <1>1 DEF Close
<1>4. RangesKept' /\ ResourcesOwned' /\ MapsAligned'
  BY <1>2, <1>3, NothingOpen
<1>5. TypeOK'
  <2>1. /\ job' = job /\ sigbus' = sigbus
        /\ ret' = "ok" /\ told' = FALSE
        /\ service' = service /\ config' = config /\ memory' = memory /\ bridge' = bridge
    BY DEF Close, Return, envVars
  <2> QED
    BY <1>2, <1>3, <2>1, EmptyList DEF TypeOK
<1>6. JobCovered'
  BY DEF Close, JobCovered, Idle
<1> QED
  BY <1>4, <1>5, <1>6

\* A step that leaves the handle and the kernel's books alone, and whose call is
\* over or goes on in the same range, keeps the invariant.
LEMMA HandleUntouched ==
  ASSUME IInv, UNCHANGED <<handleVars, kernelVars>>,
         \/ job' \in {Idle, Dead}
         \/ /\ job \in Jobs
            /\ \E n \in Nat : job' = [job EXCEPT !.left = n],
         ret' \in {"none", "ok", "fail"}, told' \in BOOLEAN, sigbus' \in BOOLEAN,
         service' \in BOOLEAN, config' \in Configs, memory' \in BOOLEAN, bridge' \in BOOLEAN
  PROVE  IInv'
<1> USE DEF IInv, handleVars, kernelVars
<1>1. RangesKept'
  BY DEF RangesKept, Elements
<1>2. ResourcesOwned'
  BY DEF ResourcesOwned, Elements
<1>3. MapsAligned'
  BY DEF MapsAligned
<1>4. JobCovered' /\ job' \in Jobs \cup {Idle, Dead}
  <2>1. CASE job' \in {Idle, Dead}
    BY <2>1 DEF JobCovered, Idle, Dead
  <2>2. CASE job \in Jobs /\ \E n \in Nat : job' = [job EXCEPT !.left = n]
    <3>1. /\ job' \in Jobs
          /\ job'.op = job.op /\ job'.range = job.range /\ job'.addr = job.addr
      BY <2>2 DEF Jobs
    <3>2. JobCovered'
      BY <3>1 DEF JobCovered, Covers
    <3> QED
      BY <3>1, <3>2
  <2> QED
    BY <2>1, <2>2
<1>5. TypeOK'
  BY <1>4 DEF TypeOK
<1> QED
  BY <1>1, <1>2, <1>3, <1>4, <1>5

\* The entry of a read or a write into its copy loop keeps the invariant: the
\* call is refused, or the range it goes to is mapped and covers the address.
LEMMA BeginInductive ==
  ASSUME IInv, job = Idle,
         NEW addr \in Addrs, NEW words \in Counts,
         NEW write \in BOOLEAN, NEW i \in FirstHit(addr, write),
         NEW activate \in BOOLEAN, FindRange(i, activate),
         \/ job' = job
         \/ /\ ~Refused(first[i], addr, words)
            /\ job' = [op |-> IF write THEN "write" ELSE "read", range |-> first[i],
                       addr |-> addr, left |-> words],
         ret' \in {"none", "ok", "fail"}, told' \in BOOLEAN, sigbus' \in BOOLEAN,
         UNCHANGED <<handle, memfd, opened, envVars, osfds>>
  PROVE  IInv'
<1> USE DEF IInv
<1>1. /\ i \in DOMAIN first
      /\ addr % 4 = 0
      /\ Covers(first[i], addr, write)
  BY DEF FirstHit, Hits
<1>2. /\ first' \in Seq(Ranges)
      /\ map' \in SUBSET Ranges
      /\ c2cmap' \in SUBSET Ranges
      /\ osmaps' \in SUBSET (Ranges \X Kinds)
      /\ RangesKept' /\ ResourcesOwned' /\ MapsAligned'
  BY <1>1, FindRangeKeeps
<1>3. first[i] \in Ranges
  BY <1>1 DEF TypeOK
<1>4. CASE job' = job
  <2>1. JobCovered'
    BY <1>4 DEF JobCovered, Idle
  <2>2. TypeOK'
    BY <1>2, <1>4 DEF TypeOK, envVars
  <2> QED
    BY <1>2, <2>1, <2>2
<1>5. CASE /\ ~Refused(first[i], addr, words)
           /\ job' = [op |-> IF write THEN "write" ELSE "read", range |-> first[i],
                      addr |-> addr, left |-> words]
  <2>1. /\ job'.range = first[i] /\ job'.addr = addr
        /\ (job'.op = "write") = write
    BY <1>5
  <2>2. job'.range \in map'
    BY <1>5, <2>1 DEF Refused
  <2>3. JobCovered'
    BY <1>1, <2>1, <2>2 DEF JobCovered, Covers
  <2>4. job' \in Jobs
    BY <1>3, <1>5, MemsvcAssumption DEF Jobs
  <2>5. TypeOK'
    BY <1>2, <2>4 DEF TypeOK, envVars
  <2> QED
    BY <1>2, <2>3, <2>5
<1> QED
  BY <1>4, <1>5

\* memsvc_read keeps the invariant up to its copy loop.
LEMMA ReadBeginInductive ==
  ASSUME IInv, NEW addr \in Addrs, NEW words \in Counts, ReadBegin(addr, words)
  PROVE  IInv'
<1>1. CASE /\ Fail(TRUE)
           /\ UNCHANGED <<first, map, c2cmap, sigbus, osmaps>>
  <2>1. /\ UNCHANGED <<handleVars, kernelVars, envVars, sigbus>>
        /\ job' = Idle /\ ret' = "fail" /\ told' = TRUE
    BY <1>1 DEF ReadBegin, Fail, Return, handleVars, kernelVars
  <2>2. /\ sigbus' \in BOOLEAN
        /\ service' \in BOOLEAN /\ config' \in Configs
        /\ memory' \in BOOLEAN /\ bridge' \in BOOLEAN
    BY <2>1 DEF IInv, TypeOK, envVars
  <2> QED
    BY <2>1, <2>2, HandleUntouched
<1>2. ASSUME NEW i \in FirstHit(addr, FALSE), FindRange(i, TRUE),
             \/ Refused(first[i], addr, words) /\ Fail(TRUE) /\ UNCHANGED sigbus
             \/ ~Refused(first[i], addr, words) /\ Fail(FALSE) /\ UNCHANGED sigbus
             \/ /\ ~Refused(first[i], addr, words)
                /\ job' = [op |-> "read", range |-> first[i], addr |-> addr, left |-> words]
                /\ sigbus' = TRUE
                /\ UNCHANGED <<ret, told>>
      PROVE  IInv'
  <2>1. /\ job = Idle
        /\ UNCHANGED <<handle, memfd, opened, envVars, osfds>>
    BY DEF ReadBegin
  <2>2. /\ ret' \in {"none", "ok", "fail"}
        /\ told' \in BOOLEAN
        /\ sigbus' \in BOOLEAN
    BY <1>2 DEF IInv, TypeOK, Fail, Return
  <2>3. \/ job' = job
        \/ /\ ~Refused(first[i], addr, words)
           /\ job' = [op |-> IF FALSE THEN "write" ELSE "read", range |-> first[i],
                      addr |-> addr, left |-> words]
    BY <1>2 DEF Fail
  <2> QED
    BY <1>2, <2>1, <2>2, <2>3, BeginInductive
<1> QED
  BY <1>1, <1>2 DEF ReadBegin

\* memsvc_write keeps the invariant up to its copy loop.
LEMMA WriteBeginInductive ==
  ASSUME IInv, NEW addr \in Addrs, NEW words \in Counts, WriteBegin(addr, words)
  PROVE  IInv'
<1>1. CASE /\ Fail(TRUE)
           /\ UNCHANGED <<first, map, c2cmap, osmaps>>
  <2>1. /\ UNCHANGED <<handleVars, kernelVars, envVars, sigbus>>
        /\ job' = Idle /\ ret' = "fail" /\ told' = TRUE
    BY <1>1 DEF WriteBegin, Fail, Return, handleVars, kernelVars
  <2>2. /\ sigbus' \in BOOLEAN
        /\ service' \in BOOLEAN /\ config' \in Configs
        /\ memory' \in BOOLEAN /\ bridge' \in BOOLEAN
    BY <2>1 DEF IInv, TypeOK, envVars
  <2> QED
    BY <2>1, <2>2, HandleUntouched
<1>2. /\ job = Idle
      /\ sigbus' = sigbus
      /\ UNCHANGED <<handle, memfd, opened, envVars, osfds>>
  BY DEF WriteBegin
<1>3. ASSUME NEW i \in FirstHit(addr, FALSE), FindRange(i, FALSE), Fail(TRUE)
      PROVE  IInv'
  <2>1. /\ ret' \in {"none", "ok", "fail"}
        /\ told' \in BOOLEAN
        /\ sigbus' \in BOOLEAN
        /\ job' = job
    BY <1>2, <1>3 DEF IInv, TypeOK, Fail, Return
  <2> QED
    BY <1>2, <1>3, <2>1, BeginInductive
<1>4. ASSUME NEW i \in FirstHit(addr, TRUE), FindRange(i, TRUE),
             \/ Refused(first[i], addr, words) /\ Fail(TRUE)
             \/ /\ ~Refused(first[i], addr, words)
                /\ job' = [op |-> "write", range |-> first[i], addr |-> addr, left |-> words]
                /\ UNCHANGED <<ret, told>>
      PROVE  IInv'
  <2>1. /\ ret' \in {"none", "ok", "fail"}
        /\ told' \in BOOLEAN
        /\ sigbus' \in BOOLEAN
    BY <1>2, <1>4 DEF IInv, TypeOK, Fail, Return
  <2>2. \/ job' = job
        \/ /\ ~Refused(first[i], addr, words)
           /\ job' = [op |-> IF TRUE THEN "write" ELSE "read", range |-> first[i],
                      addr |-> addr, left |-> words]
    BY <1>4 DEF Fail
  <2> QED
    BY <1>2, <1>4, <2>1, <2>2, BeginInductive
<1> QED
  BY <1>1, <1>3, <1>4 DEF WriteBegin

\* Every step keeps the invariant.
LEMMA NextInductive == IInv /\ [Next]_vars => IInv'
<1> SUFFICES ASSUME IInv, [Next]_vars
             PROVE  IInv'
  OBVIOUS
<1>0. /\ service \in BOOLEAN /\ config \in Configs
      /\ memory \in BOOLEAN /\ bridge \in BOOLEAN
      /\ ret \in {"none", "ok", "fail"} /\ told \in BOOLEAN /\ sigbus \in BOOLEAN
      /\ job \in Jobs \cup {Idle, Dead}
  BY DEF IInv, TypeOK
<1>1. CASE Open
  BY <1>1, OpenInductive
<1>2. CASE Close
  BY <1>2, CloseInductive
<1>3. ASSUME NEW addr \in Addrs, NEW words \in Counts, ReadBegin(addr, words)
      PROVE  IInv'
  BY <1>3, ReadBeginInductive
<1>4. ASSUME NEW addr \in Addrs, NEW words \in Counts, WriteBegin(addr, words)
      PROVE  IInv'
  BY <1>4, WriteBeginInductive
<1>5. CASE CopyWord
  <2>1. job \in Jobs /\ job.left - 1 \in Nat
    BY <1>0, <1>5 DEF CopyWord, Idle, Dead, Jobs
  <2>2. /\ job' = [job EXCEPT !.left = job.left - 1]
        /\ UNCHANGED <<handleVars, kernelVars, envVars, ret, told, sigbus>>
    BY <1>5 DEF CopyWord
  <2> QED
    BY <1>0, <2>1, <2>2, HandleUntouched DEF envVars
<1>6. CASE CopyDone
  BY <1>0, <1>6, HandleUntouched DEF CopyDone, Return, envVars
<1>7. CASE BusError
  <2>1. CASE /\ job' = Idle
             /\ Return("fail", FALSE)
             /\ UNCHANGED <<handleVars, sigbus, kernelVars>>
    BY <1>0, <1>7, <2>1, HandleUntouched DEF BusError, Return, envVars
  <2>2. CASE ProcessDies
    <3>1. /\ handle' = "null" /\ memfd' = FALSE /\ osfds' = 0
          /\ first' = <<>> /\ opened' = <<>>
          /\ map' = {} /\ c2cmap' = {} /\ osmaps' = {}
          /\ job' = Dead /\ ret' = "none" /\ told' = FALSE /\ sigbus' = FALSE
          /\ UNCHANGED envVars
      BY <1>7, <2>2 DEF ProcessDies, BusError
    <3>2. RangesKept' /\ ResourcesOwned' /\ MapsAligned'
      BY <3>1, NothingOpen
    <3>3. JobCovered'
      BY <3>1 DEF JobCovered, Dead
    <3>4. TypeOK'
      BY <1>0, <3>1, EmptyList DEF TypeOK, envVars
    <3> QED
      BY <3>2, <3>3, <3>4 DEF IInv
  <2> QED
    BY <1>7, <2>1, <2>2 DEF BusError
<1>8. CASE Restart
  BY <1>0, <1>8, HandleUntouched DEF Restart, envVars
<1>9. CASE Environment
  <2>1. /\ service' \in BOOLEAN /\ config' \in Configs
        /\ memory' \in BOOLEAN /\ bridge' \in BOOLEAN
    BY <1>0, <1>9 DEF Environment
  <2>2. UNCHANGED <<handleVars, kernelVars, job, ret, told, sigbus>>
    BY <1>9 DEF Environment
  <2>3. \/ job' \in {Idle, Dead}
        \/ job \in Jobs /\ \E n \in Nat : job' = [job EXCEPT !.left = n]
    <3>1. ASSUME job \in Jobs
          PROVE  job.left \in Nat /\ job' = [job EXCEPT !.left = job.left]
      BY <2>2, <3>1 DEF Jobs
    <3> QED
      BY <1>0, <2>2, <3>1
  <2> QED
    BY <1>0, <2>1, <2>2, <2>3, HandleUntouched
<1>10. CASE UNCHANGED vars
  <2>1. UNCHANGED <<handleVars, kernelVars, envVars, job, ret, told, sigbus>>
    BY <1>10 DEF vars, handleVars, kernelVars, envVars
  <2>2. \/ job' \in {Idle, Dead}
        \/ job \in Jobs /\ \E n \in Nat : job' = [job EXCEPT !.left = n]
    <3>1. ASSUME job \in Jobs
          PROVE  job.left \in Nat /\ job' = [job EXCEPT !.left = job.left]
      BY <2>1, <3>1 DEF Jobs
    <3> QED
      BY <1>0, <2>1, <3>1
  <2> QED
    BY <1>0, <2>1, <2>2, HandleUntouched DEF envVars
<1>11. ASSUME Next
       PROVE  IInv'
  <2>1. \/ Open \/ Close
        \/ \E addr \in Addrs, words \in Counts : ReadBegin(addr, words)
        \/ \E addr \in Addrs, words \in Counts : WriteBegin(addr, words)
        \/ CopyWord \/ CopyDone \/ BusError \/ Restart \/ Environment
    BY <1>11 DEF Next
  <2> QED
    BY <2>1, <1>1, <1>2, <1>3, <1>4, <1>5, <1>6, <1>7, <1>8, <1>9
<1> QED
  BY <1>10, <1>11

-----------------------------------------------------------------------------
(* The theorems *)

\* The inductive invariant holds in every reachable state.
LEMMA Inductive == Spec => []IInv
  BY InitInductive, NextInductive, PTL DEF Spec

\* Every variable of the library keeps its type: in particular no descriptor is
\* closed twice.
THEOREM TypeCorrect == Spec => []TypeOK
<1>1. IInv => TypeOK
  BY DEF IInv
<1> QED
  BY <1>1, Inductive, PTL

\* find_range never loses, repeats or invents a range, whatever the calls.
THEOREM RangesSafe == Spec => []RangesKept
<1>1. IInv => RangesKept
  BY DEF IInv
<1> QED
  BY <1>1, Inductive, PTL

\* memsvc_open, memsvc_close and find_range leak no descriptor and no mapping.
THEOREM ResourcesSafe == Spec => []ResourcesOwned
<1>1. IInv => ResourcesOwned
  BY DEF IInv
<1> QED
  BY <1>1, Inductive, PTL

\* The copy loops of memsvc_read and memsvc_write stay inside live mappings, for
\* every address and block length.
THEOREM AccessSafe == Spec => []AccessInside
<1>1. IInv => AccessInside
  <2> SUFFICES ASSUME IInv, job.op \in {"read", "write"}
               PROVE  /\ <<job.range, "map">> \in osmaps
                      /\ Start[job.range] <= job.addr
                      /\ job.addr + 3 < Start[job.range] + MapLen(job.range)
                      /\ job.op = "write" => job.range \notin ReadOnly
    BY DEF AccessInside
  <2>1. /\ job.range \in map
        /\ job.addr % 4 = 0
        /\ Covers(job.range, job.addr, job.op = "write")
    BY DEF IInv, JobCovered
  <2>2. job \in Jobs
    BY DEF IInv, TypeOK, Idle, Dead
  <2>3. job.range \in Ranges /\ job.addr \in Addrs
    BY <2>2 DEF Jobs
  <2>4. job.addr \in Nat
    <3>1. AddrMod \in Nat /\ Addrs \subseteq 0..(AddrMod - 1)
      BY MemsvcAssumption
    <3>2. job.addr \in 0..(AddrMod - 1)
      BY <2>3, <3>1, Zenon
    <3> QED
      BY <3>1, <3>2
  <2>5. <<job.range, "map">> \in osmaps
    BY <2>1 DEF IInv, ResourcesOwned
  <2>6. Start[job.range] % PageSize = 0
    BY <2>1 DEF IInv, MapsAligned
  <2>7. job.addr + 3 < Start[job.range] + MapLen(job.range)
    BY <2>1, <2>3, <2>4, <2>6, WordInside DEF Covers
  <2> QED
    BY <2>1, <2>5, <2>7 DEF Covers
<1> QED
  BY <1>1, Inductive, PTL
=============================================================================
