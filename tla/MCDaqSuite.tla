------------------------------ MODULE MCDaqSuite ------------------------------
EXTENDS DaqSuite, TLC

CONSTANTS t1, t2, t3

Together(a, b, c) == t1 :> a @@ t2 :> b @@ t3 :> c

MCScenarios ==
  {Together("script", "none", "none"),
   Together("tool", "none", "none"),
   Together("main", "main", "none"),
   Together("main", "none", "hello"),
   Together("write", "none", "read_fw"),
   Together("main", "module", "none"),
   Together("update", "write", "none"),
   Together("main", "on", "wrong"),
   Together("main", "reset", "off")}

\* A monitoring list, a mask, a monitoring list.
MCTables == <<"getmonTRIGGERmain", "getReg", "getmonDAQOHmain">>

MCData == {1, 7, Dead}

\* The masks of links 0, 4, 5 and 9, and the mask of all links.
MCMasks == {a + 16 * b + 512 * c : a \in {0, 1}, b \in 0..3, c \in {0, 1}} \cup {4095}

\* A configuration of both optohybrids, with a file that is no good, and with too
\* many; a scan with and without a file, of 24 VFATs and of fewer; phases of which
\* one is bad, and of optohybrids of which one is not in the dictionary.
Job(name, ohs, items) ==
  [name |-> name, ohs |-> ohs, listed |-> {0}, items |-> items, output |-> FALSE, narrow |-> FALSE]

Scan == Job("gbtPhaseScan", {0, 1}, <<"good">>)

MCJobs ==
  {Job("configGBT", {0, 1}, <<"good", "good">>), Job("configGBT", {1}, <<"good", "bad">>),
   Job("configGBT", {1}, <<"good", "good", "good", "good">>),
   Job("setPhase", {0}, <<"bad">>), Job("setPhaseAllVFATs", {0}, <<"good", "bad", "good">>),
   Job("setPhaseAllOHs", {0, 1}, <<"bad", "good">>),
   Scan, [Scan EXCEPT !.output = TRUE], [Scan EXCEPT !.output = TRUE, !.narrow = TRUE]}
====
