------------------------------- MODULE MCMemsvc -------------------------------
(***************************************************************************)
(* An instance of Memsvc for TLC: 8-byte pages in a 64-byte address space,  *)
(* a bridged range, a readonly one, one that overlaps both, one at address  *)
(* 0, one that does not start on a page, and one that ends before it        *)
(* starts.                                                                 *)
(***************************************************************************)
EXTENDS Memsvc

MCRanges == {"bridged", "ro", "overlap", "zero", "offpage", "inverted"}

MCStart == [r \in MCRanges |-> CASE r = "bridged" -> 8
                                 [] r = "ro" -> 24
                                 [] r = "overlap" -> 16
                                 [] r = "zero" -> 0
                                 [] r = "offpage" -> 44
                                 [] r = "inverted" -> 56]

MCEnd == [r \in MCRanges |-> CASE r = "bridged" -> 23
                               [] r = "ro" -> 39
                               [] r = "overlap" -> 32
                               [] r = "zero" -> 7
                               [] r = "offpage" -> 55
                               [] r = "inverted" -> 48]

MCConfigs == {<<"bridged", "ro", "overlap">>,
              <<"zero", "offpage">>,
              <<"ro", "garbled">>,
              <<"bridged", "inverted">>}

\* Only the file with three good ranges.
MCGoodConfig == {<<"bridged", "ro", "overlap">>}

\* First, inner and last words of the ranges, an aligned end, an unaligned
\* address and one no range covers.
MCAddrs == {0, 8, 20, 24, 30, 32, 36, 48, 60}
=============================================================================
