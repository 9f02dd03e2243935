----------------------------- MODULE MCDownload -----------------------------
(* Two calls of one turn, one destination, one resource that fits the file *)
(* bound and one that does not.                                            *)
EXTENDS Download, TLC
CONSTANTS c1, c2, u1, u2, d1

MCCall == {c1, c2}
MCUrl == {u1, u2}
MCBodyLen == u1 :> 2 @@ u2 :> 3
\* Races are explored where no write is refused and nothing crashes.
RacesAreFaultless == raced = {} \/ faults = 0
Interchangeable == Permutations(MCCall)
=============================================================================
