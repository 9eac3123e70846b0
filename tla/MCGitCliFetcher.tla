--------------------------- MODULE MCGitCliFetcher ---------------------------
(* Instances of GitCliFetcher for TLC.                                     *)
EXTENDS GitCliFetcher, TLC

CONSTANTS r1, r2, p1, p2, o1, o2

OneReader == {r1}
TwoReaders == {r1, r2}
OnePrefetcher == {p1}
TwoPrefetchers == {p1, p2}
OneOid == {o1}
TwoOids == {o1, o2}

\* A batch of one, and a batch that overlaps it and lists an object twice (two files of a
\* directory with the same content).
Overlapping == {<<o1>>, <<o1, o2, o1>>}
SingleBatch == {<<o1>>}

PrefetcherSymmetry == Permutations(TwoPrefetchers)
=============================================================================
