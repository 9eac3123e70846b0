----------------------------- MODULE MCBatchPool -----------------------------
(* Instances of BatchPool for TLC.                                         *)
EXTENDS BatchPool, TLC

CONSTANTS a1, a2, o1, o2

TwoActors == {a1, a2}
TwoOids == {o1, o2}
OnlyO1 == {o1}

\* A single object (raw_fetch) and a batch of two (prefetch_headers); the remote
\* has o1 and refuses o2.
SingleAndBatch == {<<o1>>, <<o1, o2>>}

ActorSymmetry == Permutations(TwoActors)
=============================================================================
