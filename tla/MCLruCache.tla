----------------------------- MODULE MCLruCache -----------------------------
(* Instances of LruCache for TLC.                                          *)
EXTENDS LruCache

CONSTANTS t1, t2, o1, o2, o3, o4, o5

TwoThreads == {t1, t2}
FiveOids == {o1, o2, o3, o4, o5}

\* Three of which two fit at a time, one that is let in and does not fit at all, one
\* that is too large to be let in.
Sizes == (o1 :> 1) @@ (o2 :> 1) @@ (o3 :> 2) @@ (o4 :> 4) @@ (o5 :> 5)

ThreadSymmetry == Permutations(TwoThreads)
=============================================================================
