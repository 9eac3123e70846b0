----------------------------- MODULE MCCoalescer -----------------------------
(***************************************************************************)
(* Instances of Coalescer for TLC.  Three threads are the fewest that give *)
(* a leader and two followers of one slot; two calls each let a thread     *)
(* come back while its previous slot is still in the map.                  *)
(***************************************************************************)
EXTENDS Coalescer, TLC

CONSTANTS t1, t2, t3, k1

ThreeThreads == {t1, t2, t3}
TwoThreads == {t1, t2}
OneKey == {k1}
OkErr == {"Ok", "Err"}
=============================================================================
