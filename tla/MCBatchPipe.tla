----------------------------- MODULE MCBatchPipe -----------------------------
(* Instances of BatchPipe for TLC: numbers only, given in the .cfg files.  *)
EXTENDS BatchPipe
=============================================================================
