------------------------------ MODULE MCDaemon ------------------------------
(***************************************************************************)
(* Model values for Daemon.  With two daemons the second is a restart, or  *)
(* a second instance on the same socket path.                              *)
(***************************************************************************)
EXTENDS Daemon, TLC

\* No operation tells daemons, or sources, apart; sound for the runs without liveness.
Symmetry == Permutations(Daemons) \cup Permutations(Sources)

=============================================================================
