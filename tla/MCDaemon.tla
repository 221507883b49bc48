------------------------------ MODULE MCDaemon ------------------------------
(* Symmetry of the small instances of Daemon.                              *)
EXTENDS Daemon, TLC

Symm == Permutations(Clients) \union Permutations(Databases)
=============================================================================
