------------------------------ MODULE MCDaemon -------------------------------
(* Daemon.tla with interchangeable connections and waiting requests, for the *)
(* safety runs. Nothing in the specification tells two of either apart.      *)
EXTENDS Daemon, TLC

Interchangeable == Permutations(Conns) \cup Permutations(Waiters)

==============================================================================
