---- MODULE MCJobServers ----
(* Instances of JobServers for TLC: one unit of time is WorkerStale. *)
EXTENDS JobServers, TLC

ServerSymmetry == Permutations(Servers)
====
