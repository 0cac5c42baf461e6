------------------------------- MODULE MCMirror -------------------------------
(***************************************************************************)
(* Instances of ReplicationMirrors for TLC: graph "a" copied onto "b", by  *)
(* one worker or, to see passes overlap, by two.                           *)
(***************************************************************************)
EXTENDS ReplicationMirrors, MCReplication

TwoWorkers == {"ab", "again"}
===============================================================================
