------------------------ MODULE MCUidReconciliation ------------------------
(***************************************************************************)
(* Instances of UidReconciliation for TLC: two graphs, each with a worker  *)
(* of the same name that copies the other one to it, and one uid, "marko", *)
(* that both peers' users give out: to two loops of a vertex both hold.    *)
(* The graphs are alike, so swapping them is a symmetry of the invariants. *)
(***************************************************************************)
EXTENDS UidReconciliation, MCReplication, TLC

CONSTANTS pa, pb, marko

MCPeers   == {pa, pb}
MCOther   == [w \in Worker |-> CHOOSE p \in Peer : p # w]
MCSame    == [w \in Worker |-> w]
MCLoops   == [e \in EGid |-> 1]
MCSwap    == Permutations(MCPeers)
=============================================================================
