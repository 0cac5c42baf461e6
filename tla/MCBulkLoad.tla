---------------------------- MODULE MCBulkLoad ----------------------------
(***************************************************************************)
(* Two documents for TLC.  The first names a vertex, keeps the rowid of    *)
(* another and joins the two in its last batch; the second is remapped and *)
(* its edges reach the vertex the first one named.                         *)
(***************************************************************************)
EXTENDS BulkLoad

CONSTANTS first, second    \* two loads
CONSTANT  named            \* a uid

MCVertex(id) == [kind |-> "vertex", id |-> id]
MCEdge(id, src, tgt) == [kind |-> "edge", id |-> id, src |-> src, tgt |-> tgt]

MCPolicy == [l \in Load |-> IF l = first THEN "preserve" ELSE "remap"]
MCDocument == [l \in Load |-> IF l = first THEN <<MCVertex(named), MCVertex(2), MCEdge(NoId, 2, named)>>
                               ELSE <<MCVertex(1), MCEdge(named, 1, named), MCEdge(NoId, named, named)>>]
=============================================================================
