--------------------------- MODULE MCSegmentDrive ---------------------------
(* Instances of SegmentDrive for TLC: two chained algorithms, one with a    *)
(* remote barrier behind it, a sibling's request and a replication filter   *)
EXTENDS SegmentDrive
CONSTANTS chain, remote, sibling, filter

MCSegments == [q \in Queries |-> CASE q = chain -> <<"olap", "sync", "olap">> [] q = remote -> <<"olap", "remote">>
                                    [] q = sibling -> <<"olap">> [] q = filter -> <<"sync", "olap">>]
MCAnswer == [q \in Queries |-> CASE q = sibling -> "foreign" [] q = filter -> "filter" [] OTHER -> "framed"]
=============================================================================
