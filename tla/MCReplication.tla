--------------------------- MODULE MCReplication ---------------------------
(***************************************************************************)
(* Instances of Replication for TLC: two graphs "a" and "b".  "ab" copies  *)
(* a to b, "ba" copies b to a, each on a checkpoint of its own.            *)
(***************************************************************************)
EXTENDS Replication

\* Hashes of one generation compare by their newest differing content: one
\* total order, of the many SHA-256 could give.
MCHashAbove(r, s) ==
    \E i \in DOMAIN r : r[i] > s[i] /\ \A j \in (i + 1) .. Len(r) : r[j] = s[j]

Nobody     == {}
OnlyA      == {"a"}
BothPeers  == {"a", "b"}
OneWay     == {"ab"}
BothWays   == {"ab", "ba"}
MCSource   == [w \in Worker |-> IF w = "ba" THEN "b" ELSE "a"]
MCTarget   == [w \in Worker |-> IF w = "ba" THEN "a" ELSE "b"]
MCCursor   == [w \in Worker |-> w]
NoLimit    == [w \in Worker |-> 0]
PageOfOne  == [w \in Worker |-> 1]
PageOfTwo  == [w \in Worker |-> 2]
NoFilters  == [w \in Worker |-> Content]
\* A one-shot pull of everything and one of some, on one checkpoint.
Filtering  == {"ab", "abOnes"}
FilterOnes == [w \in Worker |-> IF w = "abOnes" THEN {1} ELSE Content]
OneCursor  == [w \in Worker |-> "pull"]

OneVertex   == {1}
TwoVertices == {1, 2}
NoEdges     == {}
OneEdge     == {11}
TwoEdges    == {11, 12}
MCSrc       == [e \in EGid |-> 1]
MCTgt       == [e \in EGid |-> IF e = 11 THEN 2 ELSE 1]   \* 12 is a loop
OnlyOnes    == [w \in Worker |-> {1}]
=============================================================================
