---------------------------- MODULE MCBrowserEdge ----------------------------
(* Instances of BrowserEdge for TLC: model values of the tabs, the requests *)
(* and the destroy; the faults and restarts allowed to each kind            *)
EXTENDS BrowserEdge
CONSTANTS ta, tb, r1, r2, d1

EdgeFaults == [graph |-> 1, registry |-> 2]
EdgeRestarts == [graph |-> 0, registry |-> 1]
ReapedFaults == [graph |-> 1]
ReapedRestarts == [graph |-> 1]
DestroyFaults == [graph |-> 0]
DestroyRestarts == [graph |-> 0]
=============================================================================
