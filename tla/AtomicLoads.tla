----------------------------- MODULE AtomicLoads -----------------------------
(***************************************************************************)
(* What a bulk load promises: its document appears in the graph in one     *)
(* step, when it finishes, all but for what others had taken by then; from *)
(* then on it only loses what others take.  A load that has not finished   *)
(* has nothing in the graph that counts.                                   *)
(***************************************************************************)
CONSTANTS Load, Document

VARIABLES
    finished,   \* the loads that reported success
    shown,      \* Load -> the elements of its document in the graph, once it has finished
    taken       \* Load -> the elements others took from it since it began

vars == <<finished, shown, taken>>

Init == finished = {} /\ shown = [l \in Load |-> {}] /\ taken = [l \in Load |-> {}]

Start(l) ==
    /\ l \notin finished
    /\ taken' = [taken EXCEPT ![l] = {}]
    /\ UNCHANGED <<finished, shown>>

Finish(l) ==
    /\ l \notin finished /\ finished' = finished \union {l}
    /\ shown' = [shown EXCEPT ![l] = shown'[l]]
    /\ DOMAIN Document[l] \ taken[l] \subseteq shown'[l]
    /\ UNCHANGED taken

Take ==
    /\ taken' = [l \in Load |-> taken'[l]] /\ shown' = [l \in Load |-> shown'[l]]
    /\ \A l \in Load : /\ taken[l] \subseteq taken'[l] /\ shown'[l] \subseteq shown[l]
                       /\ shown[l] \ shown'[l] \subseteq taken'[l]
    /\ UNCHANGED finished

Next == Take \/ \E l \in Load : Start(l) \/ Finish(l)

Spec == Init /\ [][Next]_vars
=============================================================================
