-------------------------------- MODULE Mirror --------------------------------
(***************************************************************************)
(* What replicating a graph onto a read-only copy promises: element by     *)
(* element, the copy goes through stages the original has been through, in *)
(* their order and never ahead of it.  A deleted element stays deleted: an *)
(* id is not given out twice.                                              *)
(***************************************************************************)
CONSTANTS
    Element, Version,
    Unborn, Gone,
    NewerThan(_, _)     \* of two versions of one element

VARIABLES
    original, copy      \* Element -> its stage

Stage == Version \cup {Unborn, Gone}

\* The stage b of an element comes after a, or is the same.
Reaches(a, b) ==
    \/ a = b \/ a = Unborn \/ b = Gone
    \/ a \in Version /\ b \in Version /\ NewerThan(b, a)

Init == original = [e \in Element |-> Unborn] /\ copy = [e \in Element |-> Unborn]

Write ==
    /\ original' \in [Element -> Stage]
    /\ \A e \in Element : Reaches(original[e], original'[e])
    /\ UNCHANGED copy

\* Some elements of the copy catch up, as far as the original has got at most.
CatchUp ==
    /\ copy' \in [Element -> Stage]
    /\ \A e \in Element : Reaches(copy[e], copy'[e]) /\ Reaches(copy'[e], original[e])
    /\ UNCHANGED original

Next == Write \/ CatchUp

Spec == Init /\ [][Next]_<<original, copy>>
=============================================================================
