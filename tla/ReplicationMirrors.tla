------------------------- MODULE ReplicationMirrors -------------------------
(***************************************************************************)
(* A worker of Replication that copies a graph onto one nobody writes to   *)
(* (but for what placement grafts on it) implements Mirror.                *)
(***************************************************************************)
EXTENDS Replication

CONSTANTS Original, Copied    \* two peers
CONSTANTS Unborn, Gone

ASSUME MirrorAssumption == {Original, Copied} \subseteq Peer /\ Unborn # Gone

Element == Gid \ Placed

\* What the graph shows of an element: its live row, or that it was deleted.
StageOf(st, g) == IF g \in Live(st) THEN st.live[g].rev
                  ELSE IF g \in Buried(st) THEN Gone ELSE Unborn

NewerThan(r, s) == r # s /\ DescendsFrom(r, s)

Abstract == INSTANCE Mirror WITH
    Version  <- Rev,
    original <- [g \in Element |-> StageOf(store[Original], g)],
    copy     <- [g \in Element |-> StageOf(store[Copied], g)]

\* The copy never shows what the original has not shown, goes back to an older
\* revision or brings a deleted element back, whatever is written during a
\* pass, cut short or repeated (runReplicationPass, applyWire).
ImplementsMirror == Abstract!Spec
=============================================================================
