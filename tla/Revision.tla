------------------------------ MODULE Revision ------------------------------
(***************************************************************************)
(* src/rev.ts: a revision is {gen, hash, ids}.  The hash chains the        *)
(* parent's generation and hash with the new content, so (short of a       *)
(* SHA-256 collision) it names one lineage of contents, from the create to *)
(* the leaf, and nothing else.  The model takes the lineage for the hash:  *)
(* a revision IS the sequence of contents that led to it, its length is    *)
(* gen, and ids are its newest RevsLimit prefixes.  Two peers that create  *)
(* the same content therefore reach the same revision, as in the code.     *)
(***************************************************************************)
EXTENDS Naturals, Sequences

CONSTANTS
    Content,         \* what a write can leave in an element: its labels and properties
    RevsLimit,       \* REVS_LIMIT, the depth the ancestry is stemmed to
    HashAbove(_, _)  \* the lexical order of two hashes of one generation

ASSUME RevsLimitAssumption == RevsLimit \in Nat \ {0}

NoRev == << >>                       \* no row, or a row not yet refreshed
Rev   == Seq(Content) \ {NoRev}
Gen(rev) == Len(rev)

\* The next revision from the parent (NoRev on a create) and the content.
ComputeRev(parent, content) == Append(parent, content)

\* Rev.ids: the leaf and its ancestors, newest first, cut off at RevsLimit.
Ids(rev) == {SubSeq(rev, 1, n) : n \in {k \in 1 .. Len(rev) : k + RevsLimit > Len(rev)}}

\* Is b on a's ancestry line?  Applying a over b is then a fast-forward.
DescendsFrom(a, b) == Gen(a) >= Gen(b) /\ b \in Ids(a)

Diverges(a, b) == ~DescendsFrom(a, b) /\ ~DescendsFrom(b, a)

\* Mutant of RevWins: no order within a generation.
RevWinsByGen(a, b) == Gen(a) > Gen(b)

\* The winner of two live leaves: the higher generation, then the higher
\* hash.  (Its one caller compares two live leaves, so the deleted flags
\* that come first in the code's order never differ.)
RevWins(a, b) == Gen(a) > Gen(b) \/ (Gen(a) = Gen(b) /\ HashAbove(a, b))
=============================================================================
