------------------------- MODULE SegmentDriveProofs -------------------------
(***************************************************************************)
(* Run tokens, for any number of queries, segments, rounds and crashes,    *)
(* where a destroy closes the handle: what a query in flight reads is what *)
(* its own cores wrote, because no two queries ever hold one token and a   *)
(* query drops its own tokens only.                                        *)
(***************************************************************************)
EXTENDS SegmentDrive, FiniteSetTheorems, TLAPS

QueryFields == {"pc", "at", "runs", "reads", "out", "cut", "misread"}
Going(rec) == rec.pc \in {"headed", "applied", "away", "driven"} /\ ~rec.cut
Tokens(rec) == (rec.runs \cup {rec.out}) \ {0}

Shape ==
    /\ seq \in Nat
    /\ query = [q \in Queries |-> query[q]]
    /\ \A q \in Queries : DOMAIN query[q] = QueryFields
    /\ \A r \in state : r.run \in 1 .. seq

\* A query in flight reads its own tokens, and its rows are as its cores left them.
Owns(q) ==
    /\ query[q].misread = FALSE
    /\ query[q].pc = "idle" => query[q].reads = {} /\ query[q].runs = {} /\ query[q].out = 0
    /\ Going(query[q]) =>
         /\ db = "open"
         /\ query[q].pc \in {"headed", "driven"} => query[q].out = 0
         /\ Tokens(query[q]) \subseteq 1 .. seq
         /\ \A rel \in query[q].reads : rel.run \in Tokens(query[q]) /\ Rows(rel) = rel.wrote

Apart ==
    \A p, q \in Queries : Going(query[p]) /\ Going(query[q]) /\ p # q =>
        Tokens(query[p]) \cap Tokens(query[q]) = {}

SInv == Shape /\ (\A q \in Queries : Owns(q)) /\ Apart /\ db \in {"open", "down"}

\* Of the two slots, the one the last round wrote holds that round and no other.
LEMMA LastRound ==
    ASSUME NEW q, NEW run, NEW n \in Nat
    PROVE  {r \in Relaxed(q, run, n).rows : r.round = Relaxed(q, run, n).round}
              = {r \in Relaxed(q, run, n).rows : r.iter = n}
<1> DEFINE I == (IF n = 0 THEN 0 ELSE n - 1) .. n
           row(i) == [by |-> q, run |-> run, round |-> i % 2, iter |-> i]
<1>1. Relaxed(q, run, n) = [rows |-> {row(i) : i \in I}, round |-> n % 2]
  BY DEF Relaxed
<1>2. \A i \in I : i % 2 = n % 2 <=> i = n
  OBVIOUS
<1> QED
  BY <1>1, <1>2

\* What a record reads it does not misread while its tokens' rows are its own.
LEMMA NoMisread ==
    ASSUME NEW rec, \A rel \in rec.reads : Rows(rel) = rel.wrote
    PROVE  ~Misreads(rec)
BY DEF Misreads

\* What a resume leaves of a record, and when it may have read the wrong rows.
Follows(q, rec, a) ==
    /\ DOMAIN a = QueryFields /\ a.runs = rec.runs /\ a.reads = rec.reads /\ a.out = rec.out
    /\ a.cut = rec.cut /\ a.pc \in {"headed", "driven"}
    /\ rec.misread = FALSE /\ ~Misreads(rec) => a.misread = FALSE
    /\ rec.misread = FALSE /\ a.pc # "headed" /\ ~(rec.at <= Len(Segments[q])) => a.misread = FALSE

LEMMA AdvancedFollows ==
    ASSUME NEW q, NEW rec, DOMAIN rec = QueryFields
    PROVE  Follows(q, rec, Advanced(q, rec))
<1>1. CASE Awaited(q, rec.at) = 0
  BY <1>1 DEF Advanced, QueryFields, Follows
<1>2. CASE Awaited(q, rec.at) # 0
  BY <1>2 DEF Advanced, QueryFields, Follows
<1> QED
  BY <1>1, <1>2

LEMMA EndedFields ==
    ASSUME NEW rec, NEW pc, DOMAIN rec = QueryFields
    PROVE  LET e == Ended(rec, pc)
           IN  /\ DOMAIN e = QueryFields /\ e.pc = pc /\ e.runs = {} /\ e.reads = {} /\ e.out = 0
               /\ e.cut = rec.cut /\ e.misread = rec.misread
BY DEF Ended, QueryFields

\* A query an action leaves alone, and whose tokens' rows it leaves alone.
LEMMA OwnsKept ==
    ASSUME NEW p \in Queries, Owns(p), seq \in Nat, seq' \in Nat, seq' >= seq,
           query'[p] = query[p],
           Going(query[p]) => /\ db' = "open"
                              /\ \A r : r.run \in Tokens(query[p]) => (r \in state' <=> r \in state)
    PROVE  Owns(p)'
<1>1. CASE ~Going(query[p])
  BY <1>1 DEF Owns, Going
<1>2. CASE Going(query[p])
  <2>1. Tokens(query[p]) \subseteq 1 .. seq'
    BY <1>2 DEF Owns
  <2>2. ASSUME NEW rel \in query[p].reads
        PROVE  rel.run \in Tokens(query[p]) /\ Rows(rel)' = rel.wrote
    <3>1. rel.run \in Tokens(query[p]) /\ Rows(rel) = rel.wrote
      BY <1>2, <2>2 DEF Owns
    <3>2. Rows(rel)' = Rows(rel)
      BY <1>2, <3>1 DEF Rows
    <3> QED
      BY <3>1, <3>2
  <2>3. query'[p].misread = FALSE
    BY DEF Owns
  <2>4. query'[p].pc # "idle"
    BY <1>2 DEF Going
  <2> QED
    BY <1>2, <2>1, <2>2, <2>3, <2>4 DEF Owns, Going, Tokens
<1> QED
  BY <1>1, <1>2

\* A query that ended owns nothing, and needs nothing.
LEMMA OwnsEnded ==
    ASSUME NEW q \in Queries, NEW pc \in {"done", "failed", "coreThrew", "tailThrew", "lost"},
           Owns(q), DOMAIN query[q] = QueryFields, query'[q] = Ended(query[q], pc)
    PROVE  Owns(q)' /\ ~Going(query'[q])
BY EndedFields DEF Owns, Going

\* Disjointness survives whatever gives no query a token another holds.
LEMMA ApartKept ==
    ASSUME Apart, NEW q \in Queries,
           \A p \in Queries : p # q => query'[p] = query[p],
           Going(query'[q]) => Going(query[q]) /\ Tokens(query'[q]) = Tokens(query[q])
    PROVE  Apart'
BY DEF Apart

LEMMA ApartEnded ==
    ASSUME Apart, NEW q \in Queries,
           \A p \in Queries : p # q => query'[p] = query[p], ~Going(query'[q])
    PROVE  Apart'
BY DEF Apart

\* One query steps to rec, every other is left alone.
LEMMA ShapeKept ==
    ASSUME Shape, NEW q \in Queries, NEW rec, DOMAIN rec = QueryFields,
           query' = [query EXCEPT ![q] = rec], seq' \in Nat, seq' >= seq,
           \A r \in state' : r \in state \/ r.run \in 1 .. seq'
    PROVE  /\ Shape'
           /\ query'[q] = rec
           /\ \A p \in Queries : p # q => query'[p] = query[p]
<1>1. query'[q] = rec /\ \A p \in Queries : p # q => query'[p] = query[p]
  BY DEF Shape
<1>2. query' = [p \in Queries |-> query'[p]]
  BY DEF Shape
<1>3. \A r \in state' : r.run \in 1 .. seq'
  BY DEF Shape
<1> QED
  BY <1>1, <1>2, <1>3 DEF Shape

LEMMA BeginSafe == ASSUME SInv, NEW q \in Queries, Begin(q) PROVE SInv'
<1> DEFINE rec == Advanced(q, query[q])
<1>0. DOMAIN query[q] = QueryFields /\ query[q].pc = "idle"
  BY DEF SInv, Shape, Begin, Arrives
<1>1. query[q].misread = FALSE /\ query[q].reads = {} /\ query[q].runs = {} /\ query[q].out = 0
  BY <1>0 DEF SInv, Owns
<1>2. ~Misreads(query[q])
  BY <1>1, NoMisread
<1>3. /\ DOMAIN rec = QueryFields /\ rec.runs = {} /\ rec.reads = {} /\ rec.out = 0
      /\ rec.pc \in {"headed", "driven"} /\ rec.misread = FALSE
  <2>1. Follows(q, query[q], rec)
    BY <1>0, AdvancedFollows
  <2> HIDE DEF rec
  <2> QED
    BY <2>1, <1>1, <1>2 DEF Follows
<1> HIDE DEF rec
<1>4. query' = [query EXCEPT ![q] = rec] /\ state' = state /\ seq' = seq /\ db' = "open"
  BY DEF Begin, rec
<1>5. /\ Shape' /\ query'[q] = rec /\ \A p \in Queries : p # q => query'[p] = query[p]
  BY <1>3, <1>4, ShapeKept DEF SInv, Shape
<1>6. Owns(q)'
  BY <1>3, <1>4, <1>5 DEF Owns, Tokens
<1>7. \A p \in Queries : p # q => Owns(p)'
  BY <1>4, <1>5, OwnsKept DEF SInv, Shape
<1>8. Apart'
  BY <1>3, <1>5 DEF SInv, Apart, Tokens
<1> QED
  BY <1>4, <1>5, <1>6, <1>7, <1>8 DEF SInv

\* The new token is in no row and held by nobody.
LEMMA FreshUnused ==
    ASSUME SInv
    PROVE  /\ Fresh \in Nat /\ Fresh > seq /\ Fresh # 0
           /\ \A r \in state : r.run # Fresh
           /\ \A p \in Queries : Going(query[p]) => Fresh \notin Tokens(query[p])
BY DEF SInv, Shape, Owns, Fresh

LEMMA CoreSafe == ASSUME SInv, NEW q \in Queries, Core(q) PROVE SInv'
<1>0. /\ DOMAIN query[q] = QueryFields /\ seq \in Nat /\ MaxRounds \in Nat
      /\ query[q].pc = "headed" /\ ~query[q].cut /\ db = "open" /\ seq' = Fresh /\ db' = db
  BY SegmentAssumption DEF SInv, Shape, Core, Reaches
<1>1. Going(query[q]) /\ Owns(q)
  BY <1>0 DEF Going, SInv
<1>2. PICK new, rel :
        /\ state' = state \cup new
        /\ \A r \in new : r.run = Fresh
        /\ rel.run = Fresh /\ {r \in new : r.round = rel.round} = rel.wrote
        /\ query' = [query EXCEPT ![q].pc = "applied", ![q].out = Fresh, ![q].reads = @ \cup {rel}]
  <2>1. CASE \E n \in 0 .. MaxRounds :
               LET done == Relaxed(q, Fresh, n)
                   wrote == {r \in done.rows : r.iter = n}
               IN  /\ state' = state \cup done.rows
                   /\ query' = [query EXCEPT ![q].pc = "applied", ![q].out = Fresh,
                                             ![q].reads = @ \cup {Relation(Fresh, done.round, wrote)}]
    <3>1. PICK n \in 0 .. MaxRounds :
            /\ state' = state \cup Relaxed(q, Fresh, n).rows
            /\ query' = [query EXCEPT ![q].pc = "applied", ![q].out = Fresh,
                           ![q].reads = @ \cup {Relation(Fresh, Relaxed(q, Fresh, n).round,
                                                         {r \in Relaxed(q, Fresh, n).rows : r.iter = n})}]
      BY <2>1
    <3>2. \A r \in Relaxed(q, Fresh, n).rows : r.run = Fresh
      BY DEF Relaxed
    <3> DEFINE rel == Relation(Fresh, Relaxed(q, Fresh, n).round, {r \in Relaxed(q, Fresh, n).rows : r.iter = n})
               new == Relaxed(q, Fresh, n).rows
    <3>3. rel.run = Fresh /\ {r \in new : r.round = rel.round} = rel.wrote
      BY LastRound, <1>0 DEF Relation
    <3> HIDE DEF rel, new
    <3> QED
      BY <3>1, <3>2, <3>3 DEF rel, new
  <2>2. CASE /\ query' = [query EXCEPT ![q].pc = "applied", ![q].out = Fresh,
                                       ![q].reads = @ \cup {Relation(Fresh, 0, {})}]
             /\ UNCHANGED state
    <3> DEFINE rel == Relation(Fresh, 0, {})
    <3>1. rel.run = Fresh /\ rel.wrote = {}
      BY DEF Relation
    <3> HIDE DEF rel
    <3>2. state' = state \cup {}
      BY <2>2
    <3> QED
      BY <2>2, <3>1, <3>2 DEF rel
  <2> QED
    BY <2>1, <2>2 DEF Core
<1> DEFINE rec == [query[q] EXCEPT !.pc = "applied", !.out = Fresh, !.reads = @ \cup {rel}]
<1>3. /\ DOMAIN rec = QueryFields /\ rec.pc = "applied" /\ rec.out = Fresh /\ rec.runs = query[q].runs
      /\ rec.reads = query[q].reads \cup {rel} /\ rec.misread = query[q].misread /\ rec.cut = query[q].cut
  BY <1>0 DEF QueryFields
<1>4. query' = [query EXCEPT ![q] = rec]
  BY <1>2
<1> HIDE DEF rec
<1>5. /\ Shape' /\ query'[q] = rec /\ \A p \in Queries : p # q => query'[p] = query[p]
  <2>1. \A r \in state' : r \in state \/ r.run \in 1 .. seq'
    BY <1>0, <1>2, FreshUnused
  <2>2. seq' \in Nat /\ seq' >= seq
    BY <1>0, FreshUnused
  <2> QED
    BY <1>3, <1>4, <2>1, <2>2, ShapeKept DEF SInv
<1>6. Tokens(query'[q]) = Tokens(query[q]) \cup {Fresh}
  <2>1. query[q].out = 0
    BY <1>0, <1>1 DEF Owns
  <2> QED
    BY <1>3, <1>5, <2>1, FreshUnused DEF Tokens
<1>7. Owns(q)'
  <2>1. Tokens(query'[q]) \subseteq 1 .. seq'
    BY <1>0, <1>1, <1>6, FreshUnused DEF Owns
  <2>2. Rows(rel)' = rel.wrote
    BY <1>2, FreshUnused DEF Rows
  <2>3. ASSUME NEW r \in query[q].reads
        PROVE  r.run \in Tokens(query[q]) /\ Rows(r)' = r.wrote
    <3>1. r.run \in Tokens(query[q]) /\ Rows(r) = r.wrote
      BY <1>1 DEF Owns
    <3>2. r.run # Fresh
      BY <1>1, <3>1, FreshUnused
    <3> QED
      BY <1>2, <3>1, <3>2 DEF Rows
  <2>4. \A r \in query'[q].reads : r.run \in Tokens(query'[q]) /\ Rows(r)' = r.wrote
    BY <1>2, <1>3, <1>5, <1>6, <2>2, <2>3
  <2>5. query'[q].misread = FALSE /\ query'[q].pc = "applied"
    BY <1>1, <1>3, <1>5 DEF Owns
  <2> QED
    BY <1>0, <2>1, <2>4, <2>5 DEF Owns
<1>8. ASSUME NEW p \in Queries, p # q PROVE Owns(p)'
  <2>1. Owns(p) /\ query'[p] = query[p]
    BY <1>5, <1>8 DEF SInv
  <2>2. Going(query[p]) => \A r : r.run \in Tokens(query[p]) => (r \in state' <=> r \in state)
    BY <1>2, FreshUnused
  <2> QED
    BY <1>0, <2>1, <2>2, FreshUnused, OwnsKept
<1>9. Apart'
  BY <1>1, <1>5, <1>6, FreshUnused DEF SInv, Apart
<1> QED
  BY <1>0, <1>5, <1>7, <1>8, <1>9 DEF SInv

\* A query that ends, dropping rows of its own tokens at most, and leaving rows no query reads.
LEMMA EndSafe ==
    ASSUME SInv, NEW q \in Queries,
           NEW pc \in {"done", "failed", "coreThrew", "tailThrew", "lost"},
           NEW rec, DOMAIN rec = QueryFields, rec.pc = pc, rec.misread = FALSE,
           query' = [query EXCEPT ![q] = rec], db' = db, seq' \in Nat, seq' >= seq,
           \A r \in state' : r \in state \/ (r.run \in 1 .. seq' /\ r.run > seq),
           \A r \in state : r \in state' \/ (Going(query[q]) /\ r.run \in Tokens(query[q]))
    PROVE  SInv'
<1>1. /\ Shape' /\ query'[q] = rec /\ \A p \in Queries : p # q => query'[p] = query[p]
  BY ShapeKept DEF SInv
<1>2. Owns(q)' /\ ~Going(query'[q])
  BY <1>1 DEF Owns, Going
<1>3. ASSUME NEW p \in Queries, p # q PROVE Owns(p)'
  <2>1. Owns(p) /\ query'[p] = query[p] /\ seq \in Nat
    BY <1>1, <1>3 DEF SInv, Shape
  <2>2. ASSUME Going(query[p])
        PROVE  db' = "open" /\ \A r : r.run \in Tokens(query[p]) => (r \in state' <=> r \in state)
    <3>1. db = "open" /\ Tokens(query[p]) \subseteq 1 .. seq
      BY <2>1, <2>2 DEF Owns
    <3>2. Going(query[q]) => Tokens(query[p]) \cap Tokens(query[q]) = {}
      BY <1>3, <2>2 DEF SInv, Apart
    <3>3. ASSUME NEW r, r.run \in Tokens(query[p]) PROVE r \in state' <=> r \in state
      BY <2>1, <3>1, <3>2, <3>3
    <3> QED
      BY <3>1, <3>3
  <2> QED
    BY <2>1, <2>2, OwnsKept
<1>4. Apart'
  BY <1>1, <1>2, ApartEnded DEF SInv
<1> QED
  BY <1>1, <1>2, <1>3, <1>4 DEF SInv

\* What a query in flight holds, and what its reads find.
LEMMA InFlightFacts ==
    ASSUME SInv, NEW q \in Queries, query[q].pc \in {"headed", "applied", "away", "driven"}
    PROVE  /\ DOMAIN query[q] = QueryFields /\ query[q].misread = FALSE /\ seq \in Nat
           /\ Reaches(q) => Going(query[q])
           /\ Reaches(q) => ~Misreads(query[q])
<1>1. DOMAIN query[q] = QueryFields /\ query[q].misread = FALSE /\ seq \in Nat
  BY DEF SInv, Shape, Owns
<1>2. Reaches(q) => Going(query[q])
  BY DEF Reaches, Going
<1>3. Going(query[q]) => ~Misreads(query[q])
  BY NoMisread DEF SInv, Owns
<1> QED
  BY <1>1, <1>2, <1>3

LEMMA CoreThrowsSafe == ASSUME SInv, NEW q \in Queries, CoreThrows(q) PROVE SInv'
<1>1. /\ query[q].pc = "headed" /\ Reaches(q) /\ seq' = Fresh /\ db' = db
      /\ query' = [query EXCEPT ![q] = Ended(query[q], "coreThrew")]
  BY DEF CoreThrows
<1>2. PICK n \in 0 .. MaxRounds : state' = Without(query[q].runs) \cup Relaxed(q, Fresh, n).rows
  BY DEF CoreThrows
<1>3. \A r \in Relaxed(q, Fresh, n).rows : r.run = Fresh
  BY DEF Relaxed
<1>4. \A r \in state' : r \in state \/ (r.run \in 1 .. seq' /\ r.run > seq)
  BY <1>1, <1>2, <1>3, FreshUnused DEF Without, SInv, Shape
<1>5. \A r \in state : r \in state' \/ (Going(query[q]) /\ r.run \in Tokens(query[q]))
  <2>1. Going(query[q]) /\ \A r \in state : r.run \in 1 .. seq
    BY <1>1, InFlightFacts DEF SInv, Shape
  <2>2. ASSUME NEW r \in state, r \notin state' PROVE r.run \in Tokens(query[q])
    <3>1. r.run \in query[q].runs
      BY <1>2, <2>2 DEF Without
    <3>2. r.run # 0
      BY <2>1, FreshUnused DEF SInv, Shape
    <3> QED
      BY <3>1, <3>2 DEF Tokens
  <2> QED
    BY <2>1, <2>2
<1>6. DOMAIN query[q] = QueryFields /\ query[q].misread = FALSE
  BY <1>1, InFlightFacts
<1> DEFINE rec == Ended(query[q], "coreThrew")
<1>7. DOMAIN rec = QueryFields /\ rec.pc = "coreThrew" /\ rec.misread = FALSE
  BY <1>6, EndedFields
<1> HIDE DEF rec
<1>8. seq' \in Nat /\ seq' >= seq
  BY <1>1, FreshUnused DEF SInv, Shape
<1> QED
  BY <1>1, <1>4, <1>5, <1>7, <1>8, EndSafe DEF rec

\* The same three, for a step that leaves the store alone, or drops rows only.
LEMMA ShapeQuiet ==
    ASSUME Shape, NEW q \in Queries, NEW rec, DOMAIN rec = QueryFields,
           query' = [query EXCEPT ![q] = rec], state' = state, seq' = seq
    PROVE  /\ Shape'
           /\ query'[q] = rec
           /\ \A p \in Queries : p # q => query'[p] = query[p]
<1>1. seq' \in Nat /\ seq' >= seq /\ \A r \in state' : r \in state \/ r.run \in 1 .. seq'
  BY DEF Shape
<1> QED
  BY <1>1, ShapeKept

LEMMA OwnsQuiet ==
    ASSUME NEW p \in Queries, Owns(p), query'[p] = query[p], state' = state, seq' = seq, db' = db
    PROVE  Owns(p)'
BY DEF Owns, Rows

LEMMA EndQuiet ==
    ASSUME SInv, NEW q \in Queries, NEW pc \in {"done", "failed", "tailThrew"},
           NEW rec, DOMAIN rec = QueryFields, rec.pc = pc, rec.misread = FALSE,
           query' = [query EXCEPT ![q] = rec], db' = db, seq' = seq,
           \A r \in state' : r \in state,
           \A r \in state : r \in state' \/ (Going(query[q]) /\ r.run \in Tokens(query[q]))
    PROVE  SInv'
<1>1. seq' \in Nat /\ seq' >= seq
  BY DEF SInv, Shape
<1>2. \A r \in state' : r \in state \/ (r.run \in 1 .. seq' /\ r.run > seq)
  OBVIOUS
<1>3. pc \in {"done", "failed", "coreThrew", "tailThrew", "lost"}
  OBVIOUS
<1> QED
  BY <1>1, <1>2, <1>3, EndSafe

LEMMA LeaveSafe == ASSUME SInv, NEW q \in Queries, Leave(q) PROVE SInv'
<1>1. query[q].pc = "headed" /\ query' = [query EXCEPT ![q].pc = "away"] /\ UNCHANGED <<db, state, seq>>
  BY DEF Leave
<1> DEFINE rec == [query[q] EXCEPT !.pc = "away"]
<1>2. DOMAIN query[q] = QueryFields /\ seq \in Nat
  BY <1>1, InFlightFacts
<1>3. /\ DOMAIN rec = QueryFields /\ rec.pc = "away" /\ rec.out = query[q].out /\ rec.runs = query[q].runs
      /\ rec.reads = query[q].reads /\ rec.misread = query[q].misread /\ rec.cut = query[q].cut
  BY <1>2 DEF QueryFields
<1>4. query' = [query EXCEPT ![q] = rec]
  BY <1>1
<1> HIDE DEF rec
<1>5. /\ Shape' /\ query'[q] = rec /\ \A p \in Queries : p # q => query'[p] = query[p]
  BY <1>1, <1>2, <1>3, <1>4, ShapeQuiet DEF SInv
<1>6. /\ Going(query'[q]) <=> Going(query[q])
      /\ Tokens(query'[q]) = Tokens(query[q])
  BY <1>1, <1>3, <1>5 DEF Going, Tokens
<1>7. Owns(q)'
  BY <1>1, <1>3, <1>5, <1>6 DEF SInv, Owns, Rows
<1>8. \A p \in Queries : p # q => Owns(p)'
  BY <1>1, <1>2, <1>5, OwnsQuiet DEF SInv
<1>9. Apart'
  BY <1>5, <1>6, ApartKept DEF SInv
<1> QED
  BY <1>1, <1>5, <1>7, <1>8, <1>9 DEF SInv

LEMMA ResumeSafe == ASSUME SInv, NEW q \in Queries, Resume(q) PROVE SInv'
<1> DEFINE rec == [query[q] EXCEPT !.runs = @ \cup ({query[q].out} \ {0}), !.out = 0, !.at = @ + 1]
           ahead == Advanced(q, rec)
<1>1. /\ query[q].pc \in {"applied", "away"} /\ query' = [query EXCEPT ![q] = ahead]
      /\ ahead.pc = "headed" \/ rec.at <= Len(Segments[q]) => Reaches(q)
      /\ UNCHANGED <<db, state, seq>>
  BY DEF Resume
<1>2. DOMAIN query[q] = QueryFields /\ seq \in Nat /\ query[q].misread = FALSE
  BY <1>1, InFlightFacts
<1>3. /\ DOMAIN rec = QueryFields /\ rec.out = 0 /\ rec.runs = query[q].runs \cup ({query[q].out} \ {0})
      /\ rec.reads = query[q].reads /\ rec.misread = query[q].misread /\ rec.cut = query[q].cut
  BY <1>2 DEF QueryFields
<1>4. Follows(q, rec, ahead)
  BY <1>3, AdvancedFollows
<1> HIDE DEF ahead, rec
<1>5. DOMAIN ahead = QueryFields
  BY <1>4 DEF Follows
<1>6. /\ Shape' /\ query'[q] = ahead /\ \A p \in Queries : p # q => query'[p] = query[p]
  BY <1>1, <1>2, <1>5, ShapeQuiet DEF SInv
<1>7. ahead.misread = FALSE
  <2>1. CASE Reaches(q)
    <3>1. ~Misreads(rec)
      BY <1>1, <1>3, <2>1, InFlightFacts DEF Misreads
    <3> QED
      BY <1>2, <1>3, <1>4, <3>1 DEF Follows
  <2>2. CASE ~Reaches(q)
    BY <1>1, <1>2, <1>3, <1>4, <2>2 DEF Follows
  <2> QED
    BY <2>1, <2>2
<1>8. /\ Going(query'[q]) <=> Going(query[q])
      /\ Tokens(query'[q]) = Tokens(query[q])
  BY <1>1, <1>3, <1>4, <1>6 DEF Going, Tokens, Follows
<1>9. Owns(q)'
  <2>1. query'[q].reads = query[q].reads /\ query'[q].out = 0 /\ query'[q].pc # "idle"
    BY <1>3, <1>4, <1>6 DEF Follows
  <2> QED
    BY <1>1, <1>6, <1>7, <1>8, <2>1 DEF SInv, Owns, Rows
<1>10. \A p \in Queries : p # q => Owns(p)'
  BY <1>1, <1>2, <1>6, OwnsQuiet DEF SInv
<1>11. Apart'
  BY <1>6, <1>8, ApartKept DEF SInv
<1> QED
  BY <1>1, <1>6, <1>9, <1>10, <1>11 DEF SInv

\* Dropping a set of this query's tokens, where its tables can be reached, takes no other query's row.
LEMMA DropsOwn ==
    ASSUME SInv, NEW q \in Queries, query[q].pc \in {"headed", "applied", "away", "driven"},
           NEW runs, runs \ {0} \subseteq Tokens(query[q]),
           state' = IF Reaches(q) THEN Without(runs) ELSE state
    PROVE  /\ \A r \in state' : r \in state
           /\ \A r \in state : r \in state' \/ (Going(query[q]) /\ r.run \in Tokens(query[q]))
<1>1. \A r \in state' : r \in state
  BY DEF Without
<1>2. ASSUME NEW r \in state, r \notin state'
      PROVE  Going(query[q]) /\ r.run \in Tokens(query[q])
  <2>1. Reaches(q) /\ r.run \in runs
    BY <1>2 DEF Without
  <2>2. r.run # 0
    BY DEF SInv, Shape
  <2> QED
    BY <2>1, <2>2, InFlightFacts
<1> QED
  BY <1>1, <1>2

LEMMA DeclineSafe == ASSUME SInv, NEW q \in Queries, Decline(q) PROVE SInv'
<1> DEFINE rec == Ended(query[q], "failed")
           runs == query[q].runs \cup ({query[q].out} \ {0})
<1>1. /\ query[q].pc \in {"headed", "applied", "away"} /\ query' = [query EXCEPT ![q] = rec]
      /\ state' = IF Reaches(q) THEN Without(runs) ELSE state
      /\ db' = db /\ seq' = seq
  BY DEF Decline, Throw
<1>2. DOMAIN query[q] = QueryFields /\ seq \in Nat /\ query[q].misread = FALSE
  BY <1>1, InFlightFacts
<1>3. DOMAIN rec = QueryFields /\ rec.pc = "failed" /\ rec.misread = FALSE
  BY <1>2, EndedFields
<1>4. runs \ {0} \subseteq Tokens(query[q])
  BY DEF Tokens
<1> HIDE DEF rec, runs
<1>5. /\ \A r \in state' : r \in state
      /\ \A r \in state : r \in state' \/ (Going(query[q]) /\ r.run \in Tokens(query[q]))
  BY <1>1, <1>4, DropsOwn
<1> QED
  BY <1>1, <1>2, <1>3, <1>5, EndQuiet

\* The record of a query its last statement answered, or that failed at it.
LEMMA TailFields ==
    ASSUME SInv, NEW q \in Queries, query[q].pc = "driven", NEW pc, NEW rec,
           \/ Reaches(q) /\ rec = [Ended(query[q], pc) EXCEPT !.misread = @ \/ Misreads(query[q])]
           \/ rec = Ended(query[q], pc)
    PROVE  DOMAIN rec = QueryFields /\ rec.pc = pc /\ rec.misread = FALSE
<1>1. DOMAIN query[q] = QueryFields /\ query[q].misread = FALSE /\ (Reaches(q) => ~Misreads(query[q]))
  BY InFlightFacts
<1> DEFINE e == Ended(query[q], pc)
<1>2. DOMAIN e = QueryFields /\ e.pc = pc /\ e.misread = FALSE
  BY <1>1, EndedFields
<1> HIDE DEF e
<1>3. CASE rec = e
  BY <1>2, <1>3
<1>4. CASE Reaches(q) /\ rec = [e EXCEPT !.misread = @ \/ Misreads(query[q])]
  BY <1>1, <1>2, <1>4 DEF QueryFields
<1> QED
  BY <1>3, <1>4 DEF e

LEMMA FrameSafe == ASSUME SInv, NEW q \in Queries, Frame(q) PROVE SInv'
<1>1. /\ query[q].pc = "driven" /\ db' = db /\ seq' = seq
      /\ state' = IF Reaches(q) THEN Without(query[q].runs) ELSE state
  BY DEF Frame
<1>2. PICK pc, rec :
        /\ pc \in {"done", "failed"}
        /\ query' = [query EXCEPT ![q] = rec]
        /\ \/ Reaches(q) /\ rec = [Ended(query[q], pc) EXCEPT !.misread = @ \/ Misreads(query[q])]
           \/ rec = Ended(query[q], pc)
  BY DEF Frame
<1>3. DOMAIN rec = QueryFields /\ rec.pc = pc /\ rec.misread = FALSE
  BY <1>1, <1>2, TailFields
<1>4. query[q].runs \ {0} \subseteq Tokens(query[q]) /\ seq \in Nat
  BY DEF Tokens, SInv, Shape
<1>5. /\ \A r \in state' : r \in state
      /\ \A r \in state : r \in state' \/ (Going(query[q]) /\ r.run \in Tokens(query[q]))
  BY <1>1, <1>4, DropsOwn
<1> QED
  BY <1>1, <1>2, <1>3, <1>4, <1>5, EndQuiet

LEMMA TransferSafe == ASSUME SInv, NEW q \in Queries, Transfer(q) PROVE SInv'
<1>1. query[q].pc = "driven" /\ db' = db /\ seq' = seq /\ state' = state /\ seq \in Nat
  BY DEF Transfer, SInv, Shape
<1>2. PICK pc, rec :
        /\ pc \in {"done", "tailThrew"}
        /\ query' = [query EXCEPT ![q] = rec]
        /\ \/ Reaches(q) /\ rec = [Ended(query[q], pc) EXCEPT !.misread = @ \/ Misreads(query[q])]
           \/ rec = Ended(query[q], pc)
  BY DEF Transfer
<1>3. DOMAIN rec = QueryFields /\ rec.pc = pc /\ rec.misread = FALSE
  BY <1>1, <1>2, TailFields
<1> QED
  BY <1>1, <1>2, <1>3, EndQuiet

LEMMA FilterSafe == ASSUME SInv, NEW q \in Queries, Filter(q) PROVE SInv'
<1> DEFINE cores == {i \in DOMAIN Segments[q] : Segments[q][i] = "olap"}
<1>1. /\ query[q].pc = "idle" /\ db' = db
      /\ DOMAIN query[q] = QueryFields /\ query[q].misread = FALSE /\ seq \in Nat
  BY DEF Filter, Arrives, SInv, Shape, Owns
<1>2. Cardinality(cores) \in Nat /\ (cores # {} => Cardinality(cores) >= 1)
  <2>1. Segments[q] \in Seq({"olap", "sync", "remote"})
    BY SegmentAssumption
  <2>2. DOMAIN Segments[q] = 1 .. Len(Segments[q]) /\ Len(Segments[q]) \in Nat
    BY <2>1
  <2>3. IsFiniteSet(cores)
    <3>1. IsFiniteSet(1 .. Len(Segments[q]))
      BY <2>2, FS_Interval
    <3>2. cores \in SUBSET (1 .. Len(Segments[q]))
      BY <2>2
    <3> HIDE DEF cores
    <3> QED
      BY <3>1, <3>2, FS_Subset
  <2> HIDE DEF cores
  <2> QED
    BY <2>3, FS_CardinalityType, FS_EmptySet
<1> DEFINE count == Cardinality(cores)
<1>3. /\ seq' = IF cores = {} THEN seq ELSE seq + count
      /\ \/ /\ \E n \in 0 .. MaxRounds :
                 state' = state \cup UNION {Relaxed(q, seq + i, n).rows : i \in 1 .. count}
            /\ query' = [query EXCEPT ![q] = Ended(query[q], "done")]
         \/ /\ query' = [query EXCEPT ![q] = Ended(query[q], "failed")]
            /\ state' = state
         \/ /\ cores # {}
            /\ query' = [query EXCEPT ![q] = Ended(query[q], "coreThrew")]
            /\ \E n \in 0 .. MaxRounds : state' = state \cup Relaxed(q, seq + count, n).rows
  BY DEF Filter
<1>4. count = 0 => cores = {}
  BY <1>2
<1> HIDE DEF cores
<1>5. seq' \in Nat /\ seq' >= seq /\ (cores # {} => seq' = seq + count)
  BY <1>1, <1>2, <1>3
<1>6. \A run, n : \A r \in Relaxed(q, run, n).rows : r.run = run
  BY DEF Relaxed
<1>7. \A r \in state' : r \in state \/ (r.run \in 1 .. seq' /\ r.run > seq)
  <2>1. CASE \E n \in 0 .. MaxRounds :
               state' = state \cup UNION {Relaxed(q, seq + i, n).rows : i \in 1 .. count}
    <3>1. ASSUME NEW r \in state', r \notin state
          PROVE  \E i \in 1 .. count : r.run = seq + i
      BY <1>6, <2>1, <3>1
    <3>2. ASSUME NEW i \in 1 .. count PROVE cores # {}
      BY <1>2, <3>2, FS_EmptySet
    <3> QED
      BY <1>1, <1>2, <1>5, <3>1, <3>2
  <2>2. CASE state' = state
    BY <2>2
  <2>3. CASE /\ cores # {}
             /\ \E n \in 0 .. MaxRounds : state' = state \cup Relaxed(q, seq + count, n).rows
    BY <1>1, <1>2, <1>5, <1>6, <2>3
  <2> QED
    BY <1>3, <2>1, <2>2, <2>3
<1>8. \A r \in state : r \in state' \/ (Going(query[q]) /\ r.run \in Tokens(query[q]))
  BY <1>3
<1>9. PICK pc \in {"done", "failed", "coreThrew"} : query' = [query EXCEPT ![q] = Ended(query[q], pc)]
  BY <1>3
<1> DEFINE rec == Ended(query[q], pc)
<1>10. DOMAIN rec = QueryFields /\ rec.pc = pc /\ rec.misread = FALSE
  BY <1>1, EndedFields
<1> HIDE DEF rec, count
<1> QED
  BY <1>1, <1>5, <1>7, <1>8, <1>9, <1>10, EndSafe DEF rec

\* A closed handle: whoever waits never reaches the tables again.
LEMMA DestroySafe == ASSUME SInv, Warm = FALSE, Destroy PROVE SInv'
<1>1. /\ db' = "open" /\ state' = {} /\ seq' = 0
      /\ query' = [q \in Queries |-> IF InFlight(q) THEN [query[q] EXCEPT !.cut = TRUE] ELSE query[q]]
  BY DEF Destroy
<1>2. ASSUME NEW q \in Queries
      PROVE  DOMAIN query'[q] = QueryFields /\ Owns(q)' /\ ~Going(query'[q])
  <2>1. DOMAIN query[q] = QueryFields /\ Owns(q)
    BY DEF SInv, Shape
  <2>2. CASE InFlight(q)
    <3>1. query'[q] = [query[q] EXCEPT !.cut = TRUE]
      BY <1>1, <2>2
    <3>2. /\ DOMAIN query'[q] = QueryFields /\ query'[q].cut = TRUE
          /\ query'[q].pc = query[q].pc /\ query'[q].misread = query[q].misread
      BY <2>1, <3>1 DEF QueryFields
    <3> QED
      BY <2>1, <2>2, <3>2 DEF Owns, Going, InFlight
  <2>3. CASE ~InFlight(q)
    <3>1. query'[q] = query[q]
      BY <1>1, <2>3
    <3> QED
      BY <2>1, <2>3, <3>1 DEF Owns, Going, InFlight
  <2> QED
    BY <2>2, <2>3
<1>3. Shape'
  BY <1>1, <1>2 DEF Shape
<1>4. Apart'
  BY <1>2 DEF Apart
<1> QED
  BY <1>1, <1>2, <1>3, <1>4 DEF SInv

LEMMA CrashSafe == ASSUME SInv, Crash PROVE SInv'
<1>1. /\ db' = "down" /\ state' = state /\ seq' = seq
      /\ query' = [q \in Queries |-> IF InFlight(q) THEN Ended(query[q], "lost") ELSE query[q]]
  BY DEF Crash
<1>2. ASSUME NEW q \in Queries
      PROVE  DOMAIN query'[q] = QueryFields /\ Owns(q)' /\ ~Going(query'[q])
  <2>1. DOMAIN query[q] = QueryFields /\ Owns(q)
    BY DEF SInv, Shape
  <2>2. CASE InFlight(q)
    <3>1. query'[q] = Ended(query[q], "lost")
      BY <1>1, <2>2
    <3> QED
      BY <2>1, <3>1, EndedFields, OwnsEnded
  <2>3. CASE ~InFlight(q)
    <3>1. query'[q] = query[q]
      BY <1>1, <2>3
    <3> QED
      BY <2>1, <2>3, <3>1 DEF Owns, Going, InFlight
  <2> QED
    BY <2>2, <2>3
<1>3. Shape'
  BY <1>1, <1>2 DEF Shape, SInv
<1>4. Apart'
  BY <1>2 DEF Apart
<1> QED
  BY <1>1, <1>2, <1>3, <1>4 DEF SInv

\* Nobody is in flight over a dead process, so the sweep takes orphans only.
LEMMA RestartSafe == ASSUME SInv, Restart PROVE SInv'
<1>1. db = "down" /\ db' = "open" /\ state' = {} /\ seq' = seq /\ query' = query
  BY DEF Restart
<1>2. \A q \in Queries : Owns(q)' /\ ~Going(query'[q])
  BY <1>1 DEF SInv, Owns
<1>3. Shape' /\ Apart'
  BY <1>1, <1>2 DEF SInv, Shape, Apart
<1> QED
  BY <1>1, <1>2, <1>3 DEF SInv

LEMMA InitSafe == Init => SInv
<1> SUFFICES ASSUME Init PROVE SInv
  OBVIOUS
<1>1. \A q \in Queries : /\ DOMAIN query[q] = QueryFields /\ query[q].pc = "idle" /\ query[q].misread = FALSE
                         /\ query[q].reads = {} /\ query[q].runs = {} /\ query[q].out = 0
  BY DEF Init, QueryFields
<1>2. Shape
  BY <1>1 DEF Init, Shape
<1>3. \A q \in Queries : Owns(q) /\ ~Going(query[q])
  BY <1>1 DEF Owns, Going
<1>4. Apart
  BY <1>3 DEF Apart
<1> QED
  BY <1>2, <1>3, <1>4 DEF Init, SInv

LEMMA StepSafe == SInv /\ Warm = FALSE /\ [Next]_vars => SInv'
<1> SUFFICES ASSUME SInv, Warm = FALSE, [Next]_vars PROVE SInv'
  OBVIOUS
<1>1. CASE UNCHANGED vars
  BY <1>1 DEF vars, SInv, Shape, Owns, Apart, Rows
<1>2. ASSUME NEW q \in Queries, Begin(q) PROVE SInv'
  BY <1>2, BeginSafe
<1>3. ASSUME NEW q \in Queries, Core(q) PROVE SInv'
  BY <1>3, CoreSafe
<1>4. ASSUME NEW q \in Queries, CoreThrows(q) PROVE SInv'
  BY <1>4, CoreThrowsSafe
<1>5. ASSUME NEW q \in Queries, Leave(q) PROVE SInv'
  BY <1>5, LeaveSafe
<1>6. ASSUME NEW q \in Queries, Resume(q) PROVE SInv'
  BY <1>6, ResumeSafe
<1>7. ASSUME NEW q \in Queries, Decline(q) PROVE SInv'
  BY <1>7, DeclineSafe
<1>8. ASSUME NEW q \in Queries, Frame(q) PROVE SInv'
  BY <1>8, FrameSafe
<1>9. ASSUME NEW q \in Queries, Transfer(q) PROVE SInv'
  BY <1>9, TransferSafe
<1>10. ASSUME NEW q \in Queries, Filter(q) PROVE SInv'
  BY <1>10, FilterSafe
<1>11. CASE Destroy
  BY <1>11, DestroySafe
<1>12. CASE Crash
  BY <1>12, CrashSafe
<1>13. CASE Restart
  BY <1>13, RestartSafe
<1> QED
  BY <1>1, <1>2, <1>3, <1>4, <1>5, <1>6, <1>7, <1>8, <1>9, <1>10, <1>11, <1>12, <1>13 DEF Next

\* Where a destroy closes the graph's handle, every statement that reads an algorithm's relation
\* finds what its own query's core wrote last, for any number of queries in flight, of segments in
\* each, of rounds, of crashes and of destroys: allocBarrierRun's tokens keep them apart.
THEOREM RunsStayApart == Warm = FALSE => (Spec => []ReadsOwnRun)
<1> SUFFICES ASSUME Warm = FALSE PROVE Spec => []ReadsOwnRun
  OBVIOUS
<1>1. SInv => ReadsOwnRun
  BY DEF SInv, Owns, ReadsOwnRun
<1>2. SInv /\ [Next]_vars => SInv'
  BY StepSafe
<1> QED
  BY <1>1, <1>2, InitSafe, PTL DEF Spec

-----------------------------------------------------------------------------
(* What a query leaves behind, whether a destroy closes the handle or not. *)

\* Where a row of a query may still be.
Kept(r) ==
    \/ /\ query[r.by].pc \in {"headed", "applied", "away", "driven"}
       /\ ~query[r.by].cut
       /\ r.run \in Tokens(query[r.by])
    \/ query[r.by].pc = "coreThrew"
    \/ query[r.by].pc \in {"done", "tailThrew"} /\ Answer[r.by] # "framed"

\* A row is of a query that holds its token still, or of one that ended where nobody drops rows.
LInv ==
    /\ seq \in Nat
    /\ db \in {"open", "wiped", "down"}
    /\ query = [q \in Queries |-> query[q]]
    /\ \A q \in Queries : /\ DOMAIN query[q] = QueryFields
                          /\ query[q].pc \in {"idle", "headed", "driven"} => query[q].out = 0
                          /\ db = "down" => ~InFlight(q)
    /\ \A r \in state : r.by \in Queries /\ r.run \in Nat \ {0}
    /\ db = "wiped" => state = {}
    /\ db # "down" => \A r \in state : Kept(r)

\* A step of one query: the others' rows are no more than they were, and its own are accounted for.
LEMMA LeftStep ==
    ASSUME LInv, NEW q \in Queries, NEW rec, DOMAIN rec = QueryFields,
           query' = [query EXCEPT ![q] = rec],
           rec.pc \in {"idle", "headed", "driven"} => rec.out = 0,
           db # "down", db' \in {"open", "wiped"}, db' = "wiped" => state' = {}, seq' \in Nat,
           \A r \in state' : r \in state \/ (r.by = q /\ r.run \in Nat \ {0}),
           \A r \in state' : r.by = q =>
               \/ rec.pc \in {"headed", "applied", "away", "driven"} /\ ~rec.cut /\ r.run \in Tokens(rec)
               \/ rec.pc = "coreThrew"
               \/ rec.pc \in {"done", "tailThrew"} /\ Answer[q] # "framed"
    PROVE  LInv'
<1>1. /\ query'[q] = rec /\ \A p \in Queries : p # q => query'[p] = query[p]
      /\ query' = [p \in Queries |-> query'[p]]
  BY DEF LInv
<1>2. \A p \in Queries : /\ DOMAIN query'[p] = QueryFields
                         /\ query'[p].pc \in {"idle", "headed", "driven"} => query'[p].out = 0
  BY <1>1 DEF LInv
<1>3. \A r \in state' : r.by \in Queries /\ r.run \in Nat \ {0}
  BY DEF LInv
<1>4. ASSUME NEW r \in state' PROVE Kept(r)'
  <2>1. CASE r.by = q
    BY <1>1, <2>1 DEF Kept, Tokens
  <2>2. CASE r.by # q
    <3>1. Kept(r) /\ query'[r.by] = query[r.by]
      BY <1>1, <1>3, <2>2 DEF LInv
    <3> QED
      BY <3>1 DEF Kept, Tokens
  <2> QED
    BY <2>1, <2>2
<1> QED
  BY <1>1, <1>2, <1>3, <1>4 DEF LInv

\* The rows a query in flight has, if it can reach the tables or not.
LEMMA LeftRows ==
    ASSUME LInv, NEW q \in Queries, query[q].pc \in {"headed", "applied", "away", "driven"}
    PROVE  /\ db # "down" /\ DOMAIN query[q] = QueryFields
           /\ \A r \in state : r.by = q => /\ r.run \in Tokens(query[q]) /\ r.run # 0
                                           /\ Reaches(q) /\ ~query[q].cut
<1>1. db # "down" /\ DOMAIN query[q] = QueryFields
  BY DEF LInv, InFlight
<1>2. ASSUME NEW r \in state, r.by = q
      PROVE  r.run \in Tokens(query[q]) /\ r.run # 0 /\ ~query[q].cut /\ Kept(r)
  BY <1>1, <1>2 DEF LInv, Kept
<1>3. state # {} => db # "wiped"
  BY DEF LInv
<1> QED
  BY <1>1, <1>2, <1>3 DEF Reaches, LInv

LEMMA LeftIdle ==
    ASSUME LInv, NEW q \in Queries, query[q].pc = "idle", db # "down"
    PROVE  DOMAIN query[q] = QueryFields /\ query[q].out = 0 /\ \A r \in state : r.by # q
BY DEF LInv, Kept

LEMMA RelaxedRows ==
    ASSUME NEW q, NEW run, NEW n
    PROVE  \A r \in Relaxed(q, run, n).rows : r.by = q /\ r.run = run
BY DEF Relaxed

LEMMA BeginLeaves == ASSUME LInv, NEW q \in Queries, Begin(q) PROVE LInv'
<1> DEFINE rec == Advanced(q, query[q])
<1>1. /\ query[q].pc = "idle" /\ db # "down" /\ db' = "open" /\ state' = state /\ seq' = seq
      /\ query' = [query EXCEPT ![q] = rec]
  BY DEF Begin, Arrives
<1>2. DOMAIN query[q] = QueryFields /\ query[q].out = 0 /\ \A r \in state : r.by # q
  BY <1>1, LeftIdle
<1>3. DOMAIN rec = QueryFields /\ rec.out = 0
  <2>1. Follows(q, query[q], rec)
    BY <1>2, AdvancedFollows
  <2> HIDE DEF rec
  <2> QED
    BY <1>2, <2>1 DEF Follows
<1> HIDE DEF rec
<1> QED
  BY <1>1, <1>2, <1>3, LeftStep DEF LInv

LEMMA CoreLeaves == ASSUME LInv, NEW q \in Queries, Core(q) PROVE LInv'
<1>1. /\ query[q].pc = "headed" /\ Reaches(q) /\ seq' = Fresh /\ db' = db /\ seq \in Nat
  BY DEF Core, LInv
<1>2. PICK new, rel :
        /\ state' = state \cup new
        /\ \A r \in new : r.by = q /\ r.run = Fresh
        /\ query' = [query EXCEPT ![q].pc = "applied", ![q].out = Fresh, ![q].reads = @ \cup {rel}]
  <2>1. CASE \E n \in 0 .. MaxRounds :
               LET done == Relaxed(q, Fresh, n)
                   wrote == {r \in done.rows : r.iter = n}
               IN  /\ state' = state \cup done.rows
                   /\ query' = [query EXCEPT ![q].pc = "applied", ![q].out = Fresh,
                                             ![q].reads = @ \cup {Relation(Fresh, done.round, wrote)}]
    <3>1. PICK n \in 0 .. MaxRounds :
            /\ state' = state \cup Relaxed(q, Fresh, n).rows
            /\ query' = [query EXCEPT ![q].pc = "applied", ![q].out = Fresh,
                           ![q].reads = @ \cup {Relation(Fresh, Relaxed(q, Fresh, n).round,
                                                         {r \in Relaxed(q, Fresh, n).rows : r.iter = n})}]
      BY <2>1
    <3> DEFINE rel == Relation(Fresh, Relaxed(q, Fresh, n).round, {r \in Relaxed(q, Fresh, n).rows : r.iter = n})
               new == Relaxed(q, Fresh, n).rows
    <3>2. \A r \in new : r.by = q /\ r.run = Fresh
      BY RelaxedRows
    <3> HIDE DEF rel, new
    <3> QED
      BY <3>1, <3>2 DEF rel, new
  <2>2. CASE /\ query' = [query EXCEPT ![q].pc = "applied", ![q].out = Fresh,
                                       ![q].reads = @ \cup {Relation(Fresh, 0, {})}]
             /\ UNCHANGED state
    <3> DEFINE rel == Relation(Fresh, 0, {})
    <3> HIDE DEF rel
    <3> DEFINE new == {}
    <3>1. state' = state \cup new /\ \A r \in new : r.by = q /\ r.run = Fresh
      BY <2>2
    <3>2. query' = [query EXCEPT ![q].pc = "applied", ![q].out = Fresh, ![q].reads = @ \cup {rel}]
      BY <2>2, Zenon DEF rel
    <3> HIDE DEF new
    <3> QED
      BY <3>1, <3>2
  <2> QED
    BY <2>1, <2>2 DEF Core
<1> DEFINE rec == [query[q] EXCEPT !.pc = "applied", !.out = Fresh, !.reads = @ \cup {rel}]
<1>3. /\ db # "down" /\ DOMAIN query[q] = QueryFields /\ query[q].out = 0 /\ ~query[q].cut
      /\ \A r \in state : r.by = q => r.run \in Tokens(query[q])
  BY <1>1, LeftRows DEF LInv, Reaches
<1>4. /\ DOMAIN rec = QueryFields /\ rec.pc = "applied" /\ rec.out = Fresh /\ rec.runs = query[q].runs
      /\ rec.cut = query[q].cut /\ query' = [query EXCEPT ![q] = rec]
  BY <1>2, <1>3 DEF QueryFields
<1> HIDE DEF rec
<1>5. Fresh \in Nat \ {0}
  BY <1>1 DEF Fresh
<1>6. \A r \in state' : r.by = q => r.run \in Tokens(rec)
  BY <1>2, <1>3, <1>4, <1>5 DEF Tokens
<1> QED
  <2>1. \A r \in state' : r \in state \/ (r.by = q /\ r.run \in Nat \ {0})
    BY <1>2, <1>5
  <2>2. db' \in {"open", "wiped"} /\ (db' = "wiped" => state' = {}) /\ seq' \in Nat
    BY <1>1, <1>5 DEF Reaches
  <2> QED
    BY <1>3, <1>4, <1>6, <2>1, <2>2, LeftStep

LEMMA CoreThrowsLeaves == ASSUME LInv, NEW q \in Queries, CoreThrows(q) PROVE LInv'
<1> DEFINE rec == Ended(query[q], "coreThrew")
<1>1. /\ query[q].pc = "headed" /\ Reaches(q) /\ seq' = Fresh /\ db' = db /\ seq \in Nat
      /\ query' = [query EXCEPT ![q] = rec]
  BY DEF CoreThrows, LInv
<1>2. PICK n \in 0 .. MaxRounds : state' = Without(query[q].runs) \cup Relaxed(q, Fresh, n).rows
  BY DEF CoreThrows
<1>3. db # "down" /\ DOMAIN query[q] = QueryFields
  BY <1>1, LeftRows
<1>4. DOMAIN rec = QueryFields /\ rec.pc = "coreThrew"
  BY <1>3, EndedFields
<1> HIDE DEF rec
<1>5. Fresh \in Nat \ {0}
  BY <1>1 DEF Fresh
<1>6. \A r \in state' : r \in state \/ (r.by = q /\ r.run \in Nat \ {0})
  BY <1>2, <1>5, RelaxedRows DEF Without
<1> QED
  BY <1>1, <1>3, <1>4, <1>5, <1>6, LeftStep DEF LInv, Reaches

LEMMA LeaveLeaves == ASSUME LInv, NEW q \in Queries, Leave(q) PROVE LInv'
<1> DEFINE rec == [query[q] EXCEPT !.pc = "away"]
<1>1. /\ query[q].pc = "headed" /\ query' = [query EXCEPT ![q] = rec] /\ UNCHANGED <<db, state, seq>>
  BY DEF Leave, LInv
<1>2. /\ db # "down" /\ DOMAIN query[q] = QueryFields
      /\ \A r \in state : r.by = q => r.run \in Tokens(query[q]) /\ ~query[q].cut
  BY <1>1, LeftRows
<1>3. /\ DOMAIN rec = QueryFields /\ rec.pc = "away" /\ rec.cut = query[q].cut
      /\ rec.runs = query[q].runs /\ rec.out = query[q].out
  BY <1>2 DEF QueryFields
<1> HIDE DEF rec
<1> QED
  BY <1>1, <1>2, <1>3, LeftStep DEF LInv, Tokens

LEMMA ResumeLeaves == ASSUME LInv, NEW q \in Queries, Resume(q) PROVE LInv'
<1> DEFINE rec == [query[q] EXCEPT !.runs = @ \cup ({query[q].out} \ {0}), !.out = 0, !.at = @ + 1]
           ahead == Advanced(q, rec)
<1>1. /\ query[q].pc \in {"applied", "away"} /\ query' = [query EXCEPT ![q] = ahead]
      /\ UNCHANGED <<db, state, seq>>
  BY DEF Resume
<1>2. /\ db # "down" /\ DOMAIN query[q] = QueryFields
      /\ \A r \in state : r.by = q => r.run \in Tokens(query[q]) /\ ~query[q].cut
  BY <1>1, LeftRows
<1>3. /\ DOMAIN rec = QueryFields /\ rec.out = 0 /\ rec.cut = query[q].cut
      /\ rec.runs = query[q].runs \cup ({query[q].out} \ {0})
  BY <1>2 DEF QueryFields
<1>4. /\ DOMAIN ahead = QueryFields /\ ahead.out = 0 /\ ahead.cut = query[q].cut
      /\ ahead.runs = query[q].runs \cup ({query[q].out} \ {0}) /\ ahead.pc \in {"headed", "driven"}
  <2> HIDE DEF rec
  <2>1. Follows(q, rec, ahead)
    BY <1>3, AdvancedFollows
  <2> HIDE DEF ahead
  <2> QED
    BY <1>3, <2>1 DEF Follows
<1> HIDE DEF ahead
<1>5. Tokens(ahead) = Tokens(query[q])
  BY <1>4 DEF Tokens
<1> QED
  BY <1>1, <1>2, <1>4, <1>5, LeftStep DEF LInv

LEMMA DeclineLeaves == ASSUME LInv, NEW q \in Queries, Decline(q) PROVE LInv'
<1> DEFINE rec == Ended(query[q], "failed")
           runs == query[q].runs \cup ({query[q].out} \ {0})
<1>1. /\ query[q].pc \in {"headed", "applied", "away"} /\ db' = db /\ seq' = seq
      /\ query' = [query EXCEPT ![q] = rec]
      /\ state' = IF Reaches(q) THEN Without(runs) ELSE state
  BY DEF Decline, Throw
<1>2. /\ db # "down" /\ DOMAIN query[q] = QueryFields
      /\ \A r \in state : r.by = q => r.run \in Tokens(query[q]) /\ Reaches(q)
  BY <1>1, LeftRows
<1>3. DOMAIN rec = QueryFields /\ rec.pc = "failed"
  BY <1>2, EndedFields
<1> HIDE DEF rec
<1>4. state' \subseteq state /\ \A r \in state' : r.by # q
  BY <1>1, <1>2 DEF Without, Tokens
<1>5. db' \in {"open", "wiped"} /\ (db' = "wiped" => state' = {}) /\ seq' \in Nat
  BY <1>1, <1>2, <1>4 DEF LInv
<1>6. db # "down" /\ query' = [query EXCEPT ![q] = rec]
  BY <1>1, <1>2
<1>7. \A r \in state' : r \in state \/ (r.by = q /\ r.run \in Nat \ {0})
  BY <1>4
<1> QED
  BY <1>3, <1>4, <1>5, <1>6, <1>7, LeftStep

LEMMA FrameLeaves == ASSUME LInv, NEW q \in Queries, Frame(q) PROVE LInv'
<1>1. /\ query[q].pc = "driven" /\ db' = db /\ seq' = seq
      /\ state' = IF Reaches(q) THEN Without(query[q].runs) ELSE state
  BY DEF Frame
<1>2. /\ db # "down" /\ DOMAIN query[q] = QueryFields /\ query[q].out = 0
      /\ \A r \in state : r.by = q => r.run \in Tokens(query[q]) /\ Reaches(q)
  BY <1>1, LeftRows DEF LInv
<1>3. PICK rec : DOMAIN rec = QueryFields /\ rec.pc \in {"done", "failed"} /\ query' = [query EXCEPT ![q] = rec]
  <2>1. DOMAIN Ended(query[q], "failed") = QueryFields /\ Ended(query[q], "failed").pc = "failed"
    BY <1>2, EndedFields
  <2> DEFINE e == Ended(query[q], "done")
             d == [e EXCEPT !.misread = @ \/ Misreads(query[q])]
  <2>2. DOMAIN e = QueryFields /\ e.pc = "done"
    BY <1>2, EndedFields
  <2>3. query' = [query EXCEPT ![q] = Ended(query[q], "failed")] \/ query' = [query EXCEPT ![q] = d]
    BY DEF Frame
  <2> HIDE DEF e
  <2>4. DOMAIN d = QueryFields /\ d.pc = "done"
    BY <2>2 DEF QueryFields
  <2> HIDE DEF d
  <2> QED
    BY <2>1, <2>3, <2>4
<1>4. state' \subseteq state /\ \A r \in state' : r.by # q
  BY <1>1, <1>2 DEF Without, Tokens
<1> QED
  BY <1>1, <1>2, <1>3, <1>4, LeftStep DEF LInv

LEMMA TransferLeaves == ASSUME LInv, NEW q \in Queries, Transfer(q) PROVE LInv'
<1>1. query[q].pc = "driven" /\ Answer[q] = "foreign" /\ UNCHANGED <<db, state, seq>>
  BY DEF Transfer
<1>2. db # "down" /\ DOMAIN query[q] = QueryFields
  BY <1>1, LeftRows
<1>3. PICK rec : DOMAIN rec = QueryFields /\ rec.pc \in {"done", "tailThrew"} /\ query' = [query EXCEPT ![q] = rec]
  <2>1. DOMAIN Ended(query[q], "tailThrew") = QueryFields /\ Ended(query[q], "tailThrew").pc = "tailThrew"
    BY <1>2, EndedFields
  <2> DEFINE e == Ended(query[q], "done")
             d == [e EXCEPT !.misread = @ \/ Misreads(query[q])]
  <2>2. DOMAIN e = QueryFields /\ e.pc = "done"
    BY <1>2, EndedFields
  <2>3. query' = [query EXCEPT ![q] = Ended(query[q], "tailThrew")] \/ query' = [query EXCEPT ![q] = d]
    BY DEF Transfer
  <2> HIDE DEF e
  <2>4. DOMAIN d = QueryFields /\ d.pc = "done"
    BY <2>2 DEF QueryFields
  <2> HIDE DEF d
  <2> QED
    BY <2>1, <2>3, <2>4
<1> QED
  BY <1>1, <1>2, <1>3, LeftStep DEF LInv

LEMMA FilterLeaves == ASSUME LInv, NEW q \in Queries, Filter(q) PROVE LInv'
<1> DEFINE cores == {i \in DOMAIN Segments[q] : Segments[q][i] = "olap"}
           k == Cardinality(cores)
<1>1. /\ query[q].pc = "idle" /\ db # "down" /\ db' = "open" /\ Answer[q] = "filter"
      /\ seq' = IF cores = {} THEN seq ELSE seq + k
  BY DEF Filter, Arrives
<1>2. k \in Nat /\ (cores # {} => k > 0)
  <2>1. Segments[q] \in Seq({"olap", "sync", "remote"})
    BY SegmentAssumption
  <2>2. cores \subseteq 1 .. Len(Segments[q]) /\ Len(Segments[q]) \in Nat
    BY <2>1
  <2>3. IsFiniteSet(cores)
    BY <2>2, FS_Interval, FS_Subset
  <2> QED
    BY <2>3, FS_CardinalityType, FS_EmptySet
<1> HIDE DEF k, cores
<1>3. DOMAIN query[q] = QueryFields /\ \A r \in state : r.by # q
  BY <1>1, LeftIdle
<1>4. seq \in Nat /\ seq' \in Nat
  BY <1>1, <1>2 DEF LInv
<1>5. \A n : \A i \in 1 .. k : \A r \in Relaxed(q, seq + i, n).rows : r.by = q /\ r.run \in Nat \ {0}
  BY <1>2, <1>4, RelaxedRows
<1>6. PICK rec : /\ DOMAIN rec = QueryFields /\ rec.pc \in {"done", "failed", "coreThrew"}
                 /\ query' = [query EXCEPT ![q] = rec]
                 /\ rec.pc = "failed" => state' = state
                 /\ \A r \in state' : r \in state \/ (r.by = q /\ r.run \in Nat \ {0})
  <2>1. CASE /\ \E n \in 0 .. MaxRounds : state' = state \cup UNION {Relaxed(q, seq + i, n).rows : i \in 1 .. k}
             /\ query' = [query EXCEPT ![q] = Ended(query[q], "done")]
    <3> DEFINE rec == Ended(query[q], "done")
    <3>1. DOMAIN rec = QueryFields /\ rec.pc = "done"
      BY <1>3, EndedFields
    <3> HIDE DEF rec
    <3>2. PICK n \in 0 .. MaxRounds : state' = state \cup UNION {Relaxed(q, seq + i, n).rows : i \in 1 .. k}
      BY <2>1
    <3>3. ASSUME NEW r \in state', r \notin state PROVE r.by = q /\ r.run \in Nat \ {0}
      <4>1. PICK i \in 1 .. k : r \in Relaxed(q, seq + i, n).rows
        BY <3>2, <3>3
      <4> QED
        BY <1>5, <4>1
    <3> QED
      BY <2>1, <3>1, <3>3 DEF rec
  <2>2. CASE UNCHANGED state /\ query' = [query EXCEPT ![q] = Ended(query[q], "failed")]
    BY <1>3, <2>2, EndedFields
  <2>3. CASE /\ cores # {} /\ query' = [query EXCEPT ![q] = Ended(query[q], "coreThrew")]
             /\ \E n \in 0 .. MaxRounds : state' = state \cup Relaxed(q, seq + k, n).rows
    <3>1. k \in 1 .. k
      BY <1>2, <2>3
    <3> QED
      BY <1>3, <1>5, <2>3, <3>1, EndedFields
  <2> QED
    BY <2>1, <2>2, <2>3 DEF Filter, cores, k
<1>7. db # "down" /\ (rec.pc = "failed" => \A r \in state' : r.by # q)
  BY <1>1, <1>3, <1>6
<1> QED
  BY <1>1, <1>4, <1>6, <1>7, LeftStep

LEMMA LifeLeaves == ASSUME LInv, Destroy \/ Crash \/ Restart PROVE LInv'
<1>1. ASSUME Destroy PROVE LInv'
  <2>1. /\ state' = {} /\ seq' = 0 /\ db' \in {"open", "wiped"}
        /\ query' = [q \in Queries |-> IF InFlight(q) /\ ~Warm THEN [query[q] EXCEPT !.cut = TRUE] ELSE query[q]]
    BY <1>1 DEF Destroy
  <2>2. ASSUME NEW q \in Queries
        PROVE  /\ DOMAIN query'[q] = QueryFields
               /\ query'[q].pc \in {"idle", "headed", "driven"} => query'[q].out = 0
    <3>1. DOMAIN query[q] = QueryFields /\ (query[q].pc \in {"idle", "headed", "driven"} => query[q].out = 0)
      BY DEF LInv
    <3> QED
      BY <2>1, <3>1 DEF QueryFields
  <2> QED
    BY <2>1, <2>2 DEF LInv
<1>2. ASSUME Crash PROVE LInv'
  <2>1. /\ db' = "down" /\ state' = state /\ seq' = seq
        /\ query' = [q \in Queries |-> IF InFlight(q) THEN Ended(query[q], "lost") ELSE query[q]]
    BY <1>2 DEF Crash
  <2>2. ASSUME NEW q \in Queries
        PROVE  /\ DOMAIN query'[q] = QueryFields /\ ~InFlight(q)'
               /\ query'[q].pc \in {"idle", "headed", "driven"} => query'[q].out = 0
    <3>1. DOMAIN query[q] = QueryFields /\ (query[q].pc \in {"idle", "headed", "driven"} => query[q].out = 0)
      BY DEF LInv
    <3>2. CASE InFlight(q)
      BY <2>1, <3>1, <3>2, EndedFields DEF InFlight
    <3>3. CASE ~InFlight(q)
      BY <2>1, <3>1, <3>3 DEF InFlight
    <3> QED
      BY <3>2, <3>3
  <2> QED
    BY <2>1, <2>2 DEF LInv
<1>3. ASSUME Restart PROVE LInv'
  BY <1>3 DEF Restart, LInv, InFlight
<1> QED
  BY <1>1, <1>2, <1>3

LEMMA LeavesStarts == Init => LInv
<1> SUFFICES ASSUME Init PROVE LInv
  OBVIOUS
<1>1. \A q \in Queries : DOMAIN query[q] = QueryFields /\ query[q].pc = "idle" /\ query[q].out = 0
  BY DEF Init, QueryFields
<1> QED
  BY <1>1 DEF Init, LInv, InFlight

LEMMA LeavesStep == LInv /\ [Next]_vars => LInv'
<1> SUFFICES ASSUME LInv, [Next]_vars PROVE LInv'
  OBVIOUS
<1>1. CASE UNCHANGED vars
  BY <1>1 DEF vars, LInv, Kept, InFlight
<1>2. ASSUME NEW q \in Queries,
             \/ Begin(q) \/ Core(q) \/ CoreThrows(q) \/ Leave(q) \/ Resume(q)
             \/ Decline(q) \/ Frame(q) \/ Transfer(q) \/ Filter(q)
      PROVE  LInv'
  BY <1>2, BeginLeaves, CoreLeaves, CoreThrowsLeaves, LeaveLeaves, ResumeLeaves, DeclineLeaves, FrameLeaves,
     TransferLeaves, FilterLeaves
<1>3. CASE Destroy \/ Crash \/ Restart
  BY <1>3, LifeLeaves
<1> QED
  BY <1>1, <1>2, <1>3 DEF Next

\* A query the framer answered, or that failed at any segment but in a core, leaves no scratch row
\* behind, nor does one whose process died once the store is constructed again: the drive's catch
\* (drive.ts), resolveNodes' finally (execute.ts) and the sweep (storage.ts) meet every row, for any
\* number of queries, of crashes and of destroys, whether a destroy closes the handle or not.
THEOREM FramedQueriesClean == Spec => []FramedLeaveNothing
<1>1. LInv => FramedLeaveNothing
  BY DEF LInv, Kept, FramedLeaveNothing, InFlight
<1> QED
  BY <1>1, LeavesStarts, LeavesStep, PTL DEF Spec
=============================================================================
