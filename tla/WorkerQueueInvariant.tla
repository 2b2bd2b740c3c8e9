----------------------- MODULE WorkerQueueInvariant -----------------------
(***************************************************************************)
(* The inductive invariant of a worker's queue, what the scoring and the   *)
(* culling compute, and the steps of the main loop that add, move or       *)
(* remove no entry.                                                        *)
(***************************************************************************)
EXTENDS WorkerQueue, FiniteSetTheorems, TLAPS

-----------------------------------------------------------------------------
(* The inductive invariant.                                                *)

Places == {"head", "select", "begin", "trim", "havoc", "abandon", "clean", "coop",
           "distance", "task", "recull", "resync", "loadbalance", "take", "sync"}

(* The types TypeOK leaves open: deviations and radii are numbers.         *)
Types ==
  /\ pc \in Places
  /\ allocs \in Entry /\ queue_buf \in Seq(1 .. allocs) /\ rows \in Seq(Entry)
  /\ input \in [Entry -> Input] /\ factor \in [Entry -> Nat] /\ id \in [Entry -> Nat]
  /\ fuzz_level \in [Entry -> 0 .. MaxLevel] /\ cal_failed \in [Entry -> 0 .. CAL_CHANCES]
  /\ center_deviation \in [Entry -> 0 .. DBL_MAX]
  /\ favored \subseteq 1 .. allocs /\ was_fuzzed \subseteq 1 .. allocs
  /\ fs_redundant \subseteq 1 .. allocs /\ disabled \subseteq 1 .. allocs
  /\ in_subdomain \subseteq 1 .. allocs /\ trim_done \subseteq 1 .. allocs
  /\ pending_favored \in Nat /\ pending_not_fuzzed \in Nat
  /\ smallest_favored \in Nat \union {-1}
  /\ queue_cur \in Entry \union {NULL} /\ LB_seed_id \in Nat
  /\ sd \in Task \union {NoTask}
  /\ r \in 0 .. DBL_MAX /\ adjust_r \in -1 .. DBL_MAX

Flags == score_changed \in BOOLEAN /\ fuzz_LB_seed \in BOOLEAN

(* A load-balance seed is in the queue from do_load_balance on until it is *)
(* cut out.                                                                *)
Episode == fuzz_LB_seed /\ pc # "take"

(* Where in the loop the flag can be set, the current entry is queued, and *)
(* do_cooperation's maximum is in use; a new entry has not failed yet.     *)
Control ==
  /\ pc \in {"coop", "distance", "task", "recull", "resync", "loadbalance"} => ~ fuzz_LB_seed
  /\ pc \in {"take", "clean"} => fuzz_LB_seed
  /\ pc \in {"begin", "trim", "havoc", "abandon"} => queue_cur \in Queued
  /\ pc # "coop" => adjust_r = -1
  /\ sd # NoTask => r < DBL_MAX /\ adjust_r < DBL_MAX
  /\ \A q \in Entry : q > allocs => cal_failed[q] = 0

(* An entry's number is its position; entries before the load-balance seed *)
(* are on disk, the markers are those of the redundant entries.            *)
Directory ==
  /\ \A k \in 1 .. Len(queue_buf) : id[queue_buf[k]] = k - 1
  /\ \A k \in 1 .. Len(queue_buf) :
       Name(queue_buf[k]) \in on_disk \/ (Episode /\ k > LB_seed_id)
  /\ fs_redundant \subseteq Queued
  /\ markers = {Name(q) : q \in fs_redundant}

(* While a load-balance seed is queued, nothing computed before refers to  *)
(* it or to an entry behind it.                                            *)
SeedIsApart ==
  Episode =>
    /\ LB_seed_id < Len(queue_buf) /\ Len(rows) <= LB_seed_id
    /\ \A k \in LB_seed_id + 1 .. Len(queue_buf) :
         queue_buf[k] \notin favored /\ queue_buf[k] \notin fs_redundant
    /\ At(LB_seed_id) \notin in_subdomain
    /\ center_deviation[At(LB_seed_id)] = DBL_MAX

(* A score state: every reference is counted, also of entries that are no  *)
(* longer or not yet queued.                                               *)
ScoreState == [top : [Edge -> Entry \union {NULL}], ref : [Entry -> Int], changed : BOOLEAN]

Slots(s, q) == {e \in Edge : s.top[e] = q}
Counted(s) == s \in ScoreState /\ \A q \in Entry : s.ref[q] = Cardinality(Slots(s, q))

(* A champion is queued, covers its edge and belongs to the subdomain.     *)
Champions ==
  /\ Counted(Scores)
  /\ \A e \in Edge : top_rated[e] # NULL =>
       /\ top_rated[e] \in Queued /\ e \in Trace(input[top_rated[e]])
       /\ sd # NoTask => top_rated[e] \in in_subdomain

IInv ==
  /\ Types /\ Flags /\ Control /\ Directory /\ SeedIsApart /\ Champions
  /\ NothingDangles /\ PendingCountsHold /\ FavoredFollowTheChampions /\ EveryEdgeHasAChampion

-----------------------------------------------------------------------------
(* Numbers.                                                                *)

(* A non-empty set of natural numbers has a least element.                 *)
LEMMA Smallest ==
  ASSUME NEW S \in SUBSET Nat, S # {}
  PROVE  \E x \in S : \A y \in S : x <= y
<1> DEFINE R == OpToRel(<, Nat)
<1>1. \E x \in S : \A y \in S : ~ (<<y, x>> \in R)
  <2>1. IsWellFoundedOn(R, Nat)
    BY Zenon, NatLessThanWellFounded
  <2> QED
    BY Zenon, <2>1, WFMin
<1>2. ASSUME NEW x \in S, NEW y \in S, ~ (<<y, x>> \in R)
      PROVE  x <= y
  BY <1>2 DEF OpToRel
<1> QED
  BY Zenon, <1>1, <1>2

(* Induction up to a bound, over a set instead of a predicate.             *)
LEMMA InductionUpTo ==
  ASSUME NEW N \in Nat, NEW S, 0 \in S, \A n \in 0 .. N - 1 : n \in S => n + 1 \in S
  PROVE  \A n \in 0 .. N : n \in S
<1> DEFINE Bad == {n \in 0 .. N : n \notin S}
<1> SUFFICES ASSUME Bad # {} PROVE FALSE
  OBVIOUS
<1>0. Bad \in SUBSET Nat
  OBVIOUS
<1>1. PICK m \in Bad : \A y \in Bad : m <= y
  <2> HIDE DEF Bad
  <2> QED
    BY Zenon, <1>0, Smallest
<1>2. m \in 0 .. N /\ m # 0
  OBVIOUS
<1>3. m - 1 \in 0 .. N - 1 /\ m - 1 \in S /\ (m - 1) + 1 = m
  BY <1>1, <1>2
<1> QED
  BY <1>3

-----------------------------------------------------------------------------
(* Scoring.                                                                *)

LEMMA Constants ==
  /\ IsFiniteSet(Edge) /\ \A i \in Input : Trace(i) \subseteq Edge /\ Factor(i) \in Nat
  /\ MaxAlloc \in Nat /\ 1 \in Entry /\ Entry \subseteq Nat /\ NULL \notin Entry
BY QueueAssumption DEF Entry, NULL

LEMMA Distances ==
  \A t \in Task : /\ \A i \in Input : Deviation(i, t) \in 0 .. DBL_MAX /\ Deviation(i, t) < DBL_MAX
                  /\ \A x \in Radii(t) : x \in 0 .. DBL_MAX /\ x < DBL_MAX
<1>1. \A x \in 0 .. DBL_MAX - 1 : x \in 0 .. DBL_MAX /\ x < DBL_MAX
  BY DEF DBL_MAX
<1>2. \A t \in Task : /\ \A i \in Input : Deviation(i, t) \in 0 .. DBL_MAX - 1
                      /\ Radii(t) \subseteq 0 .. DBL_MAX - 1
  BY QueueAssumption
<1> QED
  BY <1>1, <1>2

LEMMA DisjointUnion ==
  ASSUME NEW S, NEW T, IsFiniteSet(S), IsFiniteSet(T), S \intersect T = {}
  PROVE  Cardinality(S \union T) = Cardinality(S) + Cardinality(T)
<1>1. Cardinality(S \union T) = Cardinality(S) + Cardinality(T) - Cardinality(S \intersect T)
  BY FS_Union
<1>2. Cardinality(S \intersect T) = 0
  BY FS_EmptySet
<1>3. Cardinality(S) \in Nat /\ Cardinality(T) \in Nat
  BY FS_CardinalityType
<1> QED
  BY <1>1, <1>2, <1>3

(* update_bitmap_score keeps the count of the references: what the new     *)
(* champion wins is what the old ones lose.                                *)
LEMMA ScoringCounts ==
  ASSUME NEW s, Counted(s), NEW q \in Entry, NEW eligible, NEW fac,
         NEW in \in [Entry -> Input]
  PROVE  Counted(update_bitmap_score(s, q, eligible, fac, in))
<1> DEFINE won == {e \in Trace(in[q]) : Wins(s, q, e, fac)}
           t   == update_bitmap_score(s, q, eligible, fac, in)
           top == [e \in Edge |-> IF e \in won THEN q ELSE s.top[e]]
<1> SUFFICES ASSUME q \in eligible PROVE Counted(t)
  BY DEF update_bitmap_score
<1>1. t = [top |-> top, ref |-> Refs(s, q, won), changed |-> s.changed \/ won # {}]
  BY DEF update_bitmap_score
<1>2. won \subseteq Edge /\ IsFiniteSet(won)
  BY Constants, FS_Subset
<1> HIDE DEF won, t
<1>3. s.top \in [Edge -> Entry \union {NULL}] /\ s.ref \in [Entry -> Int]
      /\ s.changed \in BOOLEAN
  BY DEF Counted, ScoreState
<1>4. ASSUME NEW p \in Entry
      PROVE  /\ Refs(s, q, won)[p] = Cardinality({e \in Edge : top[e] = p})
             /\ Refs(s, q, won)[p] \in Int
  <2> DEFINE A == {e \in Edge : s.top[e] = p}
             L == {e \in won : s.top[e] = p}
             W == {e \in Edge : top[e] = p}
  <2>1. s.ref[p] = Cardinality(A) /\ IsFiniteSet(A)
    BY Constants, FS_Subset DEF Counted, Slots
  <2>2. L = A \intersect won
    BY <1>2
  <2>3. Refs(s, q, won)[p] =
          s.ref[p] - Cardinality(L) + (IF p = q THEN Cardinality(won) ELSE 0)
    BY DEF Refs
  <2>4. W = IF p = q THEN (A \ won) \union won ELSE A \ won
    BY <1>2
  <2> HIDE DEF A, L, W
  <2>5. IsFiniteSet(A \ won) /\ Cardinality(A \ won) = Cardinality(A) - Cardinality(L)
    BY Zenon, <2>1, <2>2, FS_Difference
  <2>6. Cardinality(A \ won) \in Nat /\ Cardinality(won) \in Nat
        /\ Cardinality(A) \in Nat /\ Cardinality(L) \in Nat
    BY <1>2, <2>1, <2>2, <2>5, FS_CardinalityType, FS_Intersection
  <2>7. Cardinality((A \ won) \union won) = Cardinality(A \ won) + Cardinality(won)
    BY <1>2, <2>5, DisjointUnion, (A \ won) \intersect won = {}
  <2>8. Refs(s, q, won)[p] = Cardinality(W) /\ Refs(s, q, won)[p] \in Int
    BY <2>1, <2>3, <2>4, <2>5, <2>6, <2>7
  <2> QED
    BY <2>8 DEF W
<1>5. t.top = top /\ t.ref = Refs(s, q, won)
  BY <1>1
<1>6. \A p \in Entry : t.ref[p] = Cardinality(Slots(t, p))
  BY <1>4, <1>5 DEF Slots
<1>7. Refs(s, q, won) \in [Entry -> Int]
  BY Zenon, <1>4 DEF Refs
<1>8. top \in [Edge -> Entry \union {NULL}]
  BY <1>3
<1> QED
  BY <1>1, <1>3, <1>6, <1>7, <1>8 DEF Counted, ScoreState

(* A slot is kept or won by the entry that is scored, none is emptied, an  *)
(* eligible entry leaves none of its edges without a champion, and a       *)
(* change is always noted.                                                 *)
LEMMA ScoringWins ==
  ASSUME NEW s \in ScoreState, NEW q \in Entry, NEW eligible, NEW fac,
         NEW in \in [Entry -> Input], NEW t,
         t = update_bitmap_score(s, q, eligible, fac, in)
  PROVE  /\ \A e \in Edge :
              t.top[e] = s.top[e] \/ (t.top[e] = q /\ q \in eligible /\ e \in Trace(in[q]))
         /\ \A e \in Edge : s.top[e] # NULL => t.top[e] # NULL
         /\ q \in eligible => \A e \in Trace(in[q]) : t.top[e] # NULL
         /\ ~ t.changed => ~ s.changed /\ t.top = s.top
<1> DEFINE won == {e \in Trace(in[q]) : Wins(s, q, e, fac)}
           top == [e \in Edge |-> IF e \in won THEN q ELSE s.top[e]]
<1>1. CASE q \notin eligible
  BY <1>1 DEF update_bitmap_score
<1>2. CASE q \in eligible
  <2>1. t.top = top /\ t.changed = (s.changed \/ won # {})
    BY <1>2 DEF update_bitmap_score
  <2>2. Trace(in[q]) \subseteq Edge /\ q # NULL
    BY Constants
  <2>3. \A e \in Trace(in[q]) : e \in won \/ s.top[e] # NULL
    BY DEF Wins
  <2>4. s.top \in [Edge -> Entry \union {NULL}]
    BY DEF ScoreState
  <2>5. ~ t.changed => ~ s.changed /\ won = {}
    BY Zenon, <2>1
  <2>6. won \subseteq Trace(in[q])
    OBVIOUS
  <2> HIDE DEF won
  <2>7. won = {} => t.top = s.top
    BY <2>1, <2>4
  <2> QED
    BY <1>2, <2>1, <2>2, <2>3, <2>5, <2>6, <2>7
<1> QED
  BY <1>1, <1>2

(* The score state t comes from s by scoring the entries of S.             *)
Scored(t, s, S, eligible, in) ==
  /\ Counted(t)
  /\ \A e \in Edge :
       \/ t.top[e] = s.top[e]
       \/ t.top[e] \in S \intersect eligible /\ e \in Trace(in[t.top[e]])
  /\ \A e \in Edge : s.top[e] # NULL => t.top[e] # NULL
  /\ \A q \in S \intersect eligible : \A e \in Trace(in[q]) : t.top[e] # NULL
  /\ ~ t.changed => ~ s.changed /\ t.top = s.top

LEMMA ScoreNone ==
  ASSUME NEW s, Counted(s), NEW eligible, NEW in
  PROVE  Scored(s, s, {}, eligible, in)
BY DEF Scored

LEMMA ScoreOneMore ==
  ASSUME NEW s, NEW t, NEW S \in SUBSET Entry, NEW q \in Entry, NEW eligible, NEW fac,
         NEW in \in [Entry -> Input], Scored(t, s, S, eligible, in)
  PROVE  Scored(update_bitmap_score(t, q, eligible, fac, in), s, S \union {q}, eligible, in)
<1> DEFINE u == update_bitmap_score(t, q, eligible, fac, in)
<1>1. Counted(t) /\ t \in ScoreState
  BY DEF Scored, Counted
<1>2. Counted(u)
  BY <1>1, ScoringCounts
<1>3. /\ \A e \in Edge :
           u.top[e] = t.top[e] \/ (u.top[e] = q /\ q \in eligible /\ e \in Trace(in[q]))
      /\ \A e \in Edge : t.top[e] # NULL => u.top[e] # NULL
      /\ q \in eligible => \A e \in Trace(in[q]) : u.top[e] # NULL
      /\ ~ u.changed => ~ t.changed /\ u.top = t.top
  BY <1>1, ScoringWins
<1>4. \A p \in Entry : Trace(in[p]) \subseteq Edge
  BY Constants
<1> HIDE DEF u
<1>5. Scored(u, s, S \union {q}, eligible, in)
  BY <1>2, <1>3, <1>4 DEF Scored
<1> QED
  BY <1>5 DEF u

(* The recursion of Rescored, up to the n-th entry of the queue.           *)
IsScoring(f, n, s, taken, eligible) ==
  f = [m \in 0 .. n |->
         IF m = 0 THEN s
         ELSE IF queue_buf[m] \notin taken THEN f[m - 1]
         ELSE update_bitmap_score(f[m - 1], queue_buf[m], eligible, factor, input)]

LEMMA ScoringExists ==
  ASSUME NEW N \in Nat, NEW s, NEW taken, NEW eligible
  PROVE  \E f : IsScoring(f, N, s, taken, eligible)
<1> DEFINE S == {n \in 0 .. N : \E f : IsScoring(f, n, s, taken, eligible)}
<1>1. 0 \in S
  <2>1. IsScoring([m \in 0 .. 0 |-> s], 0, s, taken, eligible)
    BY DEF IsScoring
  <2> QED
    BY <2>1
<1>2. ASSUME NEW n \in 0 .. N - 1, n \in S
      PROVE  n + 1 \in S
  <2>1. PICK f : IsScoring(f, n, s, taken, eligible)
    BY <1>2
  <2> DEFINE last == IF queue_buf[n + 1] \notin taken THEN f[n]
                     ELSE update_bitmap_score(f[n], queue_buf[n + 1], eligible, factor, input)
             h == [m \in 0 .. n + 1 |-> IF m <= n THEN f[m] ELSE last]
  <2>2. ASSUME NEW m \in 0 .. n + 1
        PROVE  h[m] = IF m = 0 THEN s
                      ELSE IF queue_buf[m] \notin taken THEN h[m - 1]
                      ELSE update_bitmap_score(h[m - 1], queue_buf[m], eligible, factor, input)
    <3>1. CASE m = n + 1
      BY <3>1
    <3>2. CASE m <= n
      BY <2>1, <3>2 DEF IsScoring
    <3> QED
      BY <3>1, <3>2
  <2>3. h = [m \in 0 .. n + 1 |->
               IF m = 0 THEN s
               ELSE IF queue_buf[m] \notin taken THEN h[m - 1]
               ELSE update_bitmap_score(h[m - 1], queue_buf[m], eligible, factor, input)]
    BY <2>2
  <2> HIDE DEF h
  <2>4. IsScoring(h, n + 1, s, taken, eligible)
    BY <2>3 DEF IsScoring
  <2> QED
    BY <2>4
<1> HIDE DEF S
<1>3. N \in S
  BY <1>1, <1>2, InductionUpTo
<1> QED
  BY <1>3 DEF S

(* Rescored scores the entries of taken that are queued.                   *)
LEMMA RescoredScores ==
  ASSUME queue_buf \in Seq(Entry), input \in [Entry -> Input],
         NEW s, Counted(s), NEW taken, NEW eligible
  PROVE  Scored(Rescored(s, taken, eligible), s, Queued \intersect taken, eligible, input)
<1> DEFINE N == Len(queue_buf)
           f == CHOOSE g : IsScoring(g, N, s, taken, eligible)
           T(n) == {queue_buf[k] : k \in 1 .. n} \intersect taken
           S == {n \in 0 .. N : Scored(f[n], s, T(n), eligible, input)}
<1>1. N \in Nat /\ IsScoring(f, N, s, taken, eligible)
  BY ScoringExists
<1>2. Rescored(s, taken, eligible) = f[N]
  BY DEF Rescored, IsScoring
<1> HIDE DEF f, N
<1>3. \A n \in 0 .. N :
        f[n] = IF n = 0 THEN s
               ELSE IF queue_buf[n] \notin taken THEN f[n - 1]
               ELSE update_bitmap_score(f[n - 1], queue_buf[n], eligible, factor, input)
  BY <1>1 DEF IsScoring
<1>4. 0 \in S
  <2>1. f[0] = s /\ T(0) = {}
    BY <1>1, <1>3
  <2>2. Scored(s, s, {}, eligible, input)
    BY DEF Scored
  <2> HIDE DEF T
  <2>3. Scored(f[0], s, T(0), eligible, input)
    BY Zenon, <2>1, <2>2
  <2> QED
    BY <1>1, <2>3
<1>5. ASSUME NEW n \in 0 .. N - 1, n \in S
      PROVE  n + 1 \in S
  <2> DEFINE q == queue_buf[n + 1]
  <2>1. n \in Nat /\ n + 1 \in 0 .. N /\ n + 1 # 0 /\ (n + 1) - 1 = n
    BY <1>1
  <2>2. q \in Entry /\ T(n) \subseteq Entry
    BY <1>1, <2>1 DEF N
  <2>3. T(n + 1) = T(n) \union ({q} \intersect taken)
    <3>1. 1 .. n + 1 = (1 .. n) \union {n + 1}
      BY <2>1
    <3> QED
      BY <3>1
  <2>4. f[n + 1] = IF q \notin taken THEN f[n]
                   ELSE update_bitmap_score(f[n], q, eligible, factor, input)
    BY <1>3, <2>1
  <2>5. Scored(f[n], s, T(n), eligible, input)
    BY <1>5
  <2> HIDE DEF q, T
  <2>6. CASE q \notin taken
    <3>1. T(n + 1) = T(n) /\ f[n + 1] = f[n]
      BY Zenon, <2>3, <2>4, <2>6
    <3> QED
      BY <2>1, <2>5, <3>1
  <2>7. CASE q \in taken
    <3>1. T(n + 1) = T(n) \union {q}
          /\ f[n + 1] = update_bitmap_score(f[n], q, eligible, factor, input)
      BY <2>3, <2>4, <2>7
    <3>2. Scored(update_bitmap_score(f[n], q, eligible, factor, input), s, T(n) \union {q},
                 eligible, input)
      BY <2>2, <2>5, ScoreOneMore
    <3> QED
      BY Zenon, <2>1, <3>1, <3>2
  <2> QED
    BY <2>6, <2>7
<1>6. T(N) = Queued \intersect taken
  <2>1. DOMAIN queue_buf = 1 .. N
    BY DEF N
  <2> QED
    BY <2>1 DEF Queued, Range
<1> HIDE DEF S, T
<1>7. N \in S
  <2>1. \A n \in 0 .. N - 1 : n \in S => n + 1 \in S
    BY <1>5
  <2>2. \A n \in 0 .. N : n \in S
    BY <1>1, <1>4, <2>1, InductionUpTo
  <2> QED
    BY <1>1, <2>2
<1>8. Scored(f[N], s, T(N), eligible, input)
  BY <1>7 DEF S
<1> QED
  BY <1>2, <1>6, <1>8

-----------------------------------------------------------------------------
(* Culling.                                                                *)

(* What holds after the walk over the first n edges.                       *)
CullState ==
  [left : SUBSET Edge, fav : SUBSET Entry, todo : Nat, first : Nat \union {-1}]

CulledTo(c, n) ==
  /\ c \in CullState
  /\ \A q \in c.fav : \E e \in Edge : top_rated[e] = q
  /\ \A e \in Edge \ c.left : \E q \in c.fav : e \in Trace(input[q])
  /\ \A e \in 1 .. n : top_rated[e] # NULL => e \notin c.left
  /\ c.todo = Cardinality(c.fav \ was_fuzzed)
  /\ c.first >= 0 => \E q \in c.fav \ was_fuzzed : c.first = id[q]

(* One edge of the walk.                                                   *)
CullEdge(acc, e) ==
  LET q   == top_rated[e]
      new == q \notin acc.fav /\ q \notin was_fuzzed
  IN IF q = NULL \/ e \notin acc.left THEN acc
     ELSE [left  |-> acc.left \ Trace(input[q]),
           fav   |-> acc.fav \union {q},
           todo  |-> acc.todo + (IF new THEN 1 ELSE 0),
           first |-> IF new /\ acc.first < 0 THEN id[q] ELSE acc.first]

NothingCulled == [left |-> Edge, fav |-> {}, todo |-> 0, first |-> -1]

IsCulling(f, n) ==
  f = [m \in 0 .. n |-> IF m = 0 THEN NothingCulled ELSE CullEdge(f[m - 1], m)]

LEMMA CullingExists ==
  ASSUME NEW N \in Nat
  PROVE  \E f : IsCulling(f, N)
<1> DEFINE S == {n \in 0 .. N : \E f : IsCulling(f, n)}
<1>1. 0 \in S
  <2>1. IsCulling([m \in 0 .. 0 |-> NothingCulled], 0)
    BY DEF IsCulling
  <2> QED
    BY <2>1
<1>2. ASSUME NEW n \in 0 .. N - 1, n \in S
      PROVE  n + 1 \in S
  <2>1. PICK f : IsCulling(f, n)
    BY <1>2
  <2> DEFINE h == [m \in 0 .. n + 1 |-> IF m <= n THEN f[m] ELSE CullEdge(f[n], n + 1)]
  <2>2. ASSUME NEW m \in 0 .. n + 1
        PROVE  h[m] = IF m = 0 THEN NothingCulled ELSE CullEdge(h[m - 1], m)
    <3>1. CASE m = n + 1
      BY <3>1
    <3>2. CASE m <= n
      BY <2>1, <3>2 DEF IsCulling
    <3> QED
      BY <3>1, <3>2
  <2>3. h = [m \in 0 .. n + 1 |-> IF m = 0 THEN NothingCulled ELSE CullEdge(h[m - 1], m)]
    BY <2>2
  <2> HIDE DEF h
  <2>4. IsCulling(h, n + 1)
    BY <2>3 DEF IsCulling
  <2> QED
    BY <2>4
<1> HIDE DEF S
<1>3. N \in S
  BY <1>1, <1>2, InductionUpTo
<1> QED
  BY <1>3 DEF S

LEMMA CullOneMore ==
  ASSUME input \in [Entry -> Input], id \in [Entry -> Nat],
         top_rated \in [Edge -> Entry \union {NULL}],
         NEW n \in Nat, n + 1 \in Edge, NEW acc, CulledTo(acc, n),
         top_rated[n + 1] # NULL => n + 1 \in Trace(input[top_rated[n + 1]])
  PROVE  CulledTo(CullEdge(acc, n + 1), n + 1)
<1> DEFINE q == top_rated[n + 1]
           c == CullEdge(acc, n + 1)
           new == q \notin acc.fav /\ q \notin was_fuzzed
<1>1. 1 .. n + 1 = (1 .. n) \union {n + 1}
  OBVIOUS
<1>2. CASE q = NULL \/ n + 1 \notin acc.left
  <2>1. c = acc
    BY Zenon, <1>2 DEF CullEdge
  <2> QED
    BY Zenon, <1>1, <1>2, <2>1 DEF CulledTo
<1>3. CASE q # NULL /\ n + 1 \in acc.left
  <2>1. c = [left  |-> acc.left \ Trace(input[q]), fav |-> acc.fav \union {q},
             todo  |-> acc.todo + (IF new THEN 1 ELSE 0),
             first |-> IF new /\ acc.first < 0 THEN id[q] ELSE acc.first]
    BY <1>3 DEF CullEdge
  <2>2. q \in Entry /\ n + 1 \in Trace(input[q])
    BY <1>3
  <2>3. acc.left \in SUBSET Edge /\ acc.fav \in SUBSET Entry /\ acc.todo \in Nat
        /\ acc.first \in Nat \union {-1}
    BY DEF CulledTo, CullState
  <2>4. /\ c.left = acc.left \ Trace(input[q]) /\ c.fav = acc.fav \union {q}
        /\ c.todo = acc.todo + (IF new THEN 1 ELSE 0)
        /\ c.first = IF new /\ acc.first < 0 THEN id[q] ELSE acc.first
    BY <2>1
  <2>5. c \in CullState
    BY <2>1, <2>2, <2>3 DEF CullState
  <2>6. c.todo = Cardinality(c.fav \ was_fuzzed)
    <3> DEFINE W == acc.fav \ was_fuzzed
               V == W \union {q}
               U == c.fav \ was_fuzzed
    <3>1. acc.todo = Cardinality(W) /\ IsFiniteSet(W)
      <4>1. IsFiniteSet(Entry)
        BY Constants, FS_Interval DEF Entry
      <4> QED
        BY <2>3, <4>1, FS_Subset DEF CulledTo
    <3>2. Cardinality(V) = IF q \in W THEN Cardinality(W) ELSE Cardinality(W) + 1
      BY Zenon, <3>1, FS_AddElement
    <3>3. (q \in was_fuzzed => U = W) /\ (q \notin was_fuzzed => U = V)
      BY <2>4
    <3>4. new <=> q \notin W /\ q \notin was_fuzzed
      OBVIOUS
    <3> HIDE DEF W, V, U, c, q, new
    <3>5. c.todo = Cardinality(U)
      BY <2>3, <2>4, <3>1, <3>2, <3>3, <3>4
    <3> QED
      BY <3>5 DEF U
  <2> HIDE DEF c, q
  <2>7. \A e \in 1 .. n + 1 : top_rated[e] # NULL => e \notin c.left
    BY <1>1, <2>2, <2>4 DEF CulledTo
  <2>8. \A p \in c.fav : \E e \in Edge : top_rated[e] = p
    BY <2>4 DEF CulledTo, q
  <2>9. \A e \in Edge \ c.left : \E p \in c.fav : e \in Trace(input[p])
    BY <2>4 DEF CulledTo
  <2>10. c.first >= 0 => \E p \in c.fav \ was_fuzzed : c.first = id[p]
    BY <2>3, <2>4 DEF CulledTo
  <2> QED
    BY <2>5, <2>6, <2>7, <2>8, <2>9, <2>10 DEF CulledTo, c
<1> QED
  BY <1>2, <1>3

(* The walk over all edges.                                                *)
LEMMA CulledIsRight ==
  ASSUME input \in [Entry -> Input], id \in [Entry -> Nat],
         top_rated \in [Edge -> Entry \union {NULL}],
         \A e \in Edge : top_rated[e] # NULL => e \in Trace(input[top_rated[e]])
  PROVE  CulledTo(Culled, Cardinality(Edge))
<1> DEFINE N == Cardinality(Edge)
           f == CHOOSE g : IsCulling(g, N)
           S == {n \in 0 .. N : CulledTo(f[n], n)}
<1>1. N \in Nat /\ Edge = 1 .. N
  BY QueueAssumption, FS_CardinalityType
<1>2. IsCulling(f, N)
  BY <1>1, CullingExists
<1>3. Culled = f[N]
  BY DEF Culled, CulledUpTo, IsCulling, CullEdge, NothingCulled
<1> HIDE DEF f, N
<1>4. \A n \in 0 .. N : f[n] = IF n = 0 THEN NothingCulled ELSE CullEdge(f[n - 1], n)
  BY Zenon, <1>2 DEF IsCulling
<1>5. 0 \in S
  <2>1. f[0] = NothingCulled
    BY <1>1, <1>4
  <2>2. {} \ was_fuzzed = {} /\ Cardinality({}) = 0
    BY FS_EmptySet
  <2>3. CulledTo(NothingCulled, 0)
    BY <2>2 DEF CulledTo, CullState, NothingCulled
  <2> QED
    BY <1>1, <2>1, <2>3
<1>6. \A n \in 0 .. N - 1 : n \in S => n + 1 \in S
  <2> SUFFICES ASSUME NEW n \in 0 .. N - 1, CulledTo(f[n], n)
               PROVE  n + 1 \in S
    OBVIOUS
  <2>1. n \in Nat /\ n + 1 \in Edge /\ n + 1 \in 0 .. N
    BY <1>1
  <2>2. f[n + 1] = CullEdge(f[n], n + 1)
    BY <1>1, <1>4
  <2>3. CulledTo(CullEdge(f[n], n + 1), n + 1)
    BY <2>1, CullOneMore
  <2> QED
    BY <2>1, <2>2, <2>3
<1> HIDE DEF S
<1>7. \A n \in 0 .. N : n \in S
  BY Zenon, <1>1, <1>5, <1>6, InductionUpTo
<1>8. CulledTo(f[N], N)
  BY <1>1, <1>7 DEF S
<1> QED
  BY <1>3, <1>8 DEF N

-----------------------------------------------------------------------------
(* Consequences of the invariant.                                          *)

LEMMA QueueTypes ==
  ASSUME Types
  PROVE  /\ queue_buf \in Seq(Entry) /\ Len(queue_buf) \in Nat
         /\ DOMAIN queue_buf = 1 .. Len(queue_buf)
         /\ \A k \in 1 .. Len(queue_buf) : queue_buf[k] \in Queued
         /\ \A q \in Queued : \E k \in 1 .. Len(queue_buf) : q = queue_buf[k]
         /\ 1 .. allocs \subseteq Entry /\ Queued \subseteq 1 .. allocs /\ allocs \in Nat
         /\ \A q \in Entry : Trace(input[q]) \subseteq Edge
<1>1. 1 .. allocs \subseteq Entry /\ allocs \in Nat
  BY Constants DEF Types, Entry
<1>2. queue_buf \in Seq(1 .. allocs) /\ input \in [Entry -> Input]
  BY DEF Types
<1>3. queue_buf \in Seq(Entry) /\ DOMAIN queue_buf = 1 .. Len(queue_buf)
      /\ Len(queue_buf) \in Nat
      /\ \A k \in 1 .. Len(queue_buf) : queue_buf[k] \in 1 .. allocs
  BY <1>1, <1>2
<1> QED
  BY Zenon, <1>1, <1>2, <1>3, Constants DEF Queued, Range

LEMMA ScoreTypes ==
  ASSUME Champions
  PROVE  /\ top_rated \in [Edge -> Entry \union {NULL}] /\ tc_ref \in [Entry -> Int]
         /\ score_changed \in BOOLEAN
         /\ \A q \in Entry : tc_ref[q] = Cardinality({e \in Edge : top_rated[e] = q})
<1>1. Scores \in ScoreState
  BY DEF Champions, Counted
<1>2. Scores.top = top_rated /\ Scores.ref = tc_ref /\ Scores.changed = score_changed
  BY DEF Scores
<1>3. Scores.top \in [Edge -> Entry \union {NULL}] /\ Scores.ref \in [Entry -> Int]
      /\ Scores.changed \in BOOLEAN
  BY <1>1 DEF ScoreState
<1> QED
  BY <1>2, <1>3 DEF Champions, Counted, Slots

(* A position is taken once.                                               *)
LEMMA PositionsDiffer ==
  ASSUME Types, Directory, NEW j \in 1 .. Len(queue_buf), NEW k \in 1 .. Len(queue_buf),
         queue_buf[j] = queue_buf[k]
  PROVE  j = k
<1>1. id[queue_buf[j]] = j - 1 /\ id[queue_buf[k]] = k - 1 /\ Len(queue_buf) \in Nat
  BY QueueTypes DEF Directory
<1> QED
  BY <1>1

-----------------------------------------------------------------------------
(* What a step leaves alone.                                               *)

SameEpisode == (Episode' <=> Episode) /\ LB_seed_id' = LB_seed_id

LEMMA KeepDirectory ==
  ASSUME Directory, SameEpisode, UNCHANGED <<queue_buf, id, on_disk, fs_redundant, markers>>
  PROVE  Directory'
<1>1. \A q : Name(q)' = Name(q)
  BY DEF Name
<1> QED
  BY <1>1 DEF Directory, SameEpisode, Queued

LEMMA KeepApart ==
  ASSUME SeedIsApart, SameEpisode,
         UNCHANGED <<queue_buf, favored, fs_redundant, rows, in_subdomain, center_deviation>>
  PROVE  SeedIsApart'
BY DEF SeedIsApart, SameEpisode, At

LEMMA KeepChampions ==
  ASSUME Champions, UNCHANGED <<top_rated, tc_ref, score_changed, queue_buf, input, sd,
                                in_subdomain>>
  PROVE  Champions'
<1>1. Scores' = Scores
  BY DEF Scores
<1> QED
  BY <1>1 DEF Champions, Queued, Counted, Slots

LEMMA KeepDangles ==
  ASSUME NothingDangles, UNCHANGED <<top_rated, favored, queue_buf, rows>>
  PROVE  NothingDangles'
BY DEF NothingDangles, Queued

LEMMA KeepPending ==
  ASSUME PendingCountsHold,
         UNCHANGED <<favored, was_fuzzed, disabled, pending, queue_buf>>
  PROVE  PendingCountsHold'
BY DEF PendingCountsHold, pending, Queued, At

LEMMA KeepFollow ==
  ASSUME FavoredFollowTheChampions,
         UNCHANGED <<score_changed, top_rated, favored, input, sd, in_subdomain>>
  PROVE  FavoredFollowTheChampions'
BY DEF FavoredFollowTheChampions

LEMMA KeepEvery ==
  ASSUME EveryEdgeHasAChampion,
         UNCHANGED <<sd, queue_buf, in_subdomain, disabled, cal_failed, input, top_rated>>
  PROVE  EveryEdgeHasAChampion'
BY Zenon DEF EveryEdgeHasAChampion, Queued

(* The champions are the same up to some of them, which are scored anew in *)
(* the same subdomain; entries may have been added.                        *)
LEMMA Rescoring ==
  ASSUME Champions, FavoredFollowTheChampions, EveryEdgeHasAChampion,
         NEW t, NEW S, SetScores(t),
         Scored(t, Scores, S, Eligible(sd, in_subdomain', disabled), input'),
         favored \subseteq Queued, Queued \subseteq Queued', S \subseteq Queued',
         Queued' \subseteq Entry, in_subdomain \subseteq in_subdomain',
         \A q \in Queued : input'[q] = input[q],
         \A q \in (Queued' \intersect in_subdomain') \ disabled :
           cal_failed'[q] = 0 => q \in S \/ (q \in Queued \intersect in_subdomain /\ cal_failed[q] = 0),
         \A q \in Entry : Trace(input'[q]) \subseteq Edge,
         UNCHANGED <<sd, disabled, favored>>
  PROVE  /\ Champions' /\ FavoredFollowTheChampions' /\ EveryEdgeHasAChampion'
         /\ score_changed' \in BOOLEAN /\ Range(top_rated') \ {NULL} \subseteq Queued'
<1> DEFINE eligible == Eligible(sd, in_subdomain', disabled)
<1>1. Scores.top = top_rated /\ Scores.changed = score_changed
  BY Zenon DEF Scores
<1>2. /\ Counted(t)
      /\ \A e \in Edge :
           \/ t.top[e] = top_rated[e]
           \/ t.top[e] \in S \intersect eligible /\ e \in Trace(input'[t.top[e]])
      /\ \A e \in Edge : top_rated[e] # NULL => t.top[e] # NULL
      /\ \A q \in S \intersect eligible : \A e \in Trace(input'[q]) : t.top[e] # NULL
      /\ ~ t.changed => ~ score_changed /\ t.top = top_rated
  BY Zenon, <1>1 DEF Scored
<1>3. top_rated' = t.top /\ tc_ref' = t.ref /\ score_changed' = t.changed
  BY DEF SetScores
<1>4. \A q \in eligible : q \notin disabled /\ (sd # NoTask => q \in in_subdomain')
  BY DEF Eligible
<1>5. \A q \in Entry : q \notin disabled /\ q \in in_subdomain' => q \in eligible
  BY DEF Eligible
<1> HIDE DEF eligible
<1>6. Scores' = t /\ t.changed \in BOOLEAN
  <2>1. t \in ScoreState
    BY Zenon, <1>2 DEF Counted
  <2>2. t = [top |-> t.top, ref |-> t.ref, changed |-> t.changed] /\ t.changed \in BOOLEAN
    BY Zenon, <2>1 DEF ScoreState
  <2> QED
    BY Zenon, <1>3, <2>2 DEF Scores
<1>7. ASSUME NEW e \in Edge, top_rated'[e] # NULL
      PROVE  /\ top_rated'[e] \in Queued' /\ e \in Trace(input'[top_rated'[e]])
             /\ sd' # NoTask => top_rated'[e] \in in_subdomain'
  <2>1. CASE t.top[e] = top_rated[e]
    BY Zenon, <1>3, <1>7, <2>1 DEF Champions
  <2>2. CASE t.top[e] \in S \intersect eligible /\ e \in Trace(input'[t.top[e]])
    BY Zenon, <1>3, <1>4, <2>2
  <2> QED
    BY Zenon, <1>2, <2>1, <2>2
<1>8. Champions'
  <2>1. Counted(Scores)'
    BY Zenon, <1>2, <1>6 DEF Counted, Slots
  <2> QED
    BY Zenon, <1>7, <2>1 DEF Champions
<1>9. FavoredFollowTheChampions'
  <2> SUFFICES ASSUME ~ score_changed' PROVE FavoredFollowTheChampions'
    BY Zenon DEF FavoredFollowTheChampions
  <2>1. ~ score_changed /\ top_rated' = top_rated
    BY Zenon, <1>2, <1>3
  <2> QED
    BY Zenon, <2>1 DEF FavoredFollowTheChampions
<1>10. EveryEdgeHasAChampion'
  <2> SUFFICES ASSUME sd # NoTask, NEW q \in (Queued' \intersect in_subdomain') \ disabled,
                      cal_failed'[q] = 0, NEW e \in Trace(input'[q])
               PROVE  t.top[e] # NULL
    BY Zenon, <1>3 DEF EveryEdgeHasAChampion
  <2>1. e \in Edge /\ q \in eligible
    BY Zenon, <1>5
  <2>2. CASE q \in S
    BY <1>2, <2>1, <2>2
  <2>3. CASE q \in Queued \intersect in_subdomain /\ cal_failed[q] = 0
    BY Zenon, <1>2, <2>1, <2>3 DEF EveryEdgeHasAChampion
  <2> QED
    BY Zenon, <2>2, <2>3
<1>11. Range(top_rated') \ {NULL} \subseteq Queued'
  <2>1. DOMAIN top_rated' = Edge
    BY <1>2, <1>3 DEF Counted, ScoreState
  <2> QED
    BY Zenon, <1>7, <2>1 DEF Range
<1> QED
  BY Zenon, <1>3, <1>6, <1>8, <1>9, <1>10, <1>11

-----------------------------------------------------------------------------
(* The initial state.                                                      *)

LEMMA InitIInv == Init => IInv
<1> SUFFICES ASSUME Init PROVE IInv
  OBVIOUS
<1>1. /\ 1 \in Entry /\ Initial \in Input /\ Factor(Initial) \in Nat
      /\ MaxLevel \in Nat /\ CAL_CHANCES \in Nat
      /\ Trace(Initial) \subseteq Edge /\ Trace(Initial) # {}
  BY QueueAssumption, Constants
<1>2. queue_buf = <<1>> /\ Len(queue_buf) = 1 /\ queue_buf[1] = 1 /\ Queued = {1}
  BY DEF Init, Queued, Range
<1>3. Types
  <2>1. queue_buf \in Seq(1 .. allocs) /\ rows \in Seq(Entry) /\ pc \in Places
    BY DEF Init, Places
  <2>2. input \in [Entry -> Input] /\ factor \in [Entry -> Nat] /\ id \in [Entry -> Nat]
    BY <1>1 DEF Init
  <2>3. fuzz_level \in [Entry -> 0 .. MaxLevel] /\ cal_failed \in [Entry -> 0 .. CAL_CHANCES]
        /\ center_deviation \in [Entry -> 0 .. DBL_MAX]
    BY <1>1 DEF Init, DBL_MAX
  <2> QED
    BY <1>1, <2>1, <2>2, <2>3 DEF Init, Types, DBL_MAX
<1>4. Flags /\ Control /\ SeedIsApart
  BY Zenon DEF Init, Flags, Control, SeedIsApart, Episode, NoTask
<1>5. Directory
  <2>1. Name(1) = <<0, 1>> /\ id[1] = 0
    BY Zenon, <1>1 DEF Init, Name
  <2> QED
    BY <1>2, <2>1 DEF Init, Directory
<1>6. Champions
  <2>1. \A e \in Edge : top_rated[e] = IF e \in Trace(Initial) THEN 1 ELSE NULL
    BY DEF Init
  <2>2. \A e \in Edge : top_rated[e] # NULL =>
          /\ top_rated[e] \in Queued /\ e \in Trace(input[top_rated[e]])
          /\ sd # NoTask => top_rated[e] \in in_subdomain
    BY <1>1, <1>2, <2>1 DEF Init
  <2>3. ASSUME NEW q \in Entry
        PROVE  tc_ref[q] = Cardinality({e \in Edge : top_rated[e] = q})
               /\ tc_ref[q] \in Int
    <3> DEFINE A == {e \in Edge : top_rated[e] = q}
    <3>1. A = IF q = 1 THEN Trace(Initial) ELSE {}
      BY <1>1, <2>1, Constants DEF NULL
    <3>2. tc_ref[q] = IF q = 1 THEN Cardinality(Trace(Initial)) ELSE 0
      BY DEF Init
    <3>3. Cardinality({}) = 0 /\ Cardinality(Trace(Initial)) \in Nat
      BY <1>1, Constants, FS_EmptySet, FS_Subset, FS_CardinalityType
    <3> HIDE DEF A
    <3>4. tc_ref[q] = Cardinality(A) /\ tc_ref[q] \in Int
      BY <3>1, <3>2, <3>3
    <3> QED
      BY <3>4 DEF A
  <2>4. Scores \in ScoreState
    <3>1. top_rated \in [Edge -> Entry \union {NULL}] /\ score_changed \in BOOLEAN
      BY <1>1 DEF Init
    <3>2. tc_ref \in [Entry -> Int]
      BY Zenon, <2>3 DEF Init
    <3> QED
      BY <3>1, <3>2 DEF Scores, ScoreState
  <2>5. \A q \in Entry : Scores.ref[q] = Cardinality(Slots(Scores, q))
    BY <2>3 DEF Scores, Slots
  <2> QED
    BY <2>2, <2>4, <2>5 DEF Champions, Counted
<1>7. NothingDangles
  <2>1. Range(top_rated) \ {NULL} \subseteq Queued
    BY <1>2 DEF Init, Range
  <2> QED
    BY <2>1 DEF Init, NothingDangles
<1>8. PendingCountsHold
  <2>1. favored \ was_fuzzed = {} /\ (Queued \ was_fuzzed) \ disabled = {1}
    BY <1>2 DEF Init
  <2>2. Cardinality(favored \ was_fuzzed) = 0
        /\ Cardinality((Queued \ was_fuzzed) \ disabled) = 1
    BY Zenon, <2>1, FS_EmptySet, FS_Singleton
  <2> QED
    BY <2>2 DEF Init, PendingCountsHold
<1>9. FavoredFollowTheChampions /\ EveryEdgeHasAChampion
  BY DEF Init, FavoredFollowTheChampions, EveryEdgeHasAChampion
<1> QED
  BY <1>3, <1>4, <1>5, <1>6, <1>7, <1>8, <1>9 DEF IInv

-----------------------------------------------------------------------------
(* The steps that only move on.                                            *)

LEMMA Quiet ==
  ASSUME IInv, SameEpisode,
         UNCHANGED <<queue_buf, fields, flags, scores, pending, sd, rows, markers>>
  PROVE  /\ Directory' /\ SeedIsApart' /\ Champions' /\ NothingDangles'
         /\ PendingCountsHold' /\ FavoredFollowTheChampions' /\ EveryEdgeHasAChampion'
<1> USE DEF fields, flags, scores
<1>1. Directory' /\ SeedIsApart'
  BY KeepDirectory, KeepApart DEF IInv
<1>2. Champions' /\ NothingDangles'
  BY KeepChampions, KeepDangles DEF IInv
<1>3. PendingCountsHold'
  BY KeepPending DEF IInv
<1>4. FavoredFollowTheChampions' /\ EveryEdgeHasAChampion'
  BY KeepFollow, KeepEvery DEF IInv
<1> QED
  BY Zenon, <1>1, <1>2, <1>3, <1>4

(* The selection stays inside the queue.                                   *)
LEMMA SelectStep == IInv /\ Select => IInv'
<1> SUFFICES ASSUME IInv, Select PROVE IInv'
  OBVIOUS
<1>1. /\ pc = "select" /\ pc' = "begin"
      /\ UNCHANGED <<allocs, queue_buf, fields, flags, scores, pending, lbVars, taskVars,
                     rows, markers>>
  BY DEF Select
<1>2. PICK p \in Selectable : queue_cur' = At(p)
  BY DEF Select
<1>3. Types /\ Control /\ SeedIsApart /\ PendingCountsHold /\ NothingDangles
      /\ fuzz_LB_seed \in BOOLEAN
  BY DEF IInv, Flags
<1>4. p \in 0 .. Len(queue_buf) - 1
  <2>1. CASE fuzz_LB_seed
    <3>1. p = LB_seed_id /\ LB_seed_id < Len(queue_buf) /\ LB_seed_id \in Nat
      BY <1>1, <1>3, <2>1 DEF Selectable, SeedIsApart, Episode, Types
    <3> QED
      BY <3>1, <1>3, QueueTypes
  <2>2. CASE ~ fuzz_LB_seed /\ pending_favored > 0 /\ smallest_favored >= 0
    <3>1. p \in Candidates \/ p = smallest_favored
      BY Zenon, <2>2 DEF Selectable
    <3>2. Len(rows) <= Len(queue_buf) /\ Len(rows) \in Nat /\ Len(queue_buf) \in Nat
      BY <1>3, QueueTypes DEF NothingDangles, Types
    <3>3. smallest_favored < Len(queue_buf) /\ smallest_favored \in Nat
      BY <1>3, <2>2 DEF PendingCountsHold, Types
    <3> QED
      BY <3>1, <3>2, <3>3 DEF Candidates
  <2>3. CASE ~ fuzz_LB_seed /\ ~ (pending_favored > 0 /\ smallest_favored >= 0)
    BY <2>3 DEF Selectable
  <2> QED
    BY <2>1, <2>2, <2>3
<1>5. queue_cur' \in Queued /\ Queued' = Queued
  <2>1. p + 1 \in 1 .. Len(queue_buf)
    BY <1>3, <1>4, QueueTypes
  <2> QED
    BY Zenon, <1>1, <1>2, <1>3, <2>1, QueueTypes DEF At, Queued
<1>6. SameEpisode
  BY <1>1 DEF SameEpisode, Episode, lbVars
<1>7. Types'
  BY Zenon, <1>1, <1>3, <1>5, QueueTypes DEF Types, fields, flags, pending, lbVars, taskVars, Places
<1>8. Control' /\ Flags'
  BY Zenon, <1>1, <1>3, <1>5 DEF IInv, Control, Flags, fields, lbVars, taskVars, scores
<1> QED
  BY <1>1, <1>6, <1>7, <1>8, Quiet DEF IInv, taskVars

LEMMA MovingSteps == IInv /\ (Skip \/ MoveOn \/ LoadBalanceFails) => IInv'
<1> SUFFICES ASSUME IInv, Skip \/ MoveOn \/ LoadBalanceFails PROVE IInv'
  BY Zenon
<1>1. /\ UNCHANGED <<allocs, queue_buf, fields, flags, scores, pending, queue_cur, LB_seed_id,
                     taskVars, rows, markers>>
      /\ \/ pc = "begin" /\ pc' = "select" /\ fuzz_LB_seed' = fuzz_LB_seed
         \/ pc = "task" /\ pc' = "loadbalance" /\ fuzz_LB_seed' = fuzz_LB_seed
         \/ pc = "resync" /\ pc' = "loadbalance" /\ fuzz_LB_seed' = fuzz_LB_seed
         \/ pc = "loadbalance" /\ pc' = "sync" /\ fuzz_LB_seed' = fuzz_LB_seed
         \/ pc = "sync" /\ pc' = "head" /\ fuzz_LB_seed' = fuzz_LB_seed
         \/ pc = "take" /\ pc' = "sync" /\ fuzz_LB_seed' = FALSE
  BY DEF Skip, MoveOn, LoadBalanceFails, lbVars
<1>2. Types /\ Control /\ Flags
  BY DEF IInv
<1>3. SameEpisode
  BY <1>1 DEF SameEpisode, Episode
<1>4. Types'
  BY Zenon, <1>1, <1>2 DEF Types, fields, flags, pending, taskVars, Places
<1>5. Flags'
  BY Zenon, <1>1, <1>2 DEF Flags, scores
<1>6. Control'
  BY <1>1, <1>2 DEF Control, fields, taskVars, Queued
<1> QED
  BY <1>1, <1>3, <1>4, <1>5, <1>6, Quiet DEF IInv, taskVars

(* New rows are those of the entries at their positions.                   *)
LEMMA ServiceStep == IInv /\ ServiceDistances => IInv'
<1> SUFFICES ASSUME IInv, ServiceDistances PROVE IInv'
  OBVIOUS
<1>1. /\ pc = "distance" /\ pc' = "task"
      /\ UNCHANGED <<allocs, queue_buf, fields, flags, scores, pending, queue_cur, lbVars,
                     taskVars, markers>>
  BY DEF ServiceDistances
<1>2. PICK n \in Len(rows) .. Len(queue_buf) :
        rows' = rows \o SubSeq(queue_buf, Len(rows) + 1, n)
  BY Zenon DEF ServiceDistances
<1>3. Types /\ Control /\ Flags /\ NothingDangles
  BY DEF IInv
<1>4. ~ Episode /\ ~ Episode'
  BY <1>1, <1>3 DEF Control, Episode, lbVars
<1>5. /\ rows \in Seq(Entry) /\ Len(rows) \in Nat /\ Len(queue_buf) \in Nat
      /\ queue_buf \in Seq(Entry)
  <2>1. rows \in Seq(Entry)
    BY <1>3 DEF Types
  <2> QED
    BY <1>3, <2>1, QueueTypes
<1>6. /\ rows' \in Seq(Entry) /\ Len(rows') = n
      /\ \A k \in 1 .. n : rows'[k] = queue_buf[k]
  <2> DEFINE new == SubSeq(queue_buf, Len(rows) + 1, n)
  <2>1. new \in Seq(Entry) /\ Len(new) = n - Len(rows)
        /\ \A k \in 1 .. n - Len(rows) : new[k] = queue_buf[Len(rows) + k]
    BY <1>5
  <2> HIDE DEF new
  <2>2. rows' = rows \o new
    BY <1>2 DEF new
  <2>3. rows' \in Seq(Entry) /\ Len(rows') = n
    BY <1>5, <2>1, <2>2
  <2>4. ASSUME NEW k \in 1 .. n
        PROVE  rows'[k] = queue_buf[k]
    <3>1. CASE k <= Len(rows)
      BY <1>3, <1>5, <2>1, <2>2, <3>1 DEF NothingDangles
    <3>2. CASE k > Len(rows)
      <4>1. rows'[k] = new[k - Len(rows)] /\ k - Len(rows) \in 1 .. n - Len(rows)
        BY <1>5, <2>1, <2>2, <3>2
      <4> QED
        BY <1>5, <2>1, <4>1
    <3> QED
      BY <1>5, <3>1, <3>2
  <2> QED
    BY <2>3, <2>4
<1>7. Types'
  BY Zenon, <1>1, <1>3, <1>6 DEF Types, fields, flags, pending, lbVars, taskVars, Places
<1>8. Control' /\ Flags'
  BY <1>1, <1>3 DEF Control, Flags, fields, lbVars, taskVars, scores, Queued
<1>9. SameEpisode
  BY Zenon, <1>1, <1>4 DEF SameEpisode, lbVars
<1>10. NothingDangles'
  BY <1>1, <1>3, <1>5, <1>6 DEF NothingDangles, Queued, scores, flags
<1>11. Directory' /\ SeedIsApart'
  BY Zenon, <1>1, <1>4, <1>9, KeepDirectory DEF IInv, SeedIsApart, fields, flags
<1>12. Champions' /\ PendingCountsHold' /\ FavoredFollowTheChampions' /\ EveryEdgeHasAChampion'
  BY <1>1, KeepChampions, KeepPending, KeepFollow, KeepEvery
     DEF IInv, fields, flags, scores, taskVars
<1> QED
  BY Zenon, <1>7, <1>8, <1>10, <1>11, <1>12 DEF IInv

-----------------------------------------------------------------------------
(* Culling.                                                                *)

LEMMA QueuedIsFinite ==
  ASSUME Types
  PROVE  IsFiniteSet(Entry) /\ IsFiniteSet(Queued)
<1>1. IsFiniteSet(Entry)
  BY Constants, FS_Interval DEF Entry
<1> QED
  BY <1>1, QueueTypes, FS_Subset

(* cull_queue finds every marker it removes, and leaves the queue as the   *)
(* selection needs it.                                                     *)
LEMMA CullStep ==
  ASSUME IInv, ~ Episode, ~ Episode', NEW next, cull_queue(next),
         UNCHANGED <<allocs, queue_buf, fields, was_fuzzed, in_subdomain, on_disk, top_rated,
                     tc_ref, pending_not_fuzzed, queue_cur, LB_seed_id, taskVars, rows>>
  PROVE  /\ pc' = next /\ (pc' \in Places => Types') /\ score_changed' \in BOOLEAN
         /\ Directory' /\ SeedIsApart' /\ Champions' /\ NothingDangles'
         /\ PendingCountsHold' /\ FavoredFollowTheChampions' /\ EveryEdgeHasAChampion'
<1> USE DEF fields, taskVars
<1>1. /\ Types /\ Flags /\ Directory /\ Champions /\ NothingDangles /\ PendingCountsHold
      /\ FavoredFollowTheChampions /\ EveryEdgeHasAChampion /\ SameEpisode /\ SeedIsApart'
  BY DEF IInv, SameEpisode, SeedIsApart
<1>2. CASE ~ score_changed
  <2>1. /\ pc' = next
        /\ UNCHANGED <<score_changed, favored, pending_favored, smallest_favored,
                       fs_redundant, disabled, markers>>
    BY <1>2 DEF cull_queue
  <2>2. (pc' \in Places => Types') /\ score_changed' \in BOOLEAN
    <3>1. pc' \in Places => Types'
      BY Zenon, <1>1, <2>1 DEF Types
    <3>2. score_changed' \in BOOLEAN
      BY Zenon, <1>1, <2>1 DEF Flags
    <3> QED
      BY <3>1, <3>2
  <2>3. Directory' /\ Champions' /\ NothingDangles'
    BY Zenon, <1>1, <2>1, KeepDirectory, KeepChampions, KeepDangles
  <2>4. PendingCountsHold' /\ FavoredFollowTheChampions' /\ EveryEdgeHasAChampion'
    BY <1>1, <2>1, KeepPending, KeepFollow, KeepEvery DEF pending
  <2> QED
    BY Zenon, <1>1, <2>1, <2>2, <2>3, <2>4
<1>3. CASE score_changed
  <2> DEFINE fav     == Culled.fav
             enabled == Queued \ disabled
             mark    == {q \in enabled : q \notin fav /\ q \notin fs_redundant}
             unmark  == {q \in enabled : q \in fav /\ q \in fs_redundant}
  <2>1. /\ score_changed' = FALSE /\ favored' = fav
        /\ pending_favored' = Culled.todo /\ smallest_favored' = Culled.first
        /\ mark_as_redundant(fav)
        /\ pc' = IF MissingMarker(fav) THEN "fatal" ELSE next
    BY Zenon, <1>3 DEF cull_queue
  <2>2. /\ fs_redundant' = (fs_redundant \union mark) \ unmark
        /\ disabled' = IF DisableRedundant THEN disabled \union mark ELSE disabled
        /\ markers' = (markers \union {Name(q) : q \in mark}) \ {Name(q) : q \in unmark}
    BY Zenon, <2>1 DEF mark_as_redundant, Flagged
  <2>3. /\ top_rated \in [Edge -> Entry \union {NULL}]
        /\ \A e \in Edge : top_rated[e] # NULL =>
             top_rated[e] \in Queued /\ e \in Trace(input[top_rated[e]])
    BY Zenon, <1>1, ScoreTypes DEF Champions
  <2>4. CulledTo(Culled, Cardinality(Edge))
    BY <1>1, <2>3, CulledIsRight DEF Types
  <2>5. /\ fav \subseteq Entry /\ Culled.todo \in Nat /\ Culled.first \in Nat \union {-1}
        /\ \A q \in fav : q # NULL /\ \E e \in Edge : top_rated[e] = q
        /\ \A e \in Edge : top_rated[e] # NULL => \E q \in fav : e \in Trace(input[q])
        /\ Culled.todo = Cardinality(fav \ was_fuzzed)
        /\ Culled.first >= 0 => \E q \in fav \ was_fuzzed : Culled.first = id[q]
    <3>1. Culled \in CullState /\ Edge = 1 .. Cardinality(Edge)
      BY <2>4, QueueAssumption DEF CulledTo
    <3>2. fav \subseteq Entry /\ Culled.todo \in Nat /\ Culled.first \in Nat \union {-1}
      BY Zenon, <3>1 DEF CullState
    <3> QED
      BY ZenonT(40), <2>4, <3>1, <3>2, Constants DEF CulledTo
  <2>6. fav \subseteq Queued
    BY <2>3, <2>5
  <2>7. disabled \subseteq disabled' /\ disabled' \subseteq disabled \union Queued
        /\ fs_redundant' \subseteq Queued /\ Queued' = Queued
    BY <1>1, <2>2 DEF Directory, Queued
  <2>8. \A q : Name(q)' = Name(q)
    BY DEF Name
  <2>9. \A p, q : Name(p) = Name(q) => p = q
    BY DEF Name
  <2> HIDE DEF fav
  <2>10. ~ MissingMarker(fav)
    BY Zenon, <1>1 DEF MissingMarker, Directory
  <2>11. Directory'
    <3>1. markers' = {Name(q) : q \in fs_redundant'}
      BY Zenon, <1>1, <2>2, <2>9 DEF Directory
    <3>2. \A k \in 1 .. Len(queue_buf) : id[queue_buf[k]] = k - 1
                                         /\ Name(queue_buf[k]) \in on_disk
      BY Zenon, <1>1 DEF Directory
    <3> QED
      BY <2>7, <2>8, <3>1, <3>2 DEF Directory
  <2>12. Champions'
    <3>1. /\ Scores' = [top |-> top_rated, ref |-> tc_ref, changed |-> FALSE]
          /\ tc_ref \in [Entry -> Int]
          /\ \A q \in Entry : tc_ref[q] = Cardinality({e \in Edge : top_rated[e] = q})
      BY Zenon, <1>1, <2>1, ScoreTypes DEF Scores
    <3>2. Counted(Scores)'
      BY <2>3, <3>1 DEF Counted, ScoreState, Slots
    <3> QED
      BY <1>1, <2>7, <3>2 DEF Champions
  <2>13. NothingDangles'
    BY Zenon, <1>1, <2>1, <2>6, <2>7 DEF NothingDangles
  <2>14. PendingCountsHold'
    <3>1. pending_favored' = Cardinality((favored \ was_fuzzed)')
      BY Zenon, <2>1, <2>5
    <3>2. ASSUME smallest_favored' >= 0
          PROVE  /\ smallest_favored' < Len(queue_buf)
                 /\ At(smallest_favored') \in fav \ was_fuzzed
      <4>1. PICK q \in fav \ was_fuzzed : Culled.first = id[q]
        BY Zenon, <2>1, <2>5, <3>2
      <4>2. PICK k \in 1 .. Len(queue_buf) : q = queue_buf[k]
        BY Zenon, <1>1, <2>6, QueueTypes
      <4>3. smallest_favored' = k - 1 /\ Len(queue_buf) \in Nat
        BY Zenon, <1>1, <2>1, <4>1, <4>2, QueueTypes DEF Directory
      <4>4. At(k - 1) = q /\ k - 1 < Len(queue_buf)
        BY <4>2, <4>3 DEF At
      <4> QED
        BY Zenon, <4>1, <4>3, <4>4
    <3>3. pending_not_fuzzed' >= Cardinality(((Queued \ was_fuzzed) \ disabled)')
      <4> DEFINE A == (Queued \ was_fuzzed) \ disabled
                 B == (Queued \ was_fuzzed) \ disabled'
      <4>1. IsFiniteSet(A) /\ B \subseteq A
        BY Zenon, <1>1, <2>7, QueuedIsFinite, FS_Subset
      <4>2. B = ((Queued \ was_fuzzed) \ disabled)'
        BY Zenon, <2>7
      <4>3. pending_not_fuzzed >= Cardinality(A) /\ pending_not_fuzzed \in Nat
        BY Zenon, <1>1 DEF PendingCountsHold, Types
      <4> HIDE DEF A, B
      <4>4. /\ Cardinality(B) <= Cardinality(A) /\ Cardinality(A) \in Nat
            /\ Cardinality(B) \in Nat
        BY <4>1, FS_Subset, FS_CardinalityType
      <4> QED
        BY <4>2, <4>3, <4>4
    <3> QED
      BY <2>1, <3>1, <3>2, <3>3 DEF PendingCountsHold, At
  <2>15. FavoredFollowTheChampions'
    <3>1. sd # NoTask => fav \subseteq in_subdomain
      BY Zenon, <1>1, <2>5 DEF Champions
    <3> QED
      BY Zenon, <2>1, <2>5, <3>1 DEF FavoredFollowTheChampions
  <2>16. EveryEdgeHasAChampion'
    BY Zenon, <1>1, <2>7 DEF EveryEdgeHasAChampion
  <2>17. pc' \in Places => Types'
    <3>1. Queued \subseteq 1 .. allocs
      BY Zenon, <1>1, QueueTypes
    <3>2. favored' \subseteq 1 .. allocs /\ fs_redundant' \subseteq 1 .. allocs
          /\ disabled' \subseteq 1 .. allocs
      BY Zenon, <1>1, <2>1, <2>6, <2>7, <3>1 DEF Types
    <3> QED
      BY Zenon, <1>1, <2>1, <2>5, <3>2 DEF Types
  <2> QED
    BY Zenon, <1>1, <2>1, <2>10, <2>11, <2>12, <2>13, <2>14, <2>15, <2>16, <2>17
<1> QED
  BY Zenon, <1>1, <1>2, <1>3 DEF Flags

(* No culling while a load-balance seed is queued.                         *)
LEMMA CullingSteps == IInv /\ (LoopHead \/ Recull \/ StartLoadBalance) => IInv'
<1> SUFFICES ASSUME IInv, LoopHead \/ Recull \/ StartLoadBalance PROVE IInv'
  OBVIOUS
<1>1. Types /\ Control /\ Flags
  BY DEF IInv
<1>2. CASE LoopHead /\ fuzz_LB_seed
  <2>1. /\ pc = "head" /\ pc' = "select"
        /\ UNCHANGED <<allocs, queue_buf, fields, flags, scores, pending, queue_cur, lbVars,
                       taskVars, rows, markers>>
    BY <1>2 DEF LoopHead, CullHead, flags, scores, pending
  <2>2. SameEpisode
    BY <2>1 DEF SameEpisode, Episode, lbVars
  <2>3. Types' /\ Control' /\ Flags'
    <3>1. Types'
      BY Zenon, <1>1, <2>1 DEF Types, fields, flags, pending, lbVars, taskVars, Places
    <3>2. Control' /\ Flags'
      BY <1>1, <2>1 DEF Control, Flags, fields, lbVars, taskVars, scores, Queued
    <3> QED
      BY <3>1, <3>2
  <2> QED
    BY Zenon, <2>1, <2>2, <2>3, Quiet DEF IInv, taskVars
<1>3. CASE (LoopHead /\ ~ fuzz_LB_seed) \/ Recull \/ StartLoadBalance
  <2>1. PICK next \in {"select", "resync", "take"} :
          /\ cull_queue(next)
          /\ next = "select" => pc = "head" /\ ~ fuzz_LB_seed /\ fuzz_LB_seed' = FALSE
          /\ next = "resync" => pc = "recull" /\ ~ fuzz_LB_seed /\ fuzz_LB_seed' = FALSE
          /\ next = "take" => pc = "loadbalance" /\ ~ fuzz_LB_seed /\ fuzz_LB_seed' = TRUE
    BY Zenon, <1>1, <1>3 DEF LoopHead, CullHead, Recull, StartLoadBalance, Control, Flags, lbVars
  <2>2. UNCHANGED <<allocs, queue_buf, fields, was_fuzzed, in_subdomain, on_disk, top_rated,
                    tc_ref, pending_not_fuzzed, queue_cur, LB_seed_id, taskVars, rows>>
    BY <1>3 DEF LoopHead, Recull, StartLoadBalance, lbVars
  <2>3. ~ Episode
    BY <2>1 DEF Episode
  <2>4. pc' \in {next, "fatal"} /\ (pc' = "fatal" => score_changed /\ MissingMarker(Culled.fav))
    BY <2>1 DEF cull_queue
  <2>5. ~ MissingMarker(Culled.fav)
    BY DEF MissingMarker, IInv, Directory
  <2>6. ~ Episode'
    BY <2>1, <2>4, <2>5 DEF Episode
  <2>7. /\ pc' = next /\ (pc' \in Places => Types') /\ score_changed' \in BOOLEAN
        /\ Directory' /\ SeedIsApart' /\ Champions' /\ NothingDangles'
        /\ PendingCountsHold' /\ FavoredFollowTheChampions' /\ EveryEdgeHasAChampion'
    BY <2>1, <2>2, <2>3, <2>6, CullStep
  <2>8. Types' /\ Flags'
    BY Zenon, <2>1, <2>7 DEF Places, Flags
  <2>9. Control'
    BY <1>1, <2>1, <2>2, <2>7 DEF Control, fields, taskVars, Queued
  <2> QED
    BY Zenon, <2>7, <2>8, <2>9 DEF IInv
<1> QED
  BY <1>2, <1>3

-----------------------------------------------------------------------------
(* The steps of fuzz_one.                                                  *)

(* The current entry may be scored again; nothing else refers to scores.   *)
LEMMA ScoreCurrent ==
  ASSUME IInv, SameEpisode, NEW t, NEW S \in SUBSET {queue_cur}, queue_cur \in Queued,
         Scored(t, Scores, S, Eligible(sd, in_subdomain, disabled), input), SetScores(t),
         \A q \in Queued : cal_failed'[q] = 0 => q \in S \/ cal_failed[q] = 0,
         UNCHANGED <<queue_buf, id, input, center_deviation, flags, pending, sd, rows, markers>>
  PROVE  /\ Directory' /\ SeedIsApart' /\ Champions' /\ NothingDangles' /\ PendingCountsHold'
         /\ FavoredFollowTheChampions' /\ EveryEdgeHasAChampion' /\ score_changed' \in BOOLEAN
<1> USE DEF flags
<1>1. /\ Types /\ Champions /\ NothingDangles /\ FavoredFollowTheChampions
      /\ EveryEdgeHasAChampion
  BY Zenon DEF IInv
<1>2. /\ Queued' = Queued /\ favored \subseteq Queued /\ Queued \subseteq Entry
      /\ \A q \in Entry : Trace(input'[q]) \subseteq Edge
  BY <1>1, QueueTypes DEF Queued, NothingDangles
<1>3. Scored(t, Scores, S, Eligible(sd, in_subdomain', disabled), input')
  BY Zenon
<1>4. S \subseteq Queued'
  BY Zenon, <1>2
<1>5. /\ Champions' /\ FavoredFollowTheChampions' /\ EveryEdgeHasAChampion'
      /\ score_changed' \in BOOLEAN /\ Range(top_rated') \ {NULL} \subseteq Queued'
  BY Zenon, <1>1, <1>2, <1>3, <1>4, Rescoring
<1>6. NothingDangles'
  BY Zenon, <1>1, <1>2, <1>5 DEF NothingDangles
<1>7. Directory' /\ SeedIsApart' /\ PendingCountsHold'
  BY Zenon, KeepDirectory, KeepApart, KeepPending DEF IInv
<1> QED
  BY Zenon, <1>5, <1>6, <1>7

LEMMA RecalibrateStep == IInv /\ Recalibrate => IInv'
<1> SUFFICES ASSUME IInv, Recalibrate PROVE IInv'
  OBVIOUS
<1> DEFINE q == queue_cur
           eligible == Eligible(sd, in_subdomain, disabled)
           Result(t, S) ==
             /\ S \subseteq {q} /\ Scored(t, Scores, S, eligible, input) /\ SetScores(t)
             /\ \A p \in Queued : cal_failed'[p] = 0 => p \in S \/ cal_failed[p] = 0
             /\ cal_failed' \in [Entry -> 0 .. CAL_CHANCES] /\ factor' \in [Entry -> Nat]
             /\ \A p \in Entry : p # q => cal_failed'[p] = cal_failed[p]
<1>1. /\ pc = "begin" /\ pc' \in {"trim", "abandon"} /\ cal_failed[q] > 0
      /\ UNCHANGED <<allocs, queue_buf, id, input, fuzz_level, center_deviation,
                     trim_done, flags, pending, queue_cur, lbVars, taskVars, rows, markers>>
  BY DEF Recalibrate
<1>2. Types /\ Control /\ Flags /\ Champions
  BY DEF IInv
<1>3. q \in Queued /\ q \in Entry
  BY <1>1, <1>2, QueueTypes DEF Control
<1>4. SameEpisode
  BY Zenon, <1>1 DEF SameEpisode, Episode, lbVars
<1>5. \E t, S : Result(t, S)
  <2>1. Counted(Scores) /\ Scored(Scores, Scores, {}, eligible, input)
    BY Zenon, <1>2, ScoreNone DEF Champions
  <2>2. CASE cal_failed[q] >= CAL_CHANCES /\ UNCHANGED <<cal_failed, factor, scores>>
    <3>1. SetScores(Scores)
      BY Zenon, <2>2 DEF SetScores, Scores, scores
    <3>2. Result(Scores, {})
      BY <1>2, <2>1, <2>2, <3>1 DEF Types
    <3> HIDE DEF Result
    <3> QED
      BY <3>2
  <2>3. ASSUME cal_failed[q] < CAL_CHANCES, NEW ok \in BOOLEAN,
               SetCalibration(calibrate_case(ok, Scores, q, eligible, input))
        PROVE  \E u, S : Result(u, S)
    <3> DEFINE fac == [factor EXCEPT ![q] = IF ok THEN Factor(input[q]) ELSE @]
               t == IF ok THEN update_bitmap_score(Scores, q, eligible, fac, input) ELSE Scores
    <3>1. /\ cal_failed' = [cal_failed EXCEPT ![q] = IF ok THEN 0 ELSE @ + 1]
          /\ factor' = fac /\ SetScores(t)
      BY Zenon, <2>3 DEF SetCalibration, calibrate_case
    <3>2. Scored(update_bitmap_score(Scores, q, eligible, fac, input), Scores, {q}, eligible, input)
      <4>1. Scored(update_bitmap_score(Scores, q, eligible, fac, input), Scores, {} \union {q},
                   eligible, input)
        BY Zenon, <1>2, <1>3, <2>1, ScoreOneMore DEF Types
      <4>2. {} \union {q} = {q}
        OBVIOUS
      <4> QED
        BY Zenon, <4>1, <4>2
    <3>3. cal_failed \in [Entry -> 0 .. CAL_CHANCES] /\ CAL_CHANCES \in Nat
          /\ factor \in [Entry -> Nat] /\ Factor(input[q]) \in Nat /\ Queued \subseteq Entry
      BY Zenon, <1>2, <1>3, QueueAssumption, QueueTypes DEF Types
    <3>4. /\ cal_failed' \in [Entry -> 0 .. CAL_CHANCES] /\ factor' \in [Entry -> Nat]
          /\ \A p \in Entry : p # q => cal_failed'[p] = cal_failed[p]
      BY <1>3, <2>3, <3>1, <3>3
    <3>5. CASE ok
      <4>1. t = update_bitmap_score(Scores, q, eligible, fac, input)
        BY Zenon, <3>5
      <4>2. \A p \in Queued : cal_failed'[p] = 0 => p \in {q} \/ cal_failed[p] = 0
        BY Zenon, <3>1, <3>3
      <4>3. SetScores(update_bitmap_score(Scores, q, eligible, fac, input))
        BY Zenon, <3>1, <4>1
      <4> HIDE DEF t, q, eligible, fac
      <4>4. Result(update_bitmap_score(Scores, q, eligible, fac, input), {q})
        BY Zenon, <3>2, <3>4, <4>2, <4>3
      <4> HIDE DEF Result
      <4> QED
        BY Zenon, <4>4
    <3>6. CASE ~ ok
      <4>1. t = Scores
        BY ZenonT(40), <3>6
      <4>2. cal_failed'[q] = cal_failed[q] + 1 /\ cal_failed[q] \in Nat
        <5> HIDE DEF q
        <5> QED
          BY <1>3, <3>1, <3>3, <3>6
      <4>3. \A p \in Queued : cal_failed'[p] = 0 => cal_failed[p] = 0
        BY <3>3, <3>4, <4>2
      <4>4. SetScores(Scores)
        BY Zenon, <3>1, <4>1
      <4> HIDE DEF t, q, eligible, fac
      <4>5. Result(Scores, {})
        BY Zenon, <2>1, <3>4, <4>3, <4>4
      <4> HIDE DEF Result
      <4> QED
        BY Zenon, <4>5
    <3> QED
      BY Zenon, <3>5, <3>6
  <2> QED
    BY <2>2, <2>3 DEF Recalibrate
<1>6. PICK t, S : Result(t, S)
  BY Zenon, <1>5
<1>7. Control'
  <2>1. q \in 1 .. allocs /\ allocs \in Nat
    BY ZenonT(40), <1>2, <1>3, QueueTypes
  <2> QED
    BY <1>1, <1>2, <1>3, <1>6, <2>1 DEF Control, lbVars, taskVars, Queued
<1>8. /\ Directory' /\ SeedIsApart' /\ Champions' /\ NothingDangles' /\ PendingCountsHold'
      /\ FavoredFollowTheChampions' /\ EveryEdgeHasAChampion' /\ score_changed' \in BOOLEAN
  BY <1>1, <1>3, <1>4, <1>6, ScoreCurrent DEF taskVars
<1>9. Types'
  BY Zenon, <1>1, <1>2, <1>6 DEF Types, flags, pending, lbVars, taskVars, Places
<1>10. Flags'
  BY Zenon, <1>1, <1>2, <1>8 DEF Flags, lbVars
<1> QED
  BY Zenon, <1>7, <1>8, <1>9, <1>10 DEF IInv

LEMMA TrimStep == IInv /\ Trim => IInv'
<1> SUFFICES ASSUME IInv, Trim PROVE IInv'
  OBVIOUS
<1> DEFINE q == queue_cur
           eligible == Eligible(sd, in_subdomain, disabled)
<1>1. /\ pc \in {"trim", "begin"} /\ pc' = "havoc"
      /\ trim_done' = trim_done \union {q}
      /\ UNCHANGED <<allocs, queue_buf, id, input, fuzz_level, cal_failed, center_deviation,
                     flags, pending, queue_cur, lbVars, taskVars, rows, markers>>
  BY DEF Trim
<1>2. PICK f \in 1 .. factor[q] :
        /\ factor' = [factor EXCEPT ![q] = f]
        /\ IF f = factor[q] THEN UNCHANGED scores
           ELSE SetScores(update_bitmap_score(Scores, q, eligible, factor', input))
  BY Zenon DEF Trim
<1>3. Types /\ Control /\ Flags /\ Champions
  BY Zenon DEF IInv
<1>4. q \in Queued /\ q \in Entry /\ q \in 1 .. allocs
  BY Zenon, <1>1, <1>3, QueueTypes DEF Control
<1>5. SameEpisode
  BY <1>1 DEF SameEpisode, Episode, lbVars
<1>6. Counted(Scores) /\ Scored(Scores, Scores, {}, eligible, input)
  BY Zenon, <1>3, ScoreNone DEF Champions
<1>7. PICK t, S : S \subseteq {q} /\ Scored(t, Scores, S, eligible, input) /\ SetScores(t)
  <2>1. CASE f = factor[q]
    <3>1. SetScores(Scores)
      BY Zenon, <1>2, <2>1 DEF SetScores, Scores, scores
    <3> QED
      BY <1>6, <3>1
  <2>2. CASE f # factor[q]
    <3>1. Scored(update_bitmap_score(Scores, q, eligible, factor', input), Scores,
                 {} \union {q}, eligible, input)
      BY Zenon, <1>3, <1>4, <1>6, ScoreOneMore DEF Types
    <3> QED
      BY <1>2, <2>2, <3>1
  <2> QED
    BY Zenon, <2>1, <2>2
<1>8. /\ Directory' /\ SeedIsApart' /\ Champions' /\ NothingDangles' /\ PendingCountsHold'
      /\ FavoredFollowTheChampions' /\ EveryEdgeHasAChampion' /\ score_changed' \in BOOLEAN
  BY <1>1, <1>4, <1>5, <1>7, ScoreCurrent DEF taskVars
<1>9. Types'
  <2>1. factor' \in [Entry -> Nat]
    BY <1>2, <1>3, <1>4 DEF Types
  <2> QED
    BY Zenon, <1>1, <1>3, <1>4, <2>1 DEF Types, flags, pending, lbVars, taskVars, Places
<1>10. Control'
  BY Zenon, <1>1, <1>3, <1>4 DEF Control, lbVars, taskVars, Queued
<1>11. Flags'
  BY Zenon, <1>1, <1>3, <1>8 DEF Flags, lbVars
<1> QED
  BY Zenon, <1>8, <1>9, <1>10, <1>11 DEF IInv

(* abandon_entry counts the entry out exactly once.                        *)
LEMMA AbandonStep == IInv /\ AbandonEntry => IInv'
<1> SUFFICES ASSUME IInv, AbandonEntry PROVE IInv'
  OBVIOUS
<1> DEFINE q == queue_cur
           done == DoneFuzzing(q)
<1>1. /\ pc \in {"havoc", "abandon"}
      /\ was_fuzzed' = IF done THEN was_fuzzed \union {q} ELSE was_fuzzed
      /\ pending_not_fuzzed' = pending_not_fuzzed - (IF done THEN 1 ELSE 0)
      /\ pending_favored' = pending_favored - (IF done /\ q \in favored THEN 1 ELSE 0)
      /\ smallest_favored' = IF done /\ q \in favored THEN -1 ELSE smallest_favored
      /\ fuzz_level' = [fuzz_level EXCEPT ![q] = IF @ < MaxLevel THEN @ + 1 ELSE @]
      /\ UNCHANGED <<allocs, queue_buf, id, input, factor, cal_failed, center_deviation,
                     trim_done, favored, fs_redundant, disabled, in_subdomain, on_disk,
                     scores, queue_cur, lbVars, taskVars, rows, markers>>
  BY DEF AbandonEntry, NextFavored
<1>2. /\ Types /\ Control /\ Flags /\ Champions /\ NothingDangles /\ PendingCountsHold
      /\ Queued \subseteq Entry /\ IsFiniteSet(Queued)
  BY Zenon, QueueTypes, QueuedIsFinite DEF IInv
<1>3. q \in Queued /\ q \in Entry /\ q \in 1 .. allocs
  BY <1>1, <1>2, QueueTypes DEF Control
<1>4. done => q \notin was_fuzzed /\ q \notin disabled
  BY DEF DoneFuzzing
<1>5. pc' \in {"clean", "select", "coop"} /\ (pc' = "clean" <=> fuzz_LB_seed)
  BY Zenon DEF AbandonEntry
<1>6. SameEpisode
  BY Zenon, <1>1, <1>5 DEF SameEpisode, Episode, lbVars
<1> HIDE DEF done
<1>7. PendingCountsHold' /\ pending_favored' \in Nat /\ pending_not_fuzzed' \in Nat
  <2> DEFINE F == favored \ was_fuzzed
             Q == (Queued \ was_fuzzed) \ disabled
  <2>1. favored \subseteq Queued
    BY <1>2 DEF NothingDangles
  <2>2. IsFiniteSet(F) /\ IsFiniteSet(Q)
    BY Zenon, <1>2, <2>1, FS_Subset
  <2>3. /\ (favored \ was_fuzzed)' = IF done THEN F \ {q} ELSE F
        /\ ((Queued \ was_fuzzed) \ disabled)' = IF done THEN Q \ {q} ELSE Q
    BY <1>1 DEF Queued
  <2>4. done => (q \in F <=> q \in favored) /\ q \in Q
    BY Zenon, <1>3, <1>4
  <2>5. pending_favored = Cardinality(F) /\ pending_not_fuzzed >= Cardinality(Q)
        /\ pending_favored \in Nat /\ pending_not_fuzzed \in Nat
    BY <1>2 DEF PendingCountsHold, Types
  <2> DEFINE F2 == F \ {q}
             Q2 == Q \ {q}
             FF == (favored \ was_fuzzed)'
             QQ == ((Queued \ was_fuzzed) \ disabled)'
  <2>6. /\ Cardinality(F2) = IF q \in F THEN Cardinality(F) - 1 ELSE Cardinality(F)
        /\ Cardinality(Q2) = IF q \in Q THEN Cardinality(Q) - 1 ELSE Cardinality(Q)
        /\ IsFiniteSet(F2) /\ IsFiniteSet(Q2)
    BY Zenon, <2>2, FS_RemoveElement
  <2>7. /\ Cardinality(F2) \in Nat /\ Cardinality(Q2) \in Nat
        /\ Cardinality(F) \in Nat /\ Cardinality(Q) \in Nat
    BY Zenon, <2>2, <2>6, FS_CardinalityType
  <2>8. (done => FF = F2 /\ QQ = Q2) /\ (~ done => FF = F /\ QQ = Q)
    BY Zenon, <2>3
  <2> HIDE DEF F, Q, F2, Q2, FF, QQ, q
  <2>9. /\ pending_favored' = Cardinality(FF) /\ pending_not_fuzzed' >= Cardinality(QQ)
        /\ pending_favored' \in Nat /\ pending_not_fuzzed' \in Nat
    BY <1>1, <2>4, <2>5, <2>6, <2>7, <2>8
  <2>10. smallest_favored' >= 0 =>
           smallest_favored' < Len(queue_buf') /\ At(smallest_favored)' \in FF
    <3> SUFFICES ASSUME smallest_favored' >= 0
                 PROVE  smallest_favored' < Len(queue_buf') /\ At(smallest_favored)' \in FF
      BY Zenon
    <3>1. smallest_favored' = smallest_favored /\ (done => q \notin favored)
      BY <1>1
    <3>2. smallest_favored < Len(queue_buf) /\ At(smallest_favored) \in F
      BY <1>2, <3>1 DEF PendingCountsHold, F
    <3>3. F2 = F \/ ~ done
      BY <3>1 DEF F2, F
    <3> QED
      BY <1>1, <2>8, <3>1, <3>2, <3>3 DEF At
  <2> QED
    BY Zenon, <2>9, <2>10 DEF PendingCountsHold, FF, QQ
<1>8. Types'
  <2>1. fuzz_level' \in [Entry -> 0 .. MaxLevel]
    <3> DEFINE new == IF fuzz_level[q] < MaxLevel THEN fuzz_level[q] + 1 ELSE fuzz_level[q]
    <3>1. fuzz_level \in [Entry -> 0 .. MaxLevel] /\ MaxLevel \in Nat
      BY <1>2, QueueAssumption DEF Types
    <3>2. fuzz_level[q] \in 0 .. MaxLevel
      BY <1>3, <3>1
    <3>3. new \in 0 .. MaxLevel
      BY <3>1, <3>2
    <3>4. fuzz_level' = [fuzz_level EXCEPT ![q] = new]
      BY Zenon, <1>1
    <3> QED
      BY Zenon, <3>1, <3>3, <3>4
  <2>2. smallest_favored' \in Nat \union {-1} /\ was_fuzzed' \subseteq 1 .. allocs
    BY Zenon, <1>1, <1>2, <1>3 DEF Types
  <2> QED
    BY Zenon, <1>1, <1>2, <1>5, <1>7, <2>1, <2>2 DEF Types, lbVars, taskVars, Places
<1>9. Control'
  BY Zenon, <1>1, <1>2, <1>5 DEF Control, lbVars, taskVars
<1>10. Flags'
  BY Zenon, <1>1, <1>2 DEF Flags, lbVars, scores
<1>11. Directory' /\ SeedIsApart'
  BY Zenon, <1>1, <1>6, KeepDirectory, KeepApart DEF IInv
<1>12. Champions' /\ NothingDangles' /\ FavoredFollowTheChampions' /\ EveryEdgeHasAChampion'
  BY <1>1, KeepChampions, KeepDangles, KeepFollow, KeepEvery DEF IInv, scores, taskVars
<1> QED
  BY <1>7, <1>8, <1>9, <1>10, <1>11, <1>12 DEF IInv
=============================================================================
