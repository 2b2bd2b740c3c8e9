------------------------- MODULE WorkerQueueProofs -------------------------
(***************************************************************************)
(* The queue of a worker stays consistent for every coverage map, every    *)
(* set of test cases and tasks, and every number of entries: the steps     *)
(* that change the subdomain, add an entry or remove one, and the          *)
(* theorems.                                                               *)
(***************************************************************************)
EXTENDS WorkerQueueInvariant

-----------------------------------------------------------------------------
(* The radius and the task.                                                *)

(* A wider radius scores what it takes in.                                 *)
LEMMA EndCooperationStep == IInv /\ EndCooperation => IInv'
<1> SUFFICES ASSUME IInv, EndCooperation PROVE IInv'
  OBVIOUS
<1> DEFINE moved  == IF adjust_r > r THEN TakenIn(adjust_r) ELSE {}
           inside == in_subdomain \union moved
           t      == Rescored(Scores, moved, Eligible(sd, inside, disabled))
<1>1. /\ pc = "coop" /\ pc' = "distance"
      /\ r' = IF adjust_r > r THEN adjust_r ELSE r
      /\ adjust_r' = -1 /\ in_subdomain' = inside /\ SetScores(t)
      /\ UNCHANGED <<allocs, queue_buf, fields, favored, was_fuzzed, fs_redundant, disabled,
                     on_disk, pending, queue_cur, lbVars, sd, rows, markers>>
  BY DEF EndCooperation
<1>2. /\ Types /\ Control /\ Flags /\ Champions /\ NothingDangles
      /\ FavoredFollowTheChampions /\ EveryEdgeHasAChampion
  BY DEF IInv
<1>3. /\ moved \subseteq Queued /\ Queued \subseteq 1 .. allocs /\ Queued \subseteq Entry
      /\ Queued' = Queued /\ favored \subseteq Queued
      /\ \A q \in Entry : Trace(input'[q]) \subseteq Edge
      /\ input' = input /\ cal_failed' = cal_failed
  BY <1>1, <1>2, QueueTypes DEF TakenIn, Queued, NothingDangles, fields
<1>4. Scored(t, Scores, moved, Eligible(sd, in_subdomain', disabled), input')
  <2>1. queue_buf \in Seq(Entry) /\ input \in [Entry -> Input] /\ Counted(Scores)
    BY Zenon, <1>2, QueueTypes DEF Types, Champions
  <2> HIDE DEF moved
  <2>2. Scored(t, Scores, Queued \intersect moved, Eligible(sd, inside, disabled), input)
    BY <2>1, RescoredScores
  <2>3. Queued \intersect moved = moved
    BY Zenon, <1>3
  <2> HIDE DEF t, inside
  <2> QED
    BY <1>1, <1>3, <2>2, <2>3
<1> HIDE DEF t, moved
<1>5. /\ Champions' /\ FavoredFollowTheChampions' /\ EveryEdgeHasAChampion'
      /\ score_changed' \in BOOLEAN /\ Range(top_rated') \ {NULL} \subseteq Queued'
  <2>1. \A q \in (Queued' \intersect in_subdomain') \ disabled :
          cal_failed'[q] = 0 =>
            q \in moved \/ (q \in Queued \intersect in_subdomain /\ cal_failed[q] = 0)
    BY <1>1, <1>3
  <2>2. /\ in_subdomain \subseteq in_subdomain' /\ Queued \subseteq Queued'
        /\ moved \subseteq Queued' /\ Queued' \subseteq Entry
        /\ \A q \in Queued : input'[q] = input[q]
    BY <1>1, <1>3
  <2> QED
    BY Zenon, <1>1, <1>2, <1>3, <1>4, <2>1, <2>2, Rescoring
<1>6. Types'
  <2>1. in_subdomain' \subseteq 1 .. allocs /\ r' \in 0 .. DBL_MAX /\ adjust_r' \in -1 .. DBL_MAX
    BY <1>1, <1>2, <1>3 DEF Types, DBL_MAX
  <2> QED
    BY Zenon, <1>1, <1>2, <2>1 DEF Types, fields, pending, lbVars, Places
<1>7. Control'
  BY <1>1, <1>2 DEF Control, fields, lbVars, DBL_MAX
<1>8. Flags'
  BY <1>1, <1>2, <1>5 DEF Flags, lbVars
<1>9. ~ Episode /\ ~ Episode' /\ SameEpisode
  BY <1>1, <1>2 DEF Control, Episode, SameEpisode, lbVars
<1>10. Directory' /\ SeedIsApart' /\ PendingCountsHold'
  BY <1>1, <1>9, KeepDirectory, KeepPending DEF IInv, SeedIsApart, fields
<1>11. NothingDangles'
  BY <1>1, <1>2, <1>3, <1>5 DEF NothingDangles
<1> QED
  BY <1>5, <1>6, <1>7, <1>8, <1>10, <1>11 DEF IInv

(* After a new task every reference count is zero and no edge is won.      *)
LEMMA ForgottenIsCounted ==
  ASSUME Champions
  PROVE  Counted(Forgotten) /\ Forgotten.top = [e \in Edge |-> NULL]
<1>1. /\ top_rated \in [Edge -> Entry \union {NULL}] /\ tc_ref \in [Entry -> Int]
      /\ \A q \in Entry : tc_ref[q] = Cardinality({e \in Edge : top_rated[e] = q})
  BY ScoreTypes
<1>2. score_changed \in BOOLEAN
  BY ScoreTypes
<1>3. /\ Forgotten.top = [e \in Edge |-> NULL]
      /\ Forgotten.ref = [q \in Entry |-> IF q \in Range(top_rated) THEN 0 ELSE tc_ref[q]]
  BY DEF Forgotten
<1>4. ASSUME NEW q \in Entry
      PROVE  Forgotten.ref[q] = 0 /\ Cardinality(Slots(Forgotten, q)) = 0
  <2>1. Slots(Forgotten, q) = {}
    BY <1>3, Constants DEF Slots
  <2>2. q \notin Range(top_rated) => {e \in Edge : top_rated[e] = q} = {}
    BY <1>1 DEF Range
  <2>3. q \notin Range(top_rated) => tc_ref[q] = 0
    BY <1>1, <2>2, FS_EmptySet
  <2> QED
    BY <1>3, <2>1, <2>3, FS_EmptySet
<1>5. Forgotten \in ScoreState
  <2>1. [e \in Edge |-> NULL] \in [Edge -> Entry \union {NULL}]
        /\ [q \in Entry |-> IF q \in Range(top_rated) THEN 0 ELSE tc_ref[q]] \in [Entry -> Int]
    BY <1>1
  <2> QED
    BY <1>2, <2>1 DEF Forgotten, ScoreState
<1> QED
  BY <1>3, <1>4, <1>5 DEF Counted

LEMMA TaskStep == IInv /\ update_subdomain => IInv'
<1> SUFFICES ASSUME IInv, update_subdomain PROVE IInv'
  OBVIOUS
<1> DEFINE eligible == Eligible(sd', in_subdomain', disabled)
           t == Rescored(Forgotten, Queued, eligible)
<1>1. /\ pc = "task" /\ pc' = "recull" /\ sd < Cardinality(Task)
      /\ sd' = sd + 1 /\ r' \in Radii(sd')
      /\ center_deviation' =
           [q \in Entry |-> IF q \in Queued THEN Deviation(input[q], sd') ELSE DBL_MAX]
      /\ in_subdomain' = {q \in Queued : center_deviation'[q] <= r'}
      /\ SetScores(t)
      /\ UNCHANGED <<allocs, queue_buf, id, input, factor, fuzz_level, cal_failed, trim_done,
                     favored, was_fuzzed, fs_redundant, disabled, on_disk, pending, queue_cur,
                     lbVars, adjust_r, rows, markers>>
  BY DEF update_subdomain
<1>2. Types /\ Control /\ Flags /\ Champions /\ NothingDangles
  BY DEF IInv
<1>3. /\ Queued \subseteq 1 .. allocs /\ Queued \subseteq Entry /\ Queued' = Queued
      /\ \A q \in Entry : Trace(input[q]) \subseteq Edge
      /\ queue_buf \in Seq(Entry) /\ input \in [Entry -> Input]
  BY Zenon, <1>1, <1>2, QueueTypes DEF Queued, Types
<1>4. sd' \in Task /\ sd' # NoTask
  <2>1. Cardinality(Task) \in Nat /\ Task = 1 .. Cardinality(Task)
    BY QueueAssumption, FS_CardinalityType
  <2>2. sd \in Task \union {0}
    BY <1>2 DEF Types, NoTask
  <2> QED
    BY <1>1, <2>1, <2>2 DEF NoTask
<1>5. Types'
  <2>1. r' \in 0 .. DBL_MAX
    BY <1>1, <1>4, Distances
  <2>2. center_deviation' \in [Entry -> 0 .. DBL_MAX]
    <3> DEFINE d(q) == IF q \in Queued THEN Deviation(input[q], sd') ELSE DBL_MAX
    <3>1. \A q \in Entry : input[q] \in Input
      BY <1>3
    <3>2. \A q \in Entry : Deviation(input[q], sd') \in 0 .. DBL_MAX
      BY <1>4, <3>1, Distances
    <3>3. DBL_MAX \in 0 .. DBL_MAX
      BY DEF DBL_MAX
    <3>4. \A q \in Entry : d(q) \in 0 .. DBL_MAX
      BY <3>2, <3>3
    <3>5. center_deviation' = [q \in Entry |-> d(q)]
      BY <1>1
    <3> HIDE DEF d
    <3> QED
      BY <3>4, <3>5
  <2>3. in_subdomain' \subseteq 1 .. allocs
    BY Zenon, <1>1, <1>3
  <2> QED
    BY Zenon, <1>1, <1>2, <1>4, <2>1, <2>2, <2>3 DEF Types, pending, lbVars, Places
<1>6. Control'
  <2>1. r' < DBL_MAX
    BY <1>1, <1>4, Distances
  <2> QED
    BY <1>1, <1>2, <2>1 DEF Control, lbVars, DBL_MAX
<1>7. /\ Counted(t)
      /\ \A e \in Edge :
           \/ t.top[e] = NULL
           \/ t.top[e] \in Queued \intersect eligible /\ e \in Trace(input[t.top[e]])
      /\ \A q \in Queued \intersect eligible : \A e \in Trace(input[q]) : t.top[e] # NULL
      /\ ~ t.changed => t.top = [e \in Edge |-> NULL]
  <2>1. Counted(Forgotten) /\ Forgotten.top = [e \in Edge |-> NULL]
    BY <1>2, ForgottenIsCounted
  <2>2. Scored(t, Forgotten, Queued \intersect Queued, eligible, input)
    BY <1>3, <2>1, RescoredScores
  <2>3. Queued \intersect Queued = Queued
    OBVIOUS
  <2> HIDE DEF t, eligible
  <2> QED
    BY <2>1, <2>2, <2>3 DEF Scored
<1>8. top_rated' = t.top /\ tc_ref' = t.ref /\ score_changed' = t.changed
  BY <1>1 DEF SetScores
<1>9. \A q \in Entry : q \in eligible <=> q \notin disabled /\ q \in in_subdomain'
  BY <1>4 DEF Eligible
<1> HIDE DEF t, eligible
<1>10. Scores' = t /\ t.changed \in BOOLEAN /\ DOMAIN t.top = Edge
  <2>1. t \in ScoreState
    BY <1>7 DEF Counted
  <2>2. /\ t = [top |-> t.top, ref |-> t.ref, changed |-> t.changed]
        /\ t.changed \in BOOLEAN /\ DOMAIN t.top = Edge
    BY <2>1 DEF ScoreState
  <2> QED
    BY <1>8, <2>2 DEF Scores
<1>11. Champions'
  <2>1. Counted(Scores)'
    BY <1>7, <1>10 DEF Counted, Slots
  <2>2. \A e \in Edge : t.top[e] # NULL =>
          /\ t.top[e] \in Queued /\ e \in Trace(input[t.top[e]]) /\ t.top[e] \in in_subdomain'
    BY Zenon, <1>3, <1>7, <1>9
  <2> QED
    BY Zenon, <1>1, <1>3, <1>8, <2>1, <2>2 DEF Champions
<1>12. NothingDangles'
  <2>1. Range(top_rated') \ {NULL} \subseteq Queued
    BY <1>7, <1>8, <1>10 DEF Range
  <2> QED
    BY <1>1, <1>2, <1>3, <2>1 DEF NothingDangles
<1>13. FavoredFollowTheChampions'
  <2> SUFFICES ASSUME ~ score_changed' PROVE FavoredFollowTheChampions'
    BY DEF FavoredFollowTheChampions
  <2>1. top_rated' = [e \in Edge |-> NULL] /\ Edge # {}
    BY <1>7, <1>8, QueueAssumption
  <2>2. Range(top_rated') = {NULL}
    BY Zenon, <2>1 DEF Range
  <2> QED
    BY <2>1, <2>2 DEF FavoredFollowTheChampions
<1>14. EveryEdgeHasAChampion'
  BY Zenon, <1>1, <1>3, <1>7, <1>8, <1>9 DEF EveryEdgeHasAChampion
<1>15. Flags'
  BY Zenon, <1>1, <1>2, <1>8, <1>10 DEF Flags, lbVars
<1>16. ~ Episode /\ ~ Episode' /\ SameEpisode
  BY <1>1, <1>2 DEF Control, Episode, SameEpisode, lbVars
<1>17. Directory' /\ SeedIsApart' /\ PendingCountsHold'
  BY <1>1, <1>16, KeepDirectory, KeepPending DEF IInv, SeedIsApart
<1> QED
  BY Zenon, <1>5, <1>6, <1>11, <1>12, <1>13, <1>14, <1>15, <1>17 DEF IInv

-----------------------------------------------------------------------------
(* New entries.                                                            *)

(* The new entry is fresh and comes last.                                  *)
LEMMA AddAppends ==
  ASSUME Types, NEW i, NEW dev, NEW radius, NEW ok, NEW fuzzed, Add(i, dev, radius, ok, fuzzed)
  PROVE  /\ allocs' = allocs + 1 /\ allocs' \in Entry /\ allocs' \notin 1 .. allocs
         /\ 1 .. allocs' = (1 .. allocs) \union {allocs'}
         /\ queue_buf' \in Seq(1 .. allocs') /\ Len(queue_buf') = Len(queue_buf) + 1
         /\ \A k \in 1 .. Len(queue_buf) : queue_buf'[k] = queue_buf[k]
         /\ queue_buf'[Len(queue_buf) + 1] = allocs'
         /\ Queued' = Queued \union {allocs'} /\ Queued' \subseteq Entry
<1>1. allocs' = allocs + 1 /\ allocs < MaxAlloc /\ queue_buf' = Append(queue_buf, allocs')
  BY DEF Add
<1>2. allocs \in Nat /\ 1 <= allocs /\ MaxAlloc \in Nat
  BY Constants DEF Types, Entry
<1>3. /\ allocs' \in Entry /\ allocs' \notin 1 .. allocs
      /\ 1 .. allocs' = (1 .. allocs) \union {allocs'}
  BY <1>1, <1>2 DEF Entry
<1>4. queue_buf \in Seq(1 .. allocs') /\ allocs' \in 1 .. allocs' /\ Len(queue_buf) \in Nat
  <2>1. queue_buf \in Seq(1 .. allocs)
    BY DEF Types
  <2> QED
    BY <1>2, <1>3, <2>1
<1>5. /\ queue_buf' \in Seq(1 .. allocs') /\ Len(queue_buf') = Len(queue_buf) + 1
      /\ \A k \in 1 .. Len(queue_buf) : queue_buf'[k] = queue_buf[k]
      /\ queue_buf'[Len(queue_buf) + 1] = allocs'
      /\ DOMAIN queue_buf' = 1 .. Len(queue_buf) + 1
  BY <1>1, <1>4
<1>6. Queued' = Queued \union {allocs'}
  <2>1. 1 .. Len(queue_buf) + 1 = (1 .. Len(queue_buf)) \union {Len(queue_buf) + 1}
    BY <1>4
  <2>2. DOMAIN queue_buf = 1 .. Len(queue_buf)
    BY <1>4
  <2>3. Queued' = {queue_buf'[k] : k \in 1 .. Len(queue_buf) + 1}
    BY <1>5 DEF Queued, Range
  <2>4. Queued = {queue_buf[k] : k \in 1 .. Len(queue_buf)}
    BY <2>2 DEF Queued, Range
  <2> QED
    BY <1>5, <2>1, <2>3, <2>4
<1>7. Queued \subseteq Entry
  BY QueueTypes
<1> QED
  BY Zenon, <1>1, <1>3, <1>5, <1>6, <1>7

(* The radius of a new entry is the present one or, with a task, a wider   *)
(* one: the distance of a find.                                            *)
RadiusFor(radius) ==
  radius = r \/ (sd # NoTask /\ radius \in 0 .. DBL_MAX - 1 /\ radius > r)

(* The new entry and those the wider radius takes in are scored.           *)
LEMMA AddScores ==
  ASSUME IInv, NEW i \in Input, NEW dev, NEW radius, NEW ok \in BOOLEAN, NEW fuzzed,
         Add(i, dev, radius, ok, fuzzed), sd' = sd
  PROVE  /\ Champions' /\ FavoredFollowTheChampions' /\ EveryEdgeHasAChampion'
         /\ score_changed' \in BOOLEAN /\ Range(top_rated') \ {NULL} \subseteq Queued'
<1> DEFINE q == allocs + 1
           moved == IF radius > r THEN TakenIn(radius) ELSE {}
           inside == in_subdomain \union moved
                       \union (IF sd # NoTask /\ dev <= radius THEN {q} ELSE {})
           in2 == [input EXCEPT ![q] = i]
           E1 == Eligible(sd, inside \ {q}, disabled)
           E2 == Eligible(sd, inside, disabled)
           s1 == Rescored(Scores, moved, E1)
           fac == [factor EXCEPT ![q] = IF ok THEN Factor(in2[q]) ELSE @]
           t == IF ok THEN update_bitmap_score(s1, q, E2, fac, in2) ELSE s1
<1>1. /\ in_subdomain' = inside /\ input' = in2 /\ SetScores(t)
      /\ cal_failed' = [cal_failed EXCEPT ![q] = IF ok THEN 0 ELSE @ + 1]
      /\ UNCHANGED <<disabled, favored>>
  BY DEF Add, SetCalibration, calibrate_case
<1>2. /\ Types /\ Champions /\ NothingDangles /\ FavoredFollowTheChampions
      /\ EveryEdgeHasAChampion
  BY DEF IInv
<1>3. /\ q \in Entry /\ q \notin Queued /\ Queued' = Queued \union {q}
      /\ Queued \subseteq Entry /\ queue_buf \in Seq(Entry) /\ allocs' = q
      /\ favored \subseteq Queued /\ input \in [Entry -> Input]
      /\ cal_failed \in [Entry -> 0 .. CAL_CHANCES]
  BY Zenon, <1>2, AddAppends, QueueTypes DEF NothingDangles, Types
<1>4. in2 \in [Entry -> Input] /\ \A p \in Queued : in2[p] = input[p]
  BY <1>3
<1>5. moved \subseteq Queued /\ inside \subseteq in_subdomain \union moved \union {q}
      /\ in_subdomain \subseteq inside /\ moved \subseteq inside
  BY Zenon DEF TakenIn
<1> HIDE DEF q, moved, inside, in2, fac
<1>6. Scored(s1, Scores, moved, E2, in2)
  <2>1. Counted(Scores)
    BY <1>2 DEF Champions
  <2>2. Scored(s1, Scores, Queued \intersect moved, E1, input)
    BY <1>3, <2>1, RescoredScores
  <2>3. Queued \intersect moved = moved
    BY <1>5
  <2>4. Scored(s1, Scores, moved, E1, input)
    BY <2>2, <2>3
  <2>5. \A p \in moved : (p \in E1 <=> p \in E2) /\ in2[p] = input[p]
    BY <1>3, <1>4, <1>5 DEF Eligible
  <2> HIDE DEF s1, E1, E2
  <2> QED
    BY Zenon, <2>4, <2>5 DEF Scored
<1>7. Scored(update_bitmap_score(s1, q, E2, fac, in2), Scores, moved \union {q}, E2, in2)
  <2> HIDE DEF s1, E2
  <2> QED
    BY Zenon, <1>3, <1>4, <1>5, <1>6, ScoreOneMore
<1>8. PICK S : /\ Scored(t, Scores, S, E2, in2) /\ moved \subseteq S
               /\ S \subseteq moved \union {q} /\ (ok => q \in S)
  <2>1. CASE ok
    <3>1. t = update_bitmap_score(s1, q, E2, fac, in2)
      BY <2>1
    <3> HIDE DEF t, s1, E2
    <3> QED
      BY <1>7, <3>1
  <2>2. CASE ~ ok
    <3>1. t = s1
      BY <2>2
    <3> HIDE DEF t, s1, E2
    <3> QED
      BY <1>6, <2>2, <3>1
  <2> QED
    BY <2>1, <2>2
<1>9. Scored(t, Scores, S, Eligible(sd, in_subdomain', disabled), input')
  <2> HIDE DEF t
  <2> QED
    BY Zenon, <1>1, <1>8
<1>10. \A p \in (Queued' \intersect in_subdomain') \ disabled :
         cal_failed'[p] = 0 => p \in S \/ (p \in Queued \intersect in_subdomain /\ cal_failed[p] = 0)
  <2>1. ~ ok => cal_failed'[q] # 0
    BY <1>1, <1>3
  <2>2. \A p \in Queued : cal_failed'[p] = cal_failed[p]
    BY <1>1, <1>3
  <2> QED
    BY Zenon, <1>1, <1>3, <1>5, <1>8, <2>1, <2>2
<1>11. \A p \in Entry : Trace(input'[p]) \subseteq Edge
  BY Zenon, <1>1, <1>4, Constants
<1>12. /\ in_subdomain \subseteq in_subdomain' /\ Queued \subseteq Queued'
       /\ S \subseteq Queued' /\ Queued' \subseteq Entry
       /\ \A p \in Queued : input'[p] = input[p]
  BY Zenon, <1>1, <1>3, <1>4, <1>5, <1>8
<1> HIDE DEF t, E2, s1
<1> QED
  BY ZenonT(40), <1>1, <1>2, <1>3, <1>9, <1>10, <1>11, <1>12, Rescoring

(* The fields of the new entry, and the radius.                            *)
LEMMA AddTypes ==
  ASSUME IInv, NEW i \in Input, NEW dev \in 0 .. DBL_MAX, NEW radius, RadiusFor(radius),
         NEW ok \in BOOLEAN, NEW fuzzed \in BOOLEAN, Add(i, dev, radius, ok, fuzzed)
  PROVE  /\ input' \in [Entry -> Input] /\ factor' \in [Entry -> Nat] /\ id' \in [Entry -> Nat]
         /\ fuzz_level' \in [Entry -> 0 .. MaxLevel]
         /\ cal_failed' \in [Entry -> 0 .. CAL_CHANCES]
         /\ center_deviation' \in [Entry -> 0 .. DBL_MAX]
         /\ favored' \subseteq 1 .. allocs' /\ was_fuzzed' \subseteq 1 .. allocs'
         /\ fs_redundant' \subseteq 1 .. allocs' /\ disabled' \subseteq 1 .. allocs'
         /\ in_subdomain' \subseteq 1 .. allocs'
         /\ pending_favored' \in Nat /\ pending_not_fuzzed' \in Nat
         /\ smallest_favored' \in Nat \union {-1}
         /\ r' \in 0 .. DBL_MAX /\ (sd # NoTask => r' < DBL_MAX)
         /\ \A q \in Entry : q > allocs' => cal_failed'[q] = 0
<1> DEFINE q == allocs + 1
           j == [input EXCEPT ![q] = i][q]
<1>1. Types /\ Control
  BY DEF IInv
<1>2. /\ q = allocs' /\ q \in Entry /\ 1 .. allocs' = (1 .. allocs) \union {q}
      /\ Len(queue_buf) \in Nat /\ Queued \subseteq 1 .. allocs
  BY <1>1, AddAppends, QueueTypes
<1>3. /\ MaxLevel \in Nat \ {0} /\ CAL_CHANCES \in Nat \ {0} /\ Factor(i) \in Nat
      /\ cal_failed[q] = 0 /\ allocs \in Nat
  <2>1. MaxLevel \in Nat \ {0} /\ CAL_CHANCES \in Nat \ {0} /\ Factor(i) \in Nat
    BY QueueAssumption
  <2>2. allocs \in Nat
    BY Zenon, <1>1, QueueTypes
  <2> QED
    BY <1>1, <1>2, <2>1, <2>2 DEF Control
<1>4. /\ input' = [input EXCEPT ![q] = i]
      /\ id' = [id EXCEPT ![q] = Len(queue_buf)]
      /\ center_deviation' = [center_deviation EXCEPT ![q] = dev]
      /\ fuzz_level' = [fuzz_level EXCEPT ![q] = IF fuzzed THEN 1 ELSE 0]
      /\ was_fuzzed' = IF fuzzed THEN was_fuzzed \union {q} ELSE was_fuzzed
      /\ pending_not_fuzzed' = pending_not_fuzzed + 1 /\ r' = radius
      /\ UNCHANGED <<favored, fs_redundant, disabled, pending_favored, smallest_favored>>
  BY DEF Add, NewPending
<1>5. /\ cal_failed' = [cal_failed EXCEPT ![q] = IF ok THEN 0 ELSE @ + 1]
      /\ factor' = [factor EXCEPT ![q] = IF ok THEN Factor(j) ELSE @]
  BY Zenon DEF Add, SetCalibration, calibrate_case
<1>6. in_subdomain' \subseteq in_subdomain \union Queued \union {q}
  BY Zenon DEF Add, TakenIn
<1> HIDE DEF q
<1>7. /\ input' \in [Entry -> Input] /\ id' \in [Entry -> Nat]
      /\ j = i
  BY Zenon, <1>1, <1>2, <1>4 DEF Types
<1> HIDE DEF j
<1>8. fuzz_level' \in [Entry -> 0 .. MaxLevel] /\ center_deviation' \in [Entry -> 0 .. DBL_MAX]
  <2>1. (IF fuzzed THEN 1 ELSE 0) \in 0 .. MaxLevel
    BY <1>3
  <2> QED
    BY Zenon, <1>1, <1>2, <1>4, <2>1 DEF Types
<1>9. cal_failed' \in [Entry -> 0 .. CAL_CHANCES] /\ factor' \in [Entry -> Nat]
  <2>1. (IF ok THEN 0 ELSE cal_failed[q] + 1) \in 0 .. CAL_CHANCES
    BY <1>3
  <2>2. cal_failed' = [cal_failed EXCEPT ![q] = IF ok THEN 0 ELSE cal_failed[q] + 1]
        /\ factor' = [factor EXCEPT ![q] = IF ok THEN Factor(i) ELSE factor[q]]
    BY <1>5, <1>7
  <2>3. factor[q] \in Nat
    BY <1>1, <1>2 DEF Types
  <2> QED
    BY Zenon, <1>1, <1>2, <1>3, <2>1, <2>2, <2>3 DEF Types
<1>10. /\ favored' \subseteq 1 .. allocs' /\ was_fuzzed' \subseteq 1 .. allocs'
       /\ fs_redundant' \subseteq 1 .. allocs' /\ disabled' \subseteq 1 .. allocs'
       /\ in_subdomain' \subseteq 1 .. allocs'
  BY Zenon, <1>1, <1>2, <1>4, <1>6 DEF Types
<1>11. /\ pending_favored' \in Nat /\ pending_not_fuzzed' \in Nat
       /\ smallest_favored' \in Nat \union {-1}
  BY <1>1, <1>4 DEF Types
<1>12. r' \in 0 .. DBL_MAX /\ (sd # NoTask => r' < DBL_MAX)
  <2>1. r \in 0 .. DBL_MAX /\ (sd # NoTask => r < DBL_MAX)
    BY Zenon, <1>1 DEF Types, Control
  <2>2. \A x \in 0 .. DBL_MAX - 1 : x \in 0 .. DBL_MAX /\ x < DBL_MAX
    BY DEF DBL_MAX
  <2> QED
    BY Zenon, <1>4, <2>1, <2>2 DEF RadiusFor
<1>13. \A p \in Entry : p > allocs' => cal_failed'[p] = 0
  <2>1. \A p \in Entry : p # q => cal_failed'[p] = cal_failed[p]
    BY Zenon, <1>1, <1>5 DEF Types
  <2>2. \A p \in Entry : p > q => p > allocs /\ p # q
    BY <1>3, Constants DEF q
  <2> QED
    BY Zenon, <1>1, <1>2, <2>1, <2>2 DEF Control
<1> QED
  BY <1>7, <1>8, <1>9, <1>10, <1>11, <1>12, <1>13

(* The counters, rows and numbers.                                         *)
LEMMA AddKeeps ==
  ASSUME IInv, NEW i \in Input, NEW dev, NEW radius, NEW ok \in BOOLEAN,
         NEW fuzzed \in BOOLEAN, Add(i, dev, radius, ok, fuzzed), sd' = sd
  PROVE  /\ NothingDangles' /\ PendingCountsHold'
         /\ \A k \in 1 .. Len(queue_buf') : id'[queue_buf'[k]] = k - 1
         /\ \A q \in Queued : Name(q)' = Name(q)
         /\ id'[allocs'] = Len(queue_buf)
         /\ fs_redundant' \subseteq Queued' /\ markers' = {Name(q)' : q \in fs_redundant'}
<1> DEFINE q == allocs + 1
           n == Len(queue_buf)
<1>1. Types /\ Directory /\ NothingDangles /\ PendingCountsHold
  BY DEF IInv
<1>2. /\ q = allocs' /\ q \in Entry /\ q \notin 1 .. allocs /\ n \in Nat
      /\ Len(queue_buf') = n + 1
      /\ \A k \in 1 .. n : queue_buf'[k] = queue_buf[k] /\ queue_buf[k] \in Queued
      /\ queue_buf'[n + 1] = q /\ Queued' = Queued \union {q} /\ Queued \subseteq 1 .. allocs
      /\ 1 .. allocs \subseteq Entry
  BY Zenon, <1>1, AddAppends, QueueTypes
<1>3. /\ id' = [id EXCEPT ![q] = n]
      /\ was_fuzzed' \in {was_fuzzed, was_fuzzed \union {q}}
      /\ pending_not_fuzzed' = pending_not_fuzzed + 1
      /\ UNCHANGED <<favored, fs_redundant, disabled, pending_favored, smallest_favored, rows,
                     markers>>
  BY DEF Add, NewPending
<1>4. Range(top_rated') \ {NULL} \subseteq Queued'
  BY Zenon, AddScores
<1> HIDE DEF q, n
<1>5. id'[q] = n /\ \A p \in Queued : id'[p] = id[p]
  BY Zenon, <1>1, <1>2, <1>3 DEF Types
<1>6. NothingDangles'
  <2>1. favored \subseteq Queued /\ \A k \in 1 .. Len(rows) : k <= n /\ rows[k] = queue_buf[k]
    BY <1>1 DEF NothingDangles, n
  <2>2. \A k \in 1 .. Len(rows) : k <= n + 1 /\ k \in 1 .. n
    BY <1>2, <2>1
  <2> QED
    BY <1>2, <1>3, <1>4, <2>1, <2>2 DEF NothingDangles
<1>7. \A k \in 1 .. Len(queue_buf') : id'[queue_buf'[k]] = k - 1
  <2>1. \A k \in 1 .. n : id[queue_buf[k]] = k - 1
    BY <1>1 DEF Directory, n
  <2>2. \A k \in 1 .. n + 1 : k \in 1 .. n \/ k = n + 1
    BY <1>2
  <2>3. (n + 1) - 1 = n
    BY <1>2
  <2> QED
    BY Zenon, <1>2, <1>5, <2>1, <2>2, <2>3
<1>8. /\ \A p \in Queued : Name(p)' = Name(p)
      /\ id'[allocs'] = Len(queue_buf)
  BY Zenon, <1>2, <1>5 DEF Name, n
<1>9. fs_redundant' \subseteq Queued' /\ markers' = {Name(p)' : p \in fs_redundant'}
  BY <1>1, <1>2, <1>3, <1>8 DEF Directory
<1>10. PendingCountsHold'
  <2> DEFINE A == (Queued \ was_fuzzed) \ disabled
             B == ((Queued \ was_fuzzed) \ disabled)'
             C == A \union {q}
  <2>1. q \notin favored
    BY Zenon, <1>1, <1>2 DEF NothingDangles
  <2>2. (favored \ was_fuzzed)' = favored \ was_fuzzed
    BY <1>3, <2>1
  <2>3. pending_favored' = Cardinality((favored \ was_fuzzed)')
    BY Zenon, <1>1, <1>3, <2>2 DEF PendingCountsHold
  <2>4. IsFiniteSet(A) /\ B \subseteq C
    BY Zenon, <1>1, <1>2, <1>3, QueuedIsFinite, FS_Subset
  <2>5. pending_not_fuzzed >= Cardinality(A) /\ pending_not_fuzzed \in Nat
    BY Zenon, <1>1 DEF PendingCountsHold, Types
  <2>6. IsFiniteSet(C) /\ Cardinality(C) = IF q \in A THEN Cardinality(A) ELSE Cardinality(A) + 1
    BY <2>4, FS_AddElement
  <2> HIDE DEF A, B, C
  <2>7. /\ Cardinality(B) <= Cardinality(C) /\ Cardinality(A) \in Nat
        /\ Cardinality(B) \in Nat
    BY Zenon, <2>4, <2>6, FS_Subset, FS_CardinalityType
  <2>8. pending_not_fuzzed' >= Cardinality(B)
    BY <1>3, <2>5, <2>6, <2>7
  <2>9. ASSUME smallest_favored' >= 0
        PROVE  /\ smallest_favored' < Len(queue_buf')
               /\ At(smallest_favored)' \in (favored \ was_fuzzed)'
    <3>1. /\ smallest_favored \in Nat /\ smallest_favored < n
          /\ queue_buf[smallest_favored + 1] \in favored \ was_fuzzed
      BY <1>1, <1>3, <2>9 DEF PendingCountsHold, At, Types, n
    <3>2. smallest_favored + 1 \in 1 .. n /\ smallest_favored < n + 1
      BY <1>2, <3>1
    <3> QED
      BY Zenon, <1>2, <1>3, <2>2, <3>1, <3>2 DEF At
  <2> QED
    BY <2>3, <2>8, <2>9 DEF PendingCountsHold, B
<1> QED
  BY Zenon, <1>6, <1>7, <1>8, <1>9, <1>10

(* A new entry during an episode, or while none is in progress.            *)
LEMMA AddInEpisode ==
  ASSUME IInv, NEW i \in Input, NEW dev \in 0 .. DBL_MAX, NEW radius, RadiusFor(radius),
         NEW ok \in BOOLEAN, NEW fuzzed \in BOOLEAN, Add(i, dev, radius, ok, fuzzed), sd' = sd,
         pc # "take", UNCHANGED <<pc, queue_cur, lbVars>>,
         trim_done' \subseteq trim_done \union {allocs'},
         adjust_r' = adjust_r \/ (pc = "coop" /\ adjust_r' = dev /\ (sd # NoTask => dev < DBL_MAX))
  PROVE  IInv'
<1> DEFINE q == allocs + 1
           n == Len(queue_buf)
<1>1. Types /\ Flags /\ Control /\ Directory /\ SeedIsApart
  BY Zenon DEF IInv
<1>2. /\ q = allocs' /\ q \in Entry /\ q \notin 1 .. allocs /\ n \in Nat
      /\ queue_buf' \in Seq(1 .. allocs') /\ Len(queue_buf') = n + 1
      /\ \A k \in 1 .. n : queue_buf'[k] = queue_buf[k] /\ queue_buf[k] \in Queued
      /\ queue_buf'[n + 1] = q /\ Queued' = Queued \union {q} /\ Queued \subseteq 1 .. allocs
      /\ 1 .. allocs' = (1 .. allocs) \union {q}
  BY Zenon, <1>1, AddAppends, QueueTypes
<1>3. /\ rows' = rows /\ UNCHANGED <<favored, fs_redundant>>
      /\ center_deviation' = [center_deviation EXCEPT ![q] = dev]
      /\ on_disk' = IF Stored THEN on_disk \union {<<n, q>>} ELSE on_disk
      /\ in_subdomain' \subseteq in_subdomain \union {q}
                          \union (IF radius > r THEN TakenIn(radius) ELSE {})
  BY DEF Add
<1>4. UNCHANGED <<pc, queue_cur, fuzz_LB_seed, LB_seed_id, sd>> /\ (Episode' <=> Episode)
  BY DEF lbVars, Episode
<1> HIDE DEF q, n
<1>5. Types'
  <2>1. adjust_r' \in -1 .. DBL_MAX
    <3>1. \A x \in 0 .. DBL_MAX : x \in -1 .. DBL_MAX
      OBVIOUS
    <3>2. adjust_r \in -1 .. DBL_MAX
      BY Zenon, <1>1 DEF Types
    <3> QED
      BY Zenon, <3>1, <3>2
  <2>2. rows' \in Seq(Entry) /\ trim_done' \subseteq 1 .. allocs'
    BY Zenon, <1>1, <1>2, <1>3 DEF Types
  <2>3. /\ pc' \in Places /\ queue_cur' \in Entry \union {NULL} /\ LB_seed_id' \in Nat
        /\ sd' \in Task \union {NoTask} /\ allocs' \in Entry
        /\ queue_buf' \in Seq(1 .. allocs')
    BY Zenon, <1>1, <1>2, <1>4 DEF Types
  <2> QED
    BY Zenon, <2>1, <2>2, <2>3, AddTypes DEF Types
<1>6. Flags' /\ Champions' /\ FavoredFollowTheChampions' /\ EveryEdgeHasAChampion'
  BY <1>1, <1>4, AddScores DEF Flags
<1>7. NothingDangles' /\ PendingCountsHold'
  BY Zenon, AddKeeps
<1>8. Control'
  <2>1. sd # NoTask => r' < DBL_MAX /\ adjust_r' < DBL_MAX
    BY <1>1, AddTypes DEF Control
  <2>2. pc # "coop" => adjust_r' = -1
    BY Zenon, <1>1 DEF Control
  <2>3. \A p \in Entry : p > allocs' => cal_failed'[p] = 0
    BY Zenon, AddTypes
  <2> QED
    BY Zenon, <1>1, <1>2, <1>4, <2>1, <2>2, <2>3 DEF Control
<1>9. Directory'
  <2>1. /\ \A k \in 1 .. Len(queue_buf') : id'[queue_buf'[k]] = k - 1
        /\ fs_redundant' \subseteq Queued' /\ markers' = {Name(p)' : p \in fs_redundant'}
        /\ \A p \in Queued : Name(p)' = Name(p)
        /\ id'[allocs'] = Len(queue_buf)
    BY Zenon, AddKeeps
  <2>2. id'[q] = n
    BY Zenon, <1>2, <2>1 DEF n
  <2>3. ASSUME NEW k \in 1 .. Len(queue_buf')
        PROVE  (Name(queue_buf[k]) \in on_disk \/ (Episode /\ k > LB_seed_id))'
    <3>1. CASE k \in 1 .. n
      <4>1. Name(queue_buf[k]) \in on_disk \/ (Episode /\ k > LB_seed_id)
        BY Zenon, <1>1, <3>1 DEF Directory, n
      <4>2. Name(queue_buf[k])' = Name(queue_buf[k])
        BY Zenon, <1>2, <2>1, <3>1 DEF Name
      <4> QED
        BY Zenon, <1>3, <1>4, <4>1, <4>2
    <3>2. CASE k = n + 1
      <4>1. Name(queue_buf[k])' = <<n, q>>
        BY Zenon, <1>2, <2>2, <3>2 DEF Name
      <4>2. CASE Stored
        BY Zenon, <1>3, <4>1, <4>2
      <4>3. CASE ~ Stored
        <5>1. Episode /\ LB_seed_id < n /\ LB_seed_id \in Nat
          BY Zenon, <1>1, <4>3 DEF Stored, Episode, SeedIsApart, Types, n
        <5> QED
          BY <1>2, <1>4, <3>2, <5>1
      <4> QED
        BY <4>2, <4>3
    <3> QED
      BY <1>2, <3>1, <3>2
  <2> QED
    BY <2>1, <2>3 DEF Directory
<1>10. SeedIsApart'
  <2> SUFFICES ASSUME Episode
               PROVE  SeedIsApart'
    BY Zenon, <1>4 DEF SeedIsApart
  <2> DEFINE m == LB_seed_id
  <2>1. /\ m \in Nat /\ m < n /\ Len(rows) <= m /\ Len(rows) \in Nat
        /\ \A k \in m + 1 .. n : queue_buf[k] \notin favored /\ queue_buf[k] \notin fs_redundant
        /\ queue_buf[m + 1] \notin in_subdomain
        /\ center_deviation[queue_buf[m + 1]] = DBL_MAX
    BY <1>1 DEF SeedIsApart, Types, At, n
  <2> HIDE DEF m
  <2>2. m + 1 \in 1 .. n /\ m < n + 1 /\ \A k \in m + 1 .. n + 1 : k \in m + 1 .. n \/ k = n + 1
    BY <1>2, <2>1
  <2>3. q \notin favored /\ q \notin fs_redundant
    BY Zenon, <1>1, <1>2 DEF Types
  <2>4. \A k \in m + 1 .. n : k \in 1 .. n
    BY <1>2, <2>1
  <2>5. \A k \in m + 1 .. n + 1 : queue_buf'[k] \notin favored /\ queue_buf'[k] \notin fs_redundant
    BY Zenon, <1>2, <2>1, <2>2, <2>3, <2>4
  <2>6. queue_buf[m + 1] # q /\ queue_buf[m + 1] \in Entry
    BY Zenon, <1>1, <1>2, <2>2, QueueTypes
  <2>7. center_deviation'[queue_buf[m + 1]] = DBL_MAX
    BY Zenon, <1>1, <1>3, <2>1, <2>6 DEF Types
  <2>8. queue_buf[m + 1] \notin in_subdomain'
    <3>1. queue_buf[m + 1] \notin TakenIn(radius) \/ ~ (radius > r)
      <4>1. radius > r => radius \in 0 .. DBL_MAX - 1
        BY <1>1 DEF RadiusFor, Types
      <4>2. radius \in 0 .. DBL_MAX - 1 => ~ (DBL_MAX <= radius)
        BY DEF DBL_MAX
      <4> QED
        BY Zenon, <2>1, <4>1, <4>2 DEF TakenIn
    <3> QED
      BY <1>3, <2>1, <2>6, <3>1
  <2>9. queue_buf'[m + 1] = queue_buf[m + 1]
    BY <1>2, <2>2
  <2> QED
    BY Zenon, <1>2, <1>3, <1>4, <2>1, <2>2, <2>5, <2>7, <2>8, <2>9 DEF SeedIsApart, At, m
<1> QED
  BY Zenon, <1>5, <1>6, <1>7, <1>8, <1>9, <1>10 DEF IInv

(* A distance that is measured is a number below DBL_MAX.                  *)
LEMMA MeasuredRange ==
  ASSUME Types, NEW i \in Input
  PROVE  Measured(i) \in 0 .. DBL_MAX /\ (sd # NoTask => Measured(i) < DBL_MAX)
<1>1. CASE sd = NoTask
  BY <1>1 DEF Measured, DBL_MAX
<1>2. CASE sd # NoTask
  <2>1. sd \in Task
    BY <1>2 DEF Types
  <2>2. Deviation(i, sd) \in 0 .. DBL_MAX /\ Deviation(i, sd) < DBL_MAX
    BY <2>1, Distances
  <2> QED
    BY Zenon, <1>2, <2>2 DEF Measured
<1> QED
  BY <1>1, <1>2

LEMMA FindStep == ASSUME NEW i \in Input, IInv, Find(i) PROVE IInv'
<1>1. Types
  BY DEF IInv
<1>2. PICK ok \in BOOLEAN, radius \in {r} \union (IF sd # NoTask /\ Measured(i) > r
                                               THEN {Measured(i)} ELSE {}) :
        Add(i, Measured(i), radius, ok, FALSE)
  BY Zenon DEF Find
<1>3. Measured(i) \in 0 .. DBL_MAX /\ (sd # NoTask => Measured(i) < DBL_MAX)
  BY <1>1, MeasuredRange
<1>4. RadiusFor(radius)
  <2>1. \A x \in 0 .. DBL_MAX : x < DBL_MAX => x \in 0 .. DBL_MAX - 1
    BY DEF DBL_MAX
  <2> QED
    BY Zenon, <1>2, <1>3, <2>1 DEF RadiusFor
<1>5. /\ pc = "havoc" /\ UNCHANGED <<pc, queue_cur, lbVars>> /\ sd' = sd
      /\ trim_done' = trim_done /\ adjust_r' = adjust_r
  BY DEF Find
<1> QED
  BY Zenon, <1>2, <1>3, <1>4, <1>5, AddInEpisode

LEMMA CooperateStep == ASSUME NEW i \in Input, IInv, Cooperate(i) PROVE IInv'
<1>1. Types
  BY DEF IInv
<1>2. PICK ok \in BOOLEAN : Add(i, Measured(i), r, ok, FALSE)
  BY Zenon DEF Cooperate
<1>3. Measured(i) \in 0 .. DBL_MAX /\ (sd # NoTask => Measured(i) < DBL_MAX)
  BY <1>1, MeasuredRange
<1>4. RadiusFor(r)
  BY DEF RadiusFor
<1>5. /\ pc = "coop" /\ UNCHANGED <<pc, queue_cur, lbVars>> /\ sd' = sd
      /\ trim_done' = trim_done /\ (adjust_r' = Measured(i) \/ adjust_r' = adjust_r)
  BY DEF Cooperate
<1> QED
  BY Zenon, <1>2, <1>3, <1>4, <1>5, AddInEpisode

LEMMA SyncSeedStep == ASSUME NEW i \in Input, IInv, SyncSeed(i) PROVE IInv'
<1>1. Types
  BY DEF IInv
<1>2. PICK ok \in BOOLEAN, fuzzed \in BOOLEAN :
        /\ Add(i, Measured(i), r, ok, fuzzed)
        /\ trim_done' = IF fuzzed THEN trim_done \union {allocs'} ELSE trim_done
  BY DEF SyncSeed
<1>3. Measured(i) \in 0 .. DBL_MAX
  BY <1>1, MeasuredRange
<1>4. RadiusFor(r)
  BY DEF RadiusFor
<1>5. /\ pc # "take" /\ UNCHANGED <<pc, queue_cur, lbVars>> /\ sd' = sd /\ adjust_r' = adjust_r
  BY DEF SyncSeed
<1>6. trim_done' \subseteq trim_done \union {allocs'}
  BY <1>2
<1> QED
  BY Zenon, <1>2, <1>3, <1>4, <1>5, <1>6, AddInEpisode

(* The load-balance seed is put behind everything else, outside every      *)
(* radius.                                                                 *)
LEMMA LoadBalanceStep == ASSUME NEW i \in Input, IInv, do_load_balance(i) PROVE IInv'
<1> DEFINE q == allocs + 1
           n == Len(queue_buf)
<1>1. Types /\ Flags /\ Control /\ Directory /\ NothingDangles
  BY DEF IInv
<1>2. PICK ok \in BOOLEAN : Add(i, DBL_MAX, r, ok, FALSE)
  BY Zenon DEF do_load_balance
<1>3. DBL_MAX \in 0 .. DBL_MAX /\ RadiusFor(r) /\ sd' = sd
  BY DEF DBL_MAX, RadiusFor, do_load_balance
<1>4. /\ pc = "take" /\ pc' = "sync" /\ LB_seed_id' = n /\ queue_cur' = allocs'
      /\ trim_done' = trim_done \union {allocs'} /\ UNCHANGED <<fuzz_LB_seed, adjust_r>>
  BY DEF do_load_balance
<1>5. /\ q = allocs' /\ q \in Entry /\ q \notin 1 .. allocs /\ n \in Nat
      /\ queue_buf' \in Seq(1 .. allocs') /\ Len(queue_buf') = n + 1
      /\ \A k \in 1 .. n : queue_buf'[k] = queue_buf[k] /\ queue_buf[k] \in Queued
      /\ queue_buf'[n + 1] = q /\ Queued' = Queued \union {q} /\ Queued \subseteq 1 .. allocs
      /\ 1 .. allocs' = (1 .. allocs) \union {q}
  BY Zenon, <1>1, <1>2, AddAppends, QueueTypes
<1>6. fuzz_LB_seed /\ ~ Episode /\ Episode'
  BY <1>1, <1>4 DEF Control, Episode
<1>7. /\ rows' = rows /\ UNCHANGED <<favored, fs_redundant>> /\ on_disk' = on_disk
      /\ center_deviation' = [center_deviation EXCEPT ![q] = DBL_MAX]
      /\ in_subdomain' \subseteq in_subdomain \union (IF r > r THEN TakenIn(r) ELSE {})
                         \union (IF sd # NoTask /\ DBL_MAX <= r THEN {q} ELSE {})
  BY <1>2, <1>6 DEF Add, Stored
<1> HIDE DEF q, n
<1>8. Types'
  <2>1. rows' \in Seq(Entry) /\ trim_done' \subseteq 1 .. allocs'
    BY Zenon, <1>1, <1>4, <1>5, <1>7 DEF Types
  <2>2. /\ pc' \in Places /\ queue_cur' \in Entry \union {NULL} /\ LB_seed_id' \in Nat
        /\ sd' \in Task \union {NoTask} /\ allocs' \in Entry /\ adjust_r' \in -1 .. DBL_MAX
        /\ queue_buf' \in Seq(1 .. allocs')
    BY <1>1, <1>3, <1>4, <1>5 DEF Types, Places
  <2> QED
    BY Zenon, <1>2, <1>3, <2>1, <2>2, AddTypes DEF Types
<1>9. Champions' /\ FavoredFollowTheChampions' /\ EveryEdgeHasAChampion' /\ Flags'
  BY Zenon, <1>1, <1>2, <1>3, <1>4, AddScores DEF Flags
<1>10. NothingDangles' /\ PendingCountsHold'
  BY Zenon, <1>2, <1>3, AddKeeps
<1>11. Control'
  <2>1. sd # NoTask => r' < DBL_MAX /\ adjust_r' < DBL_MAX
    BY Zenon, <1>1, <1>2, <1>3, <1>4, AddTypes DEF Control
  <2>2. \A p \in Entry : p > allocs' => cal_failed'[p] = 0
    BY Zenon, <1>2, <1>3, AddTypes
  <2>3. adjust_r' = -1
    BY Zenon, <1>1, <1>4 DEF Control
  <2> QED
    BY <1>3, <1>4, <2>1, <2>2, <2>3 DEF Control
<1>12. Directory'
  <2>1. /\ \A k \in 1 .. Len(queue_buf') : id'[queue_buf'[k]] = k - 1
        /\ fs_redundant' \subseteq Queued' /\ markers' = {Name(p)' : p \in fs_redundant'}
        /\ \A p \in Queued : Name(p)' = Name(p)
    BY Zenon, <1>2, <1>3, AddKeeps
  <2>2. ASSUME NEW k \in 1 .. Len(queue_buf')
        PROVE  (Name(queue_buf[k]) \in on_disk \/ (Episode /\ k > LB_seed_id))'
    <3>1. CASE k \in 1 .. n
      <4>1. Name(queue_buf[k]) \in on_disk
        BY Zenon, <1>1, <1>6, <3>1 DEF Directory, n
      <4>2. Name(queue_buf[k])' = Name(queue_buf[k])
        BY Zenon, <1>5, <2>1, <3>1 DEF Name
      <4> QED
        BY Zenon, <1>7, <4>1, <4>2
    <3>2. CASE k = n + 1
      BY <1>4, <1>5, <1>6, <3>2
    <3> QED
      BY <1>5, <3>1, <3>2
  <2> QED
    BY <2>1, <2>2 DEF Directory
<1>13. SeedIsApart'
  <2>1. \A k \in 1 .. Len(rows) : k <= n
    BY Zenon, <1>1 DEF NothingDangles, n
  <2>2. Len(rows) \in Nat
    BY <1>1 DEF Types
  <2>3. Len(rows) <= n /\ n < n + 1 /\ \A k \in n + 1 .. n + 1 : k = n + 1
    BY <1>5, <2>1, <2>2
  <2>4. q \notin favored /\ q \notin fs_redundant /\ q \notin in_subdomain
    BY Zenon, <1>1, <1>5 DEF Types
  <2>5. q \notin in_subdomain'
    <3>1. sd # NoTask => ~ (DBL_MAX <= r)
      BY <1>1 DEF Control, Types, DBL_MAX
    <3>2. ~ (r > r)
      BY <1>1 DEF Types, DBL_MAX
    <3> QED
      BY <1>7, <2>4, <3>1, <3>2
  <2>6. center_deviation'[q] = DBL_MAX
    BY Zenon, <1>1, <1>5, <1>7 DEF Types
  <2> QED
    BY Zenon, <1>4, <1>5, <1>7, <2>3, <2>4, <2>5, <2>6 DEF SeedIsApart, At
<1> QED
  BY Zenon, <1>8, <1>9, <1>10, <1>11, <1>12, <1>13 DEF IInv

-----------------------------------------------------------------------------
(* The end of an episode.                                                  *)

(* The elements behind a removed one move down.                            *)
LEMMA MovedDownQueue ==
  ASSUME NEW S, NEW s \in Seq(S), NEW p \in Nat, p < Len(s)
  PROVE  /\ MovedDown(s, p) \in Seq(S) /\ Len(MovedDown(s, p)) = Len(s) - 1
         /\ \A k \in 1 .. p : MovedDown(s, p)[k] = s[k]
         /\ \A k \in p + 1 .. Len(s) - 1 : MovedDown(s, p)[k] = s[k + 1]
<1> DEFINE n == Len(s)
           t == MovedDown(s, p)
<1>1. n \in Nat /\ p < n /\ \A k \in 1 .. n : s[k] \in S
  OBVIOUS
<1>2. t = [k \in 1 .. n - 1 |-> IF k <= p THEN s[k] ELSE s[k + 1]]
  BY DEF MovedDown
<1> HIDE DEF n, t
<1>3. \A k \in 1 .. n - 1 : (IF k <= p THEN s[k] ELSE s[k + 1]) \in S
  <2>1. \A k \in 1 .. n - 1 : k \in 1 .. n /\ k + 1 \in 1 .. n
    BY <1>1
  <2> QED
    BY <1>1, <2>1
<1>4. t \in [1 .. n - 1 -> S] /\ n - 1 \in Nat
  BY <1>1, <1>2, <1>3
<1>5. t \in Seq(S) /\ Len(t) = n - 1
  BY <1>4
<1>6. \A k \in 1 .. p : t[k] = s[k]
  BY <1>1, <1>2
<1>7. \A k \in p + 1 .. n - 1 : t[k] = s[k + 1]
  BY <1>1, <1>2
<1> QED
  BY <1>5, <1>6, <1>7 DEF n, t

(* What the deletion does to the queue: q is gone, the entries behind it   *)
(* have moved down and carry a smaller number.                             *)
LEMMA Deletion ==
  ASSUME Types, Directory, NEW m \in 1 .. Len(queue_buf),
         queue_buf' \in Seq(1 .. allocs), Len(queue_buf') = Len(queue_buf) - 1,
         \A k \in 1 .. m - 1 : queue_buf'[k] = queue_buf[k],
         \A k \in m .. Len(queue_buf) - 1 : queue_buf'[k] = queue_buf[k + 1],
         id' = Renumbered({queue_buf[k] : k \in m + 1 .. Len(queue_buf)})
  PROVE  /\ Queued' = Queued \ {queue_buf[m]}
         /\ id' \in [Entry -> Nat]
         /\ \A k \in 1 .. m - 1 : id'[queue_buf[k]] = id[queue_buf[k]]
         /\ \A k \in m + 1 .. Len(queue_buf) : id'[queue_buf[k]] = k - 2
<1> DEFINE n == Len(queue_buf)
           later == {queue_buf[k] : k \in m + 1 .. n}
<1>1. /\ n \in Nat /\ m \in Nat /\ 1 <= m /\ m <= n /\ queue_buf \in Seq(1 .. allocs)
      /\ \A k \in 1 .. n : queue_buf[k] \in Queued /\ queue_buf[k] \in Entry
      /\ \A q \in Queued : \E k \in 1 .. n : q = queue_buf[k]
  <2>1. /\ Len(queue_buf) \in Nat /\ Queued \subseteq Entry
        /\ \A k \in 1 .. Len(queue_buf) : queue_buf[k] \in Queued
        /\ \A q \in Queued : \E k \in 1 .. Len(queue_buf) : q = queue_buf[k]
    BY QueueTypes
  <2>2. queue_buf \in Seq(1 .. allocs)
    BY DEF Types
  <2> QED
    BY <2>1, <2>2
<1>2. /\ queue_buf' \in Seq(1 .. allocs) /\ Len(queue_buf') = n - 1
      /\ \A k \in 1 .. m - 1 : queue_buf'[k] = queue_buf[k]
      /\ \A k \in m .. n - 1 : queue_buf'[k] = queue_buf[k + 1]
      /\ later = {queue_buf[k] : k \in m + 1 .. n}
  OBVIOUS
<1>3. \A j, k \in 1 .. n : queue_buf[j] = queue_buf[k] => j = k
  BY PositionsDiffer
<1>4. \A k \in 1 .. n : id[queue_buf[k]] = k - 1
  BY Zenon DEF Directory
<1>5. id' = [p \in Entry |-> IF p \in later THEN id[p] - 1 ELSE id[p]]
  BY Zenon DEF Renumbered
<1>6. id \in [Entry -> Nat]
  BY Zenon DEF Types
<1> HIDE DEF later, n
<1>7. Queued' = Queued \ {queue_buf[m]}
  <2>1. Queued' = {queue_buf'[k] : k \in 1 .. n - 1}
    <3>1. DOMAIN queue_buf' = 1 .. n - 1
      BY <1>2
    <3> QED
      BY Zenon, <3>1 DEF Queued, Range
  <2>2. ASSUME NEW k \in 1 .. n - 1
        PROVE  queue_buf'[k] \in Queued \ {queue_buf[m]}
    <3>1. CASE k \in 1 .. m - 1
      <4>1. k \in 1 .. n /\ m \in 1 .. n /\ k # m
        BY <1>1, <3>1
      <4> QED
        BY Zenon, <1>1, <1>2, <1>3, <3>1, <4>1
    <3>2. CASE k \in m .. n - 1
      <4>1. k + 1 \in 1 .. n /\ m \in 1 .. n /\ k + 1 # m
        BY <1>1, <3>2
      <4>2. queue_buf[k + 1] \in Queued /\ queue_buf[k + 1] # queue_buf[m]
        BY Zenon, <1>1, <1>3, <4>1
      <4> QED
        BY Zenon, <1>2, <3>2, <4>2
    <3> QED
      BY <1>1, <3>1, <3>2
  <2>3. ASSUME NEW q \in Queued, q # queue_buf[m]
        PROVE  \E k \in 1 .. n - 1 : q = queue_buf'[k]
    <3>1. PICK k \in 1 .. n : q = queue_buf[k]
      BY Zenon, <1>1
    <3>2. CASE k \in 1 .. m - 1
      BY <1>1, <1>2, <3>1, <3>2
    <3>3. CASE k \in m + 1 .. n
      <4>1. k - 1 \in m .. n - 1 /\ (k - 1) + 1 = k /\ k - 1 \in 1 .. n - 1
        BY <1>1, <3>3
      <4> QED
        BY Zenon, <1>2, <3>1, <4>1
    <3> QED
      BY <1>1, <2>3, <3>1, <3>2, <3>3
  <2> QED
    BY <2>1, <2>2, <2>3
<1>8. \A k \in m + 1 .. n : id[queue_buf[k]] = k - 1 /\ queue_buf[k] \in Entry /\ k \in Nat /\ k >= 2
  BY <1>1, <1>4
<1>9. \A p \in Entry : p \in later => id[p] - 1 \in Nat
  BY <1>2, <1>8
<1>10. id' \in [Entry -> Nat]
  BY Zenon, <1>5, <1>6, <1>9
<1>11. \A k \in 1 .. m - 1 : id'[queue_buf[k]] = id[queue_buf[k]]
  <2>1. \A k \in 1 .. m - 1 : queue_buf[k] \notin later /\ queue_buf[k] \in Entry
    <3>1. \A k \in 1 .. m - 1 : k \in 1 .. n /\ \A j \in m + 1 .. n : j \in 1 .. n /\ j # k
      BY <1>1
    <3> QED
      BY Zenon, <1>1, <1>2, <1>3, <3>1
  <2> QED
    BY Zenon, <1>5, <2>1
<1>12. \A k \in m + 1 .. n : id'[queue_buf[k]] = k - 2
  BY <1>2, <1>5, <1>8
<1> QED
  BY Zenon, <1>2, <1>7, <1>10, <1>11, <1>12 DEF n, later

(* The load-balance seed is cut out.  No flag, row or pending counter      *)
(* refers to it; the edges it is the champion of lose it.                  *)
LEMMA EndLoadBalanceStep == IInv /\ EndLoadBalance => IInv'
<1> SUFFICES ASSUME IInv, EndLoadBalance PROVE IInv'
  OBVIOUS
<1> DEFINE m     == LB_seed_id + 1
           n     == Len(queue_buf)
           q     == queue_buf[m]
           later == {queue_buf[k] : k \in m + 1 .. n}
<1>1. /\ Types /\ Flags /\ Control /\ Directory /\ SeedIsApart /\ Champions /\ NothingDangles
      /\ PendingCountsHold /\ FavoredFollowTheChampions /\ EveryEdgeHasAChampion
  BY Zenon DEF IInv
<1>2. LB_seed_id \in Nat /\ n \in Nat /\ LB_seed_id + 2 = m + 1 /\ LB_seed_id = m - 1
  BY <1>1, QueueTypes DEF Types
<1>3. /\ pc = "clean" /\ pc' = "coop" /\ fuzz_LB_seed' = FALSE
      /\ id' = Renumbered(later)
      /\ on_disk' = on_disk \union Persisted(later)
      /\ top_rated' = CutOut(q)
      /\ tc_ref' = [tc_ref EXCEPT ![q] = 0]
      /\ was_fuzzed' = was_fuzzed \ {q} /\ trim_done' = trim_done \ {q}
      /\ fuzz_level' = [fuzz_level EXCEPT ![q] = 0] /\ cal_failed' = [cal_failed EXCEPT ![q] = 0]
      /\ UNCHANGED <<allocs, input, factor, center_deviation, favored, fs_redundant, disabled,
                     in_subdomain, score_changed, pending, queue_cur, LB_seed_id, taskVars,
                     rows, markers>>
  BY Zenon, <1>2 DEF EndLoadBalance, At
<1>4. Episode /\ ~ Episode'
  BY Zenon, <1>1, <1>3 DEF Control, Episode
<1>5. /\ m \in 1 .. n /\ Len(rows) < m /\ Len(rows) \in Nat /\ q \notin in_subdomain
      /\ \A k \in m .. n : queue_buf[k] \notin favored /\ queue_buf[k] \notin fs_redundant
  <2>1. LB_seed_id < n /\ Len(rows) <= LB_seed_id /\ Len(rows) \in Nat
    BY <1>1, <1>4 DEF SeedIsApart, Types
  <2>2. /\ \A k \in m .. n : queue_buf[k] \notin favored /\ queue_buf[k] \notin fs_redundant
        /\ q \notin in_subdomain
    BY <1>1, <1>4 DEF SeedIsApart, At
  <2> QED
    BY <1>2, <2>1, <2>2
<1>6. /\ queue_buf' \in Seq(1 .. allocs) /\ Len(queue_buf') = n - 1
      /\ \A k \in 1 .. m - 1 : queue_buf'[k] = queue_buf[k]
      /\ \A k \in m .. n - 1 : queue_buf'[k] = queue_buf[k + 1]
      /\ Queued' = Queued \ {q} /\ id' \in [Entry -> Nat]
      /\ later = {queue_buf[k] : k \in m + 1 .. n}
      /\ \A k \in 1 .. m - 1 : id'[queue_buf[k]] = id[queue_buf[k]]
      /\ \A k \in m + 1 .. n : id'[queue_buf[k]] = k - 2
  <2>1. queue_buf' = MovedDown(queue_buf, LB_seed_id)
    BY Zenon DEF EndLoadBalance
  <2>2. queue_buf \in Seq(1 .. allocs) /\ LB_seed_id < n
    BY <1>1, <1>2, <1>5 DEF Types
  <2>3. /\ queue_buf' \in Seq(1 .. allocs) /\ Len(queue_buf') = n - 1
        /\ \A k \in 1 .. m - 1 : queue_buf'[k] = queue_buf[k]
        /\ \A k \in m .. n - 1 : queue_buf'[k] = queue_buf[k + 1]
    BY ZenonT(40), <1>2, <2>1, <2>2, MovedDownQueue
  <2>4. id' = Renumbered({queue_buf[k] : k \in m + 1 .. n})
    BY <1>3
  <2> HIDE DEF m
  <2> QED
    BY Zenon, <1>1, <1>5, <2>3, <2>4, Deletion
<1>7. /\ q \in Queued /\ q \in Entry /\ Queued \subseteq Entry
      /\ \A p \in Queued : \E k \in 1 .. n : p = queue_buf[k]
  BY Zenon, <1>1, <1>5, QueueTypes
<1>8. /\ \A k \in 1 .. n : k \in 1 .. m - 1 \/ k \in m .. n
      /\ m \in m .. n /\ m \in Nat
  BY <1>2, <1>5
<1> HIDE DEF m, q, later, n
<1>9. q \notin favored /\ q \notin fs_redundant
  BY <1>5, <1>8 DEF q
<1>10. Types'
  <2>1. /\ fuzz_level' \in [Entry -> 0 .. MaxLevel] /\ cal_failed' \in [Entry -> 0 .. CAL_CHANCES]
    <3>1. 0 \in 0 .. MaxLevel /\ 0 \in 0 .. CAL_CHANCES
      BY QueueAssumption
    <3> QED
      BY Zenon, <1>1, <1>3, <3>1 DEF Types
  <2> QED
    BY Zenon, <1>1, <1>3, <1>6, <2>1 DEF Types, Places, pending, taskVars
<1>11. Flags'
  BY Zenon, <1>1, <1>3 DEF Flags
<1>12. Control'
  <2>1. \A p \in Entry : p > allocs' => cal_failed'[p] = 0
    BY <1>1, <1>3, <1>7 DEF Control, Types
  <2> QED
    BY ZenonT(40), <1>1, <1>3, <2>1 DEF Control, taskVars
<1>13. SeedIsApart'
  BY <1>4 DEF SeedIsApart
<1>14. Directory'
  <2>1. ASSUME NEW k \in 1 .. n - 1
        PROVE  id'[queue_buf'[k]] = k - 1 /\ <<id'[queue_buf'[k]], queue_buf'[k]>> \in on_disk'
    <3>1. CASE k \in 1 .. m - 1
      <4>1. k \in 1 .. n /\ ~ (k > LB_seed_id)
        BY <1>2, <1>5, <3>1 DEF m
      <4>2. id[queue_buf[k]] = k - 1 /\ <<id[queue_buf[k]], queue_buf[k]>> \in on_disk
        BY Zenon, <1>1, <4>1 DEF Directory, Name, n
      <4>3. queue_buf'[k] = queue_buf[k] /\ id'[queue_buf[k]] = id[queue_buf[k]]
        BY <1>6, <3>1
      <4> QED
        BY Zenon, <1>3, <4>2, <4>3
    <3>2. CASE k \in m .. n - 1
      <4>1. k + 1 \in m + 1 .. n /\ (k + 1) - 2 = k - 1 /\ k + 1 \in 1 .. n /\ (k + 1) - 1 - 1 = k - 1
        BY <1>2, <1>5, <3>2
      <4>2. queue_buf'[k] = queue_buf[k + 1] /\ queue_buf[k + 1] \in later
        BY Zenon, <1>6, <3>2, <4>1
      <4>3. id'[queue_buf[k + 1]] = k - 1
        BY Zenon, <1>6, <4>1
      <4>4. id[queue_buf[k + 1]] = (k + 1) - 1
        BY Zenon, <1>1, <4>1 DEF Directory, n
      <4>5. id[queue_buf[k + 1]] - 1 = k - 1
        BY Zenon, <4>1, <4>4
      <4>6. <<k - 1, queue_buf[k + 1]>> \in Persisted(later)
        BY <4>2, <4>5 DEF Persisted
      <4> QED
        BY Zenon, <1>3, <4>2, <4>3, <4>6
    <3> QED
      BY <1>2, <1>5, <3>1, <3>2
  <2>2. fs_redundant' \subseteq Queued'
    BY ZenonT(40), <1>1, <1>3, <1>6, <1>9 DEF Directory
  <2>3. \A p \in fs_redundant : id'[p] = id[p]
    BY <1>1, <1>5, <1>6, <1>7, <1>8 DEF Directory
  <2>4. markers' = {Name(p)' : p \in fs_redundant'}
    BY Zenon, <1>1, <1>3, <2>3 DEF Directory, Name
  <2> QED
    BY ZenonT(40), <1>6, <2>1, <2>2, <2>4 DEF Directory, Name
<1>15. top_rated' = [e \in Edge |-> IF top_rated[e] = q THEN NULL ELSE top_rated[e]]
  <2>1. top_rated \in [Edge -> Entry \union {NULL}] /\ tc_ref[q] = Cardinality({e \in Edge : top_rated[e] = q})
    BY Zenon, <1>1, <1>7, ScoreTypes
  <2>2. tc_ref[q] = 0 => {e \in Edge : top_rated[e] = q} = {}
    <3>1. IsFiniteSet({e \in Edge : top_rated[e] = q})
      BY Zenon, Constants, FS_Subset
    <3> QED
      BY Zenon, <2>1, <3>1, FS_EmptySet
  <2>3. CASE tc_ref[q] = 0
    BY ZenonT(40), <1>3, <2>1, <2>2, <2>3 DEF CutOut
  <2>4. CASE tc_ref[q] # 0
    BY <1>3, <2>4 DEF CutOut
  <2> QED
    BY Zenon, <2>3, <2>4
<1>16. /\ \A e \in Edge : top_rated'[e] # NULL => top_rated'[e] = top_rated[e] /\ top_rated[e] # q
       /\ sd # NoTask => top_rated' = top_rated
  <2>1. \A e \in Edge : top_rated'[e] = IF top_rated[e] = q THEN NULL ELSE top_rated[e]
    BY <1>15
  <2>2. ASSUME sd # NoTask PROVE top_rated' = top_rated
    <3>1. q # NULL /\ \A e \in Edge : top_rated[e] # q
      BY Zenon, <1>1, <1>5, <1>7, <2>2, Constants DEF Champions, q
    <3>2. top_rated \in [Edge -> Entry \union {NULL}]
      BY <1>1, ScoreTypes
    <3> QED
      BY Zenon, <1>15, <3>1, <3>2
  <2> QED
    BY <2>1, <2>2
<1>17. Champions'
  <2>1. Counted(Scores)'
    <3>1. /\ top_rated \in [Edge -> Entry \union {NULL}] /\ tc_ref \in [Entry -> Int]
          /\ score_changed \in BOOLEAN
          /\ \A p \in Entry : tc_ref[p] = Cardinality({e \in Edge : top_rated[e] = p})
      BY Zenon, <1>1, ScoreTypes
    <3>2. Scores' \in ScoreState
      BY <1>3, <1>7, <1>15, <3>1 DEF Scores, ScoreState
    <3>3. ASSUME NEW p \in Entry
          PROVE  tc_ref'[p] = Cardinality({e \in Edge : top_rated'[e] = p})
      <4>1. CASE p = q
        <5>1. {e \in Edge : top_rated'[e] = p} = {}
          BY Zenon, <1>15, <4>1, Constants
        <5> QED
          BY Zenon, <1>3, <1>7, <3>1, <4>1, <5>1, FS_EmptySet
      <4>2. CASE p # q
        <5>1. {e \in Edge : top_rated'[e] = p} = {e \in Edge : top_rated[e] = p}
          BY <1>15, <4>2, Constants
        <5> QED
          BY Zenon, <1>3, <1>7, <3>1, <4>2, <5>1
      <4> QED
        BY Zenon, <4>1, <4>2
    <3> QED
      BY Zenon, <3>2, <3>3 DEF Counted, Slots, Scores
  <2> QED
    BY Zenon, <1>1, <1>3, <1>6, <1>16, <2>1 DEF Champions, taskVars
<1>18. NothingDangles'
  <2>1. Range(top_rated') \ {NULL} \subseteq Queued'
    <3>1. DOMAIN top_rated' = Edge
      BY ZenonT(40), <1>15
    <3>2. \A e \in Edge : top_rated'[e] # NULL => top_rated'[e] \in Queued'
      BY <1>1, <1>6, <1>16 DEF Champions
    <3> QED
      BY Zenon, <3>1, <3>2 DEF Range
  <2>2. favored' \subseteq Queued'
    BY Zenon, <1>1, <1>3, <1>6, <1>9 DEF NothingDangles
  <2>3. \A k \in 1 .. Len(rows) : k <= n - 1 /\ k \in 1 .. m - 1
    BY <1>2, <1>5, <1>8
  <2> QED
    BY Zenon, <1>1, <1>3, <1>6, <2>1, <2>2, <2>3 DEF NothingDangles
<1>19. PendingCountsHold'
  <2> DEFINE A == (Queued \ was_fuzzed) \ disabled
             B == ((Queued \ was_fuzzed) \ disabled)'
  <2>1. (favored \ was_fuzzed)' = favored \ was_fuzzed
    BY <1>3, <1>9
  <2>2. pending_favored' = Cardinality((favored \ was_fuzzed)')
    BY Zenon, <1>1, <1>3, <2>1 DEF PendingCountsHold, pending
  <2>3. B \subseteq A /\ IsFiniteSet(A)
    BY Zenon, <1>1, <1>3, <1>6, QueuedIsFinite, FS_Subset
  <2>4. pending_not_fuzzed >= Cardinality(A) /\ pending_not_fuzzed \in Nat
        /\ pending_not_fuzzed' = pending_not_fuzzed
    BY Zenon, <1>1, <1>3 DEF PendingCountsHold, Types, pending
  <2> HIDE DEF A, B
  <2>5. Cardinality(B) <= Cardinality(A) /\ Cardinality(A) \in Nat /\ Cardinality(B) \in Nat
    BY Zenon, <2>3, FS_Subset, FS_CardinalityType
  <2>6. pending_not_fuzzed' >= Cardinality(B)
    BY <2>4, <2>5
  <2>7. ASSUME smallest_favored' >= 0
        PROVE  /\ smallest_favored' < Len(queue_buf')
               /\ At(smallest_favored)' \in (favored \ was_fuzzed)'
    <3> DEFINE k == smallest_favored + 1
    <3>1. /\ smallest_favored' = smallest_favored /\ smallest_favored \in Nat
          /\ smallest_favored < n /\ queue_buf[k] \in favored \ was_fuzzed
      BY <1>1, <1>3, <2>7 DEF PendingCountsHold, At, Types, pending, n
    <3>2. k \in 1 .. n
      BY <1>2, <3>1
    <3>3. k \in 1 .. m - 1
      BY Zenon, <1>5, <1>8, <3>1, <3>2
    <3>4. smallest_favored < n - 1
      BY <1>2, <1>5, <1>8, <3>1, <3>3
    <3> QED
      BY ZenonT(40), <1>6, <2>1, <3>1, <3>3, <3>4 DEF At
  <2> QED
    BY Zenon, <2>2, <2>6, <2>7 DEF PendingCountsHold, B
<1>20. FavoredFollowTheChampions'
  BY <1>1, <1>3, <1>16 DEF FavoredFollowTheChampions, taskVars
<1>21. EveryEdgeHasAChampion'
  <2>1. \A p \in Queued' : p \in Queued /\ p # q /\ p \in Entry
    BY Zenon, <1>6, <1>7
  <2>2. \A p \in Queued' : cal_failed'[p] = cal_failed[p]
    BY Zenon, <1>1, <1>3, <2>1 DEF Types
  <2> QED
    BY Zenon, <1>1, <1>3, <1>16, <2>1, <2>2 DEF EveryEdgeHasAChampion, taskVars
<1> QED
  BY Zenon, <1>10, <1>11, <1>12, <1>13, <1>14, <1>17, <1>18, <1>19, <1>20, <1>21 DEF IInv

-----------------------------------------------------------------------------
(* The invariant holds.                                                    *)

LEMMA StutterIInv == IInv /\ UNCHANGED vars => IInv'
<1> SUFFICES ASSUME IInv, UNCHANGED vars PROVE IInv'
  OBVIOUS
<1> USE DEF vars, lbVars, taskVars
<1>1. SameEpisode
  BY Zenon DEF SameEpisode, Episode
<1>2. /\ Directory' /\ SeedIsApart' /\ Champions' /\ NothingDangles'
      /\ PendingCountsHold' /\ FavoredFollowTheChampions' /\ EveryEdgeHasAChampion'
  BY <1>1, Quiet
<1>3. Types'
  BY Zenon DEF IInv, Types, fields, flags, pending
<1>4. Flags' /\ Control'
  BY DEF IInv, Flags, Control, Queued, fields, scores
<1> QED
  BY <1>2, <1>3, <1>4 DEF IInv

LEMMA NextIInv == IInv /\ [Next]_vars => IInv'
<1> SUFFICES ASSUME IInv, [Next]_vars PROVE IInv'
  OBVIOUS
<1>1. CASE LoopHead \/ Recull \/ StartLoadBalance
  BY <1>1, CullingSteps
<1>2. CASE Select
  BY Zenon, <1>2, SelectStep
<1>3. CASE Skip \/ MoveOn \/ LoadBalanceFails
  BY <1>3, MovingSteps
<1>4. CASE Recalibrate
  BY Zenon, <1>4, RecalibrateStep
<1>5. CASE Trim
  BY <1>5, TrimStep
<1>6. CASE AbandonEntry
  BY <1>6, AbandonStep
<1>7. CASE EndLoadBalance
  BY <1>7, EndLoadBalanceStep
<1>8. CASE EndCooperation
  BY <1>8, EndCooperationStep
<1>9. CASE ServiceDistances
  BY <1>9, ServiceStep
<1>10. CASE update_subdomain
  BY <1>10, TaskStep
<1>11. ASSUME NEW i \in Input, Find(i) PROVE IInv'
  BY Zenon, <1>11, FindStep
<1>12. ASSUME NEW i \in Received, Cooperate(i) \/ SyncSeed(i) \/ do_load_balance(i) PROVE IInv'
  <2>1. i \in Input
    BY QueueAssumption
  <2> QED
    BY Zenon, <1>12, <2>1, CooperateStep, SyncSeedStep, LoadBalanceStep
<1>13. CASE UNCHANGED vars
  BY <1>13, StutterIInv
<1> QED
  BY Zenon, <1>1, <1>2, <1>3, <1>4, <1>5, <1>6, <1>7, <1>8, <1>9, <1>10, <1>11, <1>12, <1>13 DEF Next

LEMMA Invariance == Spec => []IInv
BY InitIInv, NextIInv, PTL DEF Spec

(* Every entry is queued once.                                             *)
LEMMA QueuedOnce ==
  ASSUME Types, Directory
  PROVE  Cardinality(Queued) = Len(queue_buf)
<1> DEFINE n == Len(queue_buf)
<1>1. /\ n \in Nat /\ DOMAIN queue_buf = 1 .. n /\ queue_buf \in Seq(Entry)
      /\ \A k \in 1 .. n : queue_buf[k] \in Queued
      /\ \A q \in Queued : \E k \in 1 .. n : q = queue_buf[k]
  BY QueueTypes
<1>2. \A j, k \in 1 .. n : queue_buf[j] = queue_buf[k] => j = k
  BY PositionsDiffer
<1> HIDE DEF n
<1>3. queue_buf \in [1 .. n -> Queued]
  BY <1>1
<1>4. queue_buf \in Bijection(1 .. n, Queued)
  BY <1>1, <1>2, <1>3 DEF Bijection, Injection, Surjection, IsInjective
<1>5. ExistsBijection(1 .. n, Queued)
  BY <1>4 DEF ExistsBijection
<1> QED
  BY Zenon, <1>1, <1>5, FS_CountingElements DEF n

-----------------------------------------------------------------------------
(* The theorems.                                                           *)

(* Every variable keeps its type, and no entry is queued twice.            *)
THEOREM QueueIsTyped == Spec => []TypeOK
<1>1. IInv => TypeOK
  <2> SUFFICES ASSUME IInv PROVE TypeOK
    OBVIOUS
  <2>1. Types /\ Flags /\ Champions /\ Directory
    BY DEF IInv
  <2>2. Queued \subseteq 1 .. allocs /\ Cardinality(Queued) = Len(queue_buf)
    BY Zenon, <2>1, QueueTypes, QueuedOnce
  <2>3. top_rated \in [Edge -> Entry \union {NULL}] /\ tc_ref \in [Entry -> Int]
    BY Zenon, <2>1, ScoreTypes
  <2>4. Range(rows) \subseteq Entry
    BY <2>1 DEF Types, Range
  <2>5. \A S \in {favored, was_fuzzed, fs_redundant, disabled, in_subdomain, trim_done} :
          S \subseteq 1 .. allocs
    BY Zenon, <2>1 DEF Types
  <2> QED
    BY Zenon, <2>1, <2>2, <2>3, <2>4, <2>5 DEF TypeOK, Types, Flags, Places
<1> QED
  BY <1>1, Invariance, PTL

(* tc_ref counts the champion slots of an entry through scoring,           *)
(* recalibration, trimming, a new task and the deletion of a load-balance  *)
(* seed, so the deletion may rely on it.                                   *)
THEOREM ReferencesStayCounted == Spec => []ReferencesAreCounted
<1>1. IInv => ReferencesAreCounted
  BY ScoreTypes, QueueTypes DEF IInv, ReferencesAreCounted
<1> QED
  BY <1>1, Invariance, PTL

(* No champion slot, favored flag or distance row outlives its entry.      *)
THEOREM NoneDangles == Spec => []NothingDangles
<1>1. IInv => NothingDangles
  BY Zenon DEF IInv
<1> QED
  BY <1>1, Invariance, PTL

(* Numbers, files and markers follow the queue while load-balance seeds    *)
(* come and go, and no marker is missed: cull_queue is never fatal.        *)
THEOREM DirectoryFollows == Spec => []DirectoryFollowsTheQueue
<1>1. IInv => DirectoryFollowsTheQueue
  <2> SUFFICES ASSUME IInv PROVE DirectoryFollowsTheQueue
    OBVIOUS
  <2>1. Types /\ Directory
    BY Zenon DEF IInv
  <2>2. pc # "fatal"
    BY Zenon, <2>1 DEF Types, Places
  <2>3. ~ fuzz_LB_seed => \A q \in Queued : Name(q) \in on_disk
    BY Zenon, <2>1, QueueTypes DEF Directory, Episode
  <2>4. \A q \in Queued : q \in fs_redundant <=> Name(q) \in markers
    BY <2>1 DEF Directory, Name
  <2> QED
    BY <2>1, <2>2, <2>3, <2>4 DEF Directory, DirectoryFollowsTheQueue
<1> QED
  BY <1>1, Invariance, PTL

(* pending_favored is exact, smallest_favored points to an entry still to  *)
(* be fuzzed, and pending_not_fuzzed never falls below the entries left.   *)
THEOREM PendingIsCounted == Spec => []PendingCountsHold
<1>1. IInv => PendingCountsHold
  BY DEF IInv
<1> QED
  BY <1>1, Invariance, PTL

(* Once culled, the favored entries cover every edge that has a champion   *)
(* and belong to the subdomain.                                            *)
THEOREM FavoredCoverTheChampions == Spec => []FavoredFollowTheChampions
<1>1. IInv => FavoredFollowTheChampions
  BY DEF IInv
<1> QED
  BY <1>1, Invariance, PTL

(* Within a task every edge of a calibrated, enabled entry inside the      *)
(* radius has a champion.                                                  *)
THEOREM NoEdgeIsForgotten == Spec => []EveryEdgeHasAChampion
<1>1. IInv => EveryEdgeHasAChampion
  BY DEF IInv
<1> QED
  BY <1>1, Invariance, PTL

(* Once the worker has a task, a load-balance seed is the champion of no   *)
(* edge and not favored: it takes part in the selection only before the    *)
(* first task, where the champions are not yet tied to a subdomain.        *)
THEOREM WithATaskTheSeedIsApart ==
  Spec => [](sd # NoTask /\ fuzz_LB_seed /\ pc # "take" =>
               At(LB_seed_id) \notin Range(top_rated) \union favored)
<1>1. IInv => (sd # NoTask /\ fuzz_LB_seed /\ pc # "take" =>
                 At(LB_seed_id) \notin Range(top_rated) \union favored)
  <2> SUFFICES ASSUME IInv, sd # NoTask, fuzz_LB_seed, pc # "take"
               PROVE  At(LB_seed_id) \notin Range(top_rated) \union favored
    OBVIOUS
  <2> DEFINE q == At(LB_seed_id)
  <2>1. Types /\ SeedIsApart /\ Champions
    BY Zenon DEF IInv
  <2>2. LB_seed_id \in Nat /\ Len(queue_buf) \in Nat /\ LB_seed_id < Len(queue_buf)
    BY <2>1, QueueTypes DEF Types, SeedIsApart, Episode
  <2>3. LB_seed_id + 1 \in LB_seed_id + 1 .. Len(queue_buf) /\ LB_seed_id + 1 \in 1 .. Len(queue_buf)
    BY <2>2
  <2>4. q \notin in_subdomain /\ q \notin favored
    BY Zenon, <2>1, <2>3 DEF SeedIsApart, Episode, At
  <2>5. q # NULL
    BY Zenon, <2>1, <2>3, QueueTypes, Constants DEF At
  <2>6. \A e \in Edge : top_rated[e] # q
    BY <2>1, <2>4, <2>5 DEF Champions
  <2>7. DOMAIN top_rated = Edge
    BY <2>1, ScoreTypes
  <2> QED
    BY <2>4, <2>6, <2>7 DEF Range
<1> QED
  BY <1>1, Invariance, PTL

=============================================================================
