---------------------------- MODULE WorkerQueue ----------------------------
(***************************************************************************)
(* The seed queue of one worker: queue_buf, the champions top_rated[] and  *)
(* their reference counts, the favored set computed by cull_queue, and the *)
(* main loop of afl-fuzz.c that uses them.  What makes it delicate is the  *)
(* load-balance episode: a seed received from the master is appended by    *)
(* force, fuzzed once, and then cut out of the queue again, so that the    *)
(* seeds found meanwhile move down by one, are renamed and only then       *)
(* written to disk.                                                        *)
(*                                                                         *)
(* An entry is a heap object with an address that is never used again, so  *)
(* that a stale pointer shows.  An input stands for a test case: the edges *)
(* it covers, its speed x size factor and its distance to each task's      *)
(* center.  New hit counts make any input worth keeping, so whether a find *)
(* is kept is left open.                                                   *)
(***************************************************************************)
EXTENDS Integers, Sequences, FiniteSets, Functions

CONSTANTS
  Edge,              \* positions of the coverage map: 1 .. n
  Input,             \* test cases that may turn up
  Initial,           \* the test case the worker starts with
  Received,          \* those of them that come from other instances
  Trace(_),          \* the edges an input covers
  Factor(_),         \* exec_us * len of an input before trimming
  Deviation(_, _),   \* distance of an input to the center of a task
  Radii(_),          \* the radii a worker may read with a task
  Task,              \* subdomains the worker may be given, in this order: 1 .. n
  DisableRedundant,  \* AFL_DISABLE_REDUNDANT
  CAL_CHANCES,       \* calibrations of an entry before it is given up
  SKIP_ITEMS,        \* queue length from which others may be skipped, too (10)
  MaxAlloc,          \* bound: entries allocated in a behaviour
  MaxFailed,         \* bound: entries at a time whose calibration failed
  MaxLevel           \* bound: fuzz_level is not counted further

DBL_MAX == 1000        \* the deviation of an entry nobody has measured

ASSUME QueueAssumption ==
  /\ IsFiniteSet(Edge) /\ Edge = 1 .. Cardinality(Edge)
  /\ IsFiniteSet(Task) /\ Task = 1 .. Cardinality(Task)
  /\ Initial \in Input /\ Received \subseteq Input
  /\ \A i \in Input : Trace(i) \subseteq Edge /\ Trace(i) # {} /\ Factor(i) \in Nat \ {0}
  /\ \A t \in Task : /\ \A i \in Input : Deviation(i, t) \in 0 .. DBL_MAX - 1
                   /\ Radii(t) \subseteq 0 .. DBL_MAX - 1
  /\ DisableRedundant \in BOOLEAN
  /\ CAL_CHANCES \in Nat \ {0} /\ SKIP_ITEMS \in Nat /\ MaxAlloc \in Nat \ {0}
  /\ MaxFailed \in Nat /\ MaxLevel \in Nat \ {0}

Entry   == 1 .. MaxAlloc
NULL    == 0
NoTask  == 0           \* sd.center is NULL

VARIABLES
  pc,                \* place in the main loop
  allocs,            \* entries allocated so far
  queue_buf,         \* the queue, a sequence of entries
  id, input, factor, tc_ref, fuzz_level, cal_failed, center_deviation,
  favored, was_fuzzed, fs_redundant, disabled, in_subdomain, trim_done, on_disk,
  top_rated, score_changed,
  pending_favored, pending_not_fuzzed, smallest_favored,
  queue_cur, fuzz_LB_seed, LB_seed_id,
  sd, r, adjust_r,   \* current task, its radius, do_cooperation's maximum
  rows,              \* the entries the rows of the distance matrix describe
  markers            \* files in queue/.state/redundant_edges

fields  == <<id, input, factor, fuzz_level, cal_failed, center_deviation, trim_done>>
flags   == <<favored, was_fuzzed, fs_redundant, disabled, in_subdomain, on_disk>>
scores  == <<top_rated, tc_ref, score_changed>>
pending == <<pending_favored, pending_not_fuzzed, smallest_favored>>
lbVars  == <<fuzz_LB_seed, LB_seed_id>>
taskVars == <<sd, r, adjust_r>>
vars == <<pc, allocs, queue_buf, fields, flags, scores, pending, queue_cur, lbVars,
          taskVars, rows, markers>>

Queued  == Range(queue_buf)
At(pos) == queue_buf[pos + 1]              \* queue_buf[pos] of the code
Name(q) == <<id[q], q>>                    \* id:<id>,<the rest of the name>

-----------------------------------------------------------------------------
(* Seed selection.                                                         *)

(* update_bitmap_score: q takes every edge of its trace whose champion is  *)
(* missing or neither less fuzzed nor cheaper.  A score state is a record  *)
(* of the champions, their reference counts and the dirty flag; eligible   *)
(* are the enabled entries, within the subdomain once there is a task, and *)
(* fac and in give the factors and traces of the entries.                  *)
Wins(s, q, e, fac) ==
  \/ s.top[e] = NULL
  \/ ~ (fuzz_level[q] > fuzz_level[s.top[e]] \/ fac[q] > fac[s.top[e]])

MutantRefs(s, q, won) ==
  [p \in Entry |-> s.ref[p] + (IF p = q THEN Cardinality(won) ELSE 0)]
Refs(s, q, won) ==
  [p \in Entry |-> s.ref[p] - Cardinality({e \in won : s.top[e] = p})
                            + (IF p = q THEN Cardinality(won) ELSE 0)]

update_bitmap_score(s, q, eligible, fac, in) ==
  LET won == {e \in Trace(in[q]) : Wins(s, q, e, fac)}
  IN IF q \notin eligible THEN s
     ELSE [top     |-> [e \in Edge |-> IF e \in won THEN q ELSE s.top[e]],
           ref     |-> Refs(s, q, won),
           changed |-> s.changed \/ won # {}]

Scores == [top |-> top_rated, ref |-> tc_ref, changed |-> score_changed]
SetScores(s) ==
  /\ top_rated' = s.top /\ tc_ref' = s.ref /\ score_changed' = s.changed

Eligible(task, inside, off) == {q \in Entry : q \notin off /\ (task # NoTask => q \in inside)}

(* cull_queue: walk the edges, make the champion of every edge not yet     *)
(* covered favored, strike out the edges it covers, and count and note the *)
(* first of those that are still to be fuzzed.                             *)
CulledUpTo(n) ==
  LET cull[m \in 0 .. n] ==
        IF m = 0 THEN [left |-> Edge, fav |-> {}, todo |-> 0, first |-> -1]
        ELSE LET acc == cull[m - 1]
                 q   == top_rated[m]
                 new == q \notin acc.fav /\ q \notin was_fuzzed
             IN IF q = NULL \/ m \notin acc.left THEN acc
                ELSE [left  |-> acc.left \ Trace(input[q]),
                      fav   |-> acc.fav \union {q},
                      todo  |-> acc.todo + (IF new THEN 1 ELSE 0),
                      first |-> IF new /\ acc.first < 0 THEN id[q] ELSE acc.first]
  IN cull[n]

MutantCulled == CulledUpTo(Cardinality(Edge) - 1)
Culled == CulledUpTo(Cardinality(Edge))

(* mark_as_redundant for every enabled entry: a marker file per entry that *)
(* is not favored.  Removing a marker that is not there is fatal.          *)
Flagged(mark, unmark) == (fs_redundant \union mark) \ unmark

mark_as_redundant(fav) ==
  LET enabled == Queued \ disabled
      mark    == {q \in enabled : q \notin fav /\ q \notin fs_redundant}
      unmark  == {q \in enabled : q \in fav /\ q \in fs_redundant}
  IN /\ fs_redundant' = Flagged(mark, unmark)
     /\ disabled' = IF DisableRedundant THEN disabled \union mark ELSE disabled
     /\ markers' = (markers \union {Name(q) : q \in mark}) \ {Name(q) : q \in unmark}

MissingMarker(fav) ==
  \E q \in (Queued \ disabled) \intersect fav : q \in fs_redundant /\ Name(q) \notin markers

cull_queue(next) ==
  LET fav == Culled.fav
  IN IF ~ score_changed
     THEN /\ pc' = next
          /\ UNCHANGED <<score_changed, favored, pending_favored, smallest_favored,
                         fs_redundant, disabled, markers>>
     ELSE /\ score_changed' = FALSE
          /\ favored' = fav
          /\ pending_favored' = Culled.todo
          /\ smallest_favored' = Culled.first
          /\ mark_as_redundant(fav)
          /\ pc' = IF MissingMarker(fav) THEN "fatal" ELSE next

-----------------------------------------------------------------------------
(* Adding an entry: save_if_interesting, add_to_queue, calibrate_case.     *)

(* The entries a wider radius takes in.                                    *)
TakenIn(radius) ==
  {q \in Queued : q \notin in_subdomain /\ center_deviation[q] <= radius}

(* The entries of taken are scored one after the other, in the order of    *)
(* the queue.                                                              *)
MutantRescored(s, taken, eligible) == s
Rescored(s, taken, eligible) ==
  LET score[n \in 0 .. Len(queue_buf)] ==
        IF n = 0 THEN s
        ELSE IF queue_buf[n] \notin taken THEN score[n - 1]
        ELSE update_bitmap_score(score[n - 1], queue_buf[n], eligible, factor, input)
  IN score[Len(queue_buf)]

(* calibrate_case: exec_us stays 0 and nothing is scored until the entry   *)
(* has run without a timeout or a crash.                                   *)
calibrate_case(ok, s, q, eligible, in) ==
  LET fac == [factor EXCEPT ![q] = IF ok THEN Factor(in[q]) ELSE @]
  IN [failed |-> [cal_failed EXCEPT ![q] = IF ok THEN 0 ELSE @ + 1],
      factor |-> fac,
      scores |-> IF ok THEN update_bitmap_score(s, q, eligible, fac, in) ELSE s]

SetCalibration(c) ==
  /\ cal_failed' = c.failed /\ factor' = c.factor /\ SetScores(c.scores)

(* add_to_queue counts every new entry as pending.                         *)
NewPending == 1

(* The new entry q holds test case i.  A find outside the radius that is   *)
(* nearest to the own center first widens the radius to dev and takes in   *)
(* the entries within it.                                                  *)
Stored == ~ fuzz_LB_seed

Add(i, dev, radius, calibrated, fuzzed) ==
  LET q       == allocs + 1
      moved   == IF radius > r THEN TakenIn(radius) ELSE {}
      inside  == in_subdomain \union moved
                   \union (IF sd # NoTask /\ dev <= radius THEN {q} ELSE {})
      in2     == [input EXCEPT ![q] = i]
      s       == Rescored(Scores, moved, Eligible(sd, inside \ {q}, disabled))
  IN /\ allocs < MaxAlloc /\ allocs' = q
     /\ calibrated \/ Cardinality({p \in Queued : cal_failed[p] > 0}) < MaxFailed
     /\ queue_buf' = Append(queue_buf, q)
     /\ id' = [id EXCEPT ![q] = Len(queue_buf)]
     /\ input' = in2
     /\ center_deviation' = [center_deviation EXCEPT ![q] = dev]
     /\ in_subdomain' = inside
     /\ was_fuzzed' = IF fuzzed THEN was_fuzzed \union {q} ELSE was_fuzzed
     /\ on_disk' = IF Stored THEN on_disk \union {<<Len(queue_buf), q>>} ELSE on_disk
     /\ SetCalibration(calibrate_case(calibrated, s, q, Eligible(sd, inside, disabled), in2))
     /\ pending_not_fuzzed' = pending_not_fuzzed + NewPending
     /\ r' = radius
     /\ fuzz_level' = [fuzz_level EXCEPT ![q] = IF fuzzed THEN 1 ELSE 0]
     /\ UNCHANGED <<favored, fs_redundant, disabled, pending_favored, smallest_favored,
                    rows, markers>>

Measured(i) == IF sd = NoTask THEN DBL_MAX ELSE Deviation(i, sd)

-----------------------------------------------------------------------------
(* The main loop.                                                          *)

Init ==
  /\ pc = "head" /\ allocs = 1 /\ queue_buf = <<1>>
  /\ input = [q \in Entry |-> Initial]
  /\ factor = [q \in Entry |-> IF q = 1 THEN Factor(Initial) ELSE 0]
  /\ top_rated = [e \in Edge |-> IF e \in Trace(Initial) THEN 1 ELSE NULL]
  /\ tc_ref = [q \in Entry |-> IF q = 1 THEN Cardinality(Trace(Initial)) ELSE 0]
  /\ id = [q \in Entry |-> 0] /\ fuzz_level = [q \in Entry |-> 0]
  /\ cal_failed = [q \in Entry |-> 0]
  /\ center_deviation = [q \in Entry |-> DBL_MAX]
  /\ favored = {} /\ was_fuzzed = {} /\ fs_redundant = {} /\ disabled = {}
  /\ in_subdomain = {} /\ trim_done = {} /\ on_disk = {<<0, 1>>}
  /\ score_changed = TRUE
  /\ pending_favored = 0 /\ pending_not_fuzzed = 1 /\ smallest_favored = -1
  /\ queue_cur = NULL /\ fuzz_LB_seed = FALSE /\ LB_seed_id = 0
  /\ sd = NoTask /\ r = 0 /\ adjust_r = -1
  /\ rows = << >> /\ markers = {}

(* The head of the loop: no culling while a load-balance seed is queued.   *)
CullHead ==
  IF fuzz_LB_seed
  THEN /\ pc' = "select"
       /\ UNCHANGED <<score_changed, favored, pending_favored, smallest_favored,
                      fs_redundant, disabled, markers>>
  ELSE cull_queue("select")

LoopHead ==
  /\ pc = "head" /\ CullHead
  /\ UNCHANGED <<allocs, queue_buf, fields, was_fuzzed, in_subdomain, on_disk, top_rated,
                 tc_ref, pending_not_fuzzed, queue_cur, lbVars, taskVars, rows>>

(* Pending favored entries first: the one noted by cull_queue, or one of   *)
(* at least two candidates with distances to fuzzed entries.  Otherwise    *)
(* the alias table draws any enabled entry.                                *)
Candidates ==
  {p \in 0 .. Len(rows) - 1 : At(p) \in favored /\ At(p) \notin was_fuzzed \union disabled}
Executed == {p \in 0 .. Len(rows) - 1 : At(p) \in was_fuzzed /\ At(p) \notin disabled}

Selectable ==
  CASE fuzz_LB_seed -> {LB_seed_id}
    [] ~ fuzz_LB_seed /\ pending_favored > 0 /\ smallest_favored >= 0 ->
         IF pending_favored > 1 /\ Cardinality(Candidates) >= 2 /\ Executed # {}
         THEN Candidates ELSE {smallest_favored}
    [] OTHER -> {p \in 0 .. Len(queue_buf) - 1 : At(p) \notin disabled}

Select ==
  /\ pc = "select" /\ pc' = "begin"
  /\ \E p \in Selectable : queue_cur' = At(p)
  /\ UNCHANGED <<allocs, queue_buf, fields, flags, scores, pending, lbVars, taskVars, rows,
                 markers>>

(* fuzz_one: skip the entry, mostly for the sake of pending favored ones.  *)
Skip ==
  /\ pc = "begin" /\ ~ fuzz_LB_seed
  /\ IF pending_favored > 0 THEN fuzz_level[queue_cur] > 0 \/ queue_cur \notin favored
     ELSE queue_cur \notin favored /\ Len(queue_buf) > SKIP_ITEMS
  /\ pc' = "select"
  /\ UNCHANGED <<allocs, queue_buf, fields, flags, scores, pending, queue_cur, lbVars,
                 taskVars, rows, markers>>

(* An entry whose calibration failed is calibrated again, a few times.  A  *)
(* success without new coverage ends this entry's turn like a failure.     *)
Recalibrate ==
  LET q == queue_cur IN
  /\ pc = "begin" /\ cal_failed[q] > 0
  /\ \/ /\ cal_failed[q] < CAL_CHANCES
        /\ \E ok \in BOOLEAN :
             /\ SetCalibration(calibrate_case(ok, Scores, q,
                                 Eligible(sd, in_subdomain, disabled), input))
             /\ pc' \in IF ok THEN {"trim", "abandon"} ELSE {"abandon"}
     \/ /\ cal_failed[q] >= CAL_CHANCES
        /\ pc' = "abandon" /\ UNCHANGED <<cal_failed, factor, scores>>
  /\ UNCHANGED <<allocs, queue_buf, id, input, fuzz_level, center_deviation,
                 trim_done, flags, pending, queue_cur, lbVars, taskVars, rows, markers>>

(* trim_case, once per entry: a shorter entry competes again.              *)
Trim ==
  LET q == queue_cur IN
  /\ pc = "trim" \/ (pc = "begin" /\ cal_failed[q] = 0)
  /\ pc' = "havoc"
  /\ \E f \in 1 .. factor[q] :
       /\ q \in trim_done => f = factor[q]
       /\ factor' = [factor EXCEPT ![q] = f]
       /\ IF f = factor[q] THEN UNCHANGED scores
          ELSE SetScores(update_bitmap_score(Scores, q,
                           Eligible(sd, in_subdomain, disabled), factor', input))
  /\ trim_done' = trim_done \union {q}
  /\ UNCHANGED <<allocs, queue_buf, id, input, fuzz_level, cal_failed, center_deviation,
                 flags, pending, queue_cur, lbVars, taskVars, rows, markers>>

(* save_if_interesting for a find: inside the radius, outside it and given *)
(* to another worker as well, or outside it and nearest to the own center. *)
Find(i) ==
  /\ pc = "havoc"
  /\ \E ok \in BOOLEAN, radius \in {r} \union (IF sd # NoTask /\ Measured(i) > r
                                               THEN {Measured(i)} ELSE {}) :
       Add(i, Measured(i), radius, ok, FALSE)
  /\ UNCHANGED <<pc, trim_done, queue_cur, lbVars, sd, adjust_r>>

(* abandon_entry.  After a second calibration, a score of zero or a stage  *)
(* that was cut short the loop goes back to the selection, unless the      *)
(* entry is the load-balance seed.                                         *)
MutantDoneFuzzing(q) == cal_failed[q] = 0
DoneFuzzing(q) == cal_failed[q] = 0 /\ q \notin was_fuzzed \union disabled

MutantNextFavored(done, q) == smallest_favored
NextFavored(done, q) == IF done /\ q \in favored THEN -1 ELSE smallest_favored

AbandonEntry ==
  LET q == queue_cur
      done == DoneFuzzing(q)
  IN /\ pc \in {"havoc", "abandon"}
     /\ was_fuzzed' = IF done THEN was_fuzzed \union {q} ELSE was_fuzzed
     /\ pending_not_fuzzed' = pending_not_fuzzed - (IF done THEN 1 ELSE 0)
     /\ pending_favored' = pending_favored - (IF done /\ q \in favored THEN 1 ELSE 0)
     /\ smallest_favored' = NextFavored(done, q)
     /\ fuzz_level' = [fuzz_level EXCEPT ![q] = IF @ < MaxLevel THEN @ + 1 ELSE @]
     /\ pc' \in IF fuzz_LB_seed THEN {"clean"}
                ELSE IF pc = "abandon" THEN {"select"} ELSE {"coop", "select"}
     /\ UNCHANGED <<allocs, queue_buf, id, input, factor, cal_failed, center_deviation,
                    trim_done, favored, fs_redundant, disabled, in_subdomain, on_disk,
                    scores, queue_cur, lbVars, taskVars, rows, markers>>

(* After the episode the load-balance seed is cut out: its champion slots  *)
(* are emptied, later entries move down, get their new names and are       *)
(* written to disk.                                                        *)
MutantCutOut(q) == top_rated
CutOut(q) ==
  IF tc_ref[q] = 0 THEN top_rated
  ELSE [e \in Edge |-> IF top_rated[e] = q THEN NULL ELSE top_rated[e]]

MovedDown(s, pos) == [k \in 1 .. Len(s) - 1 |-> IF k <= pos THEN s[k] ELSE s[k + 1]]

Renumbered(later) == [p \in Entry |-> IF p \in later THEN id[p] - 1 ELSE id[p]]

MutantPersisted(later) == {}
Persisted(later) == {<<id[p] - 1, p>> : p \in later}

EndLoadBalance ==
  LET q     == At(LB_seed_id)
      later == {queue_buf[k] : k \in LB_seed_id + 2 .. Len(queue_buf)}
  IN /\ pc = "clean"
     /\ fuzz_LB_seed' = FALSE
     /\ queue_buf' = MovedDown(queue_buf, LB_seed_id)
     /\ id' = Renumbered(later)
     /\ on_disk' = on_disk \union Persisted(later)
     /\ top_rated' = CutOut(q)
     /\ tc_ref' = [tc_ref EXCEPT ![q] = 0]
     /\ was_fuzzed' = was_fuzzed \ {q} /\ trim_done' = trim_done \ {q}
     /\ fuzz_level' = [fuzz_level EXCEPT ![q] = 0] /\ cal_failed' = [cal_failed EXCEPT ![q] = 0]
     /\ pc' = "coop"
     /\ UNCHANGED <<allocs, input, factor, center_deviation, favored, fs_redundant, disabled,
                    in_subdomain, score_changed, pending, queue_cur, LB_seed_id, taskVars,
                    rows, markers>>

(* do_cooperation: seeds from the other workers, then the radius of those  *)
(* kept.                                                                   *)
Cooperate(i) ==
  /\ pc = "coop"
  /\ \E ok \in BOOLEAN : Add(i, Measured(i), r, ok, FALSE)
  /\ adjust_r' = IF Measured(i) > adjust_r THEN Measured(i) ELSE adjust_r
  /\ UNCHANGED <<pc, trim_done, queue_cur, lbVars, sd>>

EndCooperation ==
  LET moved  == IF adjust_r > r THEN TakenIn(adjust_r) ELSE {}
      inside == in_subdomain \union moved
  IN /\ pc = "coop" /\ pc' = "distance"
     /\ r' = IF adjust_r > r THEN adjust_r ELSE r
     /\ adjust_r' = -1
     /\ in_subdomain' = inside
     /\ SetScores(Rescored(Scores, moved, Eligible(sd, inside, disabled)))
     /\ UNCHANGED <<allocs, queue_buf, fields, favored, was_fuzzed, fs_redundant, disabled,
                    on_disk, pending, queue_cur, lbVars, sd, rows, markers>>

(* maybe_service_distance_matrix: rows for more of the queue.              *)
ServiceDistances ==
  /\ pc = "distance" /\ pc' = "task"
  /\ \E n \in Len(rows) .. Len(queue_buf) :
       rows' = rows \o SubSeq(queue_buf, Len(rows) + 1, n)
  /\ UNCHANGED <<allocs, queue_buf, fields, flags, scores, pending, queue_cur, lbVars,
                 taskVars, markers>>

(* update_subdomain: every entry is measured against the new center, and   *)
(* the champions are chosen anew among the entries within the radius.      *)
Forgotten ==
  [top     |-> [e \in Edge |-> NULL],
   ref     |-> [q \in Entry |-> IF q \in Range(top_rated) THEN 0 ELSE tc_ref[q]],
   changed |-> score_changed]

update_subdomain ==
  /\ pc = "task" /\ sd < Cardinality(Task)
  /\ sd' = sd + 1 /\ r' \in Radii(sd')
  /\ center_deviation' =
       [q \in Entry |-> IF q \in Queued THEN Deviation(input[q], sd') ELSE DBL_MAX]
  /\ in_subdomain' = {q \in Queued : center_deviation'[q] <= r'}
  /\ SetScores(Rescored(Forgotten, Queued, Eligible(sd', in_subdomain', disabled)))
  /\ pc' = "recull"
  /\ UNCHANGED <<allocs, queue_buf, id, input, factor, fuzz_level, cal_failed, trim_done,
                 favored, was_fuzzed, fs_redundant, disabled, on_disk, pending, queue_cur,
                 lbVars, adjust_r, rows, markers>>

(* The cull_queue at the end of update_subdomain.                          *)
Recull ==
  /\ pc = "recull" /\ cull_queue("resync")
  /\ UNCHANGED <<allocs, queue_buf, fields, was_fuzzed, in_subdomain, on_disk, top_rated,
                 tc_ref, pending_not_fuzzed, queue_cur, lbVars, taskVars, rows>>

(* sync_subdomain_seeds_from_db, after a new task, at a new queue cycle    *)
(* and now and then at the end of the loop: seeds of the own subdomain     *)
(* with the master's state.                                                *)
SyncSeed(i) ==
  /\ pc \in {"resync", "sync", "select"} /\ sd # NoTask
  /\ \E ok, fuzzed \in BOOLEAN :
       /\ Add(i, Measured(i), r, ok, fuzzed)
       /\ trim_done' = IF fuzzed THEN trim_done \union {allocs'} ELSE trim_done
  /\ UNCHANGED <<pc, queue_cur, lbVars, sd, adjust_r>>

MoveOn ==
  /\ \/ pc = "task" /\ pc' = "loadbalance"
     \/ pc = "resync" /\ pc' = "loadbalance"
     \/ pc = "loadbalance" /\ pc' = "sync"
     \/ pc = "sync" /\ pc' = "head"
  /\ UNCHANGED <<allocs, queue_buf, fields, flags, scores, pending, queue_cur, lbVars,
                 taskVars, rows, markers>>

(* load_balance_queue_<sd.id> is not empty: the flag, a last culling, then *)
(* do_load_balance.                                                        *)
StartLoadBalance ==
  /\ pc = "loadbalance" /\ cull_queue("take")
  /\ fuzz_LB_seed' = TRUE
  /\ UNCHANGED <<allocs, queue_buf, fields, was_fuzzed, in_subdomain, on_disk, top_rated,
                 tc_ref, pending_not_fuzzed, queue_cur, LB_seed_id, taskVars, rows>>

(* The seed is added even without new coverage and never measured.         *)
do_load_balance(i) ==
  /\ pc = "take" /\ pc' = "sync"
  /\ \E ok \in BOOLEAN : Add(i, DBL_MAX, r, ok, FALSE)
  /\ LB_seed_id' = Len(queue_buf)
  /\ queue_cur' = allocs'
  /\ trim_done' = trim_done \union {allocs'}
  /\ UNCHANGED <<fuzz_LB_seed, sd, adjust_r>>

(* It crashes or hangs and is not added.                                   *)
LoadBalanceFails ==
  /\ pc = "take" /\ pc' = "sync"
  /\ fuzz_LB_seed' = FALSE
  /\ UNCHANGED <<allocs, queue_buf, fields, flags, scores, pending, queue_cur, LB_seed_id,
                 taskVars, rows, markers>>

Next ==
  \/ LoopHead \/ Select \/ Skip \/ Recalibrate \/ Trim
  \/ AbandonEntry \/ EndLoadBalance \/ EndCooperation
  \/ ServiceDistances \/ update_subdomain \/ Recull \/ MoveOn \/ StartLoadBalance
  \/ LoadBalanceFails
  \/ \E i \in Input : Find(i)
  \/ \E i \in Received : Cooperate(i) \/ SyncSeed(i) \/ do_load_balance(i)

Spec == Init /\ [][Next]_vars

(* The loop never waits, and neither the random skipping nor the random    *)
(* selection passes over a usable entry for ever.                          *)
FairSpec ==
  Spec /\ WF_vars(Next) /\ SF_vars(Trim) /\ SF_vars(Select /\ cal_failed[queue_cur'] = 0)

-----------------------------------------------------------------------------
(* Correctness.                                                            *)

(* Types.                                                                  *)
TypeOK ==
  /\ pc \in {"head", "select", "begin", "trim", "havoc", "abandon", "clean", "coop",
             "distance", "task", "recull", "resync", "loadbalance", "take", "sync", "fatal"}
  /\ allocs \in Entry /\ Queued \subseteq 1 .. allocs
  /\ Cardinality(Queued) = Len(queue_buf)
  /\ input \in [Entry -> Input] /\ factor \in [Entry -> Nat] /\ id \in [Entry -> Nat]
  /\ fuzz_level \in [Entry -> 0 .. MaxLevel] /\ cal_failed \in [Entry -> 0 .. CAL_CHANCES]
  /\ \A S \in {favored, was_fuzzed, fs_redundant, disabled, in_subdomain, trim_done} :
       S \subseteq 1 .. allocs
  /\ top_rated \in [Edge -> Entry \union {NULL}] /\ tc_ref \in [Entry -> Int]
  /\ score_changed \in BOOLEAN /\ fuzz_LB_seed \in BOOLEAN
  /\ pending_favored \in Nat /\ pending_not_fuzzed \in Nat
  /\ smallest_favored \in Nat \union {-1}
  /\ queue_cur \in Entry \union {NULL} /\ LB_seed_id \in Nat
  /\ sd \in Task \union {NoTask} /\ Range(rows) \subseteq Entry

(* An entry's reference count is the number of edges it is the champion    *)
(* of: only that lets the deletion of the load-balance seed rely on tc_ref *)
(* and find every slot that points to it (afl-fuzz.c:3168).                *)
ReferencesAreCounted ==
  \A q \in Queued : tc_ref[q] = Cardinality({e \in Edge : top_rated[e] = q})

(* No champion slot, favored flag or distance row outlives its entry, and  *)
(* a row of the distance matrix still describes the entry at its index     *)
(* after entries have moved down.                                          *)
NothingDangles ==
  /\ Range(top_rated) \ {NULL} \subseteq Queued
  /\ favored \subseteq Queued
  /\ \A k \in 1 .. Len(rows) : k <= Len(queue_buf) /\ rows[k] = queue_buf[k]

(* The queue directory follows the queue while load-balance seeds come and *)
(* go: the entry number is the position in queue_buf (afl-fuzz.h:238);     *)
(* between episodes every entry is on disk under its number, since the     *)
(* master reads the directory in that order and a hole would hide all      *)
(* later seeds; and an entry has a marker under its current name iff it is *)
(* redundant, so mark_as_redundant never misses the one it removes         *)
(* (PFATAL).                                                               *)
DirectoryFollowsTheQueue ==
  /\ \A k \in 1 .. Len(queue_buf) : id[queue_buf[k]] = k - 1
  /\ ~ fuzz_LB_seed => \A q \in Queued : Name(q) \in on_disk
  /\ \A q \in Queued : q \in fs_redundant <=> Name(q) \in markers
  /\ pc # "fatal"

(* What the selection relies on between two cullings: pending_favored      *)
(* counts the favored entries not fuzzed yet, smallest_favored, if set, is *)
(* the position of one of them, and the unsigned pending_not_fuzzed never  *)
(* falls below the entries still to be fuzzed, so no decrement wraps it.   *)
PendingCountsHold ==
  /\ pending_favored = Cardinality(favored \ was_fuzzed)
  /\ smallest_favored >= 0 =>
       smallest_favored < Len(queue_buf) /\ At(smallest_favored) \in favored \ was_fuzzed
  /\ pending_not_fuzzed >= Cardinality((Queued \ was_fuzzed) \ disabled)

(* Once culled, every edge that has a champion is covered by a favored     *)
(* entry (afl-fuzz-queue.c:983 "a minimal set of paths that trigger all    *)
(* the bits"), and the favored entries belong to the current subdomain,    *)
(* unless it has no champion at all: then update_subdomain leaves the old  *)
(* flags in place.                                                         *)
FavoredFollowTheChampions ==
  ~ score_changed =>
    /\ \A e \in Edge : top_rated[e] # NULL => \E q \in favored : e \in Trace(input[q])
    /\ sd # NoTask /\ Range(top_rated) # {NULL} => favored \subseteq in_subdomain

(* Within a task the selection misses nothing: every edge of a calibrated, *)
(* enabled entry inside the radius has a champion, however the radius grew *)
(* and whatever load-balance seeds came and went.                          *)
EveryEdgeHasAChampion ==
  sd # NoTask =>
    \A q \in (Queued \intersect in_subdomain) \ disabled :
      cal_failed[q] = 0 => \A e \in Trace(input[q]) : top_rated[e] # NULL

(* config.h:457 "number of chances to calibrate a case before giving up":  *)
(* an entry that was given up does not keep the loop from fuzzing another  *)
(* one, and so from cooperation, new tasks and load balancing.             *)
TheLoopGetsOn == []<>(pc = "havoc")

(* afl-fuzz.c:3155 "a load-balance seed should not be in the subdomain and *)
(* takes no part in the seed selection".                                   *)
LoadBalanceSeedIsNotSelected ==
  fuzz_LB_seed /\ pc \notin {"take", "fatal"} => At(LB_seed_id) \notin Range(top_rated)
=============================================================================
