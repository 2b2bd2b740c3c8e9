-------------------------- MODULE DistanceService --------------------------
(***************************************************************************)
(* The incremental distance matrix of one fuzzing instance                 *)
(* (src/parallel.c) inside the main loop of src/afl-fuzz.c.  A round of    *)
(* the service copies the queue (SNAPSHOT), enlarges the triangular matrix *)
(* (RESIZE), revisits old pairs (REPAIR) and computes new rows (NEW_ROWS). *)
(* A round stops when its time budget is spent and the next one resumes    *)
(* where it stopped; between two rounds the queue grows, seeds become      *)
(* disabled and the temporary load-balancing (LB) seed comes and goes.     *)
(***************************************************************************)
EXTENDS Integers

CONSTANTS
  MaxSeeds,  \* bound: seeds an instance creates in a behaviour
  Dist       \* Dist[<<s, t>>]: Hamming distance of the trace_mini maps of s and t

Seed == 0 .. MaxSeeds - 1

ASSUME DistAssumption ==
  /\ MaxSeeds \in Nat
  /\ Dist \in [Seed \X Seed -> Nat]

VARIABLES
  pc,                         \* control point of the main loop
  stop_soon,                  \* set by the signal handler
  queue_buf, queued_items,    \* the seed queue, C indices
  born,                       \* number of seeds created so far
  disabled,                   \* seeds with q->disabled
  LB_seed_id,                 \* index of the LB seed, NoLB when fuzz_LB_seed = 0
  dist_update_phase,
  dist_queue_buf,             \* entries copied so far
  dist_queue_buf_len,         \* published length of the snapshot
  last_dist_queue_buf_len,    \* rows visible to the schedulers
  dist_target_queue_buf_len,
  dist_snapshot_cursor, dist_prepare_row,
  dist_repair_row, dist_repair_col, dist_new_row, dist_new_col,
  row_limit,                  \* row i of the matrix holds columns j < row_limit[i]
  distance_matrix_cache,      \* value of the pair (i, j), i < j
  dist_throttled, due         \* due: next_dist_time_us has been reached

loopVars    == <<stop_soon, born, disabled, LB_seed_id>>
queueVars   == <<queue_buf, queued_items>>
snapVars    == <<dist_queue_buf, dist_snapshot_cursor>>
resizeVars  == <<dist_prepare_row, row_limit, dist_queue_buf_len>>
repairVars  == <<dist_repair_row, dist_repair_col>>
newVars     == <<dist_new_row, dist_new_col, last_dist_queue_buf_len>>
timerVars   == <<dist_throttled, due>>
serviceVars == <<snapVars, resizeVars, repairVars, newVars, dist_update_phase,
                 dist_target_queue_buf_len, distance_matrix_cache>>
vars        == <<pc, loopVars, queueVars, serviceVars, timerVars>>

NoLB == -1
Index == 0 .. MaxSeeds - 1
Pair == {p \in Index \X Index : p[1] < p[2]}

(* The dry run leaves a non-empty queue in which some seeds are disabled.  *)
Init ==
  /\ pc = "fuzz" /\ stop_soon = FALSE
  /\ queued_items \in 1 .. MaxSeeds
  /\ queue_buf = [i \in 0 .. queued_items - 1 |-> i]
  /\ born = queued_items
  /\ disabled \in SUBSET (0 .. queued_items - 1)
  /\ LB_seed_id = NoLB
  /\ dist_update_phase = "IDLE"
  /\ dist_queue_buf = [i \in {} |-> 0]
  /\ dist_queue_buf_len = 0 /\ last_dist_queue_buf_len = 0
  /\ dist_target_queue_buf_len = 0
  /\ dist_snapshot_cursor = 0 /\ dist_prepare_row = 0
  /\ dist_repair_row = 0 /\ dist_repair_col = 0
  /\ dist_new_row = 0 /\ dist_new_col = 0
  /\ row_limit = [i \in Index |-> 0]
  /\ distance_matrix_cache = [p \in Pair |-> 0]
  /\ dist_throttled = FALSE /\ due = TRUE

-----------------------------------------------------------------------------
(* The rest of the main loop, as far as it changes the queue.              *)

add_to_queue ==
  /\ born < MaxSeeds
  /\ queue_buf' = [i \in 0 .. queued_items |->
                     IF i = queued_items THEN born ELSE queue_buf[i]]
  /\ queued_items' = queued_items + 1
  /\ born' = born + 1

(* A seed found by fuzzing or imported (cooperation, subdomain sync).      *)
SaveSeed ==
  /\ pc \in {"fuzz", "coop", "pull"}
  /\ add_to_queue
  /\ UNCHANGED <<pc, stop_soon, disabled, LB_seed_id, serviceVars, timerVars>>

(* cull_queue under AFL_DISABLE_REDUNDANT; it never runs on an LB seed.    *)
mark_as_redundant(i) ==
  /\ pc \in {"fuzz", "pull"} /\ LB_seed_id = NoLB
  /\ i < queued_items
  /\ disabled' = disabled \union {queue_buf[i]}
  /\ UNCHANGED <<pc, stop_soon, born, LB_seed_id, queueVars, serviceVars, timerVars>>

(* Deleting the LB seed moves every later seed one index down.             *)
MutantQueueWithoutLB ==
  [i \in 0 .. queued_items - 2 |->
     IF i + 1 < LB_seed_id THEN queue_buf[i] ELSE queue_buf[i + 1]]

QueueWithoutLB ==
  [i \in 0 .. queued_items - 2 |->
     IF i < LB_seed_id THEN queue_buf[i] ELSE queue_buf[i + 1]]

EndFuzzOne ==
  /\ pc = "fuzz" /\ pc' = "coop"
  /\ IF LB_seed_id = NoLB
     THEN UNCHANGED queueVars
     ELSE queue_buf' = QueueWithoutLB /\ queued_items' = queued_items - 1
  /\ LB_seed_id' = NoLB
  /\ UNCHANGED <<stop_soon, born, disabled, serviceVars, timerVars>>

(* The last part of an iteration: an LB seed may be force-added.           *)
do_load_balance ==
  /\ pc = "pull" /\ LB_seed_id = NoLB
  /\ add_to_queue
  /\ LB_seed_id' = queued_items
  /\ UNCHANGED <<pc, stop_soon, disabled, serviceVars, timerVars>>

EndIteration ==
  /\ pc = "pull"
  /\ pc' = IF stop_soon THEN "stopped" ELSE "fuzz"
  /\ UNCHANGED <<loopVars, queueVars, serviceVars, timerVars>>

handle_stop_sig ==
  /\ ~stop_soon /\ stop_soon' = TRUE
  /\ UNCHANGED <<pc, born, disabled, LB_seed_id, queueVars, serviceVars, timerVars>>

PeriodElapses ==
  /\ dist_throttled /\ ~due /\ due' = TRUE
  /\ UNCHANGED <<pc, loopVars, queueVars, serviceVars, dist_throttled>>

-----------------------------------------------------------------------------
(* maybe_service_distance_matrix                                           *)

NothingToDo == dist_update_phase = "IDLE" /\ queued_items <= dist_queue_buf_len

MutantThrottled == dist_throttled
Throttled == dist_throttled /\ ~due

SkipService ==
  /\ pc = "coop" /\ pc' = "pull"
  /\ NothingToDo \/ Throttled
  /\ UNCHANGED <<loopVars, queueVars, serviceVars, timerVars>>

begin_distance_matrix_update ==
  /\ dist_target_queue_buf_len' = queued_items
  /\ dist_snapshot_cursor' = dist_queue_buf_len
  /\ dist_prepare_row' = 0
  /\ dist_repair_row' = 1 /\ dist_repair_col' = 0
  /\ dist_new_row' = last_dist_queue_buf_len /\ dist_new_col' = 0
  /\ dist_update_phase' = "SNAPSHOT"

StartService ==
  /\ pc = "coop" /\ pc' = "switch"
  /\ ~NothingToDo /\ ~Throttled
  /\ IF dist_update_phase = "IDLE"
     THEN /\ begin_distance_matrix_update
          /\ UNCHANGED <<dist_queue_buf, row_limit, dist_queue_buf_len,
                         last_dist_queue_buf_len, distance_matrix_cache>>
     ELSE UNCHANGED serviceVars
  /\ UNCHANGED <<loopVars, queueVars, timerVars>>

-----------------------------------------------------------------------------
(* update_distance_matrix_until.  "switch" is the head of its outer loop,  *)
(* the only place that looks at stop_soon; "serve" is inside a phase.      *)

Exhausted == pc' = "pull" /\ dist_throttled' = TRUE /\ due' = FALSE
Complete  == pc' = "pull" /\ dist_throttled' = FALSE /\ due' = TRUE
GoTo(p)   == pc' = p /\ UNCHANGED timerVars
BudgetCheck(p) == GoTo(p) \/ Exhausted

Switch ==
  /\ pc = "switch"
  /\ GoTo(IF stop_soon THEN "pull" ELSE "serve")
  /\ UNCHANGED <<loopVars, queueVars, serviceVars>>

InPhase(phase) == pc = "serve" /\ dist_update_phase = phase
NextPhase(phase) == dist_update_phase' = phase /\ BudgetCheck("switch")

SnapshotOne ==
  /\ InPhase("SNAPSHOT")
  /\ dist_snapshot_cursor < dist_target_queue_buf_len
  /\ dist_queue_buf' = [i \in 0 .. dist_snapshot_cursor |->
                          IF i = dist_snapshot_cursor
                          THEN queue_buf[i] ELSE dist_queue_buf[i]]
  /\ dist_snapshot_cursor' = dist_snapshot_cursor + 1
  /\ BudgetCheck("serve")
  /\ UNCHANGED <<loopVars, queueVars, resizeVars, repairVars, newVars,
                 dist_update_phase, dist_target_queue_buf_len, distance_matrix_cache>>

SnapshotDone ==
  /\ InPhase("SNAPSHOT")
  /\ dist_snapshot_cursor >= dist_target_queue_buf_len
  /\ NextPhase("RESIZE")
  /\ UNCHANGED <<loopVars, queueVars, snapVars, resizeVars, repairVars, newVars,
                 dist_target_queue_buf_len, distance_matrix_cache>>

ResizeRow ==
  /\ InPhase("RESIZE")
  /\ dist_prepare_row < dist_target_queue_buf_len
  /\ row_limit' = [row_limit EXCEPT ![dist_prepare_row] = dist_target_queue_buf_len]
  /\ dist_prepare_row' = dist_prepare_row + 1
  /\ BudgetCheck("serve")
  /\ UNCHANGED <<loopVars, queueVars, snapVars, dist_queue_buf_len, repairVars, newVars,
                 dist_update_phase, dist_target_queue_buf_len, distance_matrix_cache>>

ResizeDone ==
  /\ InPhase("RESIZE")
  /\ dist_prepare_row >= dist_target_queue_buf_len
  /\ dist_queue_buf_len' = dist_target_queue_buf_len
  /\ NextPhase("REPAIR")
  /\ UNCHANGED <<loopVars, queueVars, snapVars, dist_prepare_row, row_limit, repairVars,
                 newVars, dist_target_queue_buf_len, distance_matrix_cache>>

IsDisabled(i) == dist_queue_buf[i] \in disabled
TraceDistance(i, j) == Dist[<<dist_queue_buf[i], dist_queue_buf[j]>>]

NextRepairRow == dist_repair_row' = dist_repair_row + 1 /\ dist_repair_col' = 0

RepairSkipRow ==
  /\ InPhase("REPAIR")
  /\ dist_repair_row < dist_new_row /\ IsDisabled(dist_repair_row)
  /\ NextRepairRow
  /\ BudgetCheck("serve")
  /\ UNCHANGED <<loopVars, queueVars, snapVars, resizeVars, newVars, dist_update_phase,
                 dist_target_queue_buf_len, distance_matrix_cache>>

MutantRepairedValue(i, j) ==
  IF IsDisabled(i) THEN -1 ELSE distance_matrix_cache[<<i, j>>]

RepairedValue(i, j) ==
  IF ~IsDisabled(i) /\ distance_matrix_cache[<<i, j>>] < 0
  THEN TraceDistance(i, j) ELSE distance_matrix_cache[<<i, j>>]

RepairPair ==
  LET i == dist_repair_col
      j == dist_repair_row
  IN /\ InPhase("REPAIR")
     /\ j < dist_new_row /\ ~IsDisabled(j) /\ i < j
     /\ distance_matrix_cache' =
          [distance_matrix_cache EXCEPT ![<<i, j>>] = RepairedValue(i, j)]
     /\ dist_repair_col' = i + 1
     /\ BudgetCheck("serve")
     /\ UNCHANGED <<loopVars, queueVars, snapVars, resizeVars, dist_repair_row, newVars,
                    dist_update_phase, dist_target_queue_buf_len>>

RepairRowDone ==
  /\ InPhase("REPAIR")
  /\ dist_repair_row < dist_new_row /\ ~IsDisabled(dist_repair_row)
  /\ dist_repair_col >= dist_repair_row
  /\ NextRepairRow
  /\ GoTo("serve")
  /\ UNCHANGED <<loopVars, queueVars, snapVars, resizeVars, newVars, dist_update_phase,
                 dist_target_queue_buf_len, distance_matrix_cache>>

RepairDone ==
  /\ InPhase("REPAIR")
  /\ dist_repair_row >= dist_new_row
  /\ NextPhase("NEW_ROWS")
  /\ UNCHANGED <<loopVars, queueVars, snapVars, resizeVars, repairVars, newVars,
                 dist_target_queue_buf_len, distance_matrix_cache>>

NewValue(i, j) ==
  IF IsDisabled(i) \/ IsDisabled(j) THEN -1 ELSE TraceDistance(i, j)

(* The last pair of a row is not followed by a look at the clock.          *)
NewPair ==
  LET i == dist_new_col
      j == dist_new_row
  IN /\ InPhase("NEW_ROWS")
     /\ j < dist_queue_buf_len /\ i < j
     /\ distance_matrix_cache' = [distance_matrix_cache EXCEPT ![<<i, j>>] = NewValue(i, j)]
     /\ dist_new_col' = i + 1
     /\ IF i + 1 = j THEN GoTo("serve") ELSE BudgetCheck("serve")
     /\ UNCHANGED <<loopVars, queueVars, snapVars, resizeVars, repairVars, dist_new_row,
                    last_dist_queue_buf_len, dist_update_phase, dist_target_queue_buf_len>>

MutantRowComplete == dist_new_col + 1 >= dist_new_row
RowComplete == dist_new_col >= dist_new_row

LastRow == dist_new_row + 1 = dist_queue_buf_len

NewRowReady ==
  /\ InPhase("NEW_ROWS")
  /\ dist_new_row < dist_queue_buf_len /\ RowComplete
  /\ last_dist_queue_buf_len' = dist_new_row + 1
  /\ dist_new_row' = dist_new_row + 1
  /\ dist_new_col' = 0
  /\ IF LastRow
     THEN dist_update_phase' = "IDLE" /\ Complete
     ELSE BudgetCheck("serve") /\ UNCHANGED dist_update_phase
  /\ UNCHANGED <<loopVars, queueVars, snapVars, resizeVars, repairVars,
                 dist_target_queue_buf_len, distance_matrix_cache>>

-----------------------------------------------------------------------------
UpdateUntil ==
  \/ Switch
  \/ SnapshotOne \/ SnapshotDone \/ ResizeRow \/ ResizeDone
  \/ RepairSkipRow \/ RepairPair \/ RepairRowDone \/ RepairDone
  \/ NewPair \/ NewRowReady

Loop == EndFuzzOne \/ SkipService \/ StartService \/ UpdateUntil \/ EndIteration

Stopped == pc = "stopped" /\ UNCHANGED vars

Next ==
  \/ Loop
  \/ SaveSeed
  \/ \E i \in Index : mark_as_redundant(i)
  \/ do_load_balance
  \/ handle_stop_sig
  \/ PeriodElapses
  \/ Stopped

Spec == Init /\ [][Next]_vars

(* fuzz_one returns, the loop goes on, and the clock advances.             *)
FairSpec == Spec /\ WF_vars(Loop) /\ WF_vars(PeriodElapses)

-----------------------------------------------------------------------------
(* Correctness.                                                            *)

Phase == {"IDLE", "SNAPSHOT", "RESIZE", "REPAIR", "NEW_ROWS"}

(* Types; the cursors stay inside the buffers they index.                  *)
TypeOK ==
  /\ pc \in {"fuzz", "coop", "switch", "serve", "pull", "stopped"}
  /\ stop_soon \in BOOLEAN
  /\ queued_items \in 0 .. MaxSeeds
  /\ queue_buf \in [0 .. queued_items - 1 -> Seed]
  /\ born \in 0 .. MaxSeeds
  /\ disabled \in SUBSET Seed
  /\ LB_seed_id \in {NoLB} \union Index
  /\ dist_update_phase \in Phase
  /\ dist_queue_buf_len \in 0 .. MaxSeeds
  /\ last_dist_queue_buf_len \in 0 .. MaxSeeds
  /\ dist_target_queue_buf_len \in 0 .. MaxSeeds
  /\ dist_snapshot_cursor \in 0 .. dist_target_queue_buf_len
  /\ dist_queue_buf \in [0 .. dist_snapshot_cursor - 1 -> Seed]
  /\ dist_prepare_row \in 0 .. dist_target_queue_buf_len
  /\ dist_repair_row \in Nat /\ dist_repair_col \in Nat
  /\ dist_new_row \in 0 .. MaxSeeds /\ dist_new_col \in Nat
  /\ row_limit \in [Index -> 0 .. MaxSeeds]
  /\ distance_matrix_cache \in [Pair -> Int]
  /\ dist_throttled \in BOOLEAN /\ due \in BOOLEAN

(* The value a scheduler may see for the pair (i, j) of snapshot entries:  *)
(* the true distance, or -1 when one of the two seeds is disabled.  A -1   *)
(* between enabled seeds would look nearer than any real distance to       *)
(* assign_points_to_clusters.                                              *)
Sound(i, j) ==
  \/ distance_matrix_cache[<<i, j>>] = TraceDistance(i, j)
  \/ distance_matrix_cache[<<i, j>>] = -1 /\ (IsDisabled(i) \/ IsDisabled(j))

(* parallel.c:1277 "A row becomes visible to schedulers only after all of  *)
(* its pairs have been computed": every pair below last_dist_queue_buf_len *)
(* lies in an allocated row and has a sound value, whatever the budget     *)
(* interrupted and whatever happened to the queue between the rounds.      *)
ReadyPairsComputed ==
  \A p \in Pair :
    p[2] < last_dist_queue_buf_len =>
      /\ p[2] < row_limit[p[1]]
      /\ Sound(p[1], p[2])

(* Matrix rows are addressed by q->id, so the snapshot must stay the       *)
(* beginning of the queue: no deletion of an LB seed shifts or frees a     *)
(* seed the snapshot refers to.                                            *)
SnapshotIsQueuePrefix ==
  \A i \in 0 .. dist_snapshot_cursor - 1 :
    i < queued_items /\ dist_queue_buf[i] = queue_buf[i]

(* The LB seed is freed after one fuzz_one: it is never in the range an    *)
(* update covers, even when a round is cut off in the SNAPSHOT phase.      *)
LBSeedOutsideSnapshot ==
  LB_seed_id # NoLB => dist_target_queue_buf_len <= LB_seed_id

(* The FATAL checks of begin_distance_matrix_update and                    *)
(* maybe_service_distance_matrix never fire, and an idle service has       *)
(* published all of its snapshot.                                          *)
ReadyWithinSnapshot ==
  /\ last_dist_queue_buf_len <= dist_queue_buf_len
  /\ dist_queue_buf_len <= queued_items
  /\ dist_update_phase = "IDLE" => last_dist_queue_buf_len = dist_queue_buf_len

(* What the schedulers see.                                                *)
VisiblePairs == {p \in Pair : p[2] < last_dist_queue_buf_len}
visible == [p \in VisiblePairs |-> distance_matrix_cache[p]]

Published == INSTANCE PublishedMatrix
               WITH ready <- last_dist_queue_buf_len, matrix <- visible

(* The service implements the published matrix: rows appear one at a time, *)
(* complete, and a visible value never changes afterwards (REPAIR finds    *)
(* nothing to repair, because no seed of the snapshot is ever re-enabled). *)
RefinesPublishedMatrix == Published!Spec

(* Every seed that stays in the queue gets its row, however small the      *)
(* budget is: each round completes at least one unit of work.              *)
EverySeedGetsItsRow ==
  \A n \in 1 .. MaxSeeds :
    (queued_items >= n /\ LB_seed_id = NoLB) ~> (last_dist_queue_buf_len >= n \/ stop_soon)
=============================================================================
