----------------------- MODULE DistanceServiceProofs -----------------------
(***************************************************************************)
(* Proofs about the incremental distance service, for every number of      *)
(* seeds and every distance function.  The inductive invariant relates the *)
(* cursors of the interrupted update to its phase.                         *)
(***************************************************************************)
EXTENDS DistanceService, TLAPS

(* The lengths are ordered, and an unfinished update always leaves its     *)
(* target inside the queue, below the LB seed, which is gone by the time   *)
(* the service runs.                                                       *)
LengthsOK ==
  /\ last_dist_queue_buf_len <= dist_queue_buf_len
  /\ dist_queue_buf_len <= dist_snapshot_cursor
  /\ dist_target_queue_buf_len <= queued_items
  /\ queued_items <= born
  /\ LB_seed_id # NoLB =>
       dist_target_queue_buf_len <= LB_seed_id /\ LB_seed_id < queued_items
  /\ pc \in {"coop", "switch", "serve"} => LB_seed_id = NoLB

(* What the cursors of each phase have reached.                            *)
PhaseOK ==
  /\ dist_update_phase = "IDLE" =>
       /\ last_dist_queue_buf_len = dist_target_queue_buf_len
       /\ dist_snapshot_cursor = dist_target_queue_buf_len
  /\ dist_update_phase # "IDLE" =>
       /\ dist_new_row = last_dist_queue_buf_len
       /\ last_dist_queue_buf_len < dist_target_queue_buf_len
  /\ dist_update_phase = "SNAPSHOT" => dist_prepare_row = 0
  /\ dist_update_phase \in {"RESIZE", "REPAIR", "NEW_ROWS"} =>
       dist_snapshot_cursor = dist_target_queue_buf_len
  /\ dist_update_phase \in {"REPAIR", "NEW_ROWS"} =>
       dist_queue_buf_len = dist_target_queue_buf_len
  /\ dist_update_phase # "NEW_ROWS" /\ dist_update_phase # "IDLE" => dist_new_col = 0
  /\ dist_update_phase = "NEW_ROWS" => dist_new_col <= dist_new_row
  /\ pc \in {"switch", "serve"} => dist_update_phase # "IDLE"

(* Rows below the published length hold all published columns; RESIZE has  *)
(* enlarged the rows before its cursor.                                    *)
RowsOK ==
  /\ \A i \in Index : i < dist_queue_buf_len => dist_queue_buf_len <= row_limit[i]
  /\ dist_update_phase = "RESIZE" =>
       \A i \in Index : i < dist_prepare_row => row_limit[i] = dist_target_queue_buf_len

(* The pairs computed so far, visible or in the row under construction.    *)
PairsOK ==
  /\ \A p \in Pair : p[2] < last_dist_queue_buf_len => Sound(p[1], p[2])
  /\ dist_update_phase = "NEW_ROWS" =>
       \A i \in Index : i < dist_new_col => Sound(i, dist_new_row)

IInv == TypeOK /\ LengthsOK /\ PhaseOK /\ RowsOK /\ PairsOK /\ SnapshotIsQueuePrefix

-----------------------------------------------------------------------------
USE DistAssumption DEF loopVars, queueVars, snapVars, resizeVars, repairVars, newVars,
  timerVars, serviceVars

(* The empty snapshot and the zero-filled matrix satisfy the invariant.    *)
LEMMA InitIInv == Init => IInv
<1> SUFFICES ASSUME Init PROVE IInv
  OBVIOUS
<1>1. TypeOK
  <2>1. queue_buf \in [0 .. queued_items - 1 -> Seed] /\ disabled \in SUBSET Seed
    BY DEF Init, Seed
  <2>2. dist_queue_buf \in [0 .. dist_snapshot_cursor - 1 -> Seed]
    BY DEF Init, Seed
  <2>3. row_limit \in [Index -> 0 .. MaxSeeds] /\ distance_matrix_cache \in [Pair -> Int]
    BY DEF Init
  <2>4. stop_soon \in BOOLEAN /\ dist_throttled \in BOOLEAN /\ due \in BOOLEAN
    BY DEF Init
  <2> QED BY <2>1, <2>2, <2>3, <2>4 DEF Init, TypeOK, Phase
<1>2. LengthsOK /\ PhaseOK /\ RowsOK /\ PairsOK /\ SnapshotIsQueuePrefix
  BY DEF Init, LengthsOK, PhaseOK, RowsOK, PairsOK, SnapshotIsQueuePrefix, Index, Pair
<1> QED BY <1>1, <1>2 DEF IInv

(* Steps that only move the program counter, the signal flag or the clock. *)
LEMMA ControlStep ==
  ASSUME IInv,
         UNCHANGED <<queueVars, serviceVars, born, disabled, LB_seed_id>>,
         pc' \in {"fuzz", "coop", "switch", "serve", "pull", "stopped"},
         pc' \in {"coop", "switch", "serve"} => LB_seed_id = NoLB,
         pc' \in {"switch", "serve"} => dist_update_phase # "IDLE",
         stop_soon' \in BOOLEAN, dist_throttled' \in BOOLEAN, due' \in BOOLEAN
  PROVE  IInv'
<1> USE DEF IInv
<1>1. TypeOK'
  BY DEF TypeOK
<1>2. LengthsOK' /\ PhaseOK' /\ RowsOK' /\ SnapshotIsQueuePrefix'
  BY DEF LengthsOK, PhaseOK, RowsOK, SnapshotIsQueuePrefix
<1>3. PairsOK'
  BY DEF PairsOK, Sound, IsDisabled, TraceDistance
<1> QED BY <1>1, <1>2, <1>3

(* A seed appended to the queue leaves the snapshot and the matrix alone.  *)
LEMMA SaveSeedStep == ASSUME IInv, SaveSeed PROVE IInv'
<1> USE DEF IInv
<1>1. TypeOK'
  <2>1. queued_items' \in 0 .. MaxSeeds /\ born' \in 0 .. MaxSeeds
    BY DEF TypeOK, LengthsOK, SaveSeed, add_to_queue
  <2>2. queue_buf' \in [0 .. queued_items' - 1 -> Seed]
    BY DEF TypeOK, Seed, SaveSeed, add_to_queue
  <2> QED BY <2>1, <2>2 DEF TypeOK, SaveSeed
<1>2. LengthsOK'
  BY DEF TypeOK, LengthsOK, SaveSeed, add_to_queue, NoLB
<1>3. PhaseOK'
  BY DEF PhaseOK, SaveSeed
<1>4. RowsOK'
  BY DEF RowsOK, SaveSeed
<1>5. PairsOK'
  BY DEF PairsOK, Sound, IsDisabled, TraceDistance, SaveSeed
<1>6. SnapshotIsQueuePrefix'
  BY DEF TypeOK, SnapshotIsQueuePrefix, SaveSeed, add_to_queue
<1> QED BY <1>1, <1>2, <1>3, <1>4, <1>5, <1>6

(* Disabling a seed only weakens what a visible entry has to satisfy.      *)
LEMMA Mark_as_redundantStep == ASSUME IInv, NEW i \in Index, mark_as_redundant(i) PROVE IInv'
<1> USE DEF IInv
<1>1. TypeOK'
  <2>1. disabled' \in SUBSET Seed
    BY DEF TypeOK, Index, mark_as_redundant
  <2> QED BY <2>1 DEF TypeOK, mark_as_redundant
<1>2. LengthsOK'
  BY DEF LengthsOK, mark_as_redundant
<1>3. PhaseOK'
  BY DEF PhaseOK, mark_as_redundant
<1>4. RowsOK'
  BY DEF RowsOK, mark_as_redundant
<1>5. PairsOK'
  BY DEF PairsOK, Sound, IsDisabled, TraceDistance, mark_as_redundant
<1>6. SnapshotIsQueuePrefix'
  BY DEF SnapshotIsQueuePrefix, mark_as_redundant
<1> QED BY <1>1, <1>2, <1>3, <1>4, <1>5, <1>6

(* Deleting the LB seed moves only seeds beyond the target of the update.  *)
LEMMA EndFuzzOneStep == ASSUME IInv, EndFuzzOne PROVE IInv'
<1> USE DEF IInv
<1>1. TypeOK'
  <2>1. queued_items' \in 0 .. MaxSeeds /\ queue_buf' \in [0 .. queued_items' - 1 -> Seed]
    <3>1. CASE LB_seed_id = NoLB
      BY <3>1 DEF TypeOK, EndFuzzOne
    <3>2. CASE LB_seed_id # NoLB
      <4>1. queued_items' = queued_items - 1 /\ queue_buf' = QueueWithoutLB
            /\ queued_items \in 1 .. MaxSeeds /\ LB_seed_id \in Nat
        BY <3>2 DEF TypeOK, LengthsOK, EndFuzzOne, Index
      <4>2. ASSUME NEW i \in 0 .. queued_items - 2 PROVE QueueWithoutLB[i] \in Seed
        BY <4>1 DEF TypeOK, QueueWithoutLB
      <4> QED BY <4>1, <4>2 DEF QueueWithoutLB
    <3> QED BY <3>1, <3>2
  <2> QED BY <2>1 DEF TypeOK, EndFuzzOne
<1>2. LengthsOK'
  BY DEF TypeOK, LengthsOK, EndFuzzOne, NoLB
<1>3. PhaseOK'
  BY DEF PhaseOK, EndFuzzOne
<1>4. RowsOK'
  BY DEF RowsOK, EndFuzzOne
<1>5. PairsOK'
  BY DEF PairsOK, Sound, IsDisabled, TraceDistance, EndFuzzOne
<1>6. SnapshotIsQueuePrefix'
  BY DEF TypeOK, LengthsOK, SnapshotIsQueuePrefix, EndFuzzOne, QueueWithoutLB, NoLB
<1> QED BY <1>1, <1>2, <1>3, <1>4, <1>5, <1>6

(* A new LB seed is appended beyond the target of the update.              *)
LEMMA Do_load_balanceStep == ASSUME IInv, do_load_balance PROVE IInv'
<1> USE DEF IInv
<1>1. TypeOK'
  <2>1. queued_items' \in 0 .. MaxSeeds /\ born' \in 0 .. MaxSeeds /\ LB_seed_id' \in {NoLB} \union Index
    BY DEF TypeOK, LengthsOK, Index, do_load_balance, add_to_queue
  <2>2. queue_buf' \in [0 .. queued_items' - 1 -> Seed]
    BY DEF TypeOK, Seed, do_load_balance, add_to_queue
  <2> QED BY <2>1, <2>2 DEF TypeOK, do_load_balance
<1>2. LengthsOK'
  BY DEF TypeOK, LengthsOK, do_load_balance, add_to_queue
<1>3. PhaseOK'
  BY DEF PhaseOK, do_load_balance
<1>4. RowsOK'
  BY DEF RowsOK, do_load_balance
<1>5. PairsOK'
  BY DEF PairsOK, Sound, IsDisabled, TraceDistance, do_load_balance
<1>6. SnapshotIsQueuePrefix'
  BY DEF TypeOK, SnapshotIsQueuePrefix, do_load_balance, add_to_queue
<1> QED BY <1>1, <1>2, <1>3, <1>4, <1>5, <1>6

(* A fresh update starts from an idle, completely published snapshot.      *)
LEMMA StartServiceStep == ASSUME IInv, StartService PROVE IInv'
<1> USE DEF IInv
<1>1. TypeOK'
  <2>1. CASE dist_update_phase = "IDLE"
    <3>1. dist_target_queue_buf_len' = queued_items /\ queued_items > dist_queue_buf_len
          /\ dist_queue_buf_len = dist_snapshot_cursor /\ dist_snapshot_cursor' = dist_queue_buf_len
      BY <2>1 DEF TypeOK, LengthsOK, PhaseOK, StartService, NothingToDo,
         begin_distance_matrix_update
    <3>2. dist_queue_buf' \in [0 .. dist_snapshot_cursor' - 1 -> Seed]
      BY <2>1, <3>1 DEF TypeOK, StartService
    <3> QED BY <2>1, <3>1, <3>2 DEF TypeOK, StartService, begin_distance_matrix_update,
               Phase
  <2>2. CASE dist_update_phase # "IDLE"
    BY <2>2 DEF TypeOK, StartService
  <2> QED BY <2>1, <2>2
<1>2. LengthsOK'
  <2>1. CASE dist_update_phase = "IDLE"
    BY <2>1 DEF TypeOK, LengthsOK, StartService, begin_distance_matrix_update
  <2>2. CASE dist_update_phase # "IDLE"
    BY <2>2 DEF LengthsOK, StartService
  <2> QED BY <2>1, <2>2
<1>3. PhaseOK'
  BY DEF TypeOK, LengthsOK, PhaseOK, StartService, NothingToDo,
     begin_distance_matrix_update
<1>4. RowsOK'
  BY DEF RowsOK, StartService, begin_distance_matrix_update
<1>5. PairsOK'
  BY DEF PairsOK, Sound, IsDisabled, TraceDistance, StartService,
     begin_distance_matrix_update
<1>6. SnapshotIsQueuePrefix'
  <2>1. dist_snapshot_cursor' = dist_snapshot_cursor
    BY DEF TypeOK, LengthsOK, PhaseOK, StartService, begin_distance_matrix_update
  <2> QED
    BY <2>1 DEF SnapshotIsQueuePrefix, StartService
<1> QED BY <1>1, <1>2, <1>3, <1>4, <1>5, <1>6

(* Copying one more queue entry extends the snapshot at its end.           *)
LEMMA SnapshotOneStep == ASSUME IInv, SnapshotOne PROVE IInv'
<1> USE DEF IInv
<1>1. TypeOK'
  <2>1. dist_snapshot_cursor' \in 0 .. dist_target_queue_buf_len'
    BY DEF TypeOK, SnapshotOne
  <2>2. dist_queue_buf' \in [0 .. dist_snapshot_cursor' - 1 -> Seed]
    BY DEF TypeOK, LengthsOK, SnapshotOne
  <2>3. pc' \in {"serve", "pull"} /\ dist_throttled' \in BOOLEAN /\ due' \in BOOLEAN
    BY DEF TypeOK, SnapshotOne, BudgetCheck, GoTo, Exhausted
  <2> QED BY <2>1, <2>2, <2>3 DEF TypeOK, SnapshotOne
<1>2. LengthsOK'
  BY DEF TypeOK, LengthsOK, SnapshotOne, InPhase
<1>3. PhaseOK'
  BY DEF TypeOK, PhaseOK, SnapshotOne
<1>4. RowsOK'
  BY DEF RowsOK, SnapshotOne
<1>5. PairsOK'
  <2>1. \A i \in Index : i < last_dist_queue_buf_len => dist_queue_buf'[i] = dist_queue_buf[i]
    BY DEF TypeOK, LengthsOK, Index, SnapshotOne
  <2>2. dist_update_phase' = "SNAPSHOT"
        /\ UNCHANGED <<disabled, distance_matrix_cache, last_dist_queue_buf_len>>
    BY DEF SnapshotOne, InPhase
  <2>3. ASSUME NEW p \in Pair, p[2] < last_dist_queue_buf_len
        PROVE  Sound(p[1], p[2])'
    <3>1. p[1] \in Index /\ p[2] \in Index /\ p[1] < last_dist_queue_buf_len
      BY <2>3 DEF Pair, Index, TypeOK
    <3> QED BY <2>1, <2>2, <2>3, <3>1 DEF PairsOK, Sound, IsDisabled, TraceDistance
  <2> QED BY <2>2, <2>3 DEF PairsOK
<1>6. SnapshotIsQueuePrefix'
  BY DEF TypeOK, LengthsOK, SnapshotIsQueuePrefix, SnapshotOne
<1> QED BY <1>1, <1>2, <1>3, <1>4, <1>5, <1>6

(* Entering RESIZE: no row has been enlarged yet.                          *)
LEMMA SnapshotDoneStep == ASSUME IInv, SnapshotDone PROVE IInv'
<1> USE DEF IInv
<1>1. TypeOK'
  BY DEF TypeOK, SnapshotDone, NextPhase, BudgetCheck, GoTo, Exhausted, Phase
<1>2. LengthsOK'
  BY DEF LengthsOK, SnapshotDone, InPhase
<1>3. PhaseOK'
  BY DEF TypeOK, PhaseOK, SnapshotDone, InPhase, NextPhase
<1>4. RowsOK'
  <2>1. dist_prepare_row = 0
    BY DEF TypeOK, PhaseOK, SnapshotDone, InPhase
  <2> QED
    BY <2>1 DEF RowsOK, SnapshotDone, Index
<1>5. PairsOK'
  BY DEF PairsOK, Sound, IsDisabled, TraceDistance, SnapshotDone, NextPhase
<1>6. SnapshotIsQueuePrefix'
  BY DEF SnapshotIsQueuePrefix, SnapshotDone
<1> QED BY <1>1, <1>2, <1>3, <1>4, <1>5, <1>6

(* Enlarging a row never takes columns away from it.                       *)
LEMMA ResizeRowStep == ASSUME IInv, ResizeRow PROVE IInv'
<1> USE DEF IInv
<1>1. TypeOK'
  <2>1. row_limit' \in [Index -> 0 .. MaxSeeds]
    BY DEF TypeOK, Index, ResizeRow
  <2>2. dist_prepare_row' \in 0 .. dist_target_queue_buf_len'
    BY DEF TypeOK, ResizeRow
  <2>3. pc' \in {"serve", "switch", "pull"} /\ dist_throttled' \in BOOLEAN /\ due' \in BOOLEAN
    BY DEF TypeOK, ResizeRow, BudgetCheck, GoTo, Exhausted
  <2> QED BY <2>1, <2>2, <2>3 DEF TypeOK, ResizeRow
<1>2. LengthsOK'
  BY DEF LengthsOK, ResizeRow, InPhase
<1>3. PhaseOK'
  BY DEF PhaseOK, ResizeRow, InPhase
<1>4. RowsOK'
  <2>1. dist_queue_buf_len <= dist_target_queue_buf_len
    BY DEF TypeOK, LengthsOK
  <2> QED
    BY <2>1 DEF TypeOK, RowsOK, ResizeRow, InPhase, Index
<1>5. PairsOK'
  BY DEF PairsOK, Sound, IsDisabled, TraceDistance, ResizeRow
<1>6. SnapshotIsQueuePrefix'
  BY DEF SnapshotIsQueuePrefix, ResizeRow
<1> QED BY <1>1, <1>2, <1>3, <1>4, <1>5, <1>6

(* The longer snapshot is published once every row has been enlarged.      *)
LEMMA ResizeDoneStep == ASSUME IInv, ResizeDone PROVE IInv'
<1> USE DEF IInv
<1>1. TypeOK'
  BY DEF TypeOK, ResizeDone, NextPhase, BudgetCheck, GoTo, Exhausted, Phase
<1>2. LengthsOK'
  BY DEF TypeOK, LengthsOK, PhaseOK, ResizeDone, InPhase
<1>3. PhaseOK'
  BY DEF PhaseOK, ResizeDone, InPhase, NextPhase
<1>4. RowsOK'
  BY DEF TypeOK, RowsOK, ResizeDone, InPhase
<1>5. PairsOK'
  BY DEF PairsOK, Sound, IsDisabled, TraceDistance, ResizeDone, NextPhase
<1>6. SnapshotIsQueuePrefix'
  BY DEF SnapshotIsQueuePrefix, ResizeDone
<1> QED BY <1>1, <1>2, <1>3, <1>4, <1>5, <1>6

(* Skipping the row of a disabled seed.                                    *)
LEMMA RepairSkipRowStep == ASSUME IInv, RepairSkipRow PROVE IInv'
<1> USE DEF IInv
<1>1. TypeOK'
  <2>1. dist_repair_row' \in Nat /\ dist_repair_col' \in Nat
    BY DEF TypeOK, RepairSkipRow, NextRepairRow
  <2>2. pc' \in {"serve", "switch", "pull"} /\ dist_throttled' \in BOOLEAN /\ due' \in BOOLEAN
    BY DEF TypeOK, RepairSkipRow, BudgetCheck, GoTo, Exhausted
  <2> QED BY <2>1, <2>2 DEF TypeOK, RepairSkipRow
<1>2. LengthsOK'
  BY DEF LengthsOK, RepairSkipRow, InPhase
<1>3. PhaseOK'
  BY DEF PhaseOK, RepairSkipRow, InPhase
<1>4. RowsOK'
  BY DEF RowsOK, RepairSkipRow
<1>5. PairsOK'
  BY DEF PairsOK, Sound, IsDisabled, TraceDistance, RepairSkipRow
<1>6. SnapshotIsQueuePrefix'
  BY DEF SnapshotIsQueuePrefix, RepairSkipRow
<1> QED BY <1>1, <1>2, <1>3, <1>4, <1>5, <1>6

(* A revisited pair keeps or gets its true distance.                       *)
LEMMA RepairPairStep == ASSUME IInv, RepairPair PROVE IInv'
<1> USE DEF IInv
<1>1. TypeOK'
  <2> DEFINE i == dist_repair_col
  <2> DEFINE j == dist_repair_row
  <2>1. <<i, j>> \in Pair /\ dist_repair_col' \in Nat
    BY DEF TypeOK, RepairPair, Pair, Index
  <2>2. TraceDistance(i, j) \in Int
    BY DEF TypeOK, PhaseOK, RepairPair, InPhase, TraceDistance
  <2>3. distance_matrix_cache' \in [Pair -> Int]
    BY <2>1, <2>2 DEF TypeOK, RepairPair, RepairedValue
  <2>4. pc' \in {"serve", "switch", "pull"} /\ dist_throttled' \in BOOLEAN /\ due' \in BOOLEAN
    BY DEF TypeOK, RepairPair, BudgetCheck, GoTo, Exhausted
  <2> QED BY <2>1, <2>3, <2>4 DEF TypeOK, RepairPair
<1>2. LengthsOK'
  BY DEF LengthsOK, RepairPair, InPhase
<1>3. PhaseOK'
  BY DEF PhaseOK, RepairPair, InPhase
<1>4. RowsOK'
  BY DEF RowsOK, RepairPair
<1>5. PairsOK'
  BY DEF PairsOK, Sound, IsDisabled, TraceDistance, RepairPair, InPhase, RepairedValue,
     BudgetCheck, Pair
<1>6. SnapshotIsQueuePrefix'
  BY DEF SnapshotIsQueuePrefix, RepairPair
<1> QED BY <1>1, <1>2, <1>3, <1>4, <1>5, <1>6

(* Moving on to the next row to revisit.                                   *)
LEMMA RepairRowDoneStep == ASSUME IInv, RepairRowDone PROVE IInv'
<1> USE DEF IInv
<1>1. TypeOK'
  BY DEF TypeOK, RepairRowDone, NextRepairRow, GoTo, Pair
<1>2. LengthsOK'
  BY DEF LengthsOK, RepairRowDone, InPhase
<1>3. PhaseOK'
  BY DEF PhaseOK, RepairRowDone, InPhase
<1>4. RowsOK'
  BY DEF RowsOK, RepairRowDone
<1>5. PairsOK'
  BY DEF PairsOK, Sound, IsDisabled, TraceDistance, RepairRowDone
<1>6. SnapshotIsQueuePrefix'
  BY DEF SnapshotIsQueuePrefix, RepairRowDone
<1> QED BY <1>1, <1>2, <1>3, <1>4, <1>5, <1>6

(* Entering NEW_ROWS at the first column of the first new row.             *)
LEMMA RepairDoneStep == ASSUME IInv, RepairDone PROVE IInv'
<1> USE DEF IInv
<1>1. TypeOK'
  BY DEF TypeOK, RepairDone, NextPhase, BudgetCheck, GoTo, Exhausted, Phase
<1>2. LengthsOK'
  BY DEF LengthsOK, RepairDone, InPhase
<1>3. PhaseOK'
  BY DEF TypeOK, PhaseOK, RepairDone, InPhase, NextPhase
<1>4. RowsOK'
  BY DEF RowsOK, RepairDone, NextPhase
<1>5. PairsOK'
  <2>1. dist_new_col = 0
    BY DEF PhaseOK, RepairDone, InPhase
  <2> QED
    BY <2>1 DEF PairsOK, Sound, IsDisabled, TraceDistance, Index, RepairDone
<1>6. SnapshotIsQueuePrefix'
  BY DEF SnapshotIsQueuePrefix, RepairDone
<1> QED BY <1>1, <1>2, <1>3, <1>4, <1>5, <1>6

(* Computing a pair of the row under construction.                         *)
LEMMA NewPairStep == ASSUME IInv, NewPair PROVE IInv'
<1> USE DEF IInv
<1>1. TypeOK'
  <2> DEFINE i == dist_new_col
  <2> DEFINE j == dist_new_row
  <2>1. <<i, j>> \in Pair /\ dist_new_col' \in Nat
    BY DEF TypeOK, NewPair, Pair, Index
  <2>2. TraceDistance(i, j) \in Int
    BY DEF TypeOK, LengthsOK, NewPair, TraceDistance
  <2>3. distance_matrix_cache' \in [Pair -> Int]
    BY <2>1, <2>2 DEF TypeOK, NewPair, NewValue
  <2>4. pc' \in {"serve", "switch", "pull"} /\ dist_throttled' \in BOOLEAN /\ due' \in BOOLEAN
    BY DEF TypeOK, NewPair, BudgetCheck, GoTo, Exhausted
  <2> QED BY <2>1, <2>3, <2>4 DEF TypeOK, NewPair
<1>2. LengthsOK'
  BY DEF LengthsOK, NewPair, InPhase
<1>3. PhaseOK'
  BY DEF TypeOK, PhaseOK, NewPair, InPhase
<1>4. RowsOK'
  BY DEF RowsOK, NewPair
<1>5. PairsOK'
  <2>0. PICK i \in Index, j \in Index : i = dist_new_col /\ j = dist_new_row
    BY DEF TypeOK, NewPair, Index
  <2>1. <<i, j>> \in Pair /\ j = last_dist_queue_buf_len
    BY <2>0 DEF PhaseOK, NewPair, InPhase, Pair
  <2>2. distance_matrix_cache' = [distance_matrix_cache EXCEPT ![<<i, j>>] = NewValue(i, j)]
    BY <2>0 DEF NewPair
  <2>3. UNCHANGED <<dist_queue_buf, disabled, dist_new_row, last_dist_queue_buf_len>>
        /\ dist_new_col' = i + 1
    BY <2>0 DEF NewPair
  <2>4. ASSUME NEW p \in Pair, p[2] < last_dist_queue_buf_len
        PROVE  Sound(p[1], p[2])'
    <3>1. p # <<i, j>> /\ p = <<p[1], p[2]>>
      BY <2>1, <2>4 DEF Pair, Index
    <3> QED BY <2>2, <2>3, <2>4, <3>1 DEF TypeOK, PairsOK, Sound, IsDisabled,
               TraceDistance
  <2>5. ASSUME NEW k \in Index, k < i
        PROVE  Sound(k, j)'
    <3>1. <<k, j>> \in Pair /\ <<k, j>> # <<i, j>> /\ Sound(k, j)
      BY <2>0, <2>1, <2>5 DEF PairsOK, NewPair, InPhase, Pair, Index
    <3> QED BY <2>2, <2>3, <3>1 DEF TypeOK, Sound, IsDisabled, TraceDistance
  <2>6. Sound(i, j)'
    BY <2>1, <2>2, <2>3 DEF TypeOK, Sound, NewValue, IsDisabled, TraceDistance
  <2>7. ASSUME NEW k \in Index, k < dist_new_col'
        PROVE  Sound(k, j)'
    <3>1. k < i \/ k = i
      BY <2>3, <2>7 DEF Index
    <3> QED BY <2>5, <2>6, <3>1
  <2>8. dist_new_row' = j
    BY <2>0, <2>3
  <2> QED BY <2>3, <2>4, <2>7, <2>8 DEF PairsOK, Sound, IsDisabled, TraceDistance
<1>6. SnapshotIsQueuePrefix'
  BY DEF SnapshotIsQueuePrefix, NewPair
<1> QED BY <1>1, <1>2, <1>3, <1>4, <1>5, <1>6

(* Publishing a row all of whose pairs have been computed.                 *)
LEMMA NewRowReadyStep == ASSUME IInv, NewRowReady PROVE IInv'
<1> USE DEF IInv
<1>1. TypeOK'
  <2>1. dist_new_row' \in 0 .. MaxSeeds /\ last_dist_queue_buf_len' \in 0 .. MaxSeeds /\ dist_new_col' \in Nat
    BY DEF TypeOK, NewRowReady
  <2>2. pc' \in {"serve", "switch", "pull"} /\ dist_throttled' \in BOOLEAN /\ due' \in BOOLEAN /\ dist_update_phase' \in Phase
    BY DEF TypeOK, Phase, NewRowReady, Complete, BudgetCheck, GoTo, Exhausted
  <2> QED BY <2>1, <2>2 DEF TypeOK, NewRowReady
<1>2. LengthsOK'
  BY DEF TypeOK, LengthsOK, NewRowReady, InPhase
<1>3. PhaseOK'
  BY DEF TypeOK, PhaseOK, NewRowReady, InPhase, LastRow, Complete, Pair, Phase
<1>4. RowsOK'
  BY DEF RowsOK, NewRowReady
<1>5. PairsOK'
  <2>1. dist_new_row = last_dist_queue_buf_len /\ dist_new_col = dist_new_row
    BY DEF TypeOK, PhaseOK, NewRowReady, InPhase, RowComplete
  <2>2. UNCHANGED <<dist_queue_buf, disabled, distance_matrix_cache>> /\ dist_new_col' = 0
    BY DEF NewRowReady
  <2>3. ASSUME NEW p \in Pair, p[2] < last_dist_queue_buf_len'
        PROVE  Sound(p[1], p[2])
    <3>1. CASE p[2] = last_dist_queue_buf_len
      BY <2>1, <3>1 DEF PairsOK, NewRowReady, InPhase, Pair, Index
    <3>2. CASE p[2] < last_dist_queue_buf_len
      BY <3>2 DEF PairsOK
    <3> QED BY <2>1, <2>3, <3>1, <3>2 DEF TypeOK, NewRowReady, Pair, Index
  <2>4. ASSUME NEW p \in Pair, p[2] < last_dist_queue_buf_len'
        PROVE  Sound(p[1], p[2])'
    BY <2>2, <2>3, <2>4 DEF Sound, IsDisabled, TraceDistance
  <2>5. ASSUME NEW i \in Index PROVE ~ (i < dist_new_col')
    BY <2>2 DEF Index
  <2> QED BY <2>4, <2>5 DEF PairsOK
<1>6. SnapshotIsQueuePrefix'
  BY DEF SnapshotIsQueuePrefix, NewRowReady
<1> QED BY <1>1, <1>2, <1>3, <1>4, <1>5, <1>6

(* Every step of the main loop and of the service preserves the invariant. *)
LEMMA NextIInv == IInv /\ [Next]_vars => IInv'
<1> SUFFICES ASSUME IInv, [Next]_vars PROVE IInv'
  OBVIOUS
<1> USE DEF IInv
<1>1. CASE EndIteration \/ handle_stop_sig \/ PeriodElapses
  BY <1>1, ControlStep DEF EndIteration, handle_stop_sig, PeriodElapses, TypeOK,
     LengthsOK, PhaseOK
<1>2. CASE SkipService \/ Switch
  BY <1>2, ControlStep DEF SkipService, Switch, GoTo, TypeOK, LengthsOK, PhaseOK
<1>3. CASE Stopped \/ UNCHANGED vars
  BY <1>3, ControlStep DEF Stopped, vars, TypeOK, LengthsOK, PhaseOK
<1>4. CASE SaveSeed \/ EndFuzzOne \/ do_load_balance \/ StartService
  BY <1>4, SaveSeedStep, EndFuzzOneStep, Do_load_balanceStep, StartServiceStep
<1>5. CASE \E i \in Index : mark_as_redundant(i)
  BY <1>5, Mark_as_redundantStep
<1>6. CASE SnapshotOne \/ SnapshotDone \/ ResizeRow \/ ResizeDone
  BY <1>6, SnapshotOneStep, SnapshotDoneStep, ResizeRowStep, ResizeDoneStep
<1>7. CASE RepairSkipRow \/ RepairPair \/ RepairRowDone \/ RepairDone
  BY <1>7, RepairSkipRowStep, RepairPairStep, RepairRowDoneStep, RepairDoneStep
<1>8. CASE NewPair \/ NewRowReady
  BY <1>8, NewPairStep, NewRowReadyStep
<1> QED
  BY <1>1, <1>2, <1>3, <1>4, <1>5, <1>6, <1>7, <1>8 DEF Next, Loop, UpdateUntil

(* The cursors of the distance service always agree with its phase.        *)
THEOREM ServiceInvariant == Spec => []IInv
  BY InitIInv, NextIInv, PTL DEF Spec

(* The service is type correct and no cursor leaves its buffer.            *)
THEOREM ServiceTypeOK == Spec => []TypeOK
<1>1. IInv => TypeOK
  BY DEF IInv
<1> QED BY <1>1, ServiceInvariant, PTL

(* A row is visible only when all of its pairs are computed, however the   *)
(* budget cuts the update into rounds.                                     *)
THEOREM RowsVisibleWhenComputed == Spec => []ReadyPairsComputed
<1>1. IInv => ReadyPairsComputed
  <2> SUFFICES ASSUME IInv, NEW p \in Pair, p[2] < last_dist_queue_buf_len
               PROVE  p[2] < row_limit[p[1]] /\ Sound(p[1], p[2])
    BY DEF ReadyPairsComputed
  <2>1. p[1] \in Index /\ p[2] \in Index /\ p[1] < p[2]
    BY DEF Pair
  <2>2. p[1] < dist_queue_buf_len /\ p[2] < dist_queue_buf_len
    <3>1. last_dist_queue_buf_len <= dist_queue_buf_len
          /\ last_dist_queue_buf_len \in Int /\ dist_queue_buf_len \in Int
      BY DEF IInv, TypeOK, LengthsOK
    <3> QED BY <2>1, <3>1 DEF Index
  <2>3. dist_queue_buf_len <= row_limit[p[1]] /\ row_limit[p[1]] \in Nat
    BY <2>1, <2>2 DEF IInv, RowsOK, TypeOK
  <2>4. Sound(p[1], p[2])
    BY DEF IInv, PairsOK
  <2> QED BY <2>1, <2>2, <2>3, <2>4 DEF IInv, TypeOK, Index
<1> QED BY <1>1, ServiceInvariant, PTL

(* The snapshot stays the beginning of the queue, so that q->id addresses  *)
(* the right matrix row.                                                   *)
THEOREM SnapshotPrefix == Spec => []SnapshotIsQueuePrefix
<1>1. IInv => SnapshotIsQueuePrefix
  BY DEF IInv
<1> QED BY <1>1, ServiceInvariant, PTL

(* The short-lived LB seed never gets into an update.                      *)
THEOREM LBSeedNotInSnapshot == Spec => []LBSeedOutsideSnapshot
<1>1. IInv => LBSeedOutsideSnapshot
  BY DEF IInv, LengthsOK, LBSeedOutsideSnapshot
<1> QED BY <1>1, ServiceInvariant, PTL

(* The FATAL consistency checks of the service never fire.                 *)
THEOREM LengthsConsistent == Spec => []ReadyWithinSnapshot
<1>1. IInv => ReadyWithinSnapshot
  BY DEF IInv, TypeOK, LengthsOK, PhaseOK, ReadyWithinSnapshot
<1> QED BY <1>1, ServiceInvariant, PTL

-----------------------------------------------------------------------------
(* Refinement of the published matrix.                                     *)

(* REPAIR rewrites a visible pair with the value it already has.           *)
LEMMA RepairKeepsValues ==
  ASSUME IInv, RepairPair PROVE distance_matrix_cache' = distance_matrix_cache
<1> DEFINE i == dist_repair_col
<1> DEFINE j == dist_repair_row
<1>1. <<i, j>> \in Pair /\ j < last_dist_queue_buf_len /\ ~IsDisabled(j)
  BY DEF IInv, TypeOK, PhaseOK, RepairPair, InPhase, Pair, Index
<1>2. Sound(i, j)
  BY <1>1 DEF IInv, PairsOK
<1>3. i \in 0 .. dist_snapshot_cursor - 1 /\ j \in 0 .. dist_snapshot_cursor - 1
  BY <1>1 DEF IInv, TypeOK, LengthsOK, Pair, Index
<1>4. TraceDistance(i, j) >= 0
  BY <1>3 DEF IInv, TypeOK, TraceDistance
<1>5. RepairedValue(i, j) = distance_matrix_cache[<<i, j>>]
  BY <1>1, <1>2, <1>4 DEF Sound, RepairedValue
<1> QED BY <1>1, <1>5 DEF IInv, TypeOK, RepairPair

(* The row under construction is outside what the schedulers see.          *)
LEMMA NewPairInvisible == ASSUME IInv, NewPair PROVE visible' = visible
<1> DEFINE i == dist_new_col
<1> DEFINE j == dist_new_row
<1>1. j = last_dist_queue_buf_len /\ UNCHANGED last_dist_queue_buf_len
  BY DEF IInv, PhaseOK, NewPair, InPhase
<1>2. VisiblePairs' = VisiblePairs
  BY <1>1 DEF VisiblePairs
<1>3. ASSUME NEW p \in VisiblePairs
      PROVE  distance_matrix_cache'[p] = distance_matrix_cache[p]
  <2>1. p \in Pair /\ p # <<i, j>>
    BY <1>1, <1>3 DEF VisiblePairs, IInv, TypeOK
  <2> QED BY <2>1 DEF IInv, TypeOK, NewPair
<1> QED BY <1>2, <1>3 DEF visible

(* A completed row is exactly one step of the published matrix.            *)
LEMMA NewRowPublishes == ASSUME IInv, NewRowReady PROVE Published!PublishRow
<1>1. last_dist_queue_buf_len' = last_dist_queue_buf_len + 1
      /\ last_dist_queue_buf_len < MaxSeeds /\ last_dist_queue_buf_len \in Nat
  BY DEF IInv, TypeOK, PhaseOK, NewRowReady, InPhase
<1>2. UNCHANGED distance_matrix_cache
  BY DEF NewRowReady
<1>3. VisiblePairs' = Published!PairsBelow(last_dist_queue_buf_len')
  BY DEF VisiblePairs, Pair, Index, Published!PairsBelow
<1>4. VisiblePairs = Published!PairsBelow(last_dist_queue_buf_len)
  BY DEF VisiblePairs, Pair, Index, Published!PairsBelow
<1>5. \A p \in VisiblePairs' : visible'[p] = distance_matrix_cache[p] /\ visible'[p] \in Int
  BY <1>2 DEF visible, VisiblePairs, IInv, TypeOK
<1>6. \A p \in VisiblePairs : p \in VisiblePairs' /\ visible[p] = distance_matrix_cache[p]
  BY <1>1 DEF visible, VisiblePairs, Pair, Index
<1>7. DOMAIN visible' = VisiblePairs'
  BY DEF visible
<1> QED BY <1>1, <1>3, <1>4, <1>5, <1>6, <1>7 DEF Published!PublishRow

(* All other steps leave the visible matrix as it is.                      *)
LEMMA StepSimulation ==
  ASSUME IInv, [Next]_vars
  PROVE  Published!PublishRow \/ UNCHANGED <<last_dist_queue_buf_len, visible>>
<1>1. CASE NewRowReady
  BY <1>1, NewRowPublishes
<1>2. CASE NewPair
  BY <1>2, NewPairInvisible DEF NewPair
<1>3. CASE RepairPair
  BY <1>3, RepairKeepsValues DEF RepairPair, visible, VisiblePairs
<1>4. CASE UNCHANGED <<last_dist_queue_buf_len, distance_matrix_cache>>
  BY <1>4 DEF visible, VisiblePairs
<1>5. CASE SaveSeed \/ EndFuzzOne \/ do_load_balance \/ EndIteration \/ handle_stop_sig
           \/ PeriodElapses \/ SkipService \/ Switch \/ Stopped \/ UNCHANGED vars
  BY <1>4, <1>5 DEF SaveSeed, EndFuzzOne, do_load_balance, EndIteration,
     handle_stop_sig, PeriodElapses, SkipService, Switch, Stopped, vars
<1>6. CASE StartService
  BY <1>4, <1>6 DEF StartService
<1>7. CASE \E i \in Index : mark_as_redundant(i)
  BY <1>4, <1>7 DEF mark_as_redundant
<1>8. CASE SnapshotOne \/ SnapshotDone \/ ResizeRow \/ ResizeDone
  BY <1>4, <1>8 DEF SnapshotOne, SnapshotDone, ResizeRow, ResizeDone
<1>9. CASE RepairSkipRow \/ RepairRowDone \/ RepairDone
  BY <1>4, <1>9 DEF RepairSkipRow, RepairRowDone, RepairDone
<1> QED
  BY <1>1, <1>2, <1>3, <1>5, <1>6, <1>7, <1>8, <1>9 DEF Next, Loop, UpdateUntil

(* The service implements the published matrix: readers see complete rows  *)
(* appear one at a time and never see a value change.                      *)
THEOREM ServiceRefinesPublishedMatrix == Spec => RefinesPublishedMatrix
<1>1. Init => Published!Init
  <2> SUFFICES ASSUME Init PROVE Published!Init
    OBVIOUS
  <2>1. VisiblePairs = {} /\ Published!PairsBelow(0) = {}
    BY DEF Init, VisiblePairs, Pair, Index, Published!PairsBelow
  <2> QED BY <2>1 DEF Init, visible, Published!Init
<1>2. IInv /\ [Next]_vars => [Published!PublishRow]_<<last_dist_queue_buf_len, visible>>
  BY StepSimulation
<1> QED
  BY <1>1, <1>2, ServiceInvariant, PTL
     DEF Spec, RefinesPublishedMatrix, Published!Spec, Published!vars
=============================================================================
