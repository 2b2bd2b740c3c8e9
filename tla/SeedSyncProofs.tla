--------------------------- MODULE SeedSyncProofs ---------------------------
(***************************************************************************)
(* Proofs about the walk of a worker over the master's seeds, for every    *)
(* number of seeds, divisions and subdomains.                              *)
(***************************************************************************)
EXTENDS SeedSync, TLAPS

Record == [subdomain_id : Label \union {0, -2}, was_fuzzed : Nat]

(* The labels are complete, and the worker has no publication to adopt.    *)
UpToDate == mpc = "run" /\ if_new_subdomain = 0

(* How far the current walk, or the last one, has come.                    *)
Reached == IF Walking THEN global_id ELSE sync_cursor

(* The master labels existing seeds only.                                  *)
MasterFacts ==
  /\ db \in [Seed -> Record] /\ seed_num <= queued_items
  /\ mpc = "label" => division > 0 /\ seed_num > 0

(* The walk stays on existing seeds, and flags exactly what it takes.  The *)
(* flag is set until the worker clears it and starts from seed_0 again.    *)
WalkFacts ==
  /\ wpc \in {"update", "clear"} => if_new_subdomain = 1
  /\ global_id <= queued_items /\ sync_cursor <= queued_items
  /\ \A i \in Seed : global_seed_flag[i] = 1 => taken[i] # "no" /\ i < queued_items
  /\ UpToDate =>
       \A i \in Seed : i < Reached /\ db[i].subdomain_id = sd_id => taken[i] # "no"

(* Before the first publication; the worker has no subdomain then.         *)
Before == division = 0 \/ (division = 1 /\ mpc = "label")

(* The initial seeds whose label the first division rewrites.              *)
Hidden(i) == i < initial /\ (left_out => i # initial - 1)

(* The label of subdomain 0 that an initial seed is stored with is gone    *)
(* before any worker walks, and does not come back.                        *)
InitialFacts ==
  /\ \A i \in Seed : i < initial => not_sync[i] = TRUE
  /\ division = 0 => ~ left_out
  /\ Before => if_new_subdomain = 0 /\ sd_id = UINT32_MAX /\ wpc \in {"poll", "periodic"}
  /\ ~ Before => new_id \in Ids
  /\ wpc \in {"clear", "sync", "resync"} => sd_id \in Ids
  /\ \A i \in Seed : Hidden(i) =>
       /\ taken[i] = "no"
       /\ ~ Before \/ (mpc = "label" /\ i < label_pos) => db[i].subdomain_id = UINT32_MAX
  /\ mpc = "label" /\ Before /\ ~ left_out => initial <= TotalSeedNum

IInv == TypeOK /\ MasterFacts /\ WalkFacts /\ InitialFacts

-----------------------------------------------------------------------------
(* Constants and the record of a missing key.                              *)
LEMMA Constants ==
  /\ 0 \in Seed /\ Seed \subseteq Nat /\ Missing \in Record
  /\ Missing.subdomain_id \notin Label \union {0}
  /\ UINT32_MAX \notin Ids /\ -2 \notin Label
  BY SeedSyncAssumption DEF Seed, Missing, Record, Label, UINT32_MAX

(* A key with a label exists.                                              *)
LEMMA LabelledExists ==
  ASSUME TypeOK, NEW i \in Seed, db[i].subdomain_id \in Label
  PROVE  i < queued_items
<1>1. db[i] # Missing
  BY Constants
<1> QED
  BY <1>1, Constants DEF TypeOK

(* A new seed is stored behind everything the worker has reached.          *)
LEMMA AddSeedKeeps ==
  ASSUME IInv, NEW label \in Label, NEW imported \in BOOLEAN, AddSeed(label, imported)
  PROVE  IInv'
<1> DEFINE q == queued_items
<1>1. /\ q \in Seed /\ q \in Nat /\ q > 0 /\ q < MaxSeeds /\ queued_items' = q + 1
      /\ mpc = "run" /\ db' = [db EXCEPT ![q] = [subdomain_id |-> label, was_fuzzed |-> q]]
      /\ subdomain_id' = [subdomain_id EXCEPT ![q] = label]
      /\ not_sync' = [not_sync EXCEPT ![q] = imported]
      /\ UNCHANGED <<mpc, division, seed_num, label_pos, initial, left_out, new_id,
                     if_new_subdomain, wpc, sd_id, sync_cursor, global_id, global_seed_flag,
                     taken>>
  BY SeedSyncAssumption DEF IInv, TypeOK, AddSeed, save_one_seed_to_db, StoredWasFuzzed,
     keyVars, workerVars, Seed
<1>2. db \in [Seed -> Record] /\ db' \in [Seed -> Record]
  BY <1>1 DEF IInv, MasterFacts, Record
<1>3. /\ db'[q] = [subdomain_id |-> label, was_fuzzed |-> q]
      /\ \A i \in Seed : i # q => db'[i] = db[i]
  BY <1>1, <1>2
<1>4. TypeOK'
  <2>1. db'[q] # Missing
    BY <1>3, Constants
  <2>2. \A i \in Seed : (db[i] = Missing <=> i >= q)
    BY DEF IInv, TypeOK
  <2>3. \A i \in Seed : (db'[i] = Missing <=> i >= queued_items')
    BY <1>1, <1>3, <2>1, <2>2, Constants
  <2>4. subdomain_id' \in [Seed -> Label \union {0}] /\ not_sync' \in [Seed -> BOOLEAN]
    BY <1>1 DEF IInv, TypeOK
  <2>5. queued_items' \in 1 .. MaxSeeds /\ initial' \in 1 .. queued_items'
    BY <1>1, SeedSyncAssumption DEF IInv, TypeOK
  <2> QED
    BY <1>1, <2>3, <2>4, <2>5 DEF IInv, TypeOK
<1>5. MasterFacts'
  BY <1>1, <1>2 DEF IInv, TypeOK, MasterFacts
<1>6. WalkFacts'
  <2>1. Reached' = Reached /\ UpToDate' = UpToDate /\ Reached \in Nat /\ Reached <= q
    BY <1>1, Constants DEF Reached, Walking, UpToDate, IInv, TypeOK, WalkFacts
  <2>2. UpToDate' =>
          \A i \in Seed : i < Reached' /\ db'[i].subdomain_id = sd_id' => taken'[i] # "no"
    BY <1>1, <1>3, <2>1, Constants DEF IInv, WalkFacts
  <2>3. \A i \in Seed : global_seed_flag'[i] = 1 => taken'[i] # "no" /\ i < queued_items'
    BY <1>1, Constants DEF IInv, WalkFacts
  <2>4. global_id' <= queued_items' /\ sync_cursor' <= queued_items'
    BY <1>1, Constants DEF IInv, WalkFacts, TypeOK
  <2>5. wpc' \in {"update", "clear"} => if_new_subdomain' = 1
    BY <1>1 DEF IInv, WalkFacts
  <2> QED
    BY <2>2, <2>3, <2>4, <2>5 DEF WalkFacts
<1>7. InitialFacts'
  <2>1. \A i \in Seed : i < initial => i # q
    BY <1>1, Constants DEF IInv, TypeOK
  <2>2. \A i \in Seed : i < initial => not_sync'[i] = TRUE /\ db'[i] = db[i]
    BY <1>1, <1>3, <2>1 DEF IInv, TypeOK, InitialFacts
  <2>3. (Before <=> Before') /\ \A i \in Seed : Hidden(i)' <=> Hidden(i)
    BY <1>1 DEF Before, Hidden
  <2> QED
    BY <1>1, <2>2, <2>3 DEF IInv, InitialFacts, Hidden
<1> QED
  BY <1>4, <1>5, <1>6, <1>7 DEF IInv

(* A division begins: until its labels are published nobody is up to date. *)
LEMMA DivideKeeps ==
  ASSUME IInv, NEW n \in 1 .. MaxSeeds, NEW clusters \in [0 .. n - 1 -> Label],
         Divide(n, clusters)
  PROVE  IInv'
<1>1. /\ mpc' = "label" /\ n <= queued_items /\ seed_num' = n /\ label_pos' = 0
      /\ division' = division + 1 /\ division' \in 0 .. MaxDivisions /\ division \in Nat
      /\ mpc = "run"
      /\ left_out' = IF division = 0 THEN n < initial /\ queued_items = initial ELSE left_out
      /\ UNCHANGED <<queued_items, not_sync, db, initial, new_id, if_new_subdomain, wpc, sd_id,
                     sync_cursor, global_id, global_seed_flag, taken>>
  BY SeedSyncAssumption DEF Divide, IInv, TypeOK, keyVars, workerVars
<1>2. subdomain_id' \in [Seed -> Label \union {0}]
  <2>1. subdomain_id' = [i \in Seed |-> IF i < n THEN clusters[i] ELSE subdomain_id[i]]
    BY DEF Divide
  <2>2. \A i \in Seed : i < n => i \in 0 .. n - 1
    BY Constants
  <2> QED
    BY <2>1, <2>2 DEF IInv, TypeOK
<1>3. TypeOK'
  <2>1. left_out' \in BOOLEAN
    BY <1>1 DEF IInv, TypeOK
  <2>2. seed_num' \in 0 .. MaxSeeds /\ label_pos' \in 0 .. MaxSeeds
    BY <1>1, SeedSyncAssumption
  <2> QED
    BY <1>1, <1>2, <2>1, <2>2 DEF IInv, TypeOK
<1>4. MasterFacts'
  BY <1>1 DEF IInv, TypeOK, MasterFacts
<1>5. WalkFacts'
  BY <1>1 DEF IInv, WalkFacts, UpToDate
<1>6. InitialFacts'
  <2>1. Before' <=> Before
    BY <1>1 DEF Before
  <2>2. CASE division = 0
    <3>1. Before /\ Before' /\ ~ left_out
      BY <2>1, <2>2 DEF Before, IInv, InitialFacts
    <3>2. ~ left_out' => initial' <= TotalSeedNum'
      <4>1. n \in Nat /\ queued_items \in Nat /\ initial \in Nat /\ initial <= queued_items
        BY SeedSyncAssumption DEF IInv, TypeOK
      <4>2. TotalSeedNum' = IF n > queued_items - 1 THEN n ELSE queued_items - 1
        BY <1>1 DEF TotalSeedNum
      <4>3. ~ left_out' => ~ (n < initial /\ queued_items = initial)
        BY <1>1, <2>2, Zenon
      <4> QED
        BY <1>1, <4>1, <4>2, <4>3
    <3>3. \A i \in Seed : ~ (i < label_pos')
      BY <1>1, Constants
    <3>4. \A i \in Seed : Hidden(i)' => taken'[i] = "no"
      BY <1>1, <3>1 DEF Hidden, IInv, InitialFacts
    <3>5. division' # 0
      BY <1>1
    <3> QED
      BY <1>1, <3>1, <3>2, <3>3, <3>4, <3>5 DEF IInv, InitialFacts
  <2>3. CASE division # 0
    <3>1. ~ Before /\ ~ Before' /\ left_out' = left_out
      BY <1>1, <2>1, <2>3 DEF Before
    <3>2. \A i \in Seed : Hidden(i)' <=> Hidden(i)
      BY <1>1, <3>1 DEF Hidden
    <3> QED
      BY <1>1, <3>1, <3>2 DEF IInv, InitialFacts
  <2> QED
    BY <2>2, <2>3
<1> QED
  BY <1>3, <1>4, <1>5, <1>6 DEF IInv

(* One label is stored, of a seed that exists.                             *)
LEMMA StoreLabelKeeps ==
  ASSUME IInv, StoreLabel
  PROVE  IInv'
<1> DEFINE p == label_pos
           label == LabelFor(p)
<1>1. /\ mpc = "label" /\ mpc' = "label" /\ p < TotalSeedNum /\ label_pos' = p + 1
      /\ UNCHANGED <<queued_items, division, seed_num, not_sync, initial, left_out, new_id,
                     if_new_subdomain, wpc, sd_id, sync_cursor, global_id, global_seed_flag,
                     taken>>
  BY DEF StoreLabel, keyVars, workerVars
<1>2. p \in Nat /\ p < queued_items /\ queued_items \in Nat /\ queued_items <= MaxSeeds /\ p \in Seed
  BY <1>1, SeedSyncAssumption DEF TotalSeedNum, IInv, TypeOK, MasterFacts, Seed
<1>3. label \in Label \union {0} /\ (p < initial => label = UINT32_MAX)
  BY <1>2 DEF LabelFor, IInv, TypeOK, InitialFacts, Label
<1>4. subdomain_id' \in [Seed -> Label \union {0}]
  <2>1. subdomain_id' = [subdomain_id EXCEPT ![p] = label]
    BY DEF StoreLabel
  <2> HIDE DEF label
  <2> QED
    BY <1>3, <2>1 DEF IInv, TypeOK
<1>5. db[p] \in Record /\ db[p] # Missing /\ db \in [Seed -> Record]
  BY <1>2, Constants DEF IInv, TypeOK, MasterFacts
<1>6. /\ db' \in [Seed -> Record] /\ db'[p].subdomain_id = label
      /\ \A i \in Seed : i # p => db'[i] = db[i]
  <2>1. db' = [db EXCEPT ![p].subdomain_id = label,
                         ![p].was_fuzzed = IF db[p] = Missing THEN 0 ELSE @]
    BY DEF StoreLabel, update_seed_subdomain_to_db
  <2> HIDE DEF label
  <2> QED
    BY <1>2, <1>3, <1>5, <2>1 DEF Record
<1> HIDE DEF label
<1>7. TypeOK'
  <2>1. db'[p] # Missing
    BY <1>3, <1>6, Constants
  <2>2. \A i \in Seed : (db[i] = Missing <=> i >= queued_items)
    BY DEF IInv, TypeOK
  <2>3. \A i \in Seed : (db'[i] = Missing <=> i >= queued_items')
    BY <1>1, <1>2, <1>6, <2>1, <2>2, Constants
  <2>4. label_pos' \in 0 .. MaxSeeds
    BY <1>1, <1>2, SeedSyncAssumption
  <2> QED
    BY <1>1, <1>4, <2>3, <2>4 DEF IInv, TypeOK
<1>8. MasterFacts' /\ WalkFacts'
  BY <1>1, <1>6 DEF IInv, MasterFacts, WalkFacts, UpToDate
<1>9. InitialFacts'
  <2>1. (Before' <=> Before) /\ TotalSeedNum' = TotalSeedNum
    BY <1>1 DEF Before, TotalSeedNum
  <2>2. \A i \in Seed : Hidden(i)' <=> Hidden(i)
    BY <1>1 DEF Hidden
  <2>3. ASSUME NEW i \in Seed, Hidden(i), ~ Before \/ i < label_pos'
        PROVE  db'[i].subdomain_id = UINT32_MAX
    <3>1. CASE i = p
      BY <1>3, <1>6, <2>3, <3>1 DEF Hidden
    <3>2. CASE i # p
      <4>1. ~ Before \/ i < label_pos
        BY <1>1, <1>2, <2>3, <3>2, Constants
      <4> QED
        BY <1>1, <1>6, <2>3, <3>2, <4>1 DEF IInv, InitialFacts
    <3> QED
      BY <3>1, <3>2
  <2> QED
    BY <1>1, <2>1, <2>2, <2>3 DEF IInv, InitialFacts
<1> QED
  BY <1>7, <1>8, <1>9 DEF IInv

(* A publication comes after the label of the initial seeds is rewritten.  *)
LEMMA PublishKeeps ==
  ASSUME IInv, NEW k \in Ids, save_one_subdomain_to_db(k)
  PROVE  IInv'
<1>1. /\ mpc = "label" /\ mpc' = "run" /\ new_id' = k /\ if_new_subdomain' = 1
      /\ label_pos = TotalSeedNum
      /\ UNCHANGED <<queued_items, division, seed_num, label_pos, subdomain_id, not_sync,
                     initial, left_out, db, wpc, sd_id, sync_cursor, global_id,
                     global_seed_flag, taken>>
  BY DEF save_one_subdomain_to_db, Published, workerVars
<1>2. TypeOK'
  BY <1>1 DEF IInv, TypeOK, Label
<1>3. MasterFacts'
  BY <1>1 DEF IInv, MasterFacts
<1>4. WalkFacts'
  BY <1>1 DEF IInv, WalkFacts, UpToDate
<1>5. InitialFacts'
  <2>1. ~ Before'
    BY <1>1 DEF Before, IInv, MasterFacts
  <2>2. ASSUME NEW i \in Seed, Hidden(i)
        PROVE  taken[i] = "no" /\ db[i].subdomain_id = UINT32_MAX
    <3>1. CASE ~ Before
      BY <2>2, <3>1 DEF IInv, InitialFacts
    <3>2. CASE Before
      <4>1. i < label_pos
        <5>1. CASE left_out
          BY <1>1, <2>2, <5>1, Constants DEF Hidden, TotalSeedNum, IInv, TypeOK
        <5>2. CASE ~ left_out
          <6>1. initial <= label_pos
            BY <1>1, <3>2, <5>2 DEF IInv, InitialFacts
          <6> QED
            BY <2>2, <6>1, Constants DEF Hidden, IInv, TypeOK
        <5> QED
          BY <5>1, <5>2
      <4> QED
        BY <1>1, <2>2, <4>1 DEF IInv, InitialFacts
    <3> QED
      BY <3>1, <3>2
  <2>3. \A i \in Seed : Hidden(i)' <=> Hidden(i)
    BY <1>1 DEF Hidden
  <2> QED
    BY <1>1, <2>1, <2>2, <2>3 DEF IInv, InitialFacts
<1> QED
  BY <1>2, <1>3, <1>4, <1>5 DEF IInv

(* What the worker's own steps leave alone.                                *)
WorkerFrame ==
  UNCHANGED <<mpc, queued_items, division, seed_num, label_pos, subdomain_id, not_sync, initial,
              left_out, db, new_id>>

(* The worker's own steps do not touch the labels.                         *)
LEMMA LabelsStay ==
  ASSUME IInv, WorkerFrame, ~ Before => if_new_subdomain' \in 0 .. 1,
         Before => UNCHANGED <<if_new_subdomain, sd_id>> /\ wpc' \in {"poll", "periodic"},
         wpc' \in {"clear", "sync", "resync"} => sd_id' \in Ids,
         \A i \in Seed : Hidden(i) => taken'[i] = "no"
  PROVE  InitialFacts'
<1>1. (Before' <=> Before) /\ TotalSeedNum' = TotalSeedNum
  BY DEF WorkerFrame, Before, TotalSeedNum
<1>2. \A i \in Seed : Hidden(i)' <=> Hidden(i)
  BY DEF WorkerFrame, Hidden
<1> QED
  BY <1>1, <1>2 DEF WorkerFrame, IInv, InitialFacts

(* A new subdomain is adopted, and the walk restarts.                      *)
LEMMA AdoptKeeps ==
  ASSUME IInv, CheckUpdate \/ update_subdomain \/ change_subdomain_state
  PROVE  IInv'
<1>1. /\ WorkerFrame /\ UNCHANGED <<global_seed_flag, taken>> /\ if_new_subdomain = 1
      /\ \/ /\ wpc' = "update"
            /\ UNCHANGED <<if_new_subdomain, sd_id, sync_cursor, global_id>>
         \/ /\ wpc' = "clear" /\ sd_id' = new_id
            /\ UNCHANGED <<if_new_subdomain, sync_cursor, global_id>>
         \/ /\ wpc = "clear" /\ wpc' = "sync" /\ if_new_subdomain' = 0
            /\ sync_cursor' = 0 /\ global_id' = 0 /\ UNCHANGED sd_id
  BY DEF CheckUpdate, update_subdomain, change_subdomain_state, masterVars, keyVars,
     WorkerFrame, IInv, WalkFacts
<1>2. TypeOK' /\ MasterFacts'
  BY <1>1, Constants DEF WorkerFrame, IInv, TypeOK, MasterFacts
<1>3. WalkFacts'
  BY <1>1, Constants DEF WorkerFrame, IInv, WalkFacts, TypeOK, UpToDate, Reached, Walking
<1>4. InitialFacts'
  <2>1. ~ Before /\ new_id \in Ids
    BY <1>1 DEF IInv, InitialFacts
  <2>2. wpc' \in {"clear", "sync", "resync"} => sd_id' \in Ids
    BY <1>1, <2>1 DEF IInv, InitialFacts
  <2>3. if_new_subdomain' \in 0 .. 1 /\ \A i \in Seed : Hidden(i) => taken'[i] = "no"
    BY <1>1 DEF IInv, InitialFacts
  <2> QED
    BY <1>1, <2>1, <2>2, <2>3, LabelsStay
<1> QED
  BY <1>2, <1>3, <1>4 DEF IInv

(* Between two walks nothing but the position of the loop changes.         *)
LEMMA LoopKeeps ==
  ASSUME IInv, NoUpdate \/ SkipSync \/ StartSync
  PROVE  IInv'
<1>1. /\ WorkerFrame
      /\ UNCHANGED <<if_new_subdomain, sd_id, sync_cursor, global_seed_flag, taken>>
      /\ wpc \in {"poll", "periodic"}
      /\ \/ wpc' \in {"poll", "periodic"} /\ UNCHANGED global_id
         \/ wpc' = "resync" /\ global_id' = sync_cursor /\ sd_id # UINT32_MAX
  BY DEF NoUpdate, SkipSync, StartSync, masterVars, keyVars, WorkerFrame
<1>2. TypeOK' /\ MasterFacts'
  BY <1>1 DEF WorkerFrame, IInv, TypeOK, MasterFacts
<1>3. WalkFacts'
  <2>1. Reached' = Reached /\ UpToDate' = UpToDate
    BY <1>1 DEF WorkerFrame, Reached, Walking, UpToDate
  <2> QED
    BY <1>1, <2>1 DEF WorkerFrame, IInv, WalkFacts
<1>4. InitialFacts'
  <2>1. Before => wpc' \in {"poll", "periodic"}
    BY <1>1 DEF IInv, InitialFacts
  <2>2. wpc' \in {"clear", "sync", "resync"} => sd_id' \in Ids
    BY <1>1 DEF IInv, TypeOK, Label
  <2>3. if_new_subdomain' \in 0 .. 1 /\ \A i \in Seed : Hidden(i) => taken'[i] = "no"
    BY <1>1 DEF IInv, TypeOK, InitialFacts
  <2> QED
    BY <1>1, <2>1, <2>2, <2>3, LabelsStay
<1> QED
  BY <1>2, <1>3, <1>4 DEF IInv

(* What both steps of a walk leave alone.                                  *)
WalkFrame ==
  WorkerFrame /\ UNCHANGED <<if_new_subdomain, wpc, sd_id, sync_cursor>>

(* The walk passes a seed it has, or one of another subdomain.             *)
LEMMA SkipSeedKeeps ==
  ASSUME IInv, SkipSeed
  PROVE  IInv'
<1> DEFINE g == global_id
<1>1. /\ WalkFrame /\ UNCHANGED <<global_seed_flag, taken>> /\ global_id' = g + 1 /\ Walking
      /\ \/ global_seed_flag[g] = 1
         \/ db[g] # Missing /\ db[g].subdomain_id # sd_id
  BY DEF SkipSeed, masterVars, keyVars, WalkFrame, WorkerFrame
<1>2. g \in Nat /\ g \in Seed /\ g < queued_items /\ queued_items \in Nat
      /\ queued_items <= MaxSeeds
  <2>1. g \in Seed /\ queued_items \in 1 .. MaxSeeds /\ (db[g] = Missing <=> g >= queued_items)
    BY DEF IInv, TypeOK
  <2>2. g \in Nat /\ queued_items \in Nat /\ queued_items <= MaxSeeds
    BY <2>1, Constants, SeedSyncAssumption
  <2>3. CASE global_seed_flag[g] = 1
    BY <2>1, <2>2, <2>3 DEF IInv, WalkFacts
  <2>4. CASE db[g] # Missing
    BY <2>1, <2>2, <2>4
  <2> QED
    BY <1>1, <2>3, <2>4
<1>3. TypeOK' /\ MasterFacts'
  <2>1. global_id' \in Seed
    BY <1>1, <1>2, SeedSyncAssumption DEF Seed
  <2> QED
    BY <1>1, <2>1 DEF WalkFrame, WorkerFrame, IInv, TypeOK, MasterFacts
<1>4. WalkFacts'
  <2>1. Walking' /\ UpToDate' = UpToDate /\ Reached = g /\ Reached' = g + 1
    BY <1>1 DEF WalkFrame, WorkerFrame, Walking, UpToDate, Reached
  <2>2. ASSUME UpToDate, NEW i \in Seed, i < g + 1, db[i].subdomain_id = sd_id
        PROVE  taken[i] # "no"
    <3>1. CASE i < g
      BY <2>1, <2>2, <3>1 DEF IInv, WalkFacts
    <3>2. CASE i = g
      BY <1>1, <2>2, <3>2 DEF IInv, WalkFacts
    <3> QED
      BY <1>2, <2>2, <3>1, <3>2, Constants
  <2>3. global_id' <= queued_items'
    BY <1>1, <1>2 DEF WalkFrame, WorkerFrame
  <2> QED
    BY <1>1, <2>1, <2>2, <2>3 DEF WalkFrame, WorkerFrame, IInv, WalkFacts
<1>5. InitialFacts'
  <2>1. ~ Before /\ sd_id \in Ids
    BY <1>1 DEF IInv, InitialFacts, Walking
  <2>2. if_new_subdomain' \in 0 .. 1 /\ \A i \in Seed : Hidden(i) => taken'[i] = "no"
    BY <1>1 DEF WalkFrame, IInv, TypeOK, InitialFacts
  <2> QED
    BY <1>1, <2>1, <2>2, LabelsStay DEF WalkFrame
<1> QED
  BY <1>3, <1>4, <1>5 DEF IInv

(* The walk takes a seed, none whose label a division has taken away.      *)
LEMMA TakeSeedKeeps ==
  ASSUME IInv, TakeSeed
  PROVE  IInv'
<1> DEFINE g == global_id
<1>1. /\ WalkFrame /\ global_id' = g + 1 /\ Walking /\ db[g].subdomain_id = sd_id
      /\ global_seed_flag' = [global_seed_flag EXCEPT ![g] = 1]
      /\ \E how \in {"known", "fuzzed", "pending"} : taken' = [taken EXCEPT ![g] = how]
  BY DEF TakeSeed, masterVars, keyVars, WalkFrame, WorkerFrame
<1>2. /\ g \in Nat /\ g \in Seed /\ queued_items \in Nat /\ queued_items <= MaxSeeds
      /\ sd_id \in Ids
  BY <1>1, Constants DEF IInv, TypeOK, InitialFacts, Walking
<1>3. g < queued_items /\ ~ Before /\ ~ Hidden(g)
  <2>1. g < queued_items
    BY <1>1, <1>2, LabelledExists DEF IInv, Label
  <2>2. ~ Before
    BY <1>1 DEF IInv, InitialFacts, Walking
  <2>3. ~ Hidden(g)
    BY <1>1, <1>2, <2>2, Constants DEF IInv, InitialFacts
  <2> QED
    BY <2>1, <2>2, <2>3
<1>4. /\ global_seed_flag' \in [Seed -> 0 .. 1]
      /\ taken' \in [Seed -> {"no", "known", "pending", "fuzzed"}]
      /\ taken'[g] # "no" /\ \A i \in Seed : i # g => taken'[i] = taken[i]
      /\ \A i \in Seed : i # g => global_seed_flag'[i] = global_seed_flag[i]
  BY <1>1, <1>2 DEF IInv, TypeOK
<1>5. TypeOK' /\ MasterFacts'
  <2>1. global_id' \in Seed
    BY <1>1, <1>2, <1>3, SeedSyncAssumption DEF Seed
  <2> QED
    BY <1>1, <1>4, <2>1 DEF WalkFrame, WorkerFrame, IInv, TypeOK, MasterFacts
<1>6. WalkFacts'
  <2>1. Walking' /\ UpToDate' = UpToDate /\ Reached = g /\ Reached' = g + 1
    BY <1>1 DEF WalkFrame, WorkerFrame, Walking, UpToDate, Reached
  <2>2. ASSUME UpToDate, NEW i \in Seed, i < g + 1, db[i].subdomain_id = sd_id
        PROVE  taken'[i] # "no"
    <3>1. CASE i < g
      BY <1>2, <1>4, <2>1, <2>2, <3>1 DEF IInv, WalkFacts
    <3>2. CASE i = g
      BY <1>4, <3>2
    <3> QED
      BY <1>2, <2>2, <3>1, <3>2, Constants
  <2>3. global_id' <= queued_items'
    BY <1>1, <1>2, <1>3 DEF WalkFrame, WorkerFrame
  <2>4. \A i \in Seed : global_seed_flag'[i] = 1 => taken'[i] # "no" /\ i < queued_items'
    BY <1>1, <1>3, <1>4 DEF WalkFrame, WorkerFrame, IInv, WalkFacts
  <2> QED
    BY <1>1, <2>1, <2>2, <2>3, <2>4 DEF WalkFrame, WorkerFrame, IInv, WalkFacts
<1>7. InitialFacts'
  <2>1. if_new_subdomain' \in 0 .. 1 /\ sd_id' \in Ids
    BY <1>1, <1>2 DEF WalkFrame, IInv, TypeOK
  <2>2. \A i \in Seed : Hidden(i) => taken'[i] = "no"
    BY <1>3, <1>4 DEF IInv, InitialFacts
  <2> QED
    BY <1>1, <1>3, <2>1, <2>2, LabelsStay DEF WalkFrame
<1> QED
  BY <1>5, <1>6, <1>7 DEF IInv

(* A walk ends where the keys end.                                         *)
LEMMA EndSyncKeeps ==
  ASSUME IInv, EndSync
  PROVE  IInv'
<1>1. /\ wpc' \in {"periodic", "poll"} /\ sync_cursor' = global_id /\ Walking /\ WorkerFrame
      /\ UNCHANGED <<if_new_subdomain, sd_id, global_id, global_seed_flag, taken>>
  BY DEF EndSync, masterVars, keyVars, NextCursor, WorkerFrame
<1>2. TypeOK' /\ MasterFacts'
  BY <1>1 DEF WorkerFrame, IInv, TypeOK, MasterFacts
<1>3. WalkFacts'
  <2>1. Reached' = Reached /\ UpToDate' = UpToDate
    BY <1>1 DEF WorkerFrame, Reached, Walking, UpToDate
  <2> QED
    BY <1>1, <2>1 DEF WorkerFrame, IInv, WalkFacts
<1>4. InitialFacts'
  <2>1. if_new_subdomain' \in 0 .. 1 /\ \A i \in Seed : Hidden(i) => taken'[i] = "no"
    BY <1>1 DEF IInv, TypeOK, InitialFacts
  <2> QED
    BY <1>1, <2>1, LabelsStay
<1> QED
  BY <1>2, <1>3, <1>4 DEF IInv

(* The invariant holds at the start.                                       *)
LEMMA InitHolds == Init => IInv
<1> SUFFICES ASSUME Init PROVE IInv
  OBVIOUS
<1> USE DEF Init
<1>1. /\ db \in [Seed -> Record] /\ \A i \in Seed : (db[i] = Missing <=> i >= queued_items)
  <2>1. \A i \in Seed : [subdomain_id |-> 0, was_fuzzed |-> StoredWasFuzzed(i)] \in Record
    BY Constants DEF Record, StoredWasFuzzed
  <2>2. \A i \in Seed : [subdomain_id |-> 0, was_fuzzed |-> StoredWasFuzzed(i)] # Missing
    BY DEF Missing
  <2>3. \A i \in Seed : i < initial <=> ~ (i >= initial)
    BY Constants, SeedSyncAssumption
  <2> QED
    BY <2>1, <2>2, <2>3, Constants
<1>2. TypeOK
  <2>1. /\ queued_items \in 1 .. MaxSeeds /\ division \in 0 .. MaxDivisions
        /\ seed_num \in 0 .. MaxSeeds /\ label_pos \in 0 .. MaxSeeds
        /\ initial \in 1 .. queued_items /\ if_new_subdomain \in 0 .. 1
    BY SeedSyncAssumption
  <2>2. subdomain_id \in [Seed -> Label \union {0}] /\ not_sync \in [Seed -> BOOLEAN]
    OBVIOUS
  <2>3. new_id \in Label /\ sd_id \in Label /\ sync_cursor \in Seed /\ global_id \in Seed
    BY Constants DEF Label
  <2>4. global_seed_flag \in [Seed -> 0 .. 1]
    OBVIOUS
  <2> QED
    BY <1>1, <2>1, <2>2, <2>3, <2>4 DEF TypeOK
<1>3. MasterFacts /\ WalkFacts
  <2>1. MasterFacts
    BY <1>1, SeedSyncAssumption DEF MasterFacts
  <2>2. Reached = 0 /\ \A i \in Seed : ~ (i < 0)
    BY Constants DEF Reached, Walking
  <2>3. global_id <= queued_items /\ sync_cursor <= queued_items
    BY SeedSyncAssumption
  <2>4. \A i \in Seed : global_seed_flag[i] # 1
    OBVIOUS
  <2> QED
    BY <2>1, <2>2, <2>3, <2>4 DEF WalkFacts
<1>4. InitialFacts
  <2>1. \A i \in Seed : i < initial => not_sync[i] = TRUE
    <3>1. not_sync = [i \in Seed |-> i < initial]
      OBVIOUS
    <3> HIDE DEF Init
    <3> QED
      BY <3>1
  <2>2. \A i \in Seed : taken[i] = "no"
    OBVIOUS
  <2>3. /\ Before /\ wpc = "poll" /\ if_new_subdomain = 0 /\ sd_id = UINT32_MAX
        /\ mpc = "run" /\ ~ left_out
    BY DEF Before
  <2> HIDE DEF Init
  <2> QED
    BY <2>1, <2>2, <2>3 DEF InitialFacts
<1> QED
  BY <1>2, <1>3, <1>4 DEF IInv

(* The invariant always holds.                                             *)
LEMMA Inductive == Spec => []IInv
<1>1. ASSUME IInv, [Next]_vars PROVE IInv'
  <2>1. CASE UNCHANGED vars
    <3> USE <1>1, <2>1 DEF IInv, vars, masterVars, keyVars, workerVars
    <3>1. TypeOK' /\ MasterFacts'
      BY DEF TypeOK, MasterFacts
    <3>2. WalkFacts' /\ InitialFacts'
      BY DEF WalkFacts, InitialFacts, UpToDate, Reached, Walking, Before, Hidden,
         TotalSeedNum
    <3> QED
      BY <3>1, <3>2
  <2>2. CASE Master
    BY <1>1, <2>2, AddSeedKeeps, DivideKeeps, StoreLabelKeeps, PublishKeeps DEF Master
  <2>3. CASE Worker
    BY <1>1, <2>3, AdoptKeeps, LoopKeeps, SkipSeedKeeps, EndSyncKeeps, TakeSeedKeeps DEF Worker
  <2> QED
    BY <1>1, <2>1, <2>2, <2>3 DEF Next
<1> QED
  BY <1>1, InitHolds, PTL DEF Spec

-----------------------------------------------------------------------------
(* Every variable keeps its type; in particular the seeds that exist in    *)
(* the database are those of the queue, and the walk never leaves them.    *)
THEOREM TypesAreKept == Spec => []TypeOK
<1>1. IInv => TypeOK
  BY DEF IInv
<1> QED
  BY <1>1, Inductive, PTL

(* The cursor of sync_subdomain_seeds_from_db leaves no seed of the        *)
(* worker's subdomain behind, however master and worker interleave.        *)
THEOREM CursorMissesNothing == Spec => []NothingMissed
<1>1. IInv => NothingMissed
  BY DEF IInv, WalkFacts, NothingMissed, UpToDate, Reached
<1> QED
  BY <1>1, Inductive, PTL

(* No worker takes an initial seed, although it is stored with the label   *)
(* of a subdomain at first: only the newest can be taken, and only when    *)
(* the first division left it out.                                         *)
THEOREM InitialSeedsAreNotTaken == Spec => []InitialSeedsStayHome
<1>1. IInv => InitialSeedsStayHome
  BY DEF IInv, InitialFacts, InitialSeedsStayHome, Hidden
<1> QED
  BY <1>1, Inductive, PTL
=============================================================================
