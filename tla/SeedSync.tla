----------------------------- MODULE SeedSync -----------------------------
(***************************************************************************)
(* How the master's seeds reach a worker.  The master stores every seed of *)
(* its queue under seed_<id> with the subdomain it belongs to, and rewrites*)
(* the labels of all seeds one by one in every division.  The worker walks *)
(* the ids from sync_cursor to the first missing key, takes the seeds with *)
(* the id of its own subdomain, and remembers them in global_seed_flag.    *)
(* Master and worker interleave per Redis command.  SubdomainProtocol has  *)
(* the publication to several workers in detail; here it is one HSET, to   *)
(* the key of the one worker.                                              *)
(***************************************************************************)
EXTENDS Integers

CONSTANTS
  MaxSeeds,      \* bound: seeds in the master's queue
  MaxDivisions,  \* bound: divisions in a behaviour
  Ids            \* subdomain ids

ASSUME SeedSyncAssumption ==
  /\ MaxSeeds \in Nat \ {0} /\ MaxDivisions \in Nat
  /\ Ids \subseteq Nat

UINT32_MAX == -1   \* no subdomain; stands for 4294967295
Label      == Ids \union {UINT32_MAX}
Seed       == 0 .. MaxSeeds   \* the last id is never used
Missing    == [subdomain_id |-> -2, was_fuzzed |-> 0]   \* the key does not exist

VARIABLES
  mpc, queued_items, division,
  seed_num, label_pos,        \* the master in a division
  subdomain_id, not_sync,     \* fields of the master's seeds
  db,                         \* seed_<id>
  new_id, if_new_subdomain,   \* the worker's key: published id, flag
  wpc, sd_id,    \* the worker
  sync_cursor, global_id, global_seed_flag,
  taken,                      \* what the worker has synchronised, and how
  initial,                    \* the number of initial seeds
  left_out                    \* history: the first division relabelled all of them but the newest

masterVars == <<mpc, queued_items, division, seed_num, label_pos, subdomain_id, not_sync,
                initial, left_out>>
keyVars    == <<new_id, if_new_subdomain>>
workerVars == <<wpc, sd_id, sync_cursor, global_id, global_seed_flag,
                taken>>
vars       == <<masterVars, db, keyVars, workerVars>>

-----------------------------------------------------------------------------
(* The database fields.                                                    *)

(* The value was_fuzzed is written with: the arguments of the HSET are one *)
(* position off from there on, so it is the id.                            *)
StoredWasFuzzed(i) == i

(* A field is read as a flag by looking at its first digit.                *)
FlagOf(value) == IF \E k \in 0 .. 9 : value \div 10^k = 1 THEN 1 ELSE 0

save_one_seed_to_db(i, label) ==
  db' = [db EXCEPT ![i] = [subdomain_id |-> label, was_fuzzed |-> StoredWasFuzzed(i)]]

update_seed_subdomain_to_db(i, label) ==
  db' = [db EXCEPT ![i].subdomain_id = label,
                   ![i].was_fuzzed = IF db[i] = Missing THEN 0 ELSE @]

(* The initial seeds are marked by read_testcases and stored by            *)
(* perform_dry_run, with label 0.                                          *)
Init ==
  /\ initial \in 1 .. MaxSeeds /\ left_out = FALSE
  /\ mpc = "run" /\ queued_items = initial /\ division = 0 /\ seed_num = 0 /\ label_pos = 0
  /\ subdomain_id = [i \in Seed |-> 0]
  /\ not_sync = [i \in Seed |-> i < initial]
  /\ db = [i \in Seed |->
             IF i < initial THEN [subdomain_id |-> 0, was_fuzzed |-> StoredWasFuzzed(i)]
             ELSE Missing]
  /\ new_id = UINT32_MAX /\ if_new_subdomain = 0
  /\ wpc = "poll" /\ sd_id = UINT32_MAX
  /\ sync_cursor = 0 /\ global_id = 0
  /\ global_seed_flag = [i \in Seed |-> 0]
  /\ taken = [i \in Seed |-> "no"]

-----------------------------------------------------------------------------
(* The master.                                                             *)

(* save_if_interesting on the main node: a seed it found or imported from  *)
(* a worker joins the queue, labelled with the nearest subdomain.          *)
AddSeed(label, imported) ==
  /\ mpc = "run" /\ queued_items < MaxSeeds
  /\ label = UINT32_MAX <=> division = 0
  /\ subdomain_id' = [subdomain_id EXCEPT ![queued_items] = label]
  /\ not_sync' = [not_sync EXCEPT ![queued_items] = imported]
  /\ save_one_seed_to_db(queued_items, label)
  /\ queued_items' = queued_items + 1
  /\ UNCHANGED <<mpc, division, seed_num, label_pos, initial, left_out, keyVars, workerVars>>

(* The labels that a division rewrites; the newest seed may be being added.*)
TotalSeedNum == IF seed_num > queued_items - 1 THEN seed_num ELSE queued_items - 1

(* The clustering of the first n seeds, those that have their distances; a *)
(* disabled seed gets no subdomain.                                        *)
Divide(n, clusters) ==
  /\ mpc = "run" /\ mpc' = "label" /\ division < MaxDivisions
  /\ n \in 1 .. queued_items /\ n >= seed_num
  /\ subdomain_id' = [i \in Seed |-> IF i < n THEN clusters[i] ELSE subdomain_id[i]]
  /\ seed_num' = n /\ label_pos' = 0 /\ division' = division + 1
  /\ left_out' = IF division = 0 THEN n < initial /\ queued_items = initial ELSE left_out
  /\ UNCHANGED <<queued_items, not_sync, db, initial, keyVars, workerVars>>

(* One seed of the loop that stores the labels.                            *)
LabelFor(i) ==
  IF i < seed_num /\ ~ not_sync[i] THEN subdomain_id[i] ELSE UINT32_MAX

StoreLabel ==
  /\ mpc = "label" /\ label_pos < TotalSeedNum
  /\ subdomain_id' = [subdomain_id EXCEPT ![label_pos] = LabelFor(label_pos)]
  /\ update_seed_subdomain_to_db(label_pos, LabelFor(label_pos))
  /\ label_pos' = label_pos + 1
  /\ UNCHANGED <<mpc, queued_items, division, seed_num, not_sync, initial, left_out, keyVars,
                 workerVars>>

(* The labels are complete before the subdomain is published.              *)
MutantPublished == label_pos = 0
Published == label_pos = TotalSeedNum

save_one_subdomain_to_db(k) ==
  /\ mpc = "label" /\ Published
  /\ mpc' = "run" /\ new_id' = k /\ if_new_subdomain' = 1
  /\ UNCHANGED <<queued_items, division, seed_num, label_pos, subdomain_id, not_sync,
                 initial, left_out, db, workerVars>>

Master ==
  \/ \E label \in Label, imported \in BOOLEAN : AddSeed(label, imported)
  \/ \E n \in 1 .. MaxSeeds : \E clusters \in [0 .. n - 1 -> Label] : Divide(n, clusters)
  \/ StoreLabel
  \/ \E k \in Ids : save_one_subdomain_to_db(k)

-----------------------------------------------------------------------------
(* The worker.                                                             *)

(* if_need_update_subdomain finds the flag set.                            *)
CheckUpdate ==
  /\ wpc = "poll" /\ if_new_subdomain = 1 /\ wpc' = "update"
  /\ UNCHANGED <<masterVars, db, keyVars, sd_id, sync_cursor, global_id,
                 global_seed_flag, taken>>

(* HGETALL: the subdomain that the key holds now.                          *)
update_subdomain ==
  /\ wpc = "update" /\ wpc' = "clear" /\ sd_id' = new_id
  /\ UNCHANGED <<masterVars, db, keyVars, sync_cursor, global_id, global_seed_flag, taken>>

(* The flag is cleared, a publication since HGETALL with it, and the walk  *)
(* starts from seed_0.                                                     *)
MutantClear ==
  /\ wpc = "clear" /\ wpc' = "sync" /\ if_new_subdomain' = 0 /\ global_id' = sync_cursor
  /\ UNCHANGED <<masterVars, db, new_id, sd_id, sync_cursor, global_seed_flag,
                 taken>>

change_subdomain_state ==
  /\ wpc = "clear" /\ wpc' = "sync" /\ if_new_subdomain' = 0
  /\ sync_cursor' = 0 /\ global_id' = 0
  /\ UNCHANGED <<masterVars, db, new_id, sd_id, global_seed_flag, taken>>

NoUpdate ==
  /\ wpc = "poll" /\ if_new_subdomain = 0 /\ wpc' = "periodic"
  /\ UNCHANGED <<masterVars, db, keyVars, sd_id, sync_cursor, global_id,
                 global_seed_flag, taken>>

(* The periodic call at the end of the loop, if its time has come and the  *)
(* worker has a center.                                                    *)
SkipSync ==
  /\ wpc = "periodic" /\ wpc' = "poll"
  /\ UNCHANGED <<masterVars, db, keyVars, sd_id, sync_cursor, global_id,
                 global_seed_flag, taken>>

MutantStartSync ==
  /\ wpc = "periodic" /\ wpc' = "resync" /\ sd_id # UINT32_MAX /\ sync_cursor = 0
  /\ global_id' = sync_cursor
  /\ UNCHANGED <<masterVars, db, keyVars, sd_id, sync_cursor,
                 global_seed_flag, taken>>

StartSync ==
  /\ wpc = "periodic" /\ wpc' = "resync" /\ sd_id # UINT32_MAX
  /\ global_id' = sync_cursor
  /\ UNCHANGED <<masterVars, db, keyVars, sd_id, sync_cursor, global_seed_flag,
                 taken>>

Walking == wpc \in {"sync", "resync"}

(* Flagged, or of another subdomain: the loop goes on.                     *)
SkipSeed ==
  /\ Walking
  /\ \/ global_seed_flag[global_id] = 1
     \/ db[global_id] # Missing /\ db[global_id].subdomain_id # sd_id
  /\ global_id' = global_id + 1
  /\ UNCHANGED <<masterVars, db, keyVars, wpc, sd_id, sync_cursor,
                 global_seed_flag, taken>>

(* The first missing key ends the walk and is where the next one starts.   *)
NextCursor == global_id

EndSync ==
  /\ Walking /\ global_seed_flag[global_id] = 0 /\ db[global_id] = Missing
  /\ wpc' = IF wpc = "sync" THEN "periodic" ELSE "poll"
  /\ sync_cursor' = NextCursor
  /\ UNCHANGED <<masterVars, db, keyVars, sd_id, global_id, global_seed_flag,
                 taken>>

(* sync_one_seed: kept with the fields of the database, if it has new      *)
(* coverage.  HGETALL follows HGET; the fields it uses never change.       *)
TakeSeed ==
  /\ Walking /\ global_seed_flag[global_id] = 0 /\ db[global_id].subdomain_id = sd_id
  /\ global_seed_flag' = [global_seed_flag EXCEPT ![global_id] = 1]
  /\ \/ taken' = [taken EXCEPT ![global_id] = "known"]
     \/ taken' = [taken EXCEPT ![global_id] =
                    IF FlagOf(db[global_id].was_fuzzed) = 1 THEN "fuzzed" ELSE "pending"]
  /\ global_id' = global_id + 1
  /\ UNCHANGED <<masterVars, db, keyVars, wpc, sd_id, sync_cursor>>

Worker ==
  \/ CheckUpdate \/ update_subdomain \/ change_subdomain_state
  \/ NoUpdate \/ SkipSync \/ StartSync \/ SkipSeed \/ EndSync \/ TakeSeed

Next == Master \/ Worker

Spec == Init /\ [][Next]_vars

(* The worker's loop goes on, the time of the periodic call comes again    *)
(* and again, and a division that was started ends.                        *)
FairSpec ==
  Spec /\ WF_vars(Worker) /\ SF_vars(StartSync)
       /\ WF_vars(StoreLabel \/ \E k \in Ids : save_one_subdomain_to_db(k))

-----------------------------------------------------------------------------
(* Correctness.                                                            *)

(* Types.                                                                  *)
TypeOK ==
  /\ mpc \in {"run", "label"} /\ wpc \in {"poll", "update", "clear", "sync", "periodic", "resync"}
  /\ initial \in 1 .. queued_items /\ left_out \in BOOLEAN
  /\ queued_items \in 1 .. MaxSeeds /\ division \in 0 .. MaxDivisions
  /\ seed_num \in 0 .. MaxSeeds /\ label_pos \in 0 .. MaxSeeds
  /\ subdomain_id \in [Seed -> Label \union {0}] /\ not_sync \in [Seed -> BOOLEAN]
  /\ \A i \in Seed : db[i] = Missing <=> i >= queued_items
  /\ new_id \in Label /\ if_new_subdomain \in 0 .. 1
  /\ sd_id \in Label
  /\ sync_cursor \in Seed /\ global_id \in Seed
  /\ global_seed_flag \in [Seed -> 0 .. 1]
  /\ taken \in [Seed -> {"no", "known", "pending", "fuzzed"}]

(* The cursor never leaves a seed behind: between two walks, a worker that *)
(* has no publication to adopt has taken every seed below sync_cursor that *)
(* carries its subdomain, also when a publication was lost to it           *)
(* (parallel.c:1479 and 1498, afl-fuzz.c:3304).                            *)
NothingMissed ==
  ~ Walking /\ mpc = "run" /\ if_new_subdomain = 0 =>
    \A i \in Seed : i < sync_cursor /\ db[i].subdomain_id = sd_id => taken[i] # "no"

(* perform_dry_run stores the initial seeds with the label of subdomain 0. *)
(* Every division rewrites the labels before it publishes, so no worker    *)
(* takes one, but for the newest when the first division found no seed     *)
(* behind it and had not measured it (parallel.c:846 and 1004-1021).       *)
InitialSeedsStayHome ==
  \A i \in Seed : i < initial /\ taken[i] # "no" => left_out /\ i = initial - 1

(* afl-fuzz-init.c:825: the initial seeds are not synchronised.            *)
InitialSeedsAreNotSynced == \A i \in Seed : i < initial => taken[i] = "no"

(* A seed that is and stays labelled with the worker's subdomain reaches   *)
(* the worker.                                                             *)
EverySeedArrives ==
  \A i \in Seed :
    <>[](sd_id # UINT32_MAX /\ db[i].subdomain_id = sd_id) => <>(taken[i] # "no")

(* parallel.c:1520 "sync seed state": the master stores a seed before it   *)
(* fuzzes it, so no synchronised seed counts as fuzzed.                    *)
SeedStateIsTheMasters == \A i \in Seed : taken[i] # "fuzzed"
=============================================================================
