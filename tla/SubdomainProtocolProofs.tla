---------------------- MODULE SubdomainProtocolProofs ----------------------
(***************************************************************************)
(* Proofs about the publication and adoption of subdomains, for every      *)
(* number of workers, divisions, handed-over seeds and restarts.           *)
(***************************************************************************)
EXTENDS SubdomainProtocol, FiniteSetTheorems, TLAPS

(* What has been published for a worker and what it works on.              *)
Held(w) == {task[w], sd[w]}

(* Subdomains are numbered by the directories visited in the division they *)
(* belong to, and none of a division exists before its first directory.    *)
Numbering ==
  /\ mpc \in {"cluster", "bind"} => division > 0
  /\ \A w \in Worker : \A x \in Held(w) :
       /\ x.division <= division
       /\ x.division = division /\ division > 0 =>
            mpc # "cluster" /\ x.id < Cardinality(visited)
  /\ \A w \in Worker : task[w].division = division /\ division > 0 => w \in visited

(* No subdomain is held by two workers, be it in the database or in use.   *)
HeldApart ==
  \A v, w \in Worker : v # w =>
    \A x \in Held(v), y \in Held(w) : x.division > 0 => x # y

(* Where the flag and the adopted subdomain may disagree.                  *)
Window ==
  /\ \A w \in Worker : wpc[w] = "clear" /\ w \notin raced => sd[w] = task[w]
  /\ \A w \in Worker :
       if_new_subdomain[w] = 0 /\ task[w] # NoTask /\ w \notin raced \union crashed
       => sd[w] = task[w] /\ wpc[w] \notin {"off", "abort"}

(* A worker on the current division that began to read its table after the *)
(* last publication: while it reads, it knows what SCAN need not return    *)
(* any more, and afterwards it knows all, until the next division starts.  *)
Settled == {"fuzz", "coop", "poll", "read", "balance", "pop"}
OnTime(w) == division > 0 /\ sd[w].division = division /\ w \notin early
Knows(w, v) == v \in DOMAIN subdomain_array[w] /\ subdomain_array[w][v] = task[v]

Reads(w) ==
  OnTime(w) =>
    /\ wpc[w] \in Settled \union {"scan"} => mpc = "idle"
    /\ wpc[w] = "scan" => \A v \in visited \ toScan[w] : Knows(w, v)
    /\ wpc[w] \in Settled => \A v \in visited : Knows(w, v)

Tables ==
  /\ mpc # "cluster" => \A v \in visited : task[v].division = division
  /\ \A w \in Worker : Reads(w)

IInv == TypeOK /\ Numbering /\ HeldApart /\ OwnTaskOrOlder /\ Window /\ Tables

WorkerStep(w) ==
  \/ WorkerLoop(w) \/ StartWorker(w) \/ CrashWorker(w)
  \/ MissingCenter(w) \/ WidenRadius(w) \/ \E v \in Worker : SendSeed(w, v)

-----------------------------------------------------------------------------
(* The identifiers of subdomains.                                          *)
LEMMA IdType ==
  /\ Cardinality(Worker) \in Nat
  /\ \A w \in Worker : 0 \in Id
  /\ \A S \in SUBSET Worker : /\ IsFiniteSet(S) /\ Cardinality(S) \in Nat
                              /\ Cardinality(S) <= Cardinality(Worker)
  /\ \A S \in SUBSET Worker, w \in Worker : w \notin S =>
       /\ Cardinality(S) \in Id
       /\ Cardinality(S \union {w}) = Cardinality(S) + 1
<1>1. Cardinality(Worker) \in Nat /\ IsFiniteSet(Worker)
  BY ProtocolAssumption, FS_CardinalityType
<1>2. ASSUME NEW S \in SUBSET Worker
      PROVE  /\ IsFiniteSet(S) /\ Cardinality(S) \in Nat
             /\ Cardinality(S) <= Cardinality(Worker)
             /\ Cardinality(S) = Cardinality(Worker) => S = Worker
  BY <1>1, FS_Subset, FS_CardinalityType
<1>3. ASSUME NEW S \in SUBSET Worker, NEW w \in Worker, w \notin S
      PROVE  Cardinality(S) \in Id /\ Cardinality(S \union {w}) = Cardinality(S) + 1
  <2>1. Cardinality(S) # Cardinality(Worker)
    BY <1>2, <1>3
  <2>2. Cardinality(S) \in Id
    BY <1>1, <1>2, <2>1 DEF Id
  <2>3. IsFiniteSet(S)
    BY <1>2
  <2> QED
    BY <1>3, <2>2, <2>3, FS_AddElement
<1>4. ASSUME NEW w \in Worker
      PROVE  0 \in Id
  <2>1. Cardinality({}) = 0
    BY FS_EmptySet
  <2>2. {} \in SUBSET Worker /\ w \notin {}
    OBVIOUS
  <2> QED
    BY <1>3, <2>1, <2>2
<1> QED
  BY <1>1, <1>2, <1>3, <1>4

(* What is known of the parts of a subdomain.                              *)
LEMMA TaskParts ==
  ASSUME NEW x \in Task \union {NoTask}
  PROVE  /\ x.division \in Nat /\ x.id \in Nat
         /\ x # NoTask <=> x.division > 0
         /\ x # NoTask => x \in Task /\ x.id \in Id
         /\ \A w \in Worker : x.id \in Id
<1>1. CASE x \in Task
  BY <1>1, ProtocolAssumption, IdType DEF Task, Division, Id, NoTask
<1>2. CASE x = NoTask
  BY <1>2, IdType DEF NoTask
<1> QED
  BY <1>1, <1>2

(* What is known of a table.                                               *)
LEMMA TableParts ==
  ASSUME NEW t \in Table
  PROVE  /\ DOMAIN t \subseteq Worker
         /\ \A v \in DOMAIN t : t[v] \in Task \union {NoTask}
  BY DEF Table

(* Writing one more entry gives a table.                                   *)
LEMMA TableWrite ==
  ASSUME NEW t \in Table, NEW v \in Worker, NEW e \in Task \union {NoTask}
  PROVE  [u \in DOMAIN t \union {v} |-> IF u = v THEN e ELSE t[u]] \in Table
<1> DEFINE D == DOMAIN t \union {v}
           f == [u \in D |-> IF u = v THEN e ELSE t[u]]
<1>1. D \in SUBSET Worker
  BY TableParts
<1>2. f \in [D -> Task \union {NoTask}]
  BY TableParts
<1> QED
  BY <1>1, <1>2 DEF Table

-----------------------------------------------------------------------------
(* Types.                                                                  *)

(* The steps of the master keep the types.                                 *)
LEMMA MasterTypes ==
  ASSUME TypeOK, Numbering, Master
  PROVE  TypeOK'
<1> USE DEF dbVars, queueVars, workerVars, history
<1>1. CASE get_instance_num
  <2>1. /\ division' \in 0 .. MaxDivisions /\ mpc' = "cluster"
        /\ UNCHANGED <<dirs, mustVisit, visited, dbVars, queueVars, workerVars, finds,
                       restarts, history>>
    BY <1>1, ProtocolAssumption DEF get_instance_num, TypeOK
  <2>2. worker_num' \in 0 .. Cardinality(Worker)
    BY <1>1, IdType DEF get_instance_num, TypeOK
  <2> QED
    BY <2>1, <2>2 DEF TypeOK
<1>2. CASE OpenSyncDir
  BY <1>2 DEF OpenSyncDir, TypeOK
<1>3. ASSUME NEW w \in Worker, save_one_subdomain_to_db(w)
      PROVE  TypeOK'
  <2>1. /\ UNCHANGED <<dirs, mpc, division, worker_num, mustVisit, queueVars, wpc, sd, sd_r,
                       subdomain_array, toScan, taken, finds, restarts, early>>
        /\ w \in dirs /\ w \notin visited /\ visited' = visited \union {w}
        /\ task' = [task EXCEPT ![w] = NextSubdomain]
        /\ radius' = [radius EXCEPT ![w] = division]
        /\ if_new_subdomain' = [if_new_subdomain EXCEPT ![w] = 1]
        /\ raced' \subseteq raced \union {w} /\ crashed' \subseteq crashed
    BY <1>3 DEF save_one_subdomain_to_db, PublishedFlag
  <2>2. NextSubdomain \in Task \union {NoTask}
    <3>1. Cardinality(visited) \in Id
      BY <2>1, IdType DEF TypeOK
    <3>2. division \in Division
      BY <1>3 DEF save_one_subdomain_to_db, Numbering, TypeOK, Division
    <3> QED
      BY <3>1, <3>2 DEF NextSubdomain, Task
  <2> QED
    BY <2>1, <2>2 DEF TypeOK, Division, None
<1>4. CASE TooManyDirectories
  BY <1>4 DEF TooManyDirectories, TypeOK
<1>5. CASE CloseSyncDir
  BY <1>5 DEF CloseSyncDir, TypeOK
<1>6. ASSUME NEW k \in Id, send_seed_to_cluster(k)
      PROVE  TypeOK'
  <2>1. load_balance_queue' \in [Id -> Nat] /\ balanced' \in 0 .. MaxBalance
    BY <1>6, ProtocolAssumption DEF send_seed_to_cluster, TypeOK
  <2> QED
    BY <1>6, <2>1 DEF send_seed_to_cluster, masterVars, TypeOK
<1> QED
  BY <1>1, <1>2, <1>3, <1>4, <1>5, <1>6 DEF Master

(* The steps of a worker keep the types.                                   *)
LEMMA WorkerTypes ==
  ASSUME TypeOK, NEW w \in Worker, WorkerStep(w)
  PROVE  TypeOK'
<1> USE DEF masterVars, dbVars, queueVars, workerVars, history, Goto
<1>0. /\ sd[w] \in Task \union {NoTask} /\ sd[w].id \in Id
      /\ \A v \in Worker : task[v] \in Task \union {NoTask}
      /\ subdomain_array[w] \in Table
      /\ coop_queue[sd[w].id] \in Seq(Task)
  <2>1. sd[w] \in Task \union {NoTask} /\ coop_queue \in [Id -> Seq(Task)]
    BY DEF TypeOK
  <2>2. sd[w].id \in Id
    BY <2>1, TaskParts
  <2> QED
    BY <2>1, <2>2 DEF TypeOK
<1>1. CASE EndFuzzOne(w)
  <2>1. wpc' \in [Worker -> Loop \union {"off", "abort"}]
    BY <1>1 DEF EndFuzzOne, TypeOK, Loop
  <2> QED
    BY <1>1, <2>1 DEF EndFuzzOne, TypeOK
<1>2. CASE PopSeed(w)
  <2>1. /\ coop_queue' = [coop_queue EXCEPT ![sd[w].id] = Tail(coop_queue[sd[w].id])]
        /\ taken' = [taken EXCEPT ![w] = @ \union {Head(coop_queue[sd[w].id])}]
        /\ coop_queue[sd[w].id] # << >>
    BY <1>2 DEF PopSeed
  <2>2. Head(coop_queue[sd[w].id]) \in Task /\ Tail(coop_queue[sd[w].id]) \in Seq(Task)
    BY <1>0, <2>1
  <2>3. coop_queue' \in [Id -> Seq(Task)]
    BY <2>1, <2>2 DEF TypeOK
  <2>4. taken' \in [Worker -> SUBSET Task]
    BY <2>1, <2>2 DEF TypeOK
  <2> QED
    BY <1>2, <2>3, <2>4 DEF PopSeed, TypeOK
<1>3. CASE EndCooperation(w)
  <2>1. wpc' \in [Worker -> Loop \union {"off", "abort"}]
    BY <1>3 DEF EndCooperation, TypeOK, Loop
  <2>2. /\ radius' \in [Worker -> {Garbage, None} \union Division]
        /\ sd_r' \in [Worker -> {Garbage, None, Grown} \union Division]
    BY <1>3 DEF EndCooperation, TypeOK
  <2>3. taken' \in [Worker -> SUBSET Task]
    BY <1>3 DEF EndCooperation, TypeOK
  <2> QED
    BY <1>3, <2>1, <2>2, <2>3 DEF EndCooperation, TypeOK
<1>4. CASE if_need_update_subdomain(w)
  <2>1. wpc' \in [Worker -> Loop \union {"off", "abort"}]
    BY <1>4 DEF if_need_update_subdomain, TypeOK, Loop
  <2> QED
    BY <1>4, <2>1 DEF if_need_update_subdomain, TypeOK
<1>5. CASE update_subdomain(w)
  <2>1. /\ sd' \in [Worker -> Task \union {NoTask}]
        /\ sd_r' \in [Worker -> {Garbage, None, Grown} \union Division]
    BY <1>0, <1>5 DEF update_subdomain, OwnSubdomain, TypeOK
  <2> QED
    BY <1>5, <2>1 DEF update_subdomain, TypeOK, Loop
<1>6. CASE change_subdomain_state(w)
  BY <1>6 DEF change_subdomain_state, TypeOK, Loop
<1>7. CASE StartScan(w)
  <2>1. Keys \subseteq Worker
    BY DEF Keys
  <2> QED
    BY <1>7, <2>1 DEF StartScan, TypeOK, Loop
<1>8. ASSUME NEW v \in Worker, ScanKey(w, v)
      PROVE  TypeOK'
  <2>1. PICK e \in ReadEntry(w, v) :
          subdomain_array' = [subdomain_array EXCEPT
            ![w] = [u \in DOMAIN subdomain_array[w] \union {v} |->
                      IF u = v THEN e ELSE subdomain_array[w][u]]]
    BY <1>8 DEF ScanKey
  <2>2. e \in Task \union {NoTask}
    BY <1>0, TableParts DEF ReadEntry
  <2> DEFINE new == [u \in DOMAIN subdomain_array[w] \union {v} |->
                       IF u = v THEN e ELSE subdomain_array[w][u]]
  <2>3. subdomain_array' \in [Worker -> Table]
    <3>1. new \in Table
      BY <1>0, <2>2, TableWrite
    <3>2. subdomain_array' = [subdomain_array EXCEPT ![w] = new]
      BY <2>1
    <3> HIDE DEF new
    <3> QED
      BY <3>1, <3>2 DEF TypeOK
  <2>4. toScan' \in [Worker -> SUBSET Worker]
    BY <1>8 DEF ScanKey, TypeOK
  <2> QED
    BY <1>8, <2>3, <2>4 DEF ScanKey, TypeOK
<1>9. CASE EndScan(w)
  BY <1>9 DEF EndScan, TypeOK, Loop
<1>10. CASE StartWorker(w)
  <2>1. [v \in {} |-> NoTask] \in Table
    <3>1. {} \in SUBSET Worker /\ [v \in {} |-> NoTask] \in [{} -> Task \union {NoTask}]
      OBVIOUS
    <3> QED
      BY <3>1 DEF Table
  <2>2. subdomain_array' \in [Worker -> Table]
    BY <1>10, <2>1 DEF StartWorker, TypeOK
  <2>3. /\ sd' \in [Worker -> Task \union {NoTask}]
        /\ sd_r' \in [Worker -> {Garbage, None, Grown} \union Division]
    BY <1>10 DEF StartWorker, TypeOK
  <2>4. toScan' \in [Worker -> SUBSET Worker] /\ taken' \in [Worker -> SUBSET Task]
    BY <1>10 DEF StartWorker, TypeOK
  <2>5. wpc' \in [Worker -> Loop \union {"off", "abort"}]
    BY <1>10 DEF StartWorker, TypeOK, Loop
  <2> QED
    BY <1>10, <2>2, <2>3, <2>4, <2>5 DEF StartWorker, TypeOK
<1>11. ASSUME NEW p \in {"off", "abort"}, Crash(w, p),
              restarts' \in 0 .. MaxRestarts, UNCHANGED <<load_balance_queue, finds>>
       PROVE  TypeOK'
  BY <1>11 DEF Crash, TypeOK
<1>12. CASE CrashWorker(w) \/ MissingCenter(w)
  <2>1. restarts' \in 0 .. MaxRestarts
    BY <1>12, ProtocolAssumption DEF CrashWorker, MissingCenter, TypeOK
  <2> QED
    BY <1>11, <1>12, <2>1 DEF CrashWorker, MissingCenter
<1>13. CASE WidenRadius(w)
  <2>1. finds' \in 0 .. MaxFinds
    BY <1>13, ProtocolAssumption DEF WidenRadius, FindOutside, TypeOK
  <2> QED
    BY <1>13, <2>1 DEF WidenRadius, TypeOK
<1>14. CASE get_LBqueue_size(w)
  <2>1. wpc' \in [Worker -> Loop \union {"off", "abort"}]
    BY <1>14 DEF get_LBqueue_size, TypeOK, Loop
  <2> QED
    BY <1>14, <2>1 DEF get_LBqueue_size, TypeOK
<1>15. CASE do_load_balance(w)
  <2>1. CASE load_balance_queue[sd[w].id] = 0
    BY <1>11, <1>15, <2>1 DEF do_load_balance, TypeOK
  <2>2. CASE load_balance_queue[sd[w].id] # 0
    <3>1. /\ load_balance_queue' = [load_balance_queue EXCEPT ![sd[w].id] = @ - 1]
          /\ load_balance_queue[sd[w].id] - 1 \in Nat
      BY <1>0, <1>15, <2>2 DEF do_load_balance, TypeOK
    <3>2. load_balance_queue' \in [Id -> Nat]
      BY <3>1 DEF TypeOK
    <3>3. wpc' \in [Worker -> Loop \union {"off", "abort"}]
      BY <1>15, <2>2 DEF do_load_balance, TypeOK, Loop
    <3> QED
      BY <1>15, <2>2, <3>2, <3>3 DEF do_load_balance, TypeOK
  <2> QED
    BY <2>1, <2>2
<1>16. ASSUME NEW v \in Worker, SendSeed(w, v)
       PROVE  TypeOK'
  <2> DEFINE to == subdomain_array[w][v]
  <2>1. to \in Task /\ to.id \in Id
    <3>1. to \in Task \union {NoTask} /\ to # NoTask
      BY <1>0, <1>16, TableParts DEF SendSeed
    <3> QED
      BY <3>1, TaskParts
  <2>2. coop_queue' = [coop_queue EXCEPT ![to.id] = Append(@, to)]
    BY <1>16 DEF SendSeed
  <2>3. coop_queue' \in [Id -> Seq(Task)]
    <3>1. Append(coop_queue[to.id], to) \in Seq(Task)
      BY <2>1 DEF TypeOK
    <3> QED
      BY <2>1, <2>2, <3>1 DEF TypeOK
  <2>4. finds' \in 0 .. MaxFinds
    BY <1>16, ProtocolAssumption DEF SendSeed, FindOutside, TypeOK
  <2> QED
    BY <1>16, <2>3, <2>4 DEF SendSeed, TypeOK
<1> QED
  BY <1>1, <1>2, <1>3, <1>4, <1>5, <1>6, <1>7, <1>8, <1>9, <1>10, <1>12, <1>13,
     <1>14, <1>15, <1>16
  DEF WorkerStep, WorkerLoop

-----------------------------------------------------------------------------
(* Who holds which subdomain.                                              *)

Core == Numbering /\ HeldApart /\ OwnTaskOrOlder

(* Most steps touch neither the published nor the adopted subdomains.      *)
LEMMA CoreStays ==
  ASSUME Core, UNCHANGED <<division, visited, task, sd>>,
         mpc' = mpc \/ (mpc = "bind" /\ mpc' \in {"idle", "out_of_bounds"})
  PROVE  Core'
  BY DEF Core, Numbering, HeldApart, OwnTaskOrOlder, Held

(* A new division has no subdomains yet.                                   *)
LEMMA CoreGetInstanceNum ==
  ASSUME TypeOK, Core, get_instance_num
  PROVE  Core'
<1>1. /\ mpc' = "cluster" /\ division' = division + 1 /\ UNCHANGED <<visited, task, sd>>
      /\ division \in Nat
  BY DEF get_instance_num, dbVars, workerVars, TypeOK
<1>2. ASSUME NEW w \in Worker, NEW x \in Held(w)
      PROVE  x.division \in Nat /\ x.division < division'
  <2>1. x \in Task \union {NoTask}
    BY DEF Held, TypeOK
  <2>2. x.division \in Nat
    BY <2>1, TaskParts
  <2>3. x.division <= division
    BY DEF Core, Numbering
  <2> QED
    BY <1>1, <2>2, <2>3
<1>3. Numbering'
  <2>1. \A w \in Worker : task[w] \in Held(w) /\ Held(w)' = Held(w)
    BY <1>1 DEF Held
  <2> QED
    BY <1>1, <1>2, <2>1 DEF Numbering
<1>4. HeldApart' /\ OwnTaskOrOlder'
  BY <1>1 DEF Core, HeldApart, OwnTaskOrOlder, Held
<1> QED
  BY <1>3, <1>4 DEF Core

(* The walk over the directories starts with none visited.                 *)
LEMMA CoreOpenSyncDir ==
  ASSUME TypeOK, Core, OpenSyncDir
  PROVE  Core'
<1>1. /\ mpc = "cluster" /\ mpc' = "bind" /\ UNCHANGED <<division, task, sd>>
  BY DEF OpenSyncDir, dbVars, workerVars
<1>2. Numbering'
  <2>1. \A w \in Worker : task[w] \in Held(w) /\ Held(w)' = Held(w)
    BY <1>1 DEF Held
  <2> QED
    BY <1>1, <2>1 DEF Core, Numbering
<1>3. HeldApart' /\ OwnTaskOrOlder'
  BY <1>1 DEF Core, HeldApart, OwnTaskOrOlder, Held
<1> QED
  BY <1>2, <1>3 DEF Core

(* The subdomain published next has a number nobody holds, and its worker  *)
(* held nothing of this division.                                          *)
LEMMA CoreSave ==
  ASSUME TypeOK, Core, NEW w \in Worker, save_one_subdomain_to_db(w)
  PROVE  Core' /\ task[w].division < division
<1> DEFINE n == NextSubdomain
<1>1. /\ mpc = "bind" /\ mpc' = "bind" /\ UNCHANGED <<division, sd>>
      /\ w \notin visited /\ visited' = visited \union {w}
      /\ task' = [task EXCEPT ![w] = n]
      /\ division \in Nat /\ division > 0
  BY DEF save_one_subdomain_to_db, workerVars, TypeOK, Core, Numbering
<1>2. n.division = division /\ n.id = Cardinality(visited)
  BY DEF NextSubdomain
<1>3. Cardinality(visited) \in Nat /\ Cardinality(visited') = Cardinality(visited) + 1
  BY <1>1, IdType DEF TypeOK
<1>4. ASSUME NEW v \in Worker, NEW x \in Held(v)
      PROVE  /\ x.division \in Nat /\ x.division <= division /\ x.id \in Nat
             /\ x.division = division => x.id < Cardinality(visited)
             /\ x # n
  <2>1. x \in Task \union {NoTask}
    BY DEF Held, TypeOK
  <2>2. x.division \in Nat /\ x.id \in Nat
    BY <2>1, TaskParts
  <2>3. x.division <= division /\ (x.division = division => x.id < Cardinality(visited))
    BY <1>1 DEF Core, Numbering
  <2> QED
    BY <1>2, <1>3, <2>2, <2>3
<1>5. task[w] \in Held(w) /\ sd[w] \in Held(w) /\ task[w].division # division
  BY <1>1 DEF Core, Numbering, Held
<1>6. task[w].division < division
  BY <1>1, <1>4, <1>5
<1>7. \A v \in Worker : Held(v)' \subseteq Held(v) \union {n} /\ (v # w => Held(v)' = Held(v))
  BY <1>1 DEF Held, TypeOK
<1> HIDE DEF n
<1>8. Numbering'
  <2>1. ASSUME NEW v \in Worker, NEW x \in Held(v)'
        PROVE  /\ x.division <= division'
               /\ x.division = division' => mpc' # "cluster" /\ x.id < Cardinality(visited')
    <3>1. CASE x \in Held(v)
      BY <1>1, <1>3, <1>4, <3>1
    <3>2. CASE x = n
      BY <1>1, <1>2, <1>3, <3>2
    <3> QED
      BY <1>7, <3>1, <3>2
  <2>2. ASSUME NEW v \in Worker, task'[v].division = division'
        PROVE  v \in visited'
    BY <1>1, <2>2 DEF Core, Numbering, TypeOK
  <2> QED
    BY <1>1, <2>1, <2>2 DEF Numbering
<1>9. HeldApart'
  <2>1. ASSUME NEW v \in Worker, NEW u \in Worker, v # u,
               NEW x \in Held(v)', NEW y \in Held(u)', x.division > 0, x = y
        PROVE  FALSE
    <3>1. CASE x \in Held(v) /\ y \in Held(u)
      BY <2>1, <3>1 DEF Core, HeldApart
    <3>2. CASE x = n /\ u # w
      BY <1>4, <1>7, <2>1, <3>2
    <3>3. CASE y = n /\ v # w
      BY <1>4, <1>7, <2>1, <3>3
    <3> QED
      BY <1>7, <2>1, <3>1, <3>2, <3>3
  <2> QED
    BY <2>1 DEF HeldApart
<1>10. OwnTaskOrOlder'
  <2>1. ASSUME NEW v \in Worker
        PROVE  sd'[v] = task'[v] \/ sd'[v].division < task'[v].division
    <3>1. CASE v # w
      BY <1>1, <3>1 DEF Core, OwnTaskOrOlder, TypeOK
    <3>2. CASE v = w
      <4>1. sd[w] = task[w] \/ sd[w].division < task[w].division
        BY DEF Core, OwnTaskOrOlder
      <4>2. sd[w].division < division
        BY <1>1, <1>4, <1>5, <1>6, <4>1
      <4>3. task'[w] = n
        BY <1>1 DEF TypeOK
      <4> QED
        BY <1>1, <1>2, <3>2, <4>2, <4>3
    <3> QED
      BY <3>1, <3>2
  <2> QED
    BY <2>1 DEF OwnTaskOrOlder
<1> QED
  BY <1>6, <1>8, <1>9, <1>10 DEF Core

(* A worker takes what is published for it, or starts with nothing.        *)
LEMMA CoreAdopt ==
  ASSUME TypeOK, Core, NEW w \in Worker, NEW x \in {task[w], NoTask},
         sd' = [sd EXCEPT ![w] = x], UNCHANGED <<mpc, division, visited, task>>
  PROVE  Core'
<1>1. \A v \in Worker : Held(v)' \subseteq Held(v) \union {NoTask}
  BY DEF Held, TypeOK
<1>2. NoTask.division = 0 /\ division \in Nat
  BY DEF NoTask, TypeOK
<1>3. ASSUME NEW v \in Worker, NEW y \in Held(v)'
      PROVE  /\ y.division <= division
             /\ y.division = division /\ division > 0 =>
                  mpc # "cluster" /\ y.id < Cardinality(visited)
  <2>1. CASE y \in Held(v)
    BY <2>1 DEF Core, Numbering
  <2>2. CASE y = NoTask
    BY <1>2, <2>2
  <2> QED
    BY <1>1, <2>1, <2>2
<1>4. Numbering'
  BY <1>3 DEF Core, Numbering
<1>5. HeldApart'
  <2>1. ASSUME NEW v \in Worker, NEW u \in Worker, v # u,
               NEW y \in Held(v)', NEW z \in Held(u)', y.division > 0, y = z
        PROVE  FALSE
    <3>1. y \in Held(v) /\ z \in Held(u)
      BY <1>1, <1>2, <2>1
    <3> QED
      BY <2>1, <3>1 DEF Core, HeldApart
  <2> QED
    BY <2>1 DEF HeldApart
<1>6. OwnTaskOrOlder'
  <2>1. ASSUME NEW v \in Worker
        PROVE  sd'[v] = task[v] \/ sd'[v].division < task[v].division
    <3>1. CASE v # w
      BY <3>1 DEF Core, OwnTaskOrOlder, TypeOK
    <3>2. CASE v = w
      <4>1. sd'[w] = x /\ task[w] \in Task \union {NoTask}
        BY DEF TypeOK
      <4>2. task[w] = NoTask \/ task[w].division > 0
        BY <4>1, TaskParts
      <4> QED
        BY <1>2, <3>2, <4>1, <4>2
    <3> QED
      BY <3>1, <3>2
  <2> QED
    BY <2>1 DEF OwnTaskOrOlder
<1> QED
  BY <1>4, <1>5, <1>6 DEF Core

-----------------------------------------------------------------------------
(* The tables.                                                             *)

(* A worker that reads no key and adopts nothing knows what it knew.       *)
LEMMA ReadsStays ==
  ASSUME Tables, NEW v \in Worker, UNCHANGED <<mpc, division, visited, task>>,
         sd'[v] = sd[v], v \in early' <=> v \in early,
         subdomain_array'[v] = subdomain_array[v], toScan'[v] = toScan[v],
         \/ wpc'[v] = wpc[v]
         \/ wpc[v] \in Settled /\ wpc'[v] \in Settled
         \/ wpc'[v] \notin Settled \union {"scan"}
  PROVE  Reads(v)'
<1>1. Reads(v) /\ (OnTime(v)' <=> OnTime(v)) /\ \A u \in Worker : Knows(v, u)' <=> Knows(v, u)
  BY DEF Tables, OnTime, Knows
<1>2. "scan" \notin Settled
  BY DEF Settled
<1>3. visited' = visited /\ \A u \in visited : Knows(v, u)' <=> Knows(v, u)
  BY DEF Knows
<1> QED
  BY <1>1, <1>2, <1>3 DEF Reads

(* Publishing a division disturbs nobody who is on time: there is no such  *)
(* worker before the division is out.                                      *)
LEMMA TablesMaster ==
  ASSUME TypeOK, Core, Tables, Master
  PROVE  Tables'
<1> USE DEF masterVars, dbVars, workerVars, history
<1>0. UNCHANGED <<wpc, sd, subdomain_array, toScan, early>>
  BY DEF Master, get_instance_num, OpenSyncDir, save_one_subdomain_to_db,
         TooManyDirectories, CloseSyncDir, send_seed_to_cluster
<1>1. CASE get_instance_num
  <2>1. mpc' = "cluster" /\ division' = division + 1 /\ division \in Nat
    BY <1>1 DEF get_instance_num, TypeOK
  <2>2. ASSUME NEW w \in Worker PROVE ~ OnTime(w)'
    <3>1. sd[w].division <= division
      BY DEF Core, Numbering, Held
    <3>2. sd[w] \in Task \union {NoTask}
      BY DEF TypeOK
    <3>3. sd[w].division \in Nat
      BY <3>2, TaskParts
    <3> QED
      BY <1>0, <2>1, <3>1, <3>3 DEF OnTime
  <2> QED
    BY <2>1, <2>2 DEF Tables, Reads
<1>2. CASE OpenSyncDir
  <2>1. mpc = "cluster" /\ visited' = {} /\ division' = division
    BY <1>2 DEF OpenSyncDir
  <2>2. \A w \in Worker : ~ OnTime(w)'
    BY <1>0, <2>1 DEF OnTime, Core, Numbering, Held
  <2> QED
    BY <2>1, <2>2 DEF Tables, Reads
<1>3. CASE mpc = "bind" /\ division' = division
  <2>1. \A w \in Worker : OnTime(w)' => wpc'[w] \notin Settled \union {"scan"}
    BY <1>0, <1>3 DEF Tables, Reads, OnTime
  <2>2. "scan" \in Settled \union {"scan"}
    OBVIOUS
  <2>3. \A w \in Worker : Reads(w)'
    BY <2>1, <2>2 DEF Reads
  <2>4. \A v \in visited' : task'[v].division = division'
    <3>1. CASE UNCHANGED <<visited, task>>
      BY <1>3, <3>1 DEF Tables
    <3>2. ASSUME NEW w \in Worker, save_one_subdomain_to_db(w)
          PROVE  \A v \in visited' : task'[v].division = division'
      <4>1. /\ visited' = visited \union {w} /\ task'[w] = NextSubdomain
            /\ \A v \in Worker \ {w} : task'[v] = task[v]
        BY <3>2 DEF save_one_subdomain_to_db, TypeOK
      <4>2. \A v \in visited : task[v].division = division /\ v \in Worker
        BY <1>3 DEF Tables, TypeOK
      <4> QED
        BY <1>3, <4>1, <4>2 DEF NextSubdomain
    <3> QED
      BY <1>3, <3>1, <3>2 DEF Master, get_instance_num, OpenSyncDir, TooManyDirectories,
                              CloseSyncDir, send_seed_to_cluster
  <2> QED
    BY <2>3, <2>4 DEF Tables
<1>4. ASSUME NEW k \in Id, send_seed_to_cluster(k)
      PROVE  Tables'
  <2>1. UNCHANGED <<mpc, division, visited, task>>
    BY <1>4 DEF send_seed_to_cluster
  <2>2. \A v \in Worker : Reads(v)'
    BY <1>0, <2>1, ReadsStays
  <2> QED
    BY <2>1, <2>2 DEF Tables
<1> QED
  BY <1>1, <1>2, <1>3, <1>4
  DEF Master, save_one_subdomain_to_db, TooManyDirectories, CloseSyncDir

(* SCAN starts with all the keys of the division.                          *)
LEMMA ReadsStartScan ==
  ASSUME TypeOK, Tables, NEW w \in Worker, StartScan(w)
  PROVE  Reads(w)'
<1>1. /\ UNCHANGED <<mpc, division, visited, task, sd>>
      /\ wpc'[w] = "scan" /\ toScan'[w] = Keys /\ (w \notin early' => mpc = "idle")
  BY DEF StartScan, Goto, masterVars, dbVars, TypeOK
<1>2. ASSUME OnTime(w)' PROVE mpc' = "idle" /\ visited' \subseteq toScan'[w]
  <2>1. mpc = "idle" /\ division > 0
    BY <1>1, <1>2 DEF OnTime
  <2>2. \A v \in visited : task[v].division = division /\ v \in Worker
    BY <2>1 DEF Tables, TypeOK
  <2>3. \A v \in visited : task[v] # NoTask
    BY <2>1, <2>2 DEF NoTask
  <2> QED
    BY <1>1, <2>1, <2>2, <2>3 DEF Keys
<1>3. "scan" \notin Settled
  BY DEF Settled
<1> QED
  BY <1>1, <1>2, <1>3 DEF Reads

(* A key of the division is read as it stands.                             *)
LEMMA ReadsScanKey ==
  ASSUME TypeOK, Tables, NEW w \in Worker, NEW v \in Worker, ScanKey(w, v)
  PROVE  Reads(w)'
<1>1. PICK e \in ReadEntry(w, v) :
        subdomain_array' = [subdomain_array EXCEPT
          ![w] = [u \in DOMAIN subdomain_array[w] \union {v} |->
                    IF u = v THEN e ELSE subdomain_array[w][u]]]
  BY DEF ScanKey
<1>2. /\ UNCHANGED <<mpc, division, visited, task, sd, wpc, early>>
      /\ wpc[w] = "scan" /\ toScan'[w] = toScan[w] \ {v}
  BY DEF ScanKey, masterVars, dbVars, history, TypeOK
<1>3. /\ DOMAIN subdomain_array'[w] = DOMAIN subdomain_array[w] \union {v}
      /\ subdomain_array'[w][v] = e
      /\ \A u \in DOMAIN subdomain_array[w] : u # v =>
           subdomain_array'[w][u] = subdomain_array[w][u]
  BY <1>1 DEF TypeOK
<1>4. ASSUME OnTime(w) PROVE \A u \in visited \ toScan'[w] : Knows(w, u)'
  <2>1. /\ mpc = "idle" /\ division > 0
        /\ \A u \in visited \ toScan[w] : Knows(w, u)
    BY <1>2, <1>4 DEF Tables, Reads, OnTime
  <2>2. v \in visited => e = task[v]
    <3>1. v \in visited => task[v].division = division
      BY <2>1 DEF Tables
    <3>2. v \in visited => task[v] # NoTask
      BY <2>1, <3>1 DEF NoTask
    <3> QED
      BY <3>2 DEF ReadEntry
  <2>3. ASSUME NEW u \in visited \ toScan'[w] PROVE Knows(w, u)'
    <3>1. CASE u = v
      BY <1>2, <1>3, <2>2, <3>1 DEF Knows
    <3>2. CASE u # v
      BY <1>2, <1>3, <2>1, <3>2 DEF Knows
    <3> QED
      BY <3>1, <3>2
  <2> QED
    BY <2>3
<1>5. "scan" \notin Settled /\ (OnTime(w)' <=> OnTime(w)) /\ (OnTime(w) => mpc = "idle")
  BY <1>2 DEF Settled, OnTime, Tables, Reads
<1> QED
  BY <1>2, <1>4, <1>5 DEF Reads

(* The steps of a worker; those of the others are not disturbed.           *)
LEMMA TablesWorker ==
  ASSUME TypeOK, Tables, NEW w \in Worker, WorkerStep(w)
  PROVE  Tables'
<1> USE DEF masterVars, dbVars, queueVars, workerVars, history, Goto
<1>1. UNCHANGED <<mpc, division, visited, task>>
  BY DEF WorkerStep, WorkerLoop, EndFuzzOne, PopSeed, EndCooperation,
         if_need_update_subdomain, update_subdomain, change_subdomain_state, StartScan,
         ScanKey, EndScan, get_LBqueue_size, do_load_balance, StartWorker, CrashWorker,
         MissingCenter, Crash, WidenRadius, SendSeed
<1>2. ASSUME NEW v \in Worker, v # w
      PROVE  Reads(v)'
  <2>1. sd'[v] = sd[v] /\ (v \in early' <=> v \in early)
    BY <1>2 DEF TypeOK, WorkerStep, WorkerLoop, EndFuzzOne, PopSeed, EndCooperation,
                if_need_update_subdomain, update_subdomain, change_subdomain_state,
                StartScan, ScanKey, EndScan, get_LBqueue_size, do_load_balance,
                StartWorker, CrashWorker, MissingCenter, Crash, WidenRadius, SendSeed
  <2>2. wpc'[v] = wpc[v]
    BY <1>2 DEF TypeOK, WorkerStep, WorkerLoop, EndFuzzOne, PopSeed, EndCooperation,
                if_need_update_subdomain, update_subdomain, change_subdomain_state,
                StartScan, ScanKey, EndScan, get_LBqueue_size, do_load_balance,
                StartWorker, CrashWorker, MissingCenter, Crash, WidenRadius, SendSeed
  <2>3. toScan'[v] = toScan[v]
    BY <1>2 DEF TypeOK, WorkerStep, WorkerLoop, EndFuzzOne, PopSeed, EndCooperation,
                if_need_update_subdomain, update_subdomain, change_subdomain_state,
                StartScan, ScanKey, EndScan, get_LBqueue_size, do_load_balance,
                StartWorker, CrashWorker, MissingCenter, Crash, WidenRadius, SendSeed
  <2>4. subdomain_array'[v] = subdomain_array[v]
    BY <1>2 DEF TypeOK, WorkerStep, WorkerLoop, EndFuzzOne, PopSeed, EndCooperation,
                if_need_update_subdomain, update_subdomain, change_subdomain_state,
                StartScan, ScanKey, EndScan, get_LBqueue_size, do_load_balance,
                StartWorker, CrashWorker, MissingCenter, Crash, WidenRadius, SendSeed
  <2> QED
    BY <1>1, <2>1, <2>2, <2>3, <2>4, ReadsStays
<1>3. Reads(w)'
  <2>1. CASE StartScan(w) \/ \E v \in Worker : ScanKey(w, v)
    BY <2>1, ReadsStartScan, ReadsScanKey
  <2>2. CASE EndScan(w)
    <3>1. /\ wpc[w] = "scan" /\ toScan[w] = {}
          /\ UNCHANGED <<sd, subdomain_array, early>>
      BY <2>2 DEF EndScan, CursorIsZero
    <3>2. /\ OnTime(w)' <=> OnTime(w)
          /\ \A v \in visited : Knows(w, v)' <=> Knows(w, v)
      BY <1>1, <3>1 DEF OnTime, Knows
    <3>3. OnTime(w) => mpc = "idle" /\ \A v \in visited : Knows(w, v)
      BY <3>1 DEF Tables, Reads
    <3>4. wpc'[w] # "scan"
      BY <2>2 DEF EndScan, TypeOK
    <3> QED
      BY <1>1, <3>2, <3>3, <3>4 DEF Reads
  <2>3. CASE StartWorker(w)
    <3>1. sd'[w].division = 0
      BY <2>3 DEF StartWorker, NoTask, TypeOK
    <3> QED
      BY <1>1, <3>1 DEF Reads, OnTime
  <2>4. CASE update_subdomain(w)
    <3>1. wpc'[w] = "clear"
      BY <2>4 DEF update_subdomain, TypeOK
    <3> QED
      BY <3>1 DEF Reads, Settled
  <2>5. CASE ~ \/ StartScan(w) \/ (\E v \in Worker : ScanKey(w, v)) \/ EndScan(w)
               \/ StartWorker(w) \/ update_subdomain(w)
    <3>1. UNCHANGED <<sd, early, subdomain_array, toScan>>
      BY <2>5 DEF WorkerStep, WorkerLoop, EndFuzzOne, PopSeed, EndCooperation,
                  if_need_update_subdomain, change_subdomain_state, get_LBqueue_size,
                  do_load_balance, CrashWorker, MissingCenter, Crash, WidenRadius, SendSeed
    <3>2. \/ wpc'[w] = wpc[w]
          \/ wpc[w] \in Settled /\ wpc'[w] \in Settled
          \/ wpc'[w] \notin Settled \union {"scan"}
      BY <2>5 DEF WorkerStep, WorkerLoop, EndFuzzOne, PopSeed, EndCooperation,
                  if_need_update_subdomain, change_subdomain_state, get_LBqueue_size,
                  do_load_balance, CrashWorker, MissingCenter, Crash, WidenRadius, SendSeed,
                  TypeOK, Settled
    <3> QED
      BY <1>1, <3>1, <3>2, ReadsStays
  <2> QED
    BY <2>1, <2>2, <2>3, <2>4, <2>5
<1> QED
  BY <1>1, <1>2, <1>3 DEF Tables

-----------------------------------------------------------------------------
(* The flag.                                                               *)

(* Steps that move a worker on without touching flag, task or subdomain.   *)
LEMMA WindowStays ==
  ASSUME Window, UNCHANGED <<task, if_new_subdomain, sd, raced, crashed>>,
         \A v \in Worker : wpc'[v] \in {"off", "abort", "clear"} => wpc'[v] = wpc[v]
  PROVE  Window'
  BY DEF Window

(* A publication raises the flag, and is recorded as raced inside the      *)
(* window.                                                                 *)
LEMMA WindowSave ==
  ASSUME TypeOK, Window, NEW w \in Worker, save_one_subdomain_to_db(w)
  PROVE  Window'
<1>1. UNCHANGED <<wpc, sd>> /\ (wpc[w] = "clear" => w \in raced') /\ if_new_subdomain'[w] = 1
  BY DEF save_one_subdomain_to_db, workerVars, PublishedFlag, TypeOK
<1>2. \A v \in Worker \ {w} : /\ task'[v] = task[v] /\ if_new_subdomain'[v] = if_new_subdomain[v]
                              /\ v \in raced' <=> v \in raced
                              /\ v \in crashed' <=> v \in crashed
  BY DEF save_one_subdomain_to_db, TypeOK
<1>3. \A v \in Worker : wpc'[v] = "clear" /\ v \notin raced' => sd'[v] = task'[v]
  BY <1>1, <1>2 DEF Window
<1>4. ASSUME NEW v \in Worker, if_new_subdomain'[v] = 0, task'[v] # NoTask,
             v \notin raced' \union crashed'
      PROVE  sd'[v] = task'[v] /\ wpc'[v] \notin {"off", "abort"}
  BY <1>1, <1>2, <1>4 DEF Window
<1> QED
  BY <1>3, <1>4 DEF Window

(* A crash with the flag at 0 is recorded.                                 *)
LEMMA WindowCrash ==
  ASSUME TypeOK, Window, NEW w \in Worker, NEW p \in {"off", "abort"}, Crash(w, p)
  PROVE  Window'
<1>1. /\ UNCHANGED <<task, if_new_subdomain, sd, raced>> /\ wpc'[w] \in {"off", "abort"}
      /\ crashed \subseteq crashed' /\ (if_new_subdomain[w] = 0 => w \in crashed')
      /\ \A v \in Worker \ {w} : wpc'[v] = wpc[v]
  BY DEF Crash, Goto, dbVars, TypeOK
<1>2. \A v \in Worker : wpc'[v] = "clear" => wpc[v] = "clear"
  BY <1>1
<1>3. ASSUME NEW v \in Worker, if_new_subdomain[v] = 0, task[v] # NoTask,
             v \notin raced \union crashed'
      PROVE  sd[v] = task[v] /\ wpc'[v] \notin {"off", "abort"}
  BY <1>1, <1>3 DEF Window
<1> QED
  BY <1>1, <1>2, <1>3 DEF Window

(* The steps of a worker.                                                  *)
LEMMA WindowWorker ==
  ASSUME TypeOK, Window, NEW w \in Worker, WorkerStep(w)
  PROVE  Window'
<1> USE DEF masterVars, dbVars, queueVars, workerVars, history, Goto
<1>1. CASE \/ EndFuzzOne(w) \/ EndCooperation(w) \/ if_need_update_subdomain(w)
           \/ StartScan(w) \/ EndScan(w) \/ get_LBqueue_size(w)
           \/ do_load_balance(w) /\ load_balance_queue[sd[w].id] # 0
  <2>1. /\ UNCHANGED <<task, if_new_subdomain, sd, raced, crashed>>
        /\ \E p \in {"fuzz", "coop", "poll", "read", "scan", "balance", "pop"} :
             wpc' = [wpc EXCEPT ![w] = p]
    BY <1>1 DEF EndFuzzOne, EndCooperation, if_need_update_subdomain, StartScan, EndScan,
                get_LBqueue_size, do_load_balance
  <2>2. \A v \in Worker : wpc'[v] \in {"off", "abort", "clear"} => wpc'[v] = wpc[v]
    BY <2>1 DEF TypeOK
  <2> QED
    BY <2>1, <2>2, WindowStays
<1>2. CASE \/ PopSeed(w) \/ WidenRadius(w) \/ (\E v \in Worker : ScanKey(w, v))
           \/ \E v \in Worker : SendSeed(w, v)
  <2>1. UNCHANGED <<task, if_new_subdomain, sd, raced, crashed, wpc>>
    BY <1>2 DEF PopSeed, WidenRadius, ScanKey, SendSeed
  <2> QED
    BY <2>1, WindowStays
<1>3. CASE update_subdomain(w)
  <2>1. /\ UNCHANGED <<task, if_new_subdomain, crashed>> /\ sd'[w] = task[w]
        /\ wpc'[w] = "clear" /\ raced' = raced \ {w}
        /\ \A v \in Worker \ {w} : sd'[v] = sd[v] /\ wpc'[v] = wpc[v]
    BY <1>3 DEF update_subdomain, OwnSubdomain, TypeOK
  <2> QED
    BY <2>1 DEF Window
<1>4. CASE change_subdomain_state(w)
  <2>1. /\ UNCHANGED <<task, sd, raced, crashed>> /\ wpc[w] = "clear" /\ wpc'[w] = "keys"
        /\ \A v \in Worker \ {w} : /\ if_new_subdomain'[v] = if_new_subdomain[v]
                                   /\ wpc'[v] = wpc[v]
    BY <1>4 DEF change_subdomain_state, TypeOK
  <2> QED
    BY <2>1 DEF Window
<1>5. CASE StartWorker(w)
  <2>1. /\ UNCHANGED <<task, if_new_subdomain, raced, crashed>>
        /\ wpc[w] \in {"off", "abort"} /\ wpc'[w] = "fuzz"
        /\ \A v \in Worker \ {w} : sd'[v] = sd[v] /\ wpc'[v] = wpc[v]
    BY <1>5 DEF StartWorker, TypeOK
  <2> QED
    BY <2>1 DEF Window
<1>6. CASE \/ CrashWorker(w) \/ MissingCenter(w)
           \/ do_load_balance(w) /\ load_balance_queue[sd[w].id] = 0
  BY <1>6, WindowCrash DEF CrashWorker, MissingCenter, do_load_balance
<1> QED
  BY <1>1, <1>2, <1>3, <1>4, <1>5, <1>6 DEF WorkerStep, WorkerLoop

-----------------------------------------------------------------------------
(* The invariant holds at the start.                                       *)
LEMMA InitHolds == Init => IInv
<1> SUFFICES ASSUME Init PROVE IInv
  OBVIOUS
<1> USE DEF Init
<1>1. TypeOK
  <2>1. [v \in {} |-> NoTask] \in Table
    <3>1. {} \in SUBSET Worker /\ [v \in {} |-> NoTask] \in [{} -> Task \union {NoTask}]
      OBVIOUS
    <3> QED
      BY <3>1 DEF Table
  <2>2. subdomain_array \in [Worker -> Table]
    BY <2>1
  <2>3. coop_queue \in [Id -> Seq(Task)]
    OBVIOUS
  <2>4. wpc \in [Worker -> Loop \union {"off", "abort"}]
    BY DEF Loop
  <2>5. /\ division \in 0 .. MaxDivisions /\ worker_num \in 0 .. Cardinality(Worker)
        /\ finds \in 0 .. MaxFinds /\ restarts \in 0 .. MaxRestarts
        /\ balanced \in 0 .. MaxBalance /\ load_balance_queue \in [Id -> Nat]
        /\ if_new_subdomain \in [Worker -> 0 .. 1]
    BY ProtocolAssumption, IdType
  <2> QED
    BY <2>2, <2>3, <2>4, <2>5, ProtocolAssumption DEF TypeOK
<1>2. \A w \in Worker : task[w] = NoTask /\ sd[w] = NoTask
  OBVIOUS
<1>3. NoTask.division = 0
  BY DEF NoTask
<1>4. Numbering /\ HeldApart /\ OwnTaskOrOlder /\ Window
  BY <1>2, <1>3 DEF Numbering, HeldApart, OwnTaskOrOlder, Window, Held
<1>5. Tables
  BY DEF Tables, Reads, OnTime
<1> QED
  BY <1>1, <1>4, <1>5 DEF IInv

(* Every step of the master keeps the invariant.                           *)
LEMMA MasterKeeps ==
  ASSUME IInv, Master
  PROVE  IInv'
<1>0. TypeOK /\ Core /\ Tables /\ Window
  BY DEF IInv, Core
<1>1. TypeOK' /\ Tables'
  BY <1>0, MasterTypes, TablesMaster DEF Core
<1>2. ASSUME NEW w \in Worker, save_one_subdomain_to_db(w)
      PROVE  Core' /\ Window'
  BY <1>0, <1>2, CoreSave, WindowSave
<1>3. ASSUME \/ get_instance_num \/ OpenSyncDir \/ TooManyDirectories \/ CloseSyncDir
             \/ \E k \in Id : send_seed_to_cluster(k)
      PROVE  Core' /\ Window'
  <2>1. UNCHANGED <<task, if_new_subdomain, sd, raced, crashed, wpc>>
    BY <1>3 DEF get_instance_num, OpenSyncDir, TooManyDirectories, CloseSyncDir,
                send_seed_to_cluster, dbVars, workerVars, history
  <2>2. Window'
    BY <1>0, <2>1, WindowStays
  <2>3. ASSUME TooManyDirectories \/ CloseSyncDir \/ \E k \in Id : send_seed_to_cluster(k)
        PROVE  Core'
    <3>1. /\ UNCHANGED <<division, visited>>
          /\ mpc' = mpc \/ (mpc = "bind" /\ mpc' \in {"idle", "out_of_bounds"})
      BY <2>3 DEF TooManyDirectories, CloseSyncDir, send_seed_to_cluster, masterVars
    <3> QED
      BY <1>0, <2>1, <3>1, CoreStays
  <2> QED
    BY <1>0, <1>3, <2>2, <2>3, CoreGetInstanceNum, CoreOpenSyncDir
<1> QED
  BY <1>1, <1>2, <1>3 DEF Master, IInv, Core

(* Every step of a worker keeps the invariant.                             *)
LEMMA WorkerKeeps ==
  ASSUME IInv, NEW w \in Worker, WorkerStep(w)
  PROVE  IInv'
<1>0. TypeOK /\ Core /\ Tables /\ Window
  BY DEF IInv, Core
<1>1. TypeOK' /\ Window' /\ Tables'
  BY <1>0, WorkerTypes, WindowWorker, TablesWorker
<1> USE DEF masterVars, dbVars, workerVars
<1>2. UNCHANGED <<mpc, division, visited, task>>
  BY DEF WorkerStep, WorkerLoop, EndFuzzOne, PopSeed, EndCooperation,
         if_need_update_subdomain, update_subdomain, change_subdomain_state, StartScan,
         ScanKey, EndScan, get_LBqueue_size, do_load_balance, StartWorker, CrashWorker,
         MissingCenter, Crash, WidenRadius, SendSeed
<1>3. Core'
  <2>1. CASE update_subdomain(w) \/ StartWorker(w)
    <3>1. \E x \in {task[w], NoTask} : sd' = [sd EXCEPT ![w] = x]
      BY <2>1 DEF update_subdomain, OwnSubdomain, StartWorker
    <3> QED
      BY <1>0, <1>2, <3>1, CoreAdopt
  <2>2. CASE ~ (update_subdomain(w) \/ StartWorker(w))
    <3>1. UNCHANGED sd
      BY <2>2 DEF WorkerStep, WorkerLoop, EndFuzzOne, PopSeed, EndCooperation,
                  if_need_update_subdomain, change_subdomain_state, StartScan, ScanKey,
                  EndScan, get_LBqueue_size, do_load_balance, CrashWorker, MissingCenter,
                  Crash, WidenRadius, SendSeed
    <3> QED
      BY <1>0, <1>2, <3>1, CoreStays
  <2> QED
    BY <2>1, <2>2
<1> QED
  BY <1>1, <1>3 DEF IInv, Core

(* The invariant always holds.                                             *)
LEMMA Inductive == Spec => []IInv
<1>1. ASSUME IInv, [Next]_vars PROVE IInv'
  <2>1. CASE UNCHANGED vars
    <3> USE <1>1, <2>1 DEF IInv, vars, masterVars, dbVars, queueVars, workerVars, history
    <3>1. TypeOK'
      BY DEF TypeOK
    <3>2. Numbering' /\ HeldApart' /\ OwnTaskOrOlder'
      BY DEF Numbering, HeldApart, OwnTaskOrOlder, Held
    <3>3. Tables' /\ Window'
      BY DEF Tables, Reads, OnTime, Knows, Window
    <3> QED
      BY <3>1, <3>2, <3>3
  <2>2. CASE Master
    BY <1>1, <2>2, MasterKeeps
  <2>3. ASSUME NEW w \in Worker, WorkerStep(w)
        PROVE  IInv'
    BY <1>1, <2>3, WorkerKeeps
  <2> QED
    BY <1>1, <2>1, <2>2, <2>3 DEF Next, WorkerStep
<1> QED
  BY <1>1, InitHolds, PTL DEF Spec

-----------------------------------------------------------------------------
(* Every variable keeps its type; in particular a subdomain number is      *)
(* below the number of workers.                                            *)
THEOREM TypesAreKept == Spec => []TypeOK
<1>1. IInv => TypeOK
  BY DEF IInv
<1> QED
  BY <1>1, Inductive, PTL

(* No subdomain of a division is explored by two workers, for any number   *)
(* of workers, overlapping divisions and restarts.                         *)
THEOREM SubdomainsAreNotShared == Spec => []NoSharedSubdomain
<1>1. ASSUME IInv PROVE NoSharedSubdomain
  <2>1. ASSUME NEW v \in Worker, NEW w \in Worker, sd[v] = sd[w], sd[v] # NoTask, v # w
        PROVE  FALSE
    <3>1. sd[v] \in Task \union {NoTask} /\ sd[v] \in Held(v) /\ sd[w] \in Held(w)
      BY <1>1 DEF IInv, TypeOK, Held
    <3>2. sd[v].division > 0
      BY <2>1, <3>1, TaskParts
    <3> QED
      BY <1>1, <2>1, <3>1, <3>2 DEF IInv, HeldApart
  <2> QED
    BY <2>1 DEF NoSharedSubdomain
<1> QED
  BY <1>1, Inductive, PTL

(* A worker is on what was published for it, or on an older division.      *)
THEOREM WorkersFollowTheirKeys == Spec => []OwnTaskOrOlder
<1>1. IInv => OwnTaskOrOlder
  BY DEF IInv
<1> QED
  BY <1>1, Inductive, PTL

(* Whatever the order in which SCAN returns the keys and the divisions     *)
(* follow each other, a worker on the current division that began to read  *)
(* after it was out knows the subdomains of all workers.                   *)
THEOREM TablesAreComplete == Spec => []LateReadersKnowAll
<1>1. ASSUME IInv PROVE LateReadersKnowAll
  <2>1. ASSUME NEW w \in Worker, wpc[w] = "fuzz", sd[w] # NoTask,
               sd[w].division = division, w \notin early
        PROVE  KnowsAllSubdomains(w)
    <3>1. sd[w] \in Task \union {NoTask}
      BY <1>1 DEF IInv, TypeOK
    <3>2. division > 0
      BY <2>1, <3>1, TaskParts
    <3>3. \A v \in visited : Knows(w, v)
      BY <1>1, <2>1, <3>2 DEF IInv, Tables, Reads, OnTime, Settled
    <3> QED
      BY <3>3 DEF Knows, KnowsAllSubdomains
  <2> QED
    BY <2>1 DEF LateReadersKnowAll
<1> QED
  BY <1>1, Inductive, PTL

(* A division is missed only if it was written between the reading of the  *)
(* key and the clearing of its flag, or after a crash that followed it.     *)
THEOREM OnlyTheWindowLosesUpdates == Spec => []UpdatesAreLostOnlyInTheWindow
<1>1. IInv => UpdatesAreLostOnlyInTheWindow
  BY DEF IInv, Window, UpdatesAreLostOnlyInTheWindow
<1> QED
  BY <1>1, Inductive, PTL
=============================================================================
