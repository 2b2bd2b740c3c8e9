------------------------- MODULE SubdomainProtocol -------------------------
(***************************************************************************)
(* How a division reaches the workers: the master publishes one subdomain  *)
(* per worker directory (end of input_domain_division_k_medoids), and each *)
(* worker polls its key once per iteration of the main loop, adopts a new  *)
(* subdomain, reads the table of all subdomains, hands seeds to the others *)
(* through coop_queue_<id>, takes seeds from its own, and one at a time    *)
(* from load_balance_queue_<id>.  Every action is one Redis command or one *)
(* directory operation, so master and workers interleave as they do in the *)
(* program.  What lies behind a step is left open here: whether a found    *)
(* seed stays, widens the radius or is sent away (see Cooperation), and    *)
(* when the master balances the load (see LoadBalance).                    *)
(***************************************************************************)
EXTENDS Integers, Sequences, FiniteSets

CONSTANTS
  Worker,        \* sync ids of the -S instances
  Early,         \* the workers that run before the first division
  MaxDivisions,  \* bound: divisions in a behaviour
  MaxFinds,      \* bound: finds outside a radius; finite, as each has new coverage
  MaxBalance,    \* bound: seeds sent to balance the load
  MaxRestarts    \* bound: workers stopped from outside

ASSUME ProtocolAssumption ==
  /\ IsFiniteSet(Worker) /\ Early \subseteq Worker
  /\ MaxDivisions \in Nat /\ MaxFinds \in Nat /\ MaxBalance \in Nat
  /\ MaxRestarts \in Nat

Division == 1 .. MaxDivisions
Id       == 0 .. Cardinality(Worker) - 1
Task     == [division : Division, id : Id]
NoTask   == [division |-> 0, id |-> 0]   \* a zeroed subdomain: no center, id 0
Table    == UNION {[D -> Task \union {NoTask}] : D \in SUBSET Worker}
None     == 0                            \* no radius field
Garbage  == -1                           \* a double printed with %u
Grown    == -2                           \* a radius the worker itself widened

VARIABLES
  dirs,            \* worker directories in sync_dir
  mpc, division, worker_num, mustVisit, visited,  \* the master in a division
  task, radius, if_new_subdomain,  \* the fields of subdomain_<worker>
  coop_queue,      \* coop_queue[id]: the subdomains the senders aimed at
  load_balance_queue,  \* load_balance_queue[id]: the number of seeds in it
  wpc, sd, sd_r,   \* a worker's loop position, subdomain and radius
  subdomain_array, \* a worker's table: the keys it read and their subdomains
  toScan,          \* keys of the current SCAN not read yet
  taken,           \* aims of the seeds taken in the current do_cooperation
  finds, balanced, restarts,
  raced,           \* history: workers whose key was last written between
                   \* the read and the clearing of its flag, and not read since
  crashed,         \* history: workers that crashed with the flag at 0, and
                   \* whose key was not written since
  early            \* history: workers that began to read their table before
                   \* the division was out

masterVars == <<mpc, division, worker_num, mustVisit, visited>>
dbVars     == <<task, radius, if_new_subdomain>>
queueVars  == <<coop_queue, load_balance_queue, balanced>>
workerVars == <<wpc, sd, sd_r, subdomain_array, toScan, taken>>
history    == <<raced, crashed, early>>
vars       == <<dirs, masterVars, dbVars, queueVars, workerVars, finds, restarts, history>>

(* radius[w] and sd_r[w] record where a radius comes from: the division    *)
(* whose master computed it, None, Garbage or Grown.                       *)
Init ==
  /\ dirs = Early
  /\ mpc = "idle" /\ division = 0 /\ worker_num = 0 /\ mustVisit = {} /\ visited = {}
  /\ task = [w \in Worker |-> NoTask] /\ radius = [w \in Worker |-> None]
  /\ if_new_subdomain = [w \in Worker |-> 0]
  /\ coop_queue = [k \in Id |-> << >>] /\ load_balance_queue = [k \in Id |-> 0]
  /\ wpc = [w \in Worker |-> IF w \in Early THEN "fuzz" ELSE "off"]
  /\ sd = [w \in Worker |-> NoTask] /\ sd_r = [w \in Worker |-> None]
  /\ subdomain_array = [w \in Worker |-> [v \in {} |-> NoTask]]
  /\ toScan = [w \in Worker |-> {}] /\ taken = [w \in Worker |-> {}]
  /\ finds = 0 /\ balanced = 0 /\ restarts = 0
  /\ raced = {} /\ crashed = {} /\ early = {}

Keys == {w \in Worker : task[w] # NoTask \/ radius[w] # None}
Goto(w, p) == wpc' = [wpc EXCEPT ![w] = p]

-----------------------------------------------------------------------------
(* The master.                                                             *)

(* get_instance_num, then k-medoids for that many subdomains.              *)
get_instance_num ==
  /\ mpc = "idle" /\ division < MaxDivisions
  /\ Cardinality(dirs) > 1
  /\ worker_num' = Cardinality(dirs)
  /\ division' = division + 1
  /\ mpc' = "cluster"
  /\ UNCHANGED <<dirs, mustVisit, visited, dbVars, queueVars, workerVars, finds,
                 restarts, history>>

OpenSyncDir ==
  /\ mpc = "cluster" /\ mpc' = "bind"
  /\ mustVisit' = dirs /\ visited' = {}
  /\ UNCHANGED <<dirs, division, worker_num, dbVars, queueVars, workerVars,
                 finds, restarts, history>>

MutantFirst == [division |-> division, id |-> 0]
NextSubdomain == [division |-> division, id |-> Cardinality(visited)]

MutantPublishedFlag(w) == if_new_subdomain[w]
PublishedFlag(w) == 1

(* One directory entry: the next subdomain goes to the instance of that    *)
(* name.  A directory created after opendir may or may not show up.        *)
save_one_subdomain_to_db(w) ==
  /\ mpc = "bind" /\ w \in dirs \ visited
  /\ Cardinality(visited) < worker_num
  /\ task' = [task EXCEPT ![w] = NextSubdomain]
  /\ radius' = [radius EXCEPT ![w] = division]
  /\ if_new_subdomain' = [if_new_subdomain EXCEPT ![w] = PublishedFlag(w)]
  /\ visited' = visited \union {w}
  /\ raced' = IF wpc[w] = "clear" THEN raced \union {w} ELSE raced \ {w}
  /\ crashed' = crashed \ {w}
  /\ UNCHANGED <<dirs, mpc, division, worker_num, mustVisit, queueVars, workerVars, finds,
                 restarts, early>>

(* More directories than subdomains: c_arr[k] is read past its end.        *)
TooManyDirectories ==
  /\ mpc = "bind" /\ dirs \ visited # {}
  /\ Cardinality(visited) >= worker_num
  /\ mpc' = "out_of_bounds"
  /\ UNCHANGED <<dirs, division, worker_num, mustVisit, visited, dbVars, queueVars,
                 workerVars, finds, restarts, history>>

(* assert(k == worker_num) after the last entry.                           *)
CloseSyncDir ==
  /\ mpc = "bind" /\ mustVisit \subseteq visited
  /\ Cardinality(visited) = worker_num
  /\ mpc' = "idle"
  /\ UNCHANGED <<dirs, division, worker_num, mustVisit, visited, dbVars, queueVars,
                 workerVars, finds, restarts, history>>

(* send_seed_to_cluster for subdomain k: LLEN, and RPUSH to a queue that   *)
(* is not full.  Nobody else appends, so the two commands make one step.   *)
send_seed_to_cluster(k) ==
  /\ mpc = "idle" /\ k < worker_num /\ load_balance_queue[k] < 5
  /\ balanced < MaxBalance /\ balanced' = balanced + 1
  /\ load_balance_queue' = [load_balance_queue EXCEPT ![k] = @ + 1]
  /\ UNCHANGED <<dirs, masterVars, dbVars, coop_queue, workerVars, finds, restarts, history>>

Master ==
  \/ get_instance_num \/ OpenSyncDir
  \/ \E w \in Worker : save_one_subdomain_to_db(w)
  \/ TooManyDirectories \/ CloseSyncDir
  \/ \E k \in Id : send_seed_to_cluster(k)

-----------------------------------------------------------------------------
(* A worker, one iteration of the main loop: fuzz, coop, poll, after a     *)
(* positive poll read, clear, scan, and then balance.                      *)

(* A worker that starts, or starts again after a crash, has no subdomain.  *)
StartWorker(w) ==
  /\ wpc[w] \in {"off", "abort"} /\ Goto(w, "fuzz")
  /\ dirs' = dirs \union {w}
  /\ sd' = [sd EXCEPT ![w] = NoTask] /\ sd_r' = [sd_r EXCEPT ![w] = None]
  /\ subdomain_array' = [subdomain_array EXCEPT ![w] = [v \in {} |-> NoTask]]
  /\ toScan' = [toScan EXCEPT ![w] = {}] /\ taken' = [taken EXCEPT ![w] = {}]
  /\ UNCHANGED <<masterVars, dbVars, queueVars, finds, restarts, history>>

Crash(w, p) ==
  /\ Goto(w, p)
  /\ crashed' = IF if_new_subdomain[w] = 0 THEN crashed \union {w} ELSE crashed
  /\ UNCHANGED <<dirs, masterVars, dbVars, coop_queue, balanced, sd, sd_r, subdomain_array,
                 toScan, taken, raced, early>>

CrashWorker(w) ==
  /\ wpc[w] \notin {"off", "abort"} /\ restarts < MaxRestarts
  /\ restarts' = restarts + 1 /\ Crash(w, "off") /\ UNCHANGED <<load_balance_queue, finds>>

(* save_if_interesting for a find outside the radius reads the center of   *)
(* every entry but the one at position sd.id, wherever SCAN has put it.  A *)
(* worker whose table has an entry without a center dies of it, unless     *)
(* that is the one it passes over.                                         *)
NoCenter(w) == {v \in DOMAIN subdomain_array[w] : subdomain_array[w][v] = NoTask}

MissingCenter(w) ==
  /\ wpc[w] = "fuzz" /\ sd[w] # NoTask /\ NoCenter(w) # {}
  /\ Crash(w, "off") /\ UNCHANGED <<load_balance_queue, finds, restarts>>

FindOutside(w) ==
  /\ wpc[w] = "fuzz" /\ sd[w] # NoTask /\ (\A u, v \in NoCenter(w) : u = v)
  /\ finds < MaxFinds /\ finds' = finds + 1

(* Nearest to itself: the radius grows.                                    *)
WidenRadius(w) ==
  /\ FindOutside(w)
  /\ sd_r' = [sd_r EXCEPT ![w] = Grown]
  /\ radius' = [radius EXCEPT ![w] = Garbage]
  /\ UNCHANGED <<dirs, masterVars, task, if_new_subdomain, queueVars, wpc, sd,
                 subdomain_array, toScan, taken, restarts, history>>

(* Nearer to the center of the table entry v: never the worker's own       *)
(* center, but the own key may have been read one division later than the  *)
(* subdomain.                                                              *)
SendSeed(w, v) ==
  LET to == subdomain_array[w][v] IN
  /\ FindOutside(w)
  /\ v \in DOMAIN subdomain_array[w] /\ to \notin {NoTask, sd[w]}
  /\ coop_queue' = [coop_queue EXCEPT ![to.id] = Append(@, to)]
  /\ UNCHANGED <<dirs, masterVars, dbVars, load_balance_queue, balanced, workerVars,
                 restarts, history>>

(* LLEN coop_queue_<sd.id>; a worker without a subdomain asks for id 0.    *)
EndFuzzOne(w) ==
  /\ wpc[w] = "fuzz"
  /\ Goto(w, IF coop_queue[sd[w].id] = << >> THEN "poll" ELSE "coop")
  /\ UNCHANGED <<dirs, masterVars, dbVars, queueVars, sd, sd_r, subdomain_array, toScan,
                 taken, finds, restarts, history>>

(* do_cooperation: LPOP until the list is empty.                           *)
PopSeed(w) ==
  LET q == coop_queue[sd[w].id] IN
  /\ wpc[w] = "coop" /\ q # << >>
  /\ coop_queue' = [coop_queue EXCEPT ![sd[w].id] = Tail(q)]
  /\ taken' = [taken EXCEPT ![w] = @ \union {Head(q)}]
  /\ UNCHANGED <<dirs, masterVars, dbVars, load_balance_queue, balanced, wpc, sd, sd_r,
                 subdomain_array, toScan, finds, restarts, history>>

(* The end of do_cooperation.  A kept seed outside the radius widens it;   *)
(* without a center every kept seed counts as DBL_MAX away.                *)
EndCooperation(w) ==
  /\ wpc[w] = "coop" /\ coop_queue[sd[w].id] = << >>
  /\ Goto(w, "poll")
  /\ \/ UNCHANGED <<radius, sd_r>>
     \/ /\ taken[w] # {}
        /\ sd_r' = [sd_r EXCEPT ![w] = Grown]
        /\ radius' = [radius EXCEPT ![w] = Garbage]
  /\ taken' = [taken EXCEPT ![w] = {}]
  /\ UNCHANGED <<dirs, masterVars, task, if_new_subdomain, queueVars, sd, subdomain_array,
                 toScan, finds, restarts, history>>

if_need_update_subdomain(w) ==
  /\ wpc[w] = "poll"
  /\ Goto(w, IF if_new_subdomain[w] = 1 THEN "read" ELSE "balance")
  /\ UNCHANGED <<dirs, masterVars, dbVars, queueVars, sd, sd_r, subdomain_array, toScan,
                 taken, finds, restarts, history>>

(* HGETALL of the own key, then the queue is re-evaluated.                 *)
OwnSubdomain(w) == task[w]

update_subdomain(w) ==
  /\ wpc[w] = "read" /\ Goto(w, "clear")
  /\ sd' = [sd EXCEPT ![w] = OwnSubdomain(w)]
  /\ sd_r' = [sd_r EXCEPT ![w] = radius[w]]
  /\ raced' = raced \ {w}
  /\ UNCHANGED <<dirs, masterVars, dbVars, queueVars, subdomain_array, toScan, taken, finds,
                 restarts, crashed, early>>

change_subdomain_state(w) ==
  /\ wpc[w] = "clear" /\ Goto(w, "keys")
  /\ if_new_subdomain' = [if_new_subdomain EXCEPT ![w] = 0]
  /\ UNCHANGED <<dirs, masterVars, task, radius, queueVars, sd, sd_r, subdomain_array,
                 toScan, taken, finds, restarts, history>>

(* get_all_subdomain_from_db: SCAN returns every key that exists all the   *)
(* time and perhaps one created meanwhile; each key is read by HGETALL.    *)
(* The table is overwritten, not cleared.                                  *)
StartScan(w) ==
  /\ wpc[w] = "keys" /\ Goto(w, "scan")
  /\ toScan' = [toScan EXCEPT ![w] = Keys]
  /\ early' = IF mpc = "idle" THEN early \ {w} ELSE early \union {w}
  /\ UNCHANGED <<dirs, masterVars, dbVars, queueVars, sd, sd_r, subdomain_array, taken,
                 finds, restarts, raced, crashed>>

(* A key with a radius only sets neither the center nor the id of the      *)
(* entry: they stay zero, or what an earlier scan left at that position.   *)
ReadEntry(w, v) ==
  IF task[v] # NoTask THEN {task[v]}
  ELSE {NoTask} \union {subdomain_array[w][u] : u \in DOMAIN subdomain_array[w]}

ScanKey(w, v) ==
  LET table == subdomain_array[w] IN
  /\ wpc[w] = "scan" /\ v \in toScan[w] \union (Keys \ DOMAIN table)
  /\ toScan' = [toScan EXCEPT ![w] = @ \ {v}]
  /\ \E e \in ReadEntry(w, v) :
       subdomain_array' = [subdomain_array EXCEPT
         ![w] = [u \in DOMAIN table \union {v} |-> IF u = v THEN e ELSE table[u]]]
  /\ UNCHANGED <<dirs, masterVars, dbVars, queueVars, wpc, sd, sd_r, taken,
                 finds, restarts, history>>

(* SCAN is repeated until its cursor is 0.                                 *)
MutantCursorIsZero(w) == TRUE
CursorIsZero(w) == toScan[w] = {}

EndScan(w) ==
  /\ wpc[w] = "scan" /\ CursorIsZero(w)
  /\ Goto(w, "balance")
  /\ UNCHANGED <<dirs, masterVars, dbVars, queueVars, sd, sd_r, subdomain_array, toScan,
                 taken, finds, restarts, history>>

(* get_LBqueue_size: LLEN load_balance_queue_<sd.id>.                      *)
get_LBqueue_size(w) ==
  /\ wpc[w] = "balance"
  /\ Goto(w, IF load_balance_queue[sd[w].id] > 0 THEN "pop" ELSE "fuzz")
  /\ UNCHANGED <<dirs, masterVars, dbVars, queueVars, sd, sd_r, subdomain_array, toScan,
                 taken, finds, restarts, history>>

(* do_load_balance: LPOP, and assert(reply->type == REDIS_REPLY_STRING).   *)
do_load_balance(w) ==
  /\ wpc[w] = "pop"
  /\ IF load_balance_queue[sd[w].id] = 0
     THEN Crash(w, "abort") /\ UNCHANGED load_balance_queue
     ELSE /\ Goto(w, "fuzz")
          /\ load_balance_queue' = [load_balance_queue EXCEPT ![sd[w].id] = @ - 1]
          /\ UNCHANGED <<dirs, masterVars, dbVars, coop_queue, balanced, sd, sd_r,
                         subdomain_array, toScan, taken, history>>
  /\ UNCHANGED <<finds, restarts>>

(* The control steps of the loop, which nothing can hold up.               *)
WorkerLoop(w) ==
  \/ EndFuzzOne(w) \/ PopSeed(w) \/ EndCooperation(w)
  \/ if_need_update_subdomain(w) \/ update_subdomain(w) \/ change_subdomain_state(w)
  \/ StartScan(w) \/ (\E v \in Worker : ScanKey(w, v)) \/ EndScan(w)
  \/ get_LBqueue_size(w) \/ do_load_balance(w)

Next ==
  \/ Master
  \/ \E w \in Worker :
       \/ WorkerLoop(w) \/ StartWorker(w) \/ CrashWorker(w)
       \/ MissingCenter(w) \/ WidenRadius(w) \/ \E v \in Worker : SendSeed(w, v)

Spec == Init /\ [][Next]_vars

(* A division, once started, and every running worker's loop go on; a      *)
(* crashed worker is restarted.                                            *)
FairSpec ==
  /\ Spec
  /\ WF_vars(Master /\ mpc # "idle")
  /\ \A w \in Worker : WF_vars(WorkerLoop(w)) /\ WF_vars(w \in dirs /\ StartWorker(w))

-----------------------------------------------------------------------------
(* Correctness.                                                            *)

Loop == {"fuzz", "coop", "poll", "read", "clear", "keys", "scan", "balance", "pop"}

(* Types.                                                                  *)
TypeOK ==
  /\ dirs \subseteq Worker
  /\ mpc \in {"idle", "cluster", "bind", "out_of_bounds"}
  /\ division \in 0 .. MaxDivisions /\ worker_num \in 0 .. Cardinality(Worker)
  /\ mustVisit \subseteq dirs /\ visited \subseteq dirs
  /\ task \in [Worker -> Task \union {NoTask}]
  /\ radius \in [Worker -> {Garbage, None} \union Division]
  /\ if_new_subdomain \in [Worker -> 0 .. 1]
  /\ coop_queue \in [Id -> Seq(Task)]
  /\ load_balance_queue \in [Id -> Nat] /\ balanced \in 0 .. MaxBalance
  /\ wpc \in [Worker -> Loop \union {"off", "abort"}]
  /\ sd \in [Worker -> Task \union {NoTask}]
  /\ sd_r \in [Worker -> {Garbage, None, Grown} \union Division]
  /\ subdomain_array \in [Worker -> Table]
  /\ toScan \in [Worker -> SUBSET Worker] /\ taken \in [Worker -> SUBSET Task]
  /\ finds \in 0 .. MaxFinds /\ restarts \in 0 .. MaxRestarts
  /\ raced \subseteq Worker /\ crashed \subseteq Worker /\ early \subseteq Worker

(* README "each subdomain is assigned to a dedicated fuzzing instance": no *)
(* subdomain of a division is explored by two workers, whatever the order  *)
(* of publications, polls and crashes.                                     *)
NoSharedSubdomain ==
  \A v, w \in Worker : sd[v] = sd[w] /\ sd[v] # NoTask => v = w

(* A worker only works on what the master published under its own name:    *)
(* the current content of its key, or an older division.                   *)
OwnTaskOrOlder ==
  \A w \in Worker : sd[w] = task[w] \/ sd[w].division < task[w].division

(* There are two ways to miss a division and no third: it was written      *)
(* between the worker's HGETALL and the HSET that clears the flag          *)
(* (afl-fuzz.c:3293 and 3296), or the worker crashed after the HSET.  Any  *)
(* other worker whose flag is 0 is on its current subdomain, however many  *)
(* divisions overlap with its loop.                                        *)
UpdatesAreLostOnlyInTheWindow ==
  \A w \in Worker :
    /\ wpc[w] = "fuzz" /\ if_new_subdomain[w] = 0 /\ task[w] # NoTask
    /\ w \notin raced \union crashed
    => sd[w] = task[w]

(* afl-fuzz.c:3285 "there is a new task to take over": a worker whose flag *)
(* is 0 is on its current task.                                            *)
SettledWorkersAreCurrent ==
  \A w \in Worker :
    wpc[w] = "fuzz" /\ if_new_subdomain[w] = 0 /\ task[w] # NoTask => sd[w] = task[w]

(* A subdomain the master publishes is taken up by its worker, unless the  *)
(* update was lost in one of these two ways.                               *)
EveryTaskIsAdopted ==
  \A w \in Worker :
    (task[w].division = division /\ division > 0)
      ~> (sd[w] = task[w] \/ w \in raced \union crashed)

(* afl-fuzz.c:3298 "synchronise all task regions": once a division is out, *)
(* a worker that has adopted it knows the subdomains of all workers.       *)
KnowsAllSubdomains(w) ==
  \A v \in visited : v \in DOMAIN subdomain_array[w] /\ subdomain_array[w][v] = task[v]

TableIsComplete ==
  mpc = "idle" =>
    \A w \in Worker :
      wpc[w] = "fuzz" /\ sd[w] # NoTask /\ sd[w].division = division => KnowsAllSubdomains(w)

(* The only tables that stay incomplete for a division are those a worker  *)
(* began to read while the master was still publishing it.  Every other    *)
(* worker on the current division has them all, whichever keys SCAN        *)
(* returns first, and however old the entries it overwrites.               *)
LateReadersKnowAll ==
  \A w \in Worker :
    wpc[w] = "fuzz" /\ sd[w] # NoTask /\ sd[w].division = division /\ w \notin early
    => KnowsAllSubdomains(w)

(* parallel.c:1760 assert(reply->type == REDIS_REPLY_STRING): the seed     *)
(* counted by LLEN is still there for LPOP.                                *)
NoAssertionFails == \A w \in Worker : wpc[w] # "abort"

(* parallel.c:1072 assert(k == worker_num): a division has as many         *)
(* subdomains as directories are given one.                                *)
DirectoriesAreCounted == mpc # "out_of_bounds"
=============================================================================
