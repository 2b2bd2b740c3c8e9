---------------------------- MODULE Cooperation ----------------------------
(***************************************************************************)
(* Where the seeds of one worker belong.  The worker has a subdomain (a    *)
(* center and a radius) and the table of all subdomains; a seed it finds   *)
(* outside its radius either widens the radius or is handed to a nearer    *)
(* worker, and every seed of its queue is marked in_subdomain or not, for  *)
(* the seed selection.  The module follows the worker's main loop: fuzz    *)
(* (perhaps a load-balancing seed), do_cooperation, update_subdomain with  *)
(* its synchronisation, and the start of the next load-balancing task.     *)
(* What other processes put into the queues and keys is any seed, any      *)
(* subdomain of Assignments and any radius.  A table with an entry that    *)
(* has no center ends the worker; SubdomainProtocol has that case.         *)
(***************************************************************************)
EXTENDS Integers, Sequences

CONSTANTS
  Point,         \* traces (trace_mini)
  Dist(_, _),    \* get_trace_mini_distance
  MaxDist,       \* the largest distance
  NoPoint,       \* a NULL center
  Assignments,   \* what an adoption may read: own id and center, the table
  MaxQueue,      \* bound: seeds in the queue
  MaxDivisions   \* bound: adoptions in a behaviour

ASSUME CooperationAssumption ==
  /\ NoPoint \notin Point
  /\ MaxDist \in Nat /\ MaxQueue \in Nat \ {0} /\ MaxDivisions \in Nat
  /\ \A p, q \in Point : Dist(p, q) \in 0 .. MaxDist
  /\ \A a \in Assignments :
       a \in [id : Nat, center : Point, table : Seq([id : Nat, center : Point])]

DBL_MAX == MaxDist + 2
Radius  == 0 .. MaxDist + 1   \* a stored radius; MaxDist + 1 is beyond every seed
NoSeed  == [id |-> -1, trace |-> NoPoint]
Entry   == [trace : Point, center_deviation : 0 .. DBL_MAX, in_subdomain : BOOLEAN]

VARIABLES
  pc,               \* position in the main loop
  id, center, r,    \* afl->sd
  subdomain_array,  \* the table, in the order SCAN returned the keys
  queue,            \* queue_buf
  LB_seed,          \* position of the load-balancing seed, 0 without one
  adjust_r,         \* do_cooperation's largest deviation, -1 for -DBL_MAX
  pushed,           \* what the last found seed pushed to a coop_queue
  divisions

sdVars == <<id, center, r, subdomain_array, divisions>>
vars   == <<pc, sdVars, queue, LB_seed, adjust_r, pushed>>

Init ==
  /\ pc = "fuzz"
  /\ id = 0 /\ center = NoPoint /\ r = 0 /\ subdomain_array = << >>
  /\ \E p \in Point :
       queue = <<[trace |-> p, center_deviation |-> DBL_MAX, in_subdomain |-> FALSE]>>
  /\ LB_seed = 0 /\ adjust_r = -1 /\ pushed = NoSeed /\ divisions = 0

-----------------------------------------------------------------------------
(* The parts of save_if_interesting.                                       *)

Deviation(p) == IF center = NoPoint THEN DBL_MAX ELSE Dist(center, p)

Inside(d, radius) == center # NoPoint /\ d <= radius

Outside(p) == center # NoPoint /\ Dist(center, p) > r

(* add_to_queue and the deviation of the new seed, with the current radius *)
(* passed as radius.                                                       *)
Added(q, p, radius) ==
  Append(q, [trace |-> p, center_deviation |-> Deviation(p),
             in_subdomain |-> Inside(Deviation(p), radius)])

(* Seeds within the new radius move into the subdomain.                    *)
MutantMoveIn(q, radius) == q
MoveIn(q, radius) ==
  [i \in 1 .. Len(q) |->
     [q[i] EXCEPT !.in_subdomain = @ \/ q[i].center_deviation <= radius]]

(* "select one worker to send": the first nearest of the entries with an   *)
(* index other than sd.id that are nearer than the own center.             *)
Nearer(p) ==
  {k \in 1 .. Len(subdomain_array) :
     k - 1 # id /\ Dist(subdomain_array[k].center, p) < Dist(center, p)}

MutantSendTo(k, p) == \A j \in Nearer(p) : k <= j
SendTo(k, p) ==
  \A j \in Nearer(p) :
    LET dj == Dist(subdomain_array[j].center, p)
        dk == Dist(subdomain_array[k].center, p)
    IN dk < dj \/ (dk = dj /\ k <= j)

-----------------------------------------------------------------------------
(* The main loop.                                                          *)

(* fuzz_one finds a seed.  Outside the radius it is handed to a nearer     *)
(* worker or widens the radius; in every case it also joins the queue.     *)
FindSeed(p) ==
  /\ pc = "fuzz" /\ Len(queue) < MaxQueue
  /\ \/ /\ ~ Outside(p)
        /\ queue' = Added(queue, p, r)
        /\ pushed' = NoSeed /\ UNCHANGED r
     \/ /\ Outside(p) /\ Nearer(p) = {}
        /\ r' = Dist(center, p)
        /\ queue' = Added(MoveIn(queue, r'), p, r')
        /\ pushed' = NoSeed
     \/ /\ Outside(p)
        /\ \E k \in Nearer(p) :
             SendTo(k, p) /\ pushed' = [id |-> subdomain_array[k].id, trace |-> p]
        /\ queue' = Added(queue, p, r)
        /\ UNCHANGED r
  /\ UNCHANGED <<pc, id, center, subdomain_array, divisions, LB_seed, adjust_r>>

MutantWithout(q, i) == SubSeq(q, 1, i - 1)
Without(q, i) == SubSeq(q, 1, i - 1) \o SubSeq(q, i + 1, Len(q))

(* After fuzz_one the load-balancing seed is deleted and later seeds move  *)
(* up.  Then coop_queue_<id> is found empty or not.                        *)
EndFuzzOne ==
  /\ pc = "fuzz" /\ pc' \in {"coop", "poll"}
  /\ queue' = IF LB_seed = 0 THEN queue ELSE Without(queue, LB_seed)
  /\ LB_seed' = 0 /\ adjust_r' = -1 /\ pushed' = NoSeed
  /\ UNCHANGED sdVars

(* do_cooperation keeps a popped seed.                                     *)
TakeSeed(p) ==
  /\ pc = "coop" /\ Len(queue) < MaxQueue
  /\ queue' = Added(queue, p, r)
  /\ adjust_r' = IF Deviation(p) > adjust_r THEN Deviation(p) ELSE adjust_r
  /\ UNCHANGED <<pc, sdVars, LB_seed, pushed>>

EndCooperation ==
  /\ pc = "coop" /\ pc' = "poll"
  /\ \/ adjust_r <= r /\ UNCHANGED <<r, queue>>
     \/ adjust_r > r /\ r' = adjust_r /\ queue' = MoveIn(queue, r')
  /\ adjust_r' = -1
  /\ UNCHANGED <<id, center, subdomain_array, divisions, LB_seed, pushed>>

(* update_subdomain: every seed is measured from the new center.           *)
MutantMeasured(c, radius) ==
  [i \in 1 .. Len(queue) |->
     [queue[i] EXCEPT !.in_subdomain = queue[i].center_deviation <= radius]]
Measured(c, radius) ==
  [i \in 1 .. Len(queue) |->
     [queue[i] EXCEPT !.center_deviation = Dist(c, queue[i].trace),
                      !.in_subdomain = Dist(c, queue[i].trace) <= radius]]

(* A new subdomain is adopted, with whatever radius its key holds, and the *)
(* table is read.                                                          *)
update_subdomain(a, radius) ==
  /\ pc = "poll" /\ pc' = "sync" /\ divisions < MaxDivisions
  /\ id' = a.id /\ center' = a.center /\ r' = radius
  /\ subdomain_array' = a.table
  /\ queue' = Measured(a.center, radius)
  /\ divisions' = divisions + 1
  /\ UNCHANGED <<LB_seed, adjust_r, pushed>>

NoUpdate ==
  /\ pc = "poll" /\ pc' = "balance"
  /\ UNCHANGED <<sdVars, queue, LB_seed, adjust_r, pushed>>

(* sync_subdomain_seeds_from_db keeps a seed, after an adoption or on the  *)
(* periodic call at the end of the loop.                                   *)
SyncSeed(p) ==
  /\ pc \in {"sync", "resync"} /\ center # NoPoint /\ Len(queue) < MaxQueue
  /\ queue' = Added(queue, p, r)
  /\ UNCHANGED <<pc, sdVars, LB_seed, adjust_r, pushed>>

EndSync ==
  /\ \/ pc = "sync" /\ pc' = "balance"
     \/ pc = "resync" /\ pc' = "fuzz"
  /\ UNCHANGED <<sdVars, queue, LB_seed, adjust_r, pushed>>

(* do_load_balance adds the popped seed by force, without a deviation.     *)
do_load_balance(p) ==
  /\ pc = "balance" /\ pc' = "resync" /\ Len(queue) < MaxQueue
  /\ queue' = Append(queue, [trace |-> p, center_deviation |-> DBL_MAX,
                             in_subdomain |-> FALSE])
  /\ LB_seed' = Len(queue')
  /\ UNCHANGED <<sdVars, adjust_r, pushed>>

NoBalance ==
  /\ pc = "balance" /\ pc' = "resync"
  /\ UNCHANGED <<sdVars, queue, LB_seed, adjust_r, pushed>>

Next ==
  \/ \E p \in Point : FindSeed(p) \/ TakeSeed(p) \/ SyncSeed(p) \/ do_load_balance(p)
  \/ \E a \in Assignments, radius \in Radius : update_subdomain(a, radius)
  \/ EndFuzzOne \/ EndCooperation \/ NoUpdate \/ EndSync \/ NoBalance

Spec == Init /\ [][Next]_vars

-----------------------------------------------------------------------------
(* Correctness.                                                            *)

(* Types.                                                                  *)
TypeOK ==
  /\ pc \in {"fuzz", "coop", "poll", "sync", "balance", "resync"}
  /\ id \in Nat /\ center \in Point \union {NoPoint} /\ r \in 0 .. DBL_MAX
  /\ subdomain_array \in Seq([id : Nat, center : Point])
  /\ queue \in Seq(Entry) /\ Len(queue) <= MaxQueue
  /\ LB_seed \in 0 .. Len(queue)
  /\ adjust_r \in -1 .. DBL_MAX
  /\ pushed = NoSeed \/ pushed \in [id : Nat, trace : Point]
  /\ divisions \in 0 .. MaxDivisions

(* The marks used by the seed selection are exact: while the worker has a  *)
(* subdomain, a seed of its queue is marked in_subdomain if and only if it *)
(* lies within the current radius, however the radius grew in between      *)
(* (afl-fuzz-bitmap.c:831, parallel.c:1707).                               *)
MarksMatchRadius ==
  center # NoPoint =>
    \A i \in 1 .. Len(queue) :
      queue[i].in_subdomain <=> queue[i].center_deviation <= r

(* Deviations are never those of an earlier center: except for the         *)
(* load-balancing seed, each is the distance to the present center.        *)
DeviationsAreCurrent ==
  center # NoPoint =>
    \A i \in 1 .. Len(queue) :
      i # LB_seed => queue[i].center_deviation = Dist(center, queue[i].trace)

(* afl-fuzz.c:3152: a load-balancing seed is never in the subdomain.       *)
LBSeedNotInSubdomain == LB_seed # 0 => ~ queue[LB_seed].in_subdomain

(* Within a division a seed never leaves the subdomain and the radius      *)
(* never shrinks.                                                          *)
SeedsStayInSubdomain ==
  [][divisions' = divisions =>
       /\ r' >= r
       /\ \A i \in 1 .. Len(queue) :
            queue[i].in_subdomain =>
              \E j \in 1 .. Len(queue') : queue'[j] = queue[i]]_vars

(* The found seed p goes to the nearest of the centers in the places K of  *)
(* the table, or nowhere if the own center is as near.                     *)
GoesToNearest(p, K) ==
  LET d(k) == Dist(subdomain_array[k].center, p)
  IN \/ pushed' = NoSeed /\ \A k \in K : Dist(center, p) <= d(k)
     \/ \E k \in K : /\ pushed' = [id |-> subdomain_array[k].id, trace |-> p]
                     /\ \A j \in K : d(k) <= d(j)

(* "send to nearest medious" (afl-fuzz-bitmap.c:582): a found seed outside *)
(* the radius goes to the subdomain with the nearest center, its own if no *)
(* other is nearer.                                                        *)
SentToNearestMedoid ==
  [][LET p == queue'[Len(queue')].trace
     IN pc = "fuzz" /\ pc' = "fuzz" /\ Outside(p) =>
          GoesToNearest(p, 1 .. Len(subdomain_array))]_vars

(* In whatever order SCAN returned the keys, a seed misses the nearest     *)
(* center only if that is in the place that has the worker's own number,   *)
(* which the loop skips (afl-fuzz-bitmap.c:604); it then goes to the       *)
(* nearest of the others.                                                  *)
OnlyOwnPlaceIsMissed ==
  [][LET p == queue'[Len(queue')].trace
         places == 1 .. Len(subdomain_array)
     IN pc = "fuzz" /\ pc' = "fuzz" /\ Outside(p) =>
          \/ GoesToNearest(p, places)
          \/ /\ id + 1 \in places
             /\ Dist(subdomain_array[id + 1].center, p) < Dist(center, p)
             /\ GoesToNearest(p, places \ {id + 1})]_vars
=============================================================================
