--------------------------- MODULE DomainDivision ---------------------------
(***************************************************************************)
(* One division of the input domain by the master                          *)
(* (input_domain_division_k_medoids, src/parallel.c): choose one center    *)
(* per worker, iterate k-medoids, compute the radii and store the label    *)
(* of every seed.  The division reads the distance matrix in whatever      *)
(* state the incremental service left it: a seed may have been disabled    *)
(* after its row was published, and newer seeds have no row yet.           *)
(***************************************************************************)
EXTENDS Integers, FiniteSetsExt

CONSTANTS
  MaxSeeds,      \* bound: length of the master's queue
  MaxTail,       \* bound: queue entries that have no row yet
  MaxWorkers,    \* bound: worker directories in the sync directory
  MaxIter,       \* iteration limit of the k-medoids loop (100 in the code)
  Matrices,      \* the trace distances a behaviour may start from
  MaxDisabled,   \* bound: disabled seeds
  OldNums,       \* values of subdomain_num before the division
  OldLabels,     \* labels a seed may carry from the previous division
  OldCenters,    \* bound: seeds that may be a center of the previous division
  MaxNotSync     \* bound: seeds with not_sync

Index   == 0 .. MaxSeeds - 1
Pair    == {p \in Index \X Index : p[1] < p[2]}
MAX     == -1    \* UINT32_MAX, "no subdomain"
NoSeed  == -1    \* a NULL center
Label   == MAX .. MaxWorkers - 1

ASSUME DivisionAssumption ==
  /\ MaxSeeds \in Nat /\ MaxTail \in Nat /\ MaxWorkers \in Nat /\ MaxIter \in Nat \ {0}
  /\ Matrices \subseteq [Pair -> Nat]
  /\ OldNums \subseteq Nat /\ OldLabels \subseteq Label

VARIABLES
  pc,                   \* step of the division
  worker_num,           \* get_instance_num
  seed_num,             \* last_dist_queue_buf_len when the division starts
  queued_items,
  traceDist, dist,      \* true trace distances; the matrix the code reads
  disabled, not_sync,   \* sets of queue indices
  subdomain_id, is_center,
  center, chosen,       \* centers of c_arr; how many are chosen
  need_update_medoid,   \* set of clusters
  iter, is_converged,
  items, r, contribute,
  subdomain_num         \* length of subdomain_array before this division

input  == <<worker_num, seed_num, queued_items, traceDist, dist, disabled, not_sync,
            subdomain_num>>
result == <<items, r>>
vars   == <<pc, input, subdomain_id, is_center, center, chosen, need_update_medoid,
            iter, is_converged, result, contribute>>

Cluster == 0 .. worker_num - 1
Ready == 0 .. seed_num - 1
Queue == 0 .. queued_items - 1
ReadyPair == {p \in Pair : p[2] < seed_num}

(* The matrix is what ReadyPairsComputed of DistanceService promises: the  *)
(* true distance, or -1 if one of the two seeds was already disabled.      *)
(* Seeds without a row have no distances, written 0 here; none is read.    *)
Init ==
  /\ pc = "start"
  /\ worker_num \in 1 .. MaxWorkers
  /\ seed_num \in 1 .. MaxSeeds
  /\ queued_items \in seed_num .. Min({MaxSeeds, seed_num + MaxTail})
  /\ \E m \in Matrices : traceDist = [p \in Pair |-> IF p \in ReadyPair THEN m[p] ELSE 0]
  /\ disabled \in {s \in SUBSET Queue : Cardinality(s) <= MaxDisabled}
  /\ \E unknown \in SUBSET {p \in ReadyPair : p[1] \in disabled \/ p[2] \in disabled} :
       dist = [p \in Pair |-> IF p \in unknown THEN -1 ELSE traceDist[p]]
  /\ not_sync \in {s \in SUBSET Queue : Cardinality(s) <= MaxNotSync}
  /\ subdomain_num \in OldNums
  /\ subdomain_id \in [Queue -> IF subdomain_num = 0 THEN {MAX} ELSE OldLabels]
  /\ is_center \in {{}} \union {{i} : i \in {j \in Ready \intersect OldCenters : subdomain_id[j] # MAX}}
  /\ center = [k \in Cluster |-> NoSeed] /\ chosen = 0
  /\ need_update_medoid = {} /\ iter = 0 /\ is_converged = FALSE
  /\ items = [k \in Cluster |-> {}] /\ r = [k \in Cluster |-> 0]
  /\ contribute = [k \in Cluster |-> 0]

get_distance_from_matrix(i, j) ==
  IF i = j THEN 0 ELSE IF i < j THEN dist[<<i, j>>] ELSE dist[<<j, i>>]

-----------------------------------------------------------------------------
(* Reset of the previous division; a single worker is not given a task.    *)
(* Only the old entries of subdomain_array get contribute = 1; the entries *)
(* added by afl_realloc are zero.                                          *)
MutantResetSeeds == [i \in Queue |-> IF i \in Ready \ disabled THEN MAX ELSE subdomain_id[i]]
ResetSeeds == [i \in Queue |-> IF i \in Ready THEN MAX ELSE subdomain_id[i]]

Start ==
  /\ pc = "start" /\ worker_num > 1
  /\ subdomain_id' = ResetSeeds
  /\ is_center' = is_center \ Ready
  /\ contribute' = [k \in Cluster |-> IF k < subdomain_num THEN 1 ELSE 0]
  /\ pc' = IF seed_num > 2 THEN "first" ELSE "assert_seed_num"
  /\ UNCHANGED <<input, center, chosen, need_update_medoid, iter, is_converged, result>>

SingleWorker ==
  /\ pc = "start" /\ worker_num <= 1
  /\ pc' = "not_divided"
  /\ UNCHANGED <<input, subdomain_id, is_center, center, chosen, need_update_medoid,
                 iter, is_converged, result, contribute>>

-----------------------------------------------------------------------------
(* get_domain_center: the two seeds farthest apart, disabled or not, then  *)
(* the enabled seed farthest from the centers chosen so far.               *)

ScannedBefore(p, q) == p[2] < q[2] \/ (p[2] = q[2] /\ p[1] < q[1])

IsFarthestPair(p) ==
  \A q \in ReadyPair \ {p} :
    dist[q] < dist[p] \/ (dist[q] = dist[p] /\ ScannedBefore(p, q))

MakeCenter(i, k) ==
  /\ center' = [center EXCEPT ![k] = i]
  /\ subdomain_id' = [subdomain_id EXCEPT ![i] = k]
  /\ is_center' = is_center \union {i}

FirstTwoCenters ==
  /\ pc = "first" /\ pc' = "centers"
  /\ \E p \in ReadyPair :
       /\ IsFarthestPair(p)
       /\ center' = [center EXCEPT ![0] = p[1], ![1] = p[2]]
       /\ subdomain_id' = [subdomain_id EXCEPT ![p[1]] = 0, ![p[2]] = 1]
       /\ is_center' = is_center \union {p[1], p[2]}
  /\ chosen' = 2
  /\ UNCHANGED <<input, need_update_medoid, iter, is_converged, result, contribute>>

MutantCandidates == (Ready \ disabled) \ (is_center \union {seed_num - 1})
Candidates == (Ready \ disabled) \ is_center

CenterDistance(j) ==
  Min({get_distance_from_matrix(j, center[k]) : k \in 0 .. chosen - 1})

NextCenter ==
  /\ pc = "centers" /\ chosen < worker_num
  /\ \E j \in Candidates :
       /\ \A i \in Candidates \ {j} :
            \/ CenterDistance(i) < CenterDistance(j)
            \/ CenterDistance(i) = CenterDistance(j) /\ j < i
       /\ MakeCenter(j, chosen)
  /\ chosen' = chosen + 1
  /\ UNCHANGED <<pc, input, need_update_medoid, iter, is_converged, result, contribute>>

(* FATAL("not select one seed to init medoids!")                           *)
NoCandidate ==
  /\ pc = "centers" /\ chosen < worker_num /\ Candidates = {}
  /\ pc' = "fatal"
  /\ UNCHANGED <<input, subdomain_id, is_center, center, chosen, need_update_medoid,
                 iter, is_converged, result, contribute>>

-----------------------------------------------------------------------------
(* assign_points_to_clusters: centers and disabled seeds keep their label. *)

Movable == (Ready \ disabled) \ is_center

MutantIsNearest(i, k) ==
  \A l \in Cluster \ {k} :
    \/ get_distance_from_matrix(i, center[k]) > get_distance_from_matrix(i, center[l])
    \/ /\ get_distance_from_matrix(i, center[k]) = get_distance_from_matrix(i, center[l])
       /\ k < l

IsNearest(i, k) ==
  \A l \in Cluster \ {k} :
    \/ get_distance_from_matrix(i, center[k]) < get_distance_from_matrix(i, center[l])
    \/ /\ get_distance_from_matrix(i, center[k]) = get_distance_from_matrix(i, center[l])
       /\ k < l

MutantMarksMax(new) ==
  LET moved == {i \in Movable : new[i] # subdomain_id[i]}
  IN {new[i] : i \in moved} \union {subdomain_id[i] : i \in moved}

ChangedClusters(new) ==
  LET moved == {i \in Movable : new[i] # subdomain_id[i]}
  IN {new[i] : i \in moved} \union ({subdomain_id[i] : i \in moved} \ {MAX})

assign_points_to_clusters ==
  /\ (pc = "centers" /\ chosen = worker_num) \/ pc = "assign"
  /\ pc' = "update"
  /\ \E new \in [Movable -> Cluster] :
       /\ \A i \in Movable : IsNearest(i, new[i])
       /\ subdomain_id' = [i \in Queue |-> IF i \in Movable THEN new[i] ELSE subdomain_id[i]]
       /\ need_update_medoid' = need_update_medoid \union ChangedClusters(new)
  /\ UNCHANGED <<input, is_center, center, chosen, iter, is_converged, result, contribute>>

-----------------------------------------------------------------------------
(* update_medoids: the clusters with need_update_medoid take the first of  *)
(* their enabled members with the least total distance to the others.      *)
(* There always is one (CentersConsistent), so the failure branch of       *)
(* assert(new_medoid != UINT32_MAX) has no action.                         *)
Members(k) == {i \in Ready \ disabled : subdomain_id[i] = k}

(* f[0] + ... + f[n - 1], in the order of the loops.                       *)
SumBelow(f, n) ==
  LET sum[m \in 0 .. n] == IF m = 0 THEN 0 ELSE sum[m - 1] + f[m - 1] IN sum[n]

TotalDist(i, k) ==
  SumBelow([j \in Ready |-> IF j \in Members(k) THEN get_distance_from_matrix(i, j) ELSE 0],
           seed_num)

IsMedoid(i, k) ==
  \A j \in Members(k) \ {i} :
    \/ TotalDist(i, k) < TotalDist(j, k)
    \/ TotalDist(i, k) = TotalDist(j, k) /\ i < j

MutantDemoted == {}
Demoted == {center[k] : k \in need_update_medoid}

MutantMoved(c) == {k \in need_update_medoid : c[k] # center[k] /\ k = Max(need_update_medoid)}
Moved(c) == {k \in need_update_medoid : c[k] # center[k]}

update_medoids ==
  /\ pc = "update"
  /\ \E c \in [need_update_medoid -> Ready] :
       /\ \A k \in need_update_medoid : c[k] \in Members(k) /\ IsMedoid(c[k], k)
       /\ center' = [k \in Cluster |-> IF k \in need_update_medoid THEN c[k] ELSE center[k]]
       /\ is_center' = (is_center \ Demoted) \union {c[k] : k \in need_update_medoid}
       /\ need_update_medoid' = Moved(c)
  /\ is_converged' = (need_update_medoid' = {})
  /\ iter' = iter + 1
  /\ pc' = IF is_converged' \/ iter' = MaxIter THEN "radius" ELSE "assign"
  /\ UNCHANGED <<input, subdomain_id, chosen, result, contribute>>

-----------------------------------------------------------------------------
(* Items and radii, from the matrix rows of the centers.                   *)

ItemsOf(k) == Members(k) \ is_center

MutantRadius(k) == Max({0} \union {get_distance_from_matrix(i, Min(Ready)) : i \in ItemsOf(k)})
Radius(k) == Max({0} \union {get_distance_from_matrix(i, center[k]) : i \in ItemsOf(k)})

ComputeRadii ==
  /\ pc = "radius" /\ pc' = "labels"
  /\ items' = [k \in Cluster |-> ItemsOf(k)]
  /\ r' = [k \in Cluster |-> Radius(k)]
  /\ UNCHANGED <<input, subdomain_id, is_center, center, chosen, need_update_medoid,
                 iter, is_converged, contribute>>

(* The labels stored in the database.  The last seed of the queue is left  *)
(* out, because show_stats may run while it is being added.                *)
total_seed_num == Max({seed_num, queued_items - 1})

StoreLabels ==
  /\ pc = "labels" /\ pc' = "done"
  /\ subdomain_id' = [i \in Queue |->
       IF i < total_seed_num /\ (i \in not_sync \/ i >= seed_num)
       THEN MAX ELSE subdomain_id[i]]
  /\ UNCHANGED <<input, is_center, center, chosen, need_update_medoid, iter, is_converged,
                 result, contribute>>

Aborted == {"assert_seed_num", "fatal"}
Ended   == Aborted \union {"not_divided", "done"}

Divide ==
  \/ Start \/ SingleWorker
  \/ FirstTwoCenters \/ NextCenter \/ NoCandidate
  \/ assign_points_to_clusters \/ update_medoids
  \/ ComputeRadii \/ StoreLabels

Terminated == pc \in Ended /\ UNCHANGED vars

Next == Divide \/ Terminated

Spec == Init /\ [][Next]_vars

-----------------------------------------------------------------------------
(* Correctness.                                                            *)

Step == {"start", "first", "centers", "assign", "update", "radius", "labels"} \union Ended

(* Types.                                                                  *)
TypeOK ==
  /\ pc \in Step
  /\ seed_num \in 1 .. MaxSeeds /\ queued_items \in seed_num .. MaxSeeds
  /\ traceDist \in [Pair -> Nat] /\ dist \in [Pair -> Int]
  /\ disabled \subseteq Queue /\ not_sync \subseteq Queue
  /\ worker_num \in 1 .. MaxWorkers /\ subdomain_num \in OldNums
  /\ subdomain_id \in [Queue -> Label]
  /\ is_center \subseteq Ready
  /\ center \in [Cluster -> Ready \union {NoSeed}] /\ chosen \in 0 .. MaxWorkers
  /\ need_update_medoid \subseteq Cluster
  /\ iter \in 0 .. MaxIter /\ is_converged \in BOOLEAN
  /\ items \in [Cluster -> SUBSET Ready]
  /\ contribute \in [Cluster -> 0 .. 1]

Iterating == pc \in {"assign", "update", "radius"}

(* The centers the iteration works with are different seeds, exactly the   *)
(* seeds flagged is_center, and each carries the label of its own cluster; *)
(* so no cluster is emptied and no center is handed to another cluster,    *)
(* although is_center, center and subdomain_id are updated in three        *)
(* different functions.  A cluster whose medoid must be recomputed has an  *)
(* enabled member (parallel.c:817 assert(new_medoid != UINT32_MAX)), even  *)
(* though the first two centers are chosen without looking at disabled.    *)
CentersConsistent ==
  Iterating =>
    /\ is_center = {center[k] : k \in Cluster}
    /\ \A k \in Cluster : center[k] \in Ready /\ subdomain_id[center[k]] = k
    /\ \A k, l \in Cluster : center[k] = center[l] => k = l
    /\ pc = "update" => \A k \in need_update_medoid : Members(k) # {}

(* What k-medoids can reach: every center minimises the total distance of  *)
(* its cluster, also for the clusters whose update was skipped, and once   *)
(* the iteration has converged each enabled seed with a row is assigned to *)
(* a center none is nearer than (centers to themselves).                   *)
LocalOptimum ==
  pc = "radius" =>
    /\ \A k \in Cluster : \A i \in Members(k) : TotalDist(center[k], k) <= TotalDist(i, k)
    /\ is_converged =>
         \A i \in Movable : subdomain_id[i] \in Cluster /\ IsNearest(i, subdomain_id[i])

(* The loop ends in a local optimum, and before its limit, so the WARNF at *)
(* line 958 is dead for these instances.                                   *)
ConvergesToLocalOptimum == LocalOptimum /\ (pc = "radius" => is_converged)

(* README "disjoint subdomains": the items of the subdomains and their     *)
(* centers are the enabled seeds with a row, each once, and every item     *)
(* lies within the radius of its subdomain, so that the worker which gets  *)
(* it keeps it (center_deviation <= r).                                    *)
SubdomainsPartitionTheSeeds ==
  pc \in {"labels", "done"} =>
    /\ Ready \ disabled = (UNION {items[k] : k \in Cluster}) \union (is_center \ disabled)
    /\ \A k \in Cluster :
         /\ items[k] \intersect is_center = {}
         /\ \A l \in Cluster \ {k} : items[k] \intersect items[l] = {}
         /\ \A i \in items[k] : get_distance_from_matrix(i, center[k]) <= r[k]

(* Workers import by label: the label stored for an enabled seed with a    *)
(* row is the subdomain that holds it, a seed imported by the master has   *)
(* none, and a disabled one has none unless it was one of the two initial  *)
(* centers; the previous division leaves no trace in any of them.          *)
LabelsFollowSubdomains ==
  pc = "done" =>
    \A i \in Ready : \A k \in Cluster :
      subdomain_id[i] = k =>
        /\ i \notin not_sync
        /\ \/ i \in items[k] \/ i = center[k]
           \/ i \in disabled /\ \E p \in ReadyPair : IsFarthestPair(p) /\ i \in {p[1], p[2]}

(* Sum of the distances of the enabled seeds to the center of their label. *)
Cost ==
  SumBelow([i \in Ready |-> IF i \notin disabled /\ subdomain_id[i] # MAX
                            THEN get_distance_from_matrix(i, center[subdomain_id[i]]) ELSE 0],
           seed_num)

(* With enabled centers, neither reassigning the seeds nor moving the      *)
(* medoids makes the clustering worse.                                     *)
CostNeverIncreases ==
  [][ /\ pc \in {"assign", "update"} /\ pc' \in {"assign", "update", "radius"}
      /\ is_center \intersect disabled = {}
      => Cost' <= Cost ]_vars

(* The master dies in a division only for lack of seeds: with fewer than   *)
(* three rows (assert at parallel.c:216), or with fewer enabled seeds than *)
(* workers (FATAL at line 287), although the first two centers may be      *)
(* disabled and an earlier division left a center flag behind.             *)
DiesOnlyForLackOfSeeds ==
  /\ pc = "assert_seed_num" => seed_num <= 2
  /\ pc = "fatal" => Cardinality(Ready \ disabled) < worker_num

(* parallel.c:216 assert(seed_num > 2 && subdomain_num >= 2): the caller   *)
(* in show_stats_normal starts a division as soon as one row is ready      *)
(* (afl-fuzz-stats.c:808).                                                 *)
EnoughSeedsToDivide == pc # "assert_seed_num"
=============================================================================
