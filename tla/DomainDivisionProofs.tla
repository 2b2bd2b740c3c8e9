------------------------ MODULE DomainDivisionProofs ------------------------
(***************************************************************************)
(* A division is right for every number of seeds and workers, every        *)
(* distance matrix and every iteration limit.                              *)
(***************************************************************************)
EXTENDS DomainDivision, FiniteSetTheorems, TLAPS

-----------------------------------------------------------------------------
(* The inductive invariant.                                                *)

(* Distances of two enabled seeds are the true ones; any other may be -1.  *)
DistancesKnown ==
  \A p \in Pair : /\ dist[p] \in Nat \union {-1}
                  /\ dist[p] = -1 => p[1] \in disabled \/ p[2] \in disabled

(* The first n centers are the flagged seeds, each with its own label.     *)
CentersLabelled(n) ==
  /\ is_center = {center[k] : k \in 0 .. n - 1}
  /\ \A k \in 0 .. n - 1 : center[k] \in Ready /\ subdomain_id[center[k]] = k

Unlabelled(S) == \A i \in S : subdomain_id[i] = MAX

FirstCenter(i) == \E p \in ReadyPair : IsFarthestPair(p) /\ i \in {p[1], p[2]}

(* A disabled seed has a label only as one of the first two centers.       *)
DisabledLabels == \A i \in Ready \intersect disabled : subdomain_id[i] # MAX => FirstCenter(i)

(* A cluster with an enabled member has an enabled center, except while    *)
(* its medoid is about to be recomputed.                                   *)
EnabledCenters(S) == \A k \in S : Members(k) # {} => center[k] \notin disabled

Choosing == pc \in {"first", "centers"}
Clustered == pc \in {"assign", "update", "radius", "labels"}

IInv ==
  /\ TypeOK /\ DistancesKnown
  /\ pc \in {"start", "first", "centers", "assign", "update"} => iter < MaxIter
  /\ pc = "start" => need_update_medoid = {}
  /\ Choosing => worker_num > 1 /\ seed_num > 2 /\ need_update_medoid = {}
                   /\ Unlabelled(Ready \ is_center)
  /\ pc = "first" => is_center = {}
  /\ pc = "centers" => chosen \in 2 .. worker_num /\ CentersLabelled(chosen)
  /\ Choosing \/ Clustered => DisabledLabels
  /\ Clustered => /\ CentersLabelled(worker_num)
                  /\ \A i \in Ready \ disabled : subdomain_id[i] \in Cluster
  /\ pc = "assign" => /\ EnabledCenters(Cluster)
                      /\ \A k \in need_update_medoid : center[k] \notin disabled
  /\ pc = "update" => /\ EnabledCenters(Cluster \ need_update_medoid)
                      /\ \A k \in need_update_medoid : Members(k) # {}
  /\ pc = "labels" => items = [k \in Cluster |-> ItemsOf(k)]
  /\ SubdomainsPartitionTheSeeds /\ LabelsFollowSubdomains /\ DiesOnlyForLackOfSeeds

(* The second invariant, for the quality of the clustering: a center is a  *)
(* medoid of its cluster except while it is about to be recomputed, and    *)
(* from an assignment on until a center moves every seed is nearest to the *)
(* center of its cluster.                                                  *)
Medoids(S) ==
  \A k \in S : \A i \in Members(k) : TotalDist(center[k], k) <= TotalDist(i, k)

NearestCenters == \A i \in Movable : subdomain_id[i] \in Cluster /\ IsNearest(i, subdomain_id[i])

OInv ==
  /\ pc \in {"assign", "radius"} => Medoids(Cluster)
  /\ pc = "update" => Medoids(Cluster \ need_update_medoid) /\ NearestCenters
  /\ pc = "radius" /\ is_converged => NearestCenters

-----------------------------------------------------------------------------
(* Numbers.                                                                *)

(* A non-empty set of natural numbers has a least element.                 *)
LEMMA Smallest ==
  ASSUME NEW S \in SUBSET Nat, S # {}
  PROVE  \E x \in S : \A y \in S : x <= y
<1> DEFINE R == OpToRel(<, Nat)
<1>1. \E x \in S : \A y \in S : ~ (<<y, x>> \in R)
  <2>1. IsWellFoundedOn(R, Nat)
    BY Zenon, NatLessThanWellFounded
  <2> QED
    BY Zenon, <2>1, WFMin
<1>2. ASSUME NEW x \in S, NEW y \in S, ~ (<<y, x>> \in R)
      PROVE  x <= y
  BY <1>2 DEF OpToRel
<1> QED
  BY Zenon, <1>1, <1>2

(* Induction up to a bound, over a set instead of a predicate.             *)
LEMMA InductionUpTo ==
  ASSUME NEW N \in Nat, NEW S, 0 \in S, \A n \in 0 .. N - 1 : n \in S => n + 1 \in S
  PROVE  \A n \in 0 .. N : n \in S
<1> DEFINE Bad == {n \in 0 .. N : n \notin S}
<1> SUFFICES ASSUME Bad # {} PROVE FALSE
  OBVIOUS
<1>0. Bad \in SUBSET Nat
  OBVIOUS
<1>1. PICK m \in Bad : \A y \in Bad : m <= y
  <2> HIDE DEF Bad
  <2> QED
    BY Zenon, <1>0, Smallest
<1>2. m \in 0 .. N /\ m # 0
  OBVIOUS
<1>3. m - 1 \in 0 .. N - 1 /\ m - 1 \in S /\ (m - 1) + 1 = m
  BY <1>1, <1>2
<1> QED
  BY <1>3

-----------------------------------------------------------------------------
(* Sums.                                                                   *)

IsSum(g, f, n) == g = [m \in 0 .. n |-> IF m = 0 THEN 0 ELSE g[m - 1] + f[m - 1]]

LEMMA SumExists ==
  ASSUME NEW N \in Nat, NEW f
  PROVE  \E g : IsSum(g, f, N)
<1> DEFINE S == {n \in 0 .. N : \E g : IsSum(g, f, n)}
<1>1. 0 \in S
  <2>1. IsSum([m \in 0 .. 0 |-> 0], f, 0)
    BY DEF IsSum
  <2> QED
    BY <2>1
<1>2. ASSUME NEW n \in 0 .. N - 1, n \in S
      PROVE  n + 1 \in S
  <2>1. PICK g : IsSum(g, f, n)
    BY <1>2
  <2> DEFINE h == [m \in 0 .. n + 1 |-> IF m <= n THEN g[m] ELSE g[n] + f[n]]
  <2>2. ASSUME NEW m \in 0 .. n + 1
        PROVE  h[m] = IF m = 0 THEN 0 ELSE h[m - 1] + f[m - 1]
    BY <2>1 DEF IsSum
  <2>3. h = [m \in 0 .. n + 1 |-> IF m = 0 THEN 0 ELSE h[m - 1] + f[m - 1]]
    BY <2>2
  <2> HIDE DEF h
  <2>4. IsSum(h, f, n + 1)
    BY <2>3 DEF IsSum
  <2> QED
    BY <2>4
<1> HIDE DEF S
<1>3. N \in S
  BY <1>1, <1>2, InductionUpTo
<1> QED
  BY <1>3 DEF S

LEMMA SumUnique ==
  ASSUME NEW n \in Nat, NEW m \in Nat, n <= m, NEW f, NEW g, NEW h,
         IsSum(g, f, n), IsSum(h, f, m)
  PROVE  g[n] = h[n]
<1> DEFINE S == {i \in 0 .. n : g[i] = h[i]}
<1>1. 0 \in S
  BY DEF IsSum
<1>2. ASSUME NEW i \in 0 .. n - 1, i \in S
      PROVE  i + 1 \in S
  <2>1. g[i + 1] = g[i] + f[i]
    BY DEF IsSum
  <2>2. h[i + 1] = h[i] + f[i]
    BY DEF IsSum
  <2> QED
    BY <1>2, <2>1, <2>2
<1> HIDE DEF S
<1>3. n \in S
  BY <1>1, <1>2, InductionUpTo
<1> QED
  BY <1>3 DEF S

(* The equations of SumBelow.                                              *)
LEMMA SumEquations ==
  ASSUME NEW n \in Nat, NEW f
  PROVE  SumBelow(f, 0) = 0 /\ SumBelow(f, n + 1) = SumBelow(f, n) + f[n]
<1> DEFINE s(m) == CHOOSE g : IsSum(g, f, m)
<1>1. \A m \in Nat : IsSum(s(m), f, m)
  BY SumExists
<1>2. \A m \in Nat : SumBelow(f, m) = s(m)[m]
  BY DEF SumBelow, IsSum
<1> HIDE DEF s
<1>3. s(n)[n] = s(n + 1)[n]
  BY <1>1, SumUnique
<1>4. s(n + 1)[n + 1] = s(n + 1)[n] + f[n] /\ s(0)[0] = 0
  BY <1>1 DEF IsSum
<1> QED
  BY <1>2, <1>3, <1>4

(* A sum of natural numbers is one, and smaller terms give a smaller sum.  *)
LEMMA SumMonotonic ==
  ASSUME NEW N \in Nat, NEW f, NEW g,
         \A i \in 0 .. N - 1 : f[i] \in Nat /\ g[i] \in Nat /\ f[i] <= g[i]
  PROVE  /\ SumBelow(f, N) \in Nat /\ SumBelow(g, N) \in Nat
         /\ SumBelow(f, N) <= SumBelow(g, N)
<1> DEFINE S == {n \in 0 .. N : /\ SumBelow(f, n) \in Nat /\ SumBelow(g, n) \in Nat
                                /\ SumBelow(f, n) <= SumBelow(g, n)}
<1>1. 0 \in S
  BY SumEquations
<1>2. ASSUME NEW n \in 0 .. N - 1, n \in S
      PROVE  n + 1 \in S
  <2>1. /\ SumBelow(f, n + 1) = SumBelow(f, n) + f[n]
        /\ SumBelow(g, n + 1) = SumBelow(g, n) + g[n]
    BY SumEquations
  <2> QED
    BY <1>2, <2>1
<1> HIDE DEF S
<1>3. \A n \in 0 .. N - 1 : n \in S => n + 1 \in S
  BY <1>2
<1>4. \A n \in 0 .. N : n \in S
  BY <1>1, <1>3, InductionUpTo
<1>5. N \in S
  BY <1>4
<1> QED
  BY <1>5 DEF S

(* Sums are added term by term.                                            *)
LEMMA SumOfSums ==
  ASSUME NEW N \in Nat, NEW f, NEW g, NEW h,
         \A i \in 0 .. N - 1 : f[i] \in Nat /\ g[i] \in Nat /\ h[i] = f[i] + g[i]
  PROVE  SumBelow(h, N) = SumBelow(f, N) + SumBelow(g, N)
<1> DEFINE S == {n \in 0 .. N : /\ SumBelow(f, n) \in Nat /\ SumBelow(g, n) \in Nat
                                /\ SumBelow(h, n) = SumBelow(f, n) + SumBelow(g, n)}
<1>1. 0 \in S
  BY SumEquations
<1>2. ASSUME NEW n \in 0 .. N - 1, n \in S
      PROVE  n + 1 \in S
  <2>1. /\ SumBelow(f, n + 1) = SumBelow(f, n) + f[n]
        /\ SumBelow(g, n + 1) = SumBelow(g, n) + g[n]
        /\ SumBelow(h, n + 1) = SumBelow(h, n) + h[n]
    BY SumEquations
  <2>2. f[n] \in Nat /\ g[n] \in Nat /\ h[n] = f[n] + g[n]
    OBVIOUS
  <2> HIDE DEF S
  <2>3. /\ SumBelow(f, n) \in Nat /\ SumBelow(g, n) \in Nat
        /\ SumBelow(h, n) = SumBelow(f, n) + SumBelow(g, n)
    BY <1>2 DEF S
  <2> QED
    BY <2>1, <2>2, <2>3 DEF S
<1> HIDE DEF S
<1>3. \A n \in 0 .. N - 1 : n \in S => n + 1 \in S
  BY <1>2
<1>4. \A n \in 0 .. N : n \in S
  BY <1>1, <1>3, InductionUpTo
<1>5. N \in S
  BY <1>4
<1> QED
  BY <1>5 DEF S

(* A list of numbers has a largest one, found by walking along it.         *)
LEMMA LargestOfList ==
  ASSUME NEW n \in Nat \ {0}, NEW f, \A i \in 1 .. n : f[i] \in Int
  PROVE  \E j \in 1 .. n : \A i \in 1 .. n : f[i] <= f[j]
<1> DEFINE Top(m) == \E j \in 1 .. m : \A i \in 1 .. m : f[i] <= f[j]
           Bad == {m \in 1 .. n : ~ Top(m)}
<1>1. ASSUME NEW m \in 1 .. n, m # 1, Top(m - 1)
      PROVE  Top(m)
  <2>1. m - 1 \in 1 .. n /\ \A i \in 1 .. m : i \in 1 .. m - 1 \/ i = m
    BY <1>1
  <2>2. PICK j \in 1 .. m - 1 : \A i \in 1 .. m - 1 : f[i] <= f[j]
    BY <1>1
  <2>3. f[j] \in Int /\ f[m] \in Int /\ \A i \in 1 .. m : f[i] \in Int
    BY <2>1, <2>2
  <2>4. CASE f[m] <= f[j]
    BY <2>1, <2>2, <2>4
  <2>5. CASE f[j] <= f[m]
    <3>1. \A i \in 1 .. m : f[i] <= f[m]
      BY <2>1, <2>2, <2>3, <2>5
    <3> QED
      BY <3>1
  <2> QED
    BY <2>3, <2>4, <2>5
<1>2. Top(1)
  BY 1 \in 1 .. n
<1> HIDE DEF Top
<1>3. Bad = {}
  <2> SUFFICES ASSUME Bad # {} PROVE FALSE
    OBVIOUS
  <2>0. Bad \in SUBSET Nat
    OBVIOUS
  <2>1. PICK m \in Bad : \A y \in Bad : m <= y
    <3> HIDE DEF Bad
    <3> QED
      BY Zenon, <2>0, Smallest
  <2>2. m # 1 /\ m - 1 \in 1 .. n /\ m - 1 \notin Bad
    BY <2>1, <1>2
  <2> QED
    BY <1>1, <2>1, <2>2
<1> QED
  BY <1>3 DEF Top

(* So has a finite set of numbers.                                         *)
LEMMA FiniteMax ==
  ASSUME NEW S \in SUBSET Int, IsFiniteSet(S), S # {}
  PROVE  \E m \in S : \A x \in S : x <= m
<1> DEFINE n == Cardinality(S)
<1>1. n \in Nat \ {0} /\ ExistsBijection(1 .. n, S)
  BY FS_CardinalityType, FS_EmptySet
<1>2. PICK f \in [1 .. n -> S] : \A x \in S : \E i \in 1 .. n : f[i] = x
  BY <1>1 DEF ExistsBijection, Bijection, Surjection
<1> HIDE DEF n
<1>3. \A i \in 1 .. n : f[i] \in S
  BY <1>2
<1>4. PICK j \in 1 .. n : \A i \in 1 .. n : f[i] <= f[j]
  BY Zenon, <1>1, <1>3, LargestOfList
<1> QED
  BY Zenon, <1>2, <1>3, <1>4

-----------------------------------------------------------------------------
(* The state.                                                              *)

(* The sets of seeds are intervals of natural numbers.                     *)
LEMMA Intervals ==
  ASSUME TypeOK
  PROVE  /\ seed_num \in Nat /\ queued_items \in Nat /\ worker_num \in Nat
         /\ Ready \subseteq Queue /\ Ready \subseteq Index /\ Queue \subseteq Nat
         /\ Cluster \subseteq 0 .. MaxWorkers - 1 /\ Cluster \subseteq Label
         /\ \A i \in Queue : i \in Ready <=> i < seed_num
         /\ \A k \in Cluster : k # MAX
BY DivisionAssumption DEF TypeOK, Ready, Queue, Index, Cluster, Label, MAX

(* Distances are numbers.                                                  *)
LEMMA DistanceType ==
  ASSUME TypeOK, NEW i \in Ready, NEW j \in Ready
  PROVE  get_distance_from_matrix(i, j) \in Int
<1>1. i \in Index /\ j \in Index /\ i \in Int /\ j \in Int
  BY Intervals DEF Index
<1>2. i < j => <<i, j>> \in Pair
  BY <1>1 DEF Pair
<1>3. j < i => <<j, i>> \in Pair
  BY <1>1 DEF Pair
<1> QED
  BY <1>1, <1>2, <1>3 DEF TypeOK, get_distance_from_matrix

LEMMA InitIInv == Init => IInv
<1> SUFFICES ASSUME Init PROVE IInv
  OBVIOUS
<1>1. worker_num \in 1 .. MaxWorkers /\ seed_num \in 1 .. MaxSeeds /\ seed_num \in Nat
  BY DivisionAssumption DEF Init
<1>2. queued_items \in seed_num .. MaxSeeds
  <2> DEFINE S == {MaxSeeds, seed_num + MaxTail}
  <2>1. \E x \in S : \A y \in S : x <= y
    BY <1>1, DivisionAssumption
  <2>2. Min(S) \in S /\ \A y \in S : Min(S) <= y
    BY <2>1 DEF Min
  <2> QED
    BY <1>1, <2>2, DivisionAssumption DEF Init
<1>3. traceDist \in [Pair -> Nat] /\ dist \in [Pair -> Int] /\ DistancesKnown
  <2>1. traceDist \in [Pair -> Nat]
    <3>1. PICK m \in Matrices : traceDist = [p \in Pair |-> IF p \in ReadyPair THEN m[p] ELSE 0]
      BY Zenon DEF Init
    <3>2. m \in [Pair -> Nat]
      BY Zenon, DivisionAssumption
    <3> QED
      BY <3>1, <3>2
  <2>2. PICK unknown \in SUBSET {p \in ReadyPair : p[1] \in disabled \/ p[2] \in disabled} :
          dist = [p \in Pair |-> IF p \in unknown THEN -1 ELSE traceDist[p]]
    BY DEF Init
  <2> QED
    BY <2>1, <2>2 DEF DistancesKnown
<1>4. subdomain_id \in [Queue -> Label] /\ is_center \subseteq Ready
  <2>1. MAX \in Label
    BY DivisionAssumption DEF Label, MAX
  <2> QED
    BY <2>1, DivisionAssumption DEF Init
<1>5. TypeOK
  <2>1. pc \in Step /\ disabled \subseteq Queue /\ not_sync \subseteq Queue
    BY DEF Init, Step
  <2>2. /\ center \in [Cluster -> Ready \union {NoSeed}] /\ chosen \in 0 .. MaxWorkers
        /\ need_update_medoid \subseteq Cluster
        /\ iter \in 0 .. MaxIter
    BY DivisionAssumption DEF Init
  <2>3. items \in [Cluster -> SUBSET Ready] /\ contribute \in [Cluster -> 0 .. 1]
    BY DEF Init
  <2>4. subdomain_num \in OldNums /\ is_converged \in BOOLEAN
    BY Zenon DEF Init
  <2> QED
    BY <1>1, <1>2, <1>3, <1>4, <2>1, <2>2, <2>3, <2>4 DEF TypeOK
<1> QED
  BY <1>3, <1>5, DivisionAssumption
  DEF Init, IInv, Choosing, Clustered, SubdomainsPartitionTheSeeds, LabelsFollowSubdomains,
      DiesOnlyForLackOfSeeds

-----------------------------------------------------------------------------
(* The steps.                                                              *)

LEMMA StartStep == IInv /\ Start => IInv'
<1> SUFFICES ASSUME IInv, TypeOK, DistancesKnown, Start PROVE IInv'
  BY DEF IInv
<1>1. TypeOK'
  <2>1. pc' \in Step
    BY DEF Start, Step, Ended, Aborted
  <2>2. subdomain_id' \in [Queue -> Label] /\ is_center' \subseteq Ready
    BY DivisionAssumption DEF TypeOK, Start, ResetSeeds, Label, MAX
  <2>3. contribute' \in [Cluster -> 0 .. 1]
    BY DEF Start
  <2> QED
    BY Zenon, <2>1, <2>2, <2>3 DEF TypeOK, Start, input, result, Queue, Ready, Cluster
<1>2. DistancesKnown'
  BY DEF Start, input, DistancesKnown
<1>3. is_center' = {} /\ Unlabelled(Ready)'
  BY Intervals DEF TypeOK, Start, ResetSeeds, Unlabelled, input, Ready, Queue
<1>4. DisabledLabels'
  BY <1>3 DEF Unlabelled, DisabledLabels
<1>5. /\ worker_num' > 1 /\ need_update_medoid' = {} /\ iter' < MaxIter
      /\ \/ pc' = "first" /\ seed_num' > 2
         \/ pc' = "assert_seed_num" /\ ~ (seed_num' > 2)
  BY DEF IInv, Start, input
<1>6. DiesOnlyForLackOfSeeds'
  BY <1>5, <1>1, Intervals DEF DiesOnlyForLackOfSeeds, TypeOK
<1>7. SubdomainsPartitionTheSeeds' /\ LabelsFollowSubdomains'
  BY Zenon, <1>5 DEF SubdomainsPartitionTheSeeds, LabelsFollowSubdomains
<1> QED
  BY Zenon, <1>1, <1>2, <1>3, <1>4, <1>5, <1>6, <1>7 DEF IInv, Choosing, Clustered, Unlabelled

LEMMA SingleWorkerStep == IInv /\ SingleWorker => IInv'
BY DEF IInv, SingleWorker, TypeOK, DistancesKnown, input, result, Step, Ended, Aborted,
       Choosing, Clustered, Ready, Queue, Cluster,
       SubdomainsPartitionTheSeeds, LabelsFollowSubdomains, DiesOnlyForLackOfSeeds

(* What the steps after the first leave alone.                             *)
LEMMA InputUnchanged ==
  ASSUME UNCHANGED input
  PROVE  /\ UNCHANGED <<Cluster, Ready, Queue, ReadyPair>>
         /\ UNCHANGED <<worker_num, seed_num, queued_items, traceDist, dist, disabled, not_sync,
                        subdomain_num>>
         /\ DistancesKnown => DistancesKnown'
         /\ \A i : FirstCenter(i) => FirstCenter(i)'
         /\ \A i, j : get_distance_from_matrix(i, j)' = get_distance_from_matrix(i, j)
BY DEF input, Cluster, Ready, Queue, ReadyPair, DistancesKnown, FirstCenter, IsFarthestPair,
       get_distance_from_matrix

LEMMA FirstTwoCentersStep == IInv /\ FirstTwoCenters => IInv'
<1> SUFFICES ASSUME IInv, TypeOK, DistancesKnown, FirstTwoCenters PROVE IInv'
  BY DEF IInv
<1>1. PICK p \in ReadyPair :
        /\ IsFarthestPair(p)
        /\ center' = [center EXCEPT ![0] = p[1], ![1] = p[2]]
        /\ subdomain_id' = [subdomain_id EXCEPT ![p[1]] = 0, ![p[2]] = 1]
        /\ is_center' = is_center \union {p[1], p[2]}
  BY Zenon DEF FirstTwoCenters
<1>2. UNCHANGED input
  BY DEF FirstTwoCenters
<1>3. p[1] \in Ready /\ p[2] \in Ready /\ p[1] # p[2]
  BY Intervals DEF ReadyPair, Pair, Index, Ready
<1>4. 0 \in Cluster /\ 1 \in Cluster /\ worker_num \in Nat
  BY Intervals DEF IInv, Choosing, Cluster, FirstTwoCenters
<1>5. /\ center \in [Cluster -> Ready \union {NoSeed}]
      /\ subdomain_id \in [Queue -> Label] /\ Ready \subseteq Queue
      /\ 0 \in Label /\ 1 \in Label
  BY <1>4, Intervals DEF TypeOK
<1>6. /\ center'[0] = p[1] /\ center'[1] = p[2]
      /\ subdomain_id'[p[1]] = 0 /\ subdomain_id'[p[2]] = 1
      /\ \A i \in Ready \ {p[1], p[2]} : subdomain_id'[i] = subdomain_id[i]
  BY <1>1, <1>3, <1>4, <1>5
<1>7. /\ pc = "first" /\ pc' = "centers" /\ is_center = {} /\ need_update_medoid' = {}
      /\ chosen' = 2 /\ is_center' = {p[1], p[2]}
  BY <1>1 DEF IInv, FirstTwoCenters, Choosing
<1>8. TypeOK'
  <2>1. /\ center' \in [Cluster -> Ready \union {NoSeed}]
        /\ subdomain_id' \in [Queue -> Label]
    BY Zenon, <1>1, <1>3, <1>5
  <2>2. 2 \in 0 .. MaxWorkers
    BY <1>4, DivisionAssumption DEF IInv, TypeOK, Choosing, FirstTwoCenters
  <2> QED
    BY Zenon, <1>2, <1>3, <1>7, <2>1, <2>2, InputUnchanged DEF TypeOK, FirstTwoCenters, result, Step
<1>9. chosen' \in 2 .. worker_num' /\ worker_num' > 1 /\ seed_num' > 2
  BY <1>2, <1>4, <1>7, InputUnchanged DEF IInv, Choosing
<1>10. CentersLabelled(chosen)'
  <2>1. 0 .. chosen' - 1 = {0, 1}
    BY <1>7
  <2>2. Ready' = Ready
    BY <1>2, InputUnchanged
  <2> QED
    BY <2>1, <2>2, <1>3, <1>6, <1>7 DEF CentersLabelled
<1>11. Unlabelled(Ready \ is_center)'
  BY <1>2, <1>6, <1>7, InputUnchanged DEF IInv, Unlabelled, Choosing
<1>12. DisabledLabels'
  <2> SUFFICES ASSUME NEW i \in Ready \intersect disabled, subdomain_id'[i] # MAX
               PROVE  FirstCenter(i)'
    BY <1>2, InputUnchanged DEF DisabledLabels
  <2>1. i \in {p[1], p[2]}
    BY Zenon, <1>6, <1>7 DEF IInv, Unlabelled, Choosing
  <2> QED
    BY <1>1, <1>2, <2>1, InputUnchanged DEF FirstCenter
<1> QED
  BY <1>2, <1>7, <1>8, <1>9, <1>10, <1>11, <1>12, InputUnchanged
  DEF IInv, Choosing, Clustered, FirstTwoCenters, SubdomainsPartitionTheSeeds,
      LabelsFollowSubdomains, DiesOnlyForLackOfSeeds

LEMMA NextCenterStep == IInv /\ NextCenter => IInv'
<1> SUFFICES ASSUME IInv, TypeOK, DistancesKnown, NextCenter PROVE IInv'
  BY DEF IInv
<1>1. PICK j \in Candidates : MakeCenter(j, chosen)
  BY DEF NextCenter
<1>2. UNCHANGED input
  BY DEF NextCenter
<1>3. j \in Ready /\ j \notin disabled /\ j \notin is_center
  BY DEF Candidates
<1>4. /\ pc = "centers" /\ pc' = "centers" /\ chosen' = chosen + 1
      /\ chosen \in 2 .. worker_num /\ chosen < worker_num /\ worker_num \in Nat
      /\ CentersLabelled(chosen) /\ chosen \in Cluster
  BY Intervals DEF IInv, NextCenter, Cluster
<1>5. /\ center \in [Cluster -> Ready \union {NoSeed}]
      /\ subdomain_id \in [Queue -> Label] /\ Ready \subseteq Queue
      /\ chosen \in Label
  BY <1>4, Intervals DEF TypeOK
<1>6. /\ center'[chosen] = j /\ subdomain_id'[j] = chosen
      /\ \A k \in Cluster \ {chosen} : center'[k] = center[k]
      /\ \A i \in Ready \ {j} : subdomain_id'[i] = subdomain_id[i]
      /\ is_center' = is_center \union {j}
  BY <1>1, <1>3, <1>4, <1>5 DEF MakeCenter
<1>7. TypeOK'
  <2>1. /\ center' \in [Cluster -> Ready \union {NoSeed}]
        /\ subdomain_id' \in [Queue -> Label]
    BY Zenon, <1>1, <1>3, <1>5 DEF MakeCenter
  <2>2. chosen' \in 0 .. MaxWorkers
    BY <1>4, DivisionAssumption DEF TypeOK
  <2> QED
    BY <1>2, <1>3, <1>6, <2>1, <2>2, InputUnchanged DEF TypeOK, NextCenter, result
<1>8. CentersLabelled(chosen)'
  <2>1. 0 .. chosen' - 1 = (0 .. chosen - 1) \union {chosen} /\ chosen \notin 0 .. chosen - 1
    BY <1>4
  <2>2. \A k \in 0 .. chosen - 1 : /\ center'[k] = center[k] /\ center[k] \in Ready
                                   /\ center[k] \in is_center /\ subdomain_id[center[k]] = k
    BY <1>4, <1>6 DEF CentersLabelled, Cluster
  <2>3. \A k \in 0 .. chosen - 1 : center'[k] # j /\ subdomain_id'[center'[k]] = k
    BY Zenon, <1>3, <1>6, <2>2
  <2>4. is_center' = {center'[k] : k \in 0 .. chosen' - 1}
    BY <1>4, <1>6, <2>1, <2>2 DEF CentersLabelled
  <2> QED
    BY <1>2, <1>3, <1>6, <2>1, <2>2, <2>3, <2>4, InputUnchanged DEF CentersLabelled
<1>9. Unlabelled(Ready \ is_center)'
  BY <1>2, <1>4, <1>6, InputUnchanged DEF IInv, Unlabelled, Choosing
<1>10. DisabledLabels'
  BY Zenon, <1>2, <1>3, <1>4, <1>6, InputUnchanged DEF IInv, DisabledLabels, Choosing
<1>11. /\ chosen' \in 2 .. worker_num' /\ worker_num' > 1 /\ seed_num' > 2
       /\ need_update_medoid' = {} /\ iter' < MaxIter
  BY <1>2, <1>4, InputUnchanged DEF IInv, Choosing, NextCenter
<1> QED
  BY <1>2, <1>4, <1>7, <1>8, <1>9, <1>10, <1>11, InputUnchanged
  DEF IInv, Choosing, Clustered, SubdomainsPartitionTheSeeds,
      LabelsFollowSubdomains, DiesOnlyForLackOfSeeds

(* The flagged seeds are at most as many as the centers chosen.            *)
LEMMA ChosenCardinality ==
  ASSUME NEW n \in Nat, CentersLabelled(n)
  PROVE  IsFiniteSet(is_center) /\ Cardinality(is_center) <= n
<1> DEFINE f == [k \in 0 .. n - 1 |-> center[k]]
<1>1. f \in Surjection(0 .. n - 1, is_center)
  BY DEF CentersLabelled, Surjection
<1>2. IsFiniteSet(0 .. n - 1) /\ Cardinality(0 .. n - 1) = n
  BY FS_Interval
<1> HIDE DEF f
<1>3. Cardinality(is_center) <= Cardinality(0 .. n - 1) /\ IsFiniteSet(is_center)
  BY ZenonT(40), <1>1, <1>2, FS_Surjection
<1> QED
  BY <1>2, <1>3

LEMMA NoCandidateStep == IInv /\ NoCandidate => IInv'
<1> SUFFICES ASSUME IInv, TypeOK, DistancesKnown, NoCandidate PROVE IInv'
  BY DEF IInv
<1>1. UNCHANGED input /\ pc' = "fatal" /\ chosen \in Nat /\ chosen < worker_num
  BY DEF NoCandidate, TypeOK
<1>2. Ready \ disabled \subseteq is_center
  BY DEF NoCandidate, Candidates
<1>3. Cardinality(Ready \ disabled) < worker_num
  <2>1. IsFiniteSet(is_center) /\ Cardinality(is_center) <= chosen
    BY <1>1, ChosenCardinality DEF IInv, NoCandidate
  <2>2. /\ Cardinality(Ready \ disabled) <= Cardinality(is_center)
        /\ Cardinality(Ready \ disabled) \in Nat /\ Cardinality(is_center) \in Nat
    BY <2>1, <1>2, FS_Subset, FS_CardinalityType
  <2> QED
    BY <1>1, <2>1, <2>2, Intervals
<1>4. TypeOK'
  BY <1>1, InputUnchanged DEF NoCandidate, TypeOK, result, Step, Ended, Aborted
<1>5. DiesOnlyForLackOfSeeds'
  BY <1>1, <1>3, InputUnchanged DEF DiesOnlyForLackOfSeeds
<1> QED
  BY <1>1, <1>4, <1>5, InputUnchanged
  DEF IInv, Choosing, Clustered, SubdomainsPartitionTheSeeds, LabelsFollowSubdomains

(* Labels tell the centers apart.                                          *)
LEMMA CentersDiffer ==
  ASSUME NEW n, CentersLabelled(n)
  PROVE  \A k, l \in 0 .. n - 1 : center[k] = center[l] => k = l
BY ZenonT(40) DEF CentersLabelled

LEMMA AssignStep == IInv /\ assign_points_to_clusters => IInv'
<1> SUFFICES ASSUME IInv, TypeOK, DistancesKnown, assign_points_to_clusters PROVE IInv'
  BY DEF IInv
<1>1. PICK new \in [Movable -> Cluster] :
        /\ subdomain_id' = [i \in Queue |-> IF i \in Movable THEN new[i] ELSE subdomain_id[i]]
        /\ need_update_medoid' = need_update_medoid \union ChangedClusters(new)
  BY DEF assign_points_to_clusters
<1>2. /\ UNCHANGED input /\ pc' = "update" /\ UNCHANGED <<center, is_center, iter>>
      /\ (pc = "centers" /\ chosen = worker_num) \/ pc = "assign"
  BY DEF assign_points_to_clusters
<1>3. /\ Movable \subseteq Ready \ disabled /\ Ready \subseteq Queue /\ Cluster \subseteq Label
      /\ \A i \in Ready \ disabled : i \in Movable \/ i \in is_center
      /\ \A i \in Movable : i \notin is_center /\ i \notin disabled
      /\ \A k \in Cluster : k # MAX
  BY Intervals DEF Movable
<1>4. /\ \A i \in Movable : subdomain_id'[i] = new[i] /\ new[i] \in Cluster
      /\ \A i \in Ready \ Movable : subdomain_id'[i] = subdomain_id[i]
  BY <1>1, <1>3
<1>5. CentersLabelled(worker_num) /\ DisabledLabels
  BY <1>2 DEF IInv, Choosing, Clustered
<1>6. \A k \in Cluster : center[k] \in Ready /\ center[k] \in is_center /\ subdomain_id[center[k]] = k
  BY <1>5 DEF CentersLabelled, Cluster
<1>7. \A i \in Movable : subdomain_id[i] \in Cluster \union {MAX}
  <2>1. CASE pc = "centers"
    BY <2>1, <1>3 DEF IInv, Choosing, Unlabelled
  <2>2. CASE pc = "assign"
    BY <2>2, <1>3 DEF IInv, Clustered
  <2> QED
    BY Zenon, <1>2, <2>1, <2>2
<1>8. need_update_medoid' \subseteq Cluster
  BY <1>1, <1>4, <1>7 DEF ChangedClusters, TypeOK
<1>9. TypeOK'
  <2>1. subdomain_id' \in [Queue -> Label]
    BY Zenon, <1>1, <1>3, <1>4 DEF TypeOK
  <2> QED
    BY <1>2, <1>8, <2>1, InputUnchanged
    DEF TypeOK, assign_points_to_clusters, result, Step
<1>10. CentersLabelled(worker_num)'
  <2>1. \A k \in Cluster : subdomain_id'[center[k]] = k
    BY <1>3, <1>4, <1>6
  <2>2. is_center = {center[k] : k \in Cluster}
    BY Zenon, <1>5 DEF CentersLabelled, Cluster
  <2>3. center' = center /\ is_center' = is_center /\ worker_num' = worker_num /\ Ready' = Ready
    BY Zenon, <1>2, InputUnchanged
  <2>4. is_center' = {center'[k] : k \in 0 .. worker_num' - 1}
    BY Zenon, <2>2, <2>3 DEF Cluster
  <2>5. \A k \in 0 .. worker_num' - 1 : center'[k] \in Ready' /\ subdomain_id'[center'[k]] = k
    BY Zenon, <1>6, <2>1, <2>3 DEF Cluster
  <2> QED
    BY Zenon, <2>4, <2>5 DEF CentersLabelled
<1>11. \A i \in Ready \ disabled : subdomain_id'[i] \in Cluster
  <2> TAKE i \in Ready \ disabled
  <2>1. CASE i \in Movable
    BY <2>1, <1>4
  <2>2. CASE i \in is_center
    <3>1. PICK k \in Cluster : i = center[k]
      BY <2>2, <1>5 DEF CentersLabelled, Cluster
    <3> QED
      BY <3>1, <2>2, <1>3, <1>4, <1>6
  <2> QED
    BY <1>3, <2>1, <2>2
<1>12. DisabledLabels'
  BY <1>2, <1>3, <1>4, <1>5, InputUnchanged DEF DisabledLabels
<1>13. \A i \in Ready \ disabled : subdomain_id[i] \in Cluster =>
         center[subdomain_id[i]] \notin disabled
  <2> SUFFICES ASSUME NEW i \in Ready \ disabled, subdomain_id[i] \in Cluster
               PROVE  center[subdomain_id[i]] \notin disabled
    BY Zenon
  <2>1. CASE pc = "assign"
    BY Zenon, <2>1 DEF IInv, EnabledCenters, Members
  <2>2. CASE pc = "centers"
    <3>1. i \in is_center
      BY <2>2, <1>3 DEF IInv, Choosing, Unlabelled
    <3>2. PICK k \in Cluster : i = center[k]
      BY <3>1, <1>5 DEF CentersLabelled, Cluster
    <3> QED
      BY <3>2, <1>6
  <2> QED
    BY <1>2, <2>1, <2>2
<1>14. \A k \in need_update_medoid' : Members(k)' # {}
  <2> TAKE k \in need_update_medoid'
  <2> SUFFICES \E i \in Ready \ disabled : subdomain_id'[i] = k
    BY <1>2, InputUnchanged DEF Members
  <2>1. ASSUME k \in Cluster, center[k] \notin disabled
        PROVE  \E i \in Ready \ disabled : subdomain_id'[i] = k
    BY Zenon, <2>1, <1>3, <1>4, <1>6
  <2>2. CASE k \in need_update_medoid
    <3>1. pc = "assign"
      BY Zenon, <1>2, <2>2 DEF IInv, Choosing
    <3> QED
      BY Zenon, <3>1, <2>1, <2>2 DEF IInv, TypeOK
  <2>3. ASSUME NEW i \in Movable, new[i] = k
        PROVE  \E j \in Ready \ disabled : subdomain_id'[j] = k
    BY <2>3, <1>3, <1>4
  <2>4. ASSUME NEW i \in Movable, subdomain_id[i] = k, k # MAX
        PROVE  \E j \in Ready \ disabled : subdomain_id'[j] = k
    BY <2>1, <2>4, <1>3, <1>7, <1>13
  <2> QED
    BY <1>1, <2>2, <2>3, <2>4 DEF ChangedClusters
<1>15. EnabledCenters(Cluster \ need_update_medoid)'
  <2> SUFFICES ASSUME NEW k \in Cluster, k \notin need_update_medoid',
                      NEW i \in Ready \ disabled, subdomain_id'[i] = k
               PROVE  center[k] \notin disabled
    BY <1>2, InputUnchanged DEF EnabledCenters, Members
  <2>1. subdomain_id[i] = k
    BY Zenon, <1>1, <1>3, <1>4 DEF ChangedClusters
  <2> QED
    BY <2>1, <1>13
<1> QED
  BY <1>2, <1>9, <1>10, <1>11, <1>12, <1>14, <1>15, InputUnchanged
  DEF IInv, Choosing, Clustered, SubdomainsPartitionTheSeeds,
      LabelsFollowSubdomains, DiesOnlyForLackOfSeeds

LEMMA UpdateStep == IInv /\ update_medoids => IInv'
<1> SUFFICES ASSUME IInv, TypeOK, DistancesKnown, update_medoids PROVE IInv'
  BY Zenon DEF IInv
<1>1. PICK c \in [need_update_medoid -> Ready] :
        /\ \A k \in need_update_medoid : c[k] \in Members(k)
        /\ center' = [k \in Cluster |-> IF k \in need_update_medoid THEN c[k] ELSE center[k]]
        /\ is_center' = (is_center \ Demoted) \union {c[k] : k \in need_update_medoid}
        /\ need_update_medoid' = Moved(c)
  BY Zenon DEF update_medoids
<1>2. /\ UNCHANGED input /\ pc = "update" /\ UNCHANGED <<subdomain_id>>
      /\ need_update_medoid' \subseteq need_update_medoid
      /\ iter' = iter + 1
      /\ pc' = "radius" \/ (pc' = "assign" /\ iter' # MaxIter)
  BY Zenon, <1>1 DEF update_medoids, Moved
<1>3. /\ CentersLabelled(worker_num) /\ DisabledLabels /\ need_update_medoid \subseteq Cluster
      /\ \A i \in Ready \ disabled : subdomain_id[i] \in Cluster
  BY Zenon, <1>2 DEF IInv, Clustered, TypeOK
<1>4. /\ is_center = {center[k] : k \in Cluster}
      /\ \A k \in Cluster : center[k] \in Ready /\ subdomain_id[center[k]] = k
  BY <1>3 DEF CentersLabelled, Cluster
<1>5. \A k \in need_update_medoid :
        center'[k] = c[k] /\ c[k] \in Ready /\ c[k] \notin disabled /\ subdomain_id[c[k]] = k
  BY <1>1, <1>3 DEF Members
<1>6. \A k \in Cluster \ need_update_medoid : center'[k] = center[k]
  BY <1>1
<1>7. \A k \in Cluster : center'[k] \in Ready /\ subdomain_id[center'[k]] = k
  BY <1>4, <1>5, <1>6
<1>8. is_center' = {center'[k] : k \in Cluster}
  <2>1. ASSUME NEW i \in is_center'
        PROVE  i \in {center'[k] : k \in Cluster}
    <3>1. CASE i \in is_center /\ i \notin Demoted
      <4>1. PICK k \in Cluster : i = center[k]
        BY <3>1, <1>4
      <4> QED
        BY <4>1, <3>1, <1>6 DEF Demoted
    <3>2. CASE i \in {c[k] : k \in need_update_medoid}
      BY <3>2, <1>3, <1>5
    <3> QED
      BY <2>1, <1>1, <3>1, <3>2
  <2>2. ASSUME NEW k \in Cluster
        PROVE  center'[k] \in is_center'
    <3>1. CASE k \in need_update_medoid
      BY <3>1, <1>1, <1>5
    <3>2. CASE k \notin need_update_medoid
      <4>1. center[k] \in is_center /\ center[k] \notin Demoted
        BY Zenon, <3>2, <1>3, <1>4 DEF Demoted
      <4> QED
        BY <4>1, <3>2, <1>1, <1>6
    <3> QED
      BY <3>1, <3>2
  <2> QED
    BY <2>1, <2>2
<1>9. CentersLabelled(worker_num)'
  BY Zenon, <1>2, <1>7, <1>8, InputUnchanged DEF CentersLabelled, Cluster
<1>10. TypeOK'
  <2>1. /\ center' \in [Cluster -> Ready \union {NoSeed}] /\ is_center' \subseteq Ready
        /\ need_update_medoid' \subseteq Cluster
    BY <1>1, <1>2, <1>3, <1>7, <1>8
  <2>2. iter' \in 0 .. MaxIter
    <3>1. iter \in 0 .. MaxIter /\ iter < MaxIter /\ iter' = iter + 1
      BY Zenon, <1>2 DEF IInv, TypeOK
    <3> QED
      BY <3>1, DivisionAssumption
  <2>3. is_converged' \in BOOLEAN
    BY DEF update_medoids
  <2> QED
    BY <1>2, <2>1, <2>2, <2>3, InputUnchanged DEF TypeOK, update_medoids, result, Step
<1>11. pc' = "assign" => iter' < MaxIter
  <2>1. iter' \in 0 .. MaxIter /\ (pc' = "assign" => iter' # MaxIter)
    BY Zenon, <1>2, <1>10 DEF TypeOK
  <2> QED
    BY <2>1, DivisionAssumption
<1>12. EnabledCenters(Cluster)' /\ \A k \in need_update_medoid' : center'[k] \notin disabled
  <2>1. \A k \in Cluster : Members(k)' = Members(k)
    BY Zenon, <1>2, InputUnchanged DEF Members
  <2>2. \A k \in Cluster : Members(k) # {} => center'[k] \notin disabled
    BY Zenon, <1>2, <1>5, <1>6 DEF IInv, EnabledCenters
  <2> QED
    BY <1>2, <1>5, <2>1, <2>2, InputUnchanged DEF EnabledCenters
<1>13. DisabledLabels' /\ \A i \in Ready' \ disabled' : subdomain_id'[i] \in Cluster'
  BY <1>2, <1>3, InputUnchanged DEF DisabledLabels
<1> QED
  BY Zenon, <1>2, <1>9, <1>10, <1>11, <1>12, <1>13, InputUnchanged
  DEF IInv, Choosing, Clustered, SubdomainsPartitionTheSeeds,
      LabelsFollowSubdomains, DiesOnlyForLackOfSeeds

(* The radius is the largest distance of an item to the center.            *)
LEMMA RadiusCoversItems ==
  ASSUME TypeOK, NEW k \in Cluster, center[k] \in Ready, NEW i \in ItemsOf(k)
  PROVE  get_distance_from_matrix(i, center[k]) <= Radius(k)
<1> DEFINE d(j) == get_distance_from_matrix(j, center[k])
           D == {d(j) : j \in ItemsOf(k)}
           f == [j \in ItemsOf(k) |-> d(j)]
<1>1. ItemsOf(k) \subseteq Ready
  BY DEF ItemsOf, Members
<1>2. \A j \in ItemsOf(k) : d(j) \in Int
  BY <1>1, DistanceType
<1>3. IsFiniteSet(ItemsOf(k))
  <2>1. IsFiniteSet(Ready)
    BY Intervals, FS_Interval DEF Ready
  <2> QED
    BY <1>1, <2>1, FS_Subset
<1>4. IsFiniteSet(D)
  <2>1. f \in Surjection(ItemsOf(k), D)
    BY DEF Surjection
  <2> QED
    BY <2>1, <1>3, FS_Surjection
<1>5. IsFiniteSet({0} \union D)
  BY Zenon, <1>4, FS_Singleton, FS_Union
<1>6. {0} \union D \in SUBSET Int
  BY <1>2
<1> HIDE DEF D
<1>7. \E m \in {0} \union D : \A x \in {0} \union D : m >= x
  <2>1. PICK m \in {0} \union D : \A x \in {0} \union D : x <= m
    BY <1>5, <1>6, FiniteMax
  <2> QED
    BY <2>1, <1>6
<1>8. /\ Max({0} \union D) \in {0} \union D
      /\ \A x \in {0} \union D : Max({0} \union D) >= x
  BY Zenon, <1>7 DEF Max
<1>9. Radius(k) = Max({0} \union D)
  BY DEF Radius, D
<1>10. d(i) \in {0} \union D
  BY Zenon DEF D
<1> QED
  BY <1>6, <1>8, <1>9, <1>10

LEMMA RadiiStep == IInv /\ ComputeRadii => IInv'
<1> SUFFICES ASSUME IInv, TypeOK, DistancesKnown, ComputeRadii PROVE IInv'
  BY DEF IInv
<1>1. /\ UNCHANGED input /\ pc = "radius" /\ pc' = "labels"
      /\ UNCHANGED <<subdomain_id, is_center, center, chosen, need_update_medoid, iter,
                     is_converged, contribute>>
      /\ items' = [k \in Cluster |-> ItemsOf(k)] /\ r' = [k \in Cluster |-> Radius(k)]
  BY Zenon DEF ComputeRadii
<1>2. /\ CentersLabelled(worker_num) /\ DisabledLabels
      /\ \A i \in Ready \ disabled : subdomain_id[i] \in Cluster
  BY Zenon, <1>1 DEF IInv, Clustered
<1>3. /\ is_center = {center[k] : k \in Cluster}
      /\ \A k \in Cluster : center[k] \in Ready /\ subdomain_id[center[k]] = k
  BY <1>2 DEF CentersLabelled, Cluster
<1>4. \A k \in Cluster : ItemsOf(k)' = ItemsOf(k)
  BY <1>1, InputUnchanged DEF ItemsOf, Members
<1>5. TypeOK'
  <2>1. items' \in [Cluster -> SUBSET Ready]
    BY <1>1 DEF ItemsOf, Members
  <2> QED
    BY <1>1, <2>1, InputUnchanged DEF TypeOK, Step
<1>6. SubdomainsPartitionTheSeeds'
  <2>1. Ready \ disabled = (UNION {items'[k] : k \in Cluster}) \union (is_center \ disabled)
    <3>1. ASSUME NEW i \in Ready \ disabled
          PROVE  i \in (UNION {items'[k] : k \in Cluster}) \union (is_center \ disabled)
      <4>1. subdomain_id[i] \in Cluster /\ i \in Members(subdomain_id[i])
        BY <1>2 DEF Members
      <4>2. i \in is_center \/ i \in items'[subdomain_id[i]]
        BY <1>1, <4>1 DEF ItemsOf
      <4> QED
        BY <4>1, <4>2
    <3>2. ASSUME NEW k \in Cluster, NEW i \in items'[k]
          PROVE  i \in Ready \ disabled
      BY <1>1, <3>2 DEF ItemsOf, Members
    <3>3. is_center \ disabled \subseteq Ready \ disabled
      BY DEF TypeOK
    <3> QED
      BY <3>1, <3>2, <3>3
  <2>2. ASSUME NEW k \in Cluster
        PROVE  /\ items'[k] \intersect is_center = {}
               /\ \A l \in Cluster \ {k} : items'[k] \intersect items'[l] = {}
    BY <1>1 DEF ItemsOf, Members
  <2>3. ASSUME NEW k \in Cluster, NEW i \in items'[k]
        PROVE  get_distance_from_matrix(i, center[k]) <= r'[k]
    BY <1>1, <1>3, RadiusCoversItems
  <2> QED
    BY <1>1, <2>1, <2>2, <2>3, InputUnchanged DEF SubdomainsPartitionTheSeeds
<1>7. items' = [k \in Cluster' |-> ItemsOf(k)']
  BY Zenon, <1>1, <1>4, InputUnchanged
<1>8. CentersLabelled(worker_num)' /\ DisabledLabels'
  BY Zenon, <1>1, <1>2, InputUnchanged DEF CentersLabelled, DisabledLabels
<1> QED
  BY Zenon, <1>1, <1>2, <1>5, <1>6, <1>7, <1>8, InputUnchanged
  DEF IInv, Choosing, Clustered, LabelsFollowSubdomains, DiesOnlyForLackOfSeeds

LEMMA LabelsStep == IInv /\ StoreLabels => IInv'
<1> SUFFICES ASSUME IInv, TypeOK, DistancesKnown, StoreLabels PROVE IInv'
  BY DEF IInv
<1>1. /\ UNCHANGED input /\ pc = "labels" /\ pc' = "done"
      /\ UNCHANGED <<is_center, center, chosen, need_update_medoid, iter, is_converged,
                     items, r, contribute>>
      /\ subdomain_id' = [i \in Queue |->
           IF i < total_seed_num /\ (i \in not_sync \/ i >= seed_num)
           THEN MAX ELSE subdomain_id[i]]
  BY Zenon DEF StoreLabels, result
<1>2. /\ CentersLabelled(worker_num) /\ DisabledLabels /\ SubdomainsPartitionTheSeeds
      /\ items = [k \in Cluster |-> ItemsOf(k)]
  BY Zenon, <1>1 DEF IInv, Clustered
<1>3. TypeOK'
  <2>1. subdomain_id' \in [Queue -> Label]
    BY <1>1, DivisionAssumption DEF TypeOK, Label, MAX
  <2> QED
    BY <1>1, <2>1, InputUnchanged DEF TypeOK, Step, Ended
<1>4. SubdomainsPartitionTheSeeds'
  BY <1>1, <1>2, InputUnchanged DEF SubdomainsPartitionTheSeeds
<1>5. \A i \in Ready : i < total_seed_num
  <2> DEFINE S == {seed_num, queued_items - 1}
  <2>1. seed_num \in Nat /\ queued_items \in Nat /\ \A i \in Ready : i \in Int /\ i < seed_num
    BY Intervals DEF Ready
  <2>2. \E m \in S : \A x \in S : m >= x
    BY <2>1
  <2>3. total_seed_num \in S /\ \A x \in S : total_seed_num >= x
    BY <2>2 DEF total_seed_num, Max
  <2> QED
    BY <2>1, <2>3
<1>6. LabelsFollowSubdomains'
  <2> SUFFICES ASSUME NEW i \in Ready, NEW k \in Cluster, subdomain_id'[i] = k
               PROVE  /\ i \notin not_sync
                      /\ i \in items[k] \/ i = center[k] \/ (i \in disabled /\ FirstCenter(i))
    <3>1. \A i \in Ready : FirstCenter(i) =>
            \E p \in ReadyPair' : IsFarthestPair(p)' /\ i \in {p[1], p[2]}
      BY Zenon, <1>1, InputUnchanged DEF FirstCenter
    <3> QED
      BY Zenon, <1>1, <3>1, InputUnchanged DEF LabelsFollowSubdomains
  <2>1. i \notin not_sync /\ subdomain_id[i] = k /\ k # MAX
    BY Zenon, <1>1, <1>5, Intervals
  <2>2. CASE i \in disabled
    BY <2>1, <2>2, <1>2 DEF DisabledLabels
  <2>3. CASE i \in is_center
    <3>1. PICK l \in Cluster : i = center[l] /\ subdomain_id[i] = l
      BY <2>3, <1>2 DEF CentersLabelled, Cluster
    <3> QED
      BY Zenon, <2>1, <3>1
  <2>4. CASE i \notin disabled /\ i \notin is_center
    BY <2>1, <2>4, <1>2 DEF ItemsOf, Members
  <2> QED
    BY Zenon, <2>1, <2>2, <2>3, <2>4
<1> QED
  BY Zenon, <1>1, <1>3, <1>4, <1>6, InputUnchanged DEF IInv, Choosing, Clustered, DiesOnlyForLackOfSeeds

LEMMA StutterStep == IInv /\ UNCHANGED vars => IInv'
<1> SUFFICES ASSUME IInv, UNCHANGED vars PROVE IInv'
  OBVIOUS
<1>1. /\ UNCHANGED input
      /\ UNCHANGED <<pc, subdomain_id, is_center, center, chosen, need_update_medoid, iter,
                     is_converged, items, r, contribute>>
  BY DEF vars, result
<1>2. /\ \A k : Members(k)' = Members(k) /\ ItemsOf(k)' = ItemsOf(k)
      /\ \A S : EnabledCenters(S)' <=> EnabledCenters(S)
  BY Zenon, <1>1, InputUnchanged DEF Members, ItemsOf, EnabledCenters
<1>3. TypeOK' /\ DistancesKnown'
  BY <1>1, InputUnchanged DEF IInv, TypeOK
<1>4. /\ CentersLabelled(worker_num) => CentersLabelled(worker_num)'
      /\ CentersLabelled(chosen) => CentersLabelled(chosen)'
      /\ Unlabelled(Ready \ is_center) => Unlabelled(Ready \ is_center)'
      /\ DisabledLabels => DisabledLabels'
  BY ZenonT(40), <1>1, InputUnchanged DEF CentersLabelled, Unlabelled, DisabledLabels
<1>5. /\ SubdomainsPartitionTheSeeds => SubdomainsPartitionTheSeeds'
      /\ LabelsFollowSubdomains => LabelsFollowSubdomains'
      /\ DiesOnlyForLackOfSeeds => DiesOnlyForLackOfSeeds'
  <2>1. SubdomainsPartitionTheSeeds => SubdomainsPartitionTheSeeds'
    <3> SUFFICES ASSUME SubdomainsPartitionTheSeeds, pc' \in {"labels", "done"}
                 PROVE  SubdomainsPartitionTheSeeds'
      BY Zenon DEF SubdomainsPartitionTheSeeds
    <3>1. UNCHANGED <<items, is_center, center, r, Cluster, Ready, disabled>> /\ pc' = pc
      BY Zenon, <1>1, InputUnchanged
    <3>2. /\ Ready \ disabled = (UNION {items[k] : k \in Cluster}) \union (is_center \ disabled)
          /\ \A k \in Cluster : /\ items[k] \intersect is_center = {}
                                /\ \A l \in Cluster \ {k} : items[k] \intersect items[l] = {}
      BY Zenon, <3>1 DEF SubdomainsPartitionTheSeeds
    <3>3. \A k \in Cluster : \A i \in items[k] : get_distance_from_matrix(i, center[k])' <= r[k]
      <4>1. \A k \in Cluster : \A i \in items[k] : get_distance_from_matrix(i, center[k]) <= r[k]
        BY Zenon, <3>1 DEF SubdomainsPartitionTheSeeds
      <4>2. \A i, j : get_distance_from_matrix(i, j)' = get_distance_from_matrix(i, j)
        BY Zenon, <1>1, InputUnchanged
      <4>3. \A i, k : get_distance_from_matrix(i, center[k])' = get_distance_from_matrix(i, center[k])
        <5> TAKE i, k
        <5>1. center'[k] = center[k]
          BY Zenon, <3>1
        <5> QED
          BY Zenon, <4>2, <5>1
      <4> QED
        BY Zenon, <4>1, <4>3
    <3> QED
      BY Zenon, <3>1, <3>2, <3>3 DEF SubdomainsPartitionTheSeeds
  <2>2. LabelsFollowSubdomains => LabelsFollowSubdomains'
    BY <1>1, InputUnchanged DEF FirstCenter, LabelsFollowSubdomains
  <2>3. DiesOnlyForLackOfSeeds => DiesOnlyForLackOfSeeds'
    BY Zenon, <1>1, InputUnchanged DEF DiesOnlyForLackOfSeeds
  <2> QED
    BY Zenon, <2>1, <2>2, <2>3
<1> QED
  BY Zenon, <1>1, <1>2, <1>3, <1>4, <1>5, InputUnchanged DEF IInv, Choosing, Clustered

LEMMA NextIInv == IInv /\ [Next]_vars => IInv'
BY StartStep, SingleWorkerStep, FirstTwoCentersStep, NextCenterStep, NoCandidateStep, AssignStep,
   UpdateStep, RadiiStep, LabelsStep, StutterStep
DEF Next, Divide, Terminated

-----------------------------------------------------------------------------
(* The quality of the clustering.                                          *)

(* Distances of enabled seeds are known and symmetric.                     *)
LEMMA EnabledDistance ==
  ASSUME TypeOK, DistancesKnown, NEW i \in Ready \ disabled, NEW j \in Ready \ disabled
  PROVE  /\ get_distance_from_matrix(i, j) \in Nat
         /\ get_distance_from_matrix(i, j) = get_distance_from_matrix(j, i)
<1>1. i \in Index /\ j \in Index /\ i \in Int /\ j \in Int
  BY Intervals DEF Index
<1>2. i < j => <<i, j>> \in Pair /\ dist[<<i, j>>] \in Nat
  BY <1>1 DEF Pair, DistancesKnown
<1>3. j < i => <<j, i>> \in Pair /\ dist[<<j, i>>] \in Nat
  BY <1>1 DEF Pair, DistancesKnown
<1> QED
  BY <1>1, <1>2, <1>3 DEF get_distance_from_matrix

LEMMA TotalDistType ==
  ASSUME TypeOK, DistancesKnown, NEW i \in Ready \ disabled, NEW k
  PROVE  TotalDist(i, k) \in Nat
<1> DEFINE f == [j \in Ready |-> IF j \in Members(k) THEN get_distance_from_matrix(i, j) ELSE 0]
<1>1. \A j \in Ready : f[j] \in Nat
  BY EnabledDistance DEF Members
<1>2. seed_num \in Nat /\ Ready = 0 .. seed_num - 1
  BY Intervals DEF Ready
<1> HIDE DEF f
<1>3. SumBelow(f, seed_num) \in Nat
  BY <1>1, <1>2, SumMonotonic
<1> QED
  BY <1>3 DEF TotalDist, f

(* The seed update_medoids takes has the least total distance.             *)
LEMMA MedoidIsLeast ==
  ASSUME TypeOK, DistancesKnown, NEW k, NEW i \in Members(k), IsMedoid(i, k), NEW j \in Members(k)
  PROVE  TotalDist(i, k) <= TotalDist(j, k)
<1>1. TotalDist(i, k) \in Nat /\ TotalDist(j, k) \in Nat
  BY TotalDistType DEF Members
<1>2. CASE j = i
  BY <1>1, <1>2
<1>3. CASE j # i
  BY <1>1, <1>3 DEF IsMedoid
<1> QED
  BY <1>2, <1>3

(* A cluster with the same members has the same total distances.           *)
LEMMA TotalDistUnchanged ==
  ASSUME UNCHANGED input, NEW k, Members(k)' = Members(k), NEW i
  PROVE  TotalDist(i, k)' = TotalDist(i, k)
<1>1. [j \in Ready |-> IF j \in Members(k) THEN get_distance_from_matrix(i, j) ELSE 0]' =
      [j \in Ready |-> IF j \in Members(k) THEN get_distance_from_matrix(i, j) ELSE 0]
  BY InputUnchanged
<1> QED
  BY <1>1, InputUnchanged DEF TotalDist

LEMMA AssignOptimum == IInv /\ OInv /\ assign_points_to_clusters => OInv'
<1> SUFFICES ASSUME IInv, OInv, assign_points_to_clusters PROVE OInv'
  OBVIOUS
<1>1. PICK new \in [Movable -> Cluster] :
        /\ \A i \in Movable : IsNearest(i, new[i])
        /\ subdomain_id' = [i \in Queue |-> IF i \in Movable THEN new[i] ELSE subdomain_id[i]]
        /\ need_update_medoid' = need_update_medoid \union ChangedClusters(new)
  BY DEF assign_points_to_clusters
<1>2. /\ UNCHANGED input /\ pc' = "update" /\ UNCHANGED <<center, is_center>>
      /\ (pc = "centers" /\ chosen = worker_num) \/ pc = "assign"
  BY Zenon DEF assign_points_to_clusters
<1>3. TypeOK /\ DistancesKnown /\ Movable \subseteq Ready \ disabled /\ Ready \subseteq Queue
  BY Intervals DEF IInv, Movable
<1>4. /\ \A i \in Movable : subdomain_id'[i] = new[i] /\ new[i] \in Cluster
      /\ \A i \in Ready \ Movable : subdomain_id'[i] = subdomain_id[i]
  BY Zenon, <1>1, <1>3
<1>5. NearestCenters'
  <2>1. Movable' = Movable
    BY Zenon, <1>2, InputUnchanged DEF Movable
  <2>2. \A i, k : IsNearest(i, k)' <=> IsNearest(i, k)
    BY <1>2, InputUnchanged DEF IsNearest
  <2> QED
    BY <1>1, <1>2, <1>4, <2>1, <2>2, InputUnchanged DEF NearestCenters
<1>6. ASSUME NEW k \in Cluster, k \notin need_update_medoid'
      PROVE  Members(k)' = Members(k)
  <2>1. ASSUME NEW i \in Ready \ disabled
        PROVE  subdomain_id'[i] = k <=> subdomain_id[i] = k
    <3>1. k # MAX
      BY <1>3, Intervals
    <3> QED
      BY <1>1, <1>4, <1>6, <3>1 DEF ChangedClusters
  <2> QED
    BY Zenon, <1>2, <2>1, InputUnchanged DEF Members
<1>7. ASSUME NEW k \in Cluster, k \notin need_update_medoid
      PROVE  \A i \in Members(k) : TotalDist(center[k], k) <= TotalDist(i, k)
  <2>1. CASE pc = "assign"
    BY <2>1, <1>7 DEF OInv, Medoids
  <2>2. CASE pc = "centers" /\ chosen = worker_num
    <3> TAKE i \in Members(k)
    <3>1. i \in Ready \ disabled /\ subdomain_id[i] = k /\ k # MAX
      BY Zenon, <1>3, Intervals DEF Members
    <3>2. CentersLabelled(worker_num) /\ i \in is_center
      BY Zenon, <2>2, <3>1 DEF IInv, Choosing, Unlabelled
    <3>3. i = center[k]
      BY Zenon, <3>1, <3>2 DEF CentersLabelled
    <3> QED
      BY <1>3, <3>1, <3>3, TotalDistType
  <2> QED
    BY <1>2, <2>1, <2>2
<1>8. Medoids(Cluster \ need_update_medoid)'
  <2> SUFFICES ASSUME NEW k \in Cluster, k \notin need_update_medoid', NEW i \in Members(k)'
               PROVE  TotalDist(center[k], k)' <= TotalDist(i, k)'
    BY Zenon, <1>2, InputUnchanged DEF Medoids
  <2>1. Members(k)' = Members(k) /\ k \notin need_update_medoid
    BY <1>1, <1>6
  <2>2. TotalDist(i, k)' = TotalDist(i, k) /\ TotalDist(center[k], k)' = TotalDist(center[k], k)
    <3>1. \A x : TotalDist(x, k)' = TotalDist(x, k)
      BY <1>2, <2>1, TotalDistUnchanged
    <3> QED
      BY <1>2, <3>1
  <2> QED
    BY Zenon, <1>7, <2>1, <2>2
<1> QED
  BY <1>2, <1>5, <1>8 DEF OInv

LEMMA UpdateOptimum == IInv /\ OInv /\ update_medoids => OInv'
<1> SUFFICES ASSUME IInv, OInv, update_medoids PROVE OInv'
  OBVIOUS
<1>1. PICK c \in [need_update_medoid -> Ready] :
        /\ \A k \in need_update_medoid : c[k] \in Members(k) /\ IsMedoid(c[k], k)
        /\ center' = [k \in Cluster |-> IF k \in need_update_medoid THEN c[k] ELSE center[k]]
        /\ is_center' = (is_center \ Demoted) \union {c[k] : k \in need_update_medoid}
        /\ need_update_medoid' = Moved(c)
  BY Zenon DEF update_medoids
<1>2. /\ UNCHANGED input /\ pc = "update" /\ UNCHANGED <<subdomain_id>>
      /\ is_converged' = (need_update_medoid' = {})
      /\ pc' = "radius" \/ pc' = "assign"
  BY Zenon DEF update_medoids
<1>3. /\ TypeOK /\ DistancesKnown /\ need_update_medoid \subseteq Cluster
      /\ Medoids(Cluster \ need_update_medoid) /\ NearestCenters
  BY <1>2 DEF IInv, OInv, TypeOK
<1>4. Medoids(Cluster)'
  <2> SUFFICES ASSUME NEW k \in Cluster, NEW i \in Members(k)
               PROVE  TotalDist(center'[k], k) <= TotalDist(i, k)
    <3>1. \A k : Members(k)' = Members(k)
      BY Zenon, <1>2, InputUnchanged DEF Members
    <3>2. \A k, x : TotalDist(x, k)' = TotalDist(x, k)
      BY Zenon, <1>2, <3>1, TotalDistUnchanged
    <3> QED
      BY <1>2, <3>1, <3>2, InputUnchanged DEF Medoids
  <2>1. CASE k \in need_update_medoid
    BY Zenon, <1>1, <1>3, <2>1, MedoidIsLeast
  <2>2. CASE k \notin need_update_medoid
    BY <1>1, <1>3, <2>2 DEF Medoids
  <2> QED
    BY Zenon, <2>1, <2>2
<1>5. ASSUME is_converged'
      PROVE  NearestCenters'
  <2>1. \A k \in need_update_medoid : c[k] = center[k]
    BY Zenon, <1>1, <1>2, <1>5 DEF Moved
  <2>2. center' = center
    BY Zenon, <1>1, <1>3, <2>1 DEF TypeOK
  <2>3. is_center' = is_center
    <3>1. CentersLabelled(worker_num)
      BY <1>2 DEF IInv, Clustered
    <3>2. \A k \in need_update_medoid : center[k] \in is_center
      BY <1>3, <3>1 DEF CentersLabelled, Cluster
    <3> QED
      BY Zenon, <1>1, <2>1, <3>2 DEF Demoted
  <2>4. Movable' = Movable
    BY Zenon, <1>2, <2>3, InputUnchanged DEF Movable
  <2>5. \A i, k : IsNearest(i, k)' <=> IsNearest(i, k)
    BY <1>2, <2>2, InputUnchanged DEF IsNearest
  <2> QED
    BY <1>2, <1>3, <2>4, <2>5, InputUnchanged DEF NearestCenters
<1> QED
  BY Zenon, <1>2, <1>4, <1>5 DEF OInv

LEMMA NextOInv == IInv /\ OInv /\ [Next]_vars => OInv'
<1> SUFFICES ASSUME IInv, OInv, [Next]_vars PROVE OInv'
  OBVIOUS
<1>1. CASE assign_points_to_clusters \/ update_medoids
  BY Zenon, <1>1, AssignOptimum, UpdateOptimum
<1>2. CASE Start \/ SingleWorker \/ FirstTwoCenters \/ NextCenter \/ NoCandidate
             \/ ComputeRadii \/ StoreLabels
  BY Zenon, <1>2
  DEF OInv, Start, SingleWorker, FirstTwoCenters, NextCenter, NoCandidate, ComputeRadii,
      StoreLabels
<1>3. CASE UNCHANGED vars
  <2>1. /\ UNCHANGED input
        /\ UNCHANGED <<pc, subdomain_id, is_center, center, need_update_medoid, is_converged>>
    BY <1>3 DEF vars
  <2>2. \A k : Members(k)' = Members(k)
    BY <2>1, InputUnchanged DEF Members
  <2>3. \A k, i : TotalDist(i, k)' = TotalDist(i, k)
    BY <2>1, <2>2, TotalDistUnchanged
  <2>4. \A S : Medoids(S)' <=> Medoids(S)
    BY Zenon, <2>1, <2>2, <2>3 DEF Medoids
  <2>5. NearestCenters' <=> NearestCenters
    BY <2>1, InputUnchanged DEF NearestCenters, Movable, IsNearest
  <2> QED
    BY <2>1, <2>4, <2>5, InputUnchanged DEF OInv
<1> QED
  BY <1>1, <1>2, <1>3 DEF Next, Divide, Terminated

-----------------------------------------------------------------------------
(* The cost of the clustering.                                             *)

(* The cost of centers c and labels l, once every enabled seed has one.    *)
CostOf(c, l) ==
  SumBelow([i \in Ready |-> IF i \in disabled THEN 0 ELSE get_distance_from_matrix(i, c[l[i]])],
           seed_num)

AllLabelled(l) == \A i \in Ready \ disabled : l[i] \in Cluster
AllEnabled(c)  == \A k \in Cluster : c[k] \in Ready \ disabled

LEMMA CostIsCostOf ==
  ASSUME TypeOK, AllLabelled(subdomain_id)
  PROVE  Cost = CostOf(center, subdomain_id)
<1>1. [i \in Ready |-> IF i \notin disabled /\ subdomain_id[i] # MAX
                       THEN get_distance_from_matrix(i, center[subdomain_id[i]]) ELSE 0] =
      [i \in Ready |-> IF i \in disabled THEN 0
                       ELSE get_distance_from_matrix(i, center[subdomain_id[i]])]
  BY Zenon, Intervals DEF AllLabelled
<1> QED
  BY Zenon, <1>1 DEF Cost, CostOf

(* Nearer centers cost less.                                               *)
LEMMA NearerCostsLess ==
  ASSUME TypeOK, DistancesKnown, AllEnabled(center),
         NEW l, NEW m, AllLabelled(l), AllLabelled(m),
         \A i \in Ready \ disabled : get_distance_from_matrix(i, center[l[i]])
                                       <= get_distance_from_matrix(i, center[m[i]])
  PROVE  CostOf(center, l) <= CostOf(center, m)
<1> DEFINE f == [i \in Ready |-> IF i \in disabled THEN 0
                                 ELSE get_distance_from_matrix(i, center[l[i]])]
           g == [i \in Ready |-> IF i \in disabled THEN 0
                                 ELSE get_distance_from_matrix(i, center[m[i]])]
<1>1. \A i \in Ready : f[i] \in Nat /\ g[i] \in Nat /\ f[i] <= g[i]
  BY EnabledDistance DEF AllLabelled, AllEnabled
<1>2. seed_num \in Nat /\ Ready = 0 .. seed_num - 1
  BY Zenon, Intervals DEF Ready
<1> HIDE DEF f, g
<1>3. SumBelow(f, seed_num) <= SumBelow(g, seed_num)
  BY <1>1, <1>2, SumMonotonic
<1> QED
  BY Zenon, <1>3 DEF CostOf, f, g

(* The cost is that of cluster k and that of the others.                   *)
LEMMA CostSplit ==
  ASSUME TypeOK, DistancesKnown, AllLabelled(subdomain_id), NEW c, AllEnabled(c), NEW k \in Cluster
  PROVE  LET rest == [i \in Ready |-> IF i \in disabled \/ subdomain_id[i] = k THEN 0
                                      ELSE get_distance_from_matrix(i, c[subdomain_id[i]])]
         IN  /\ SumBelow(rest, seed_num) \in Nat
             /\ CostOf(c, subdomain_id) = SumBelow(rest, seed_num) + TotalDist(c[k], k)
<1> DEFINE rest == [i \in Ready |-> IF i \in disabled \/ subdomain_id[i] = k THEN 0
                                    ELSE get_distance_from_matrix(i, c[subdomain_id[i]])]
           part == [i \in Ready |-> IF i \in Members(k) THEN get_distance_from_matrix(c[k], i) ELSE 0]
           all  == [i \in Ready |-> IF i \in disabled THEN 0
                                    ELSE get_distance_from_matrix(i, c[subdomain_id[i]])]
<1>1. \A i \in Ready \ disabled :
        /\ get_distance_from_matrix(i, c[subdomain_id[i]]) \in Nat
        /\ get_distance_from_matrix(c[k], i) \in Nat
        /\ get_distance_from_matrix(c[k], i) = get_distance_from_matrix(i, c[k])
  BY Zenon, EnabledDistance DEF AllLabelled, AllEnabled
<1>2. \A i \in Ready : rest[i] \in Nat /\ part[i] \in Nat /\ all[i] = rest[i] + part[i]
  BY <1>1 DEF Members
<1>3. seed_num \in Nat /\ Ready = 0 .. seed_num - 1
  BY Intervals DEF Ready
<1> HIDE DEF rest, part, all
<1>4. SumBelow(all, seed_num) = SumBelow(rest, seed_num) + SumBelow(part, seed_num)
  BY <1>2, <1>3, SumOfSums
<1>5. SumBelow(rest, seed_num) \in Nat
  BY <1>2, <1>3, SumMonotonic
<1> QED
  BY Zenon, <1>4, <1>5 DEF CostOf, TotalDist, rest, part, all

(* A better center of one cluster does not make the whole worse.           *)
LEMMA BetterCenter ==
  ASSUME TypeOK, DistancesKnown, AllLabelled(subdomain_id),
         NEW c, AllEnabled(c), NEW d, AllEnabled(d), NEW k \in Cluster,
         \A l \in Cluster \ {k} : c[l] = d[l],
         TotalDist(d[k], k) <= TotalDist(c[k], k)
  PROVE  /\ CostOf(d, subdomain_id) <= CostOf(c, subdomain_id)
         /\ CostOf(d, subdomain_id) \in Nat /\ CostOf(c, subdomain_id) \in Nat
<1> DEFINE rest(x) == [i \in Ready |-> IF i \in disabled \/ subdomain_id[i] = k THEN 0
                                       ELSE get_distance_from_matrix(i, x[subdomain_id[i]])]
<1>1. rest(c) = rest(d)
  BY Zenon DEF AllLabelled
<1>2. TotalDist(c[k], k) \in Nat /\ TotalDist(d[k], k) \in Nat
  BY TotalDistType DEF AllEnabled
<1>3. /\ SumBelow(rest(c), seed_num) \in Nat
      /\ CostOf(c, subdomain_id) = SumBelow(rest(c), seed_num) + TotalDist(c[k], k)
  BY Zenon, CostSplit
<1>4. CostOf(d, subdomain_id) = SumBelow(rest(d), seed_num) + TotalDist(d[k], k)
  BY Zenon, CostSplit
<1> HIDE DEF rest
<1> QED
  BY <1>1, <1>2, <1>3, <1>4

(* So moving all centers, one after the other, does not.                   *)
LEMMA BetterCenters ==
  ASSUME TypeOK, DistancesKnown, AllLabelled(subdomain_id),
         NEW c, AllEnabled(c), NEW d, AllEnabled(d),
         \A k \in Cluster : TotalDist(d[k], k) <= TotalDist(c[k], k)
  PROVE  CostOf(d, subdomain_id) <= CostOf(c, subdomain_id)
<1> DEFINE mix(m) == [k \in Cluster |-> IF k < m THEN d[k] ELSE c[k]]
           cost(m) == CostOf(mix(m), subdomain_id)
           S == {m \in 0 .. worker_num : cost(m) \in Nat /\ cost(m) <= cost(0)}
<1>1. worker_num \in Nat /\ worker_num >= 1 /\ Cluster = 0 .. worker_num - 1
  BY Intervals DEF TypeOK, Cluster
<1>2. ASSUME NEW m \in 0 .. worker_num - 1
      PROVE  cost(m + 1) <= cost(m) /\ cost(m + 1) \in Nat /\ cost(m) \in Nat
  <2>1. m \in Cluster
    BY <1>1
  <2>2. AllEnabled(mix(m)) /\ AllEnabled(mix(m + 1))
    BY <1>1 DEF AllEnabled
  <2>3. /\ \A l \in Cluster \ {m} : mix(m)[l] = mix(m + 1)[l]
        /\ mix(m)[m] = c[m] /\ mix(m + 1)[m] = d[m]
    BY <1>1
  <2> HIDE DEF mix
  <2> QED
    BY <2>1, <2>2, <2>3, BetterCenter
<1> HIDE DEF cost
<1>3. cost(0) \in Nat
  BY <1>1, <1>2
<1>4. 0 \in S
  BY <1>1, <1>3
<1>5. \A m \in 0 .. worker_num - 1 : m \in S => m + 1 \in S
  BY <1>1, <1>2, <1>3
<1> HIDE DEF S
<1>6. \A m \in 0 .. worker_num : m \in S
  BY <1>1, <1>4, <1>5, InductionUpTo
<1>7. cost(worker_num) <= cost(0)
  BY <1>1, <1>6 DEF S
<1>8. CostOf(d, subdomain_id) = cost(worker_num) /\ CostOf(c, subdomain_id) = cost(0)
  <2>1. \A k \in Cluster : mix(worker_num)[k] = d[k] /\ mix(0)[k] = c[k]
    BY <1>1
  <2> HIDE DEF mix
  <2> QED
    BY <2>1 DEF cost, CostOf, AllLabelled
<1> QED
  BY Zenon, <1>7, <1>8

(* Neither step of the loop increases the cost.                            *)
LEMMA CostStep ==
  ASSUME IInv, [Next]_vars,
         pc \in {"assign", "update"}, pc' \in {"assign", "update", "radius"},
         is_center \intersect disabled = {}
  PROVE  Cost' <= Cost
<1>1. /\ TypeOK /\ DistancesKnown /\ CentersLabelled(worker_num) /\ AllLabelled(subdomain_id)
      /\ AllEnabled(center) /\ \A k \in Cluster : center[k] \in Members(k)
  <2>1. TypeOK /\ DistancesKnown /\ CentersLabelled(worker_num) /\ AllLabelled(subdomain_id)
    BY DEF IInv, Clustered, AllLabelled
  <2>2. \A k \in Cluster : center[k] \in is_center /\ center[k] \in Ready
                             /\ subdomain_id[center[k]] = k
    BY <2>1 DEF CentersLabelled, Cluster
  <2> QED
    BY ZenonT(40), <2>1, <2>2 DEF AllEnabled, Members
<1>2. Cost = CostOf(center, subdomain_id)
  BY <1>1, CostIsCostOf
<1>3. IInv'
  BY NextIInv
<1>4. ASSUME UNCHANGED input
      PROVE  Cost' = CostOf(center', subdomain_id') /\ AllLabelled(subdomain_id')
  <2>1. AllLabelled(subdomain_id')
    BY Zenon, <1>3, <1>4, InputUnchanged DEF IInv, Clustered, AllLabelled
  <2>2. [i \in Ready |-> IF i \notin disabled /\ subdomain_id[i] # MAX
                         THEN get_distance_from_matrix(i, center[subdomain_id[i]]) ELSE 0]' =
        [i \in Ready |-> IF i \in disabled THEN 0
                         ELSE get_distance_from_matrix(i, center'[subdomain_id'[i]])]
    BY <1>1, <1>4, <2>1, Intervals, InputUnchanged DEF AllLabelled
  <2> QED
    BY Zenon, <1>4, <2>1, <2>2, InputUnchanged DEF Cost, CostOf
<1>5. CASE assign_points_to_clusters
  <2>1. PICK new \in [Movable -> Cluster] :
          /\ \A i \in Movable : IsNearest(i, new[i])
          /\ subdomain_id' = [i \in Queue |-> IF i \in Movable THEN new[i] ELSE subdomain_id[i]]
    BY <1>5 DEF assign_points_to_clusters
  <2>2. UNCHANGED input /\ center' = center
    BY Zenon, <1>5 DEF assign_points_to_clusters
  <2>3. ASSUME NEW i \in Ready \ disabled
        PROVE  get_distance_from_matrix(i, center[subdomain_id'[i]])
                 <= get_distance_from_matrix(i, center[subdomain_id[i]])
    <3>1. i \in Queue /\ subdomain_id[i] \in Cluster
      BY <1>1, Intervals DEF AllLabelled
    <3>2. \A k \in Cluster : get_distance_from_matrix(i, center[k]) \in Nat
      BY Zenon, <1>1, EnabledDistance DEF AllEnabled
    <3>3. CASE i \in Movable
      <4>1. subdomain_id'[i] = new[i] /\ new[i] \in Cluster /\ IsNearest(i, new[i])
        BY Zenon, <2>1, <3>1, <3>3
      <4> QED
        BY <3>1, <3>2, <4>1 DEF IsNearest
    <3>4. CASE i \notin Movable
      <4>1. subdomain_id'[i] = subdomain_id[i]
        BY <2>1, <3>1, <3>4
      <4> QED
        BY <3>1, <3>2, <4>1
    <3> QED
      BY <3>3, <3>4
  <2>4. CostOf(center, subdomain_id') <= CostOf(center, subdomain_id)
    BY Zenon, <1>1, <1>4, <2>2, <2>3, NearerCostsLess
  <2> QED
    BY Zenon, <1>2, <1>4, <2>2, <2>4
<1>6. CASE update_medoids
  <2>1. PICK c \in [need_update_medoid -> Ready] :
          /\ \A k \in need_update_medoid : c[k] \in Members(k) /\ IsMedoid(c[k], k)
          /\ center' = [k \in Cluster |-> IF k \in need_update_medoid THEN c[k] ELSE center[k]]
    BY Zenon, <1>6 DEF update_medoids
  <2>2. UNCHANGED input /\ subdomain_id' = subdomain_id
    BY Zenon, <1>6 DEF update_medoids
  <2>3. ASSUME NEW k \in Cluster
        PROVE  /\ center'[k] \in Ready \ disabled
               /\ TotalDist(center'[k], k) <= TotalDist(center[k], k)
    <3>1. CASE k \in need_update_medoid
      BY Zenon, <1>1, <2>1, <3>1, MedoidIsLeast DEF Members
    <3>2. CASE k \notin need_update_medoid
      <4>1. center'[k] = center[k] /\ center[k] \in Ready \ disabled
        BY <1>1, <2>1, <3>2 DEF AllEnabled
      <4>2. TotalDist(center[k], k) \in Nat
        BY Zenon, <1>1, <4>1, TotalDistType
      <4>3. TotalDist(center'[k], k) = TotalDist(center[k], k)
        BY Zenon, <4>1
      <4>4. \A x \in Nat : x <= x
        OBVIOUS
      <4> QED
        BY Zenon, <4>1, <4>2, <4>3, <4>4
    <3> QED
      BY Zenon, <3>1, <3>2
  <2>4. CostOf(center', subdomain_id) <= CostOf(center, subdomain_id)
    BY <1>1, <2>3, BetterCenters DEF AllEnabled
  <2> QED
    BY Zenon, <1>2, <1>4, <2>2, <2>4
<1>7. CASE UNCHANGED vars
  <2>1. UNCHANGED <<input, center, subdomain_id>>
    BY <1>7 DEF vars
  <2>2. Cost' = Cost
    BY <1>2, <1>4, <2>1
  <2>3. CostOf(center, subdomain_id) <= CostOf(center, subdomain_id)
    <3>1. \A i \in Ready \ disabled :
            get_distance_from_matrix(i, center[subdomain_id[i]])
              <= get_distance_from_matrix(i, center[subdomain_id[i]])
      BY <1>1, EnabledDistance DEF AllEnabled, AllLabelled
    <3> QED
      BY ZenonT(40), <1>1, <3>1, NearerCostsLess
  <2> QED
    BY <1>2, <2>2, <2>3
<1> QED
  BY <1>5, <1>6, <1>7
  DEF Next, Divide, Terminated, Start, SingleWorker, FirstTwoCenters, NextCenter, NoCandidate,
      ComputeRadii, StoreLabels

-----------------------------------------------------------------------------
(* The theorems.                                                           *)

LEMMA Invariance == Spec => []IInv
BY InitIInv, NextIInv, PTL DEF Spec

(* The variables of a division keep their types, whatever labels and flags *)
(* the previous division left behind.                                      *)
THEOREM DivisionTypes == Spec => []TypeOK
<1>1. IInv => TypeOK
  BY Zenon DEF IInv
<1> QED
  BY <1>1, Invariance, PTL

(* center, is_center and subdomain_id agree in every iteration, and a      *)
(* cluster whose medoid is recomputed has an enabled member: the assertion *)
(* in update_medoids cannot fail, whichever seeds are disabled.            *)
THEOREM CentersAgree == Spec => []CentersConsistent
<1>1. IInv => CentersConsistent
  <2> SUFFICES ASSUME IInv, Iterating PROVE CentersConsistent
    BY Zenon DEF CentersConsistent
  <2>1. CentersLabelled(worker_num)
    BY DEF IInv, Iterating, Clustered
  <2>2. \A k, l \in Cluster : center[k] = center[l] => k = l
    BY Zenon, <2>1, CentersDiffer DEF Cluster
  <2> QED
    BY Zenon, <2>1, <2>2 DEF IInv, CentersConsistent, CentersLabelled, Cluster
<1> QED
  BY <1>1, Invariance, PTL

(* The items and the centers are a partition of the enabled seeds with a   *)
(* row, and the radius of a subdomain reaches all of its items.            *)
THEOREM ItemsArePartitioned == Spec => []SubdomainsPartitionTheSeeds
<1>1. IInv => SubdomainsPartitionTheSeeds
  BY Zenon DEF IInv
<1> QED
  BY <1>1, Invariance, PTL

(* A stored label is the subdomain that holds the seed, except for the     *)
(* first two centers, which get_domain_center takes disabled or not.       *)
THEOREM LabelsAreRight == Spec => []LabelsFollowSubdomains
<1>1. IInv => LabelsFollowSubdomains
  BY Zenon DEF IInv
<1> QED
  BY <1>1, Invariance, PTL

(* The assertion on the number of seeds and the FATAL of get_domain_center *)
(* are reached only when there are too few seeds.                          *)
THEOREM OnlyLackOfSeedsIsFatal == Spec => []DiesOnlyForLackOfSeeds
<1>1. IInv => DiesOnlyForLackOfSeeds
  BY DEF IInv
<1> QED
  BY <1>1, Invariance, PTL

(* When the iteration ends, every center is a medoid of its cluster; and   *)
(* if it ends because nothing changed, every seed is in the cluster of its *)
(* nearest center.                                                         *)
THEOREM EndsInLocalOptimum == Spec => []LocalOptimum
<1>1. Init => OInv
  BY Zenon DEF Init, OInv
<1>2. IInv /\ OInv => LocalOptimum
  BY DEF OInv, LocalOptimum, Medoids, NearestCenters
<1> QED
  BY <1>1, <1>2, NextOInv, Invariance, PTL DEF Spec

(* With enabled centers no step of the loop makes the clustering worse, so *)
(* a moved medoid is always an improvement.                                *)
THEOREM CostFalls == Spec => CostNeverIncreases
<1>1. IInv /\ [Next]_vars =>
        [ /\ pc \in {"assign", "update"} /\ pc' \in {"assign", "update", "radius"}
          /\ is_center \intersect disabled = {}
          => Cost' <= Cost ]_vars
  BY CostStep
<1> QED
  BY <1>1, Invariance, PTL DEF Spec, CostNeverIncreases

=============================================================================
