------------------------- MODULE CooperationProofs -------------------------
(***************************************************************************)
(* The marks a worker puts on its seeds are right for every set of traces, *)
(* every distance, every division and any number of seeds.                 *)
(***************************************************************************)
EXTENDS Cooperation, SequenceTheorems, TLAPS

(* What the three invariants need in addition: the load-balancing seed     *)
(* exists only between do_load_balance and the end of fuzz_one, so it      *)
(* meets neither an adoption nor a radius of do_cooperation; its deviation *)
(* is DBL_MAX; and with a center every radius stays below DBL_MAX.         *)
Inv ==
  /\ TypeOK
  /\ MarksMatchRadius /\ DeviationsAreCurrent /\ LBSeedNotInSubdomain
  /\ pc \in {"coop", "poll", "sync", "balance"} => LB_seed = 0
  /\ LB_seed # 0 => queue[LB_seed].center_deviation = DBL_MAX
  /\ center # NoPoint => r < DBL_MAX /\ adjust_r <= MaxDist
  /\ pc # "coop" => adjust_r = -1

-----------------------------------------------------------------------------
(* The operators on queues.                                                *)

(* A distance is a number between 0 and MaxDist.                           *)
LEMMA DistType == \A p, q \in Point : Dist(p, q) \in 0 .. MaxDist
BY CooperationAssumption

(* Deviation is a distance, or DBL_MAX without a center.                   *)
LEMMA DeviationType ==
  ASSUME center \in Point \union {NoPoint}, NEW p \in Point
  PROVE  /\ Deviation(p) \in 0 .. DBL_MAX
         /\ center # NoPoint => Deviation(p) = Dist(center, p) /\ Deviation(p) <= MaxDist
BY CooperationAssumption DEF Deviation, DBL_MAX

(* Added appends one entry and leaves the others alone.                    *)
LEMMA AddedProperties ==
  ASSUME center \in Point \union {NoPoint},
         NEW q \in Seq(Entry), NEW p \in Point, NEW radius
  PROVE  /\ Added(q, p, radius) \in Seq(Entry)
         /\ Len(Added(q, p, radius)) = Len(q) + 1
         /\ \A i \in 1 .. Len(q) : Added(q, p, radius)[i] = q[i]
         /\ Added(q, p, radius)[Len(q) + 1] =
              [trace |-> p, center_deviation |-> Deviation(p),
               in_subdomain |-> Inside(Deviation(p), radius)]
<1> DEFINE e == [trace |-> p, center_deviation |-> Deviation(p),
                 in_subdomain |-> Inside(Deviation(p), radius)]
<1>1. e \in Entry
  BY DeviationType DEF Entry, Inside
<1>2. Added(q, p, radius) = Append(q, e)
  BY DEF Added
<1> HIDE DEF e
<1>3. QED
  BY <1>1, <1>2, AppendProperties DEF e

(* MoveIn changes nothing but marks, and sets those within the radius.     *)
LEMMA MoveInProperties ==
  ASSUME NEW q \in Seq(Entry), NEW radius \in Int
  PROVE  /\ MoveIn(q, radius) \in Seq(Entry)
         /\ Len(MoveIn(q, radius)) = Len(q)
         /\ \A i \in 1 .. Len(q) :
              /\ MoveIn(q, radius)[i].trace = q[i].trace
              /\ MoveIn(q, radius)[i].center_deviation = q[i].center_deviation
              /\ MoveIn(q, radius)[i].in_subdomain
                   <=> (q[i].in_subdomain \/ q[i].center_deviation <= radius)
<1>1. Len(q) \in Nat /\ \A i \in 1 .. Len(q) : q[i] \in Entry
  BY LenProperties, ElementOfSeq
<1>2. \A i \in 1 .. Len(q) :
        [q[i] EXCEPT !.in_subdomain = @ \/ q[i].center_deviation <= radius] \in Entry
  BY Zenon, <1>1 DEF Entry
<1>3. MoveIn(q, radius) \in [1 .. Len(q) -> Entry]
  BY <1>2 DEF MoveIn
<1>4. MoveIn(q, radius) \in Seq(Entry)
  BY <1>1, <1>3, SeqDef
<1>5. Len(MoveIn(q, radius)) = Len(q)
  BY <1>1, <1>3, <1>4, LenProperties
<1>6. QED
  BY Zenon, <1>1, <1>4, <1>5 DEF MoveIn, Entry

(* Measured sets the deviation and the mark of every entry.                *)
LEMMA MeasuredProperties ==
  ASSUME queue \in Seq(Entry), NEW c \in Point, NEW radius \in Int
  PROVE  /\ Measured(c, radius) \in Seq(Entry)
         /\ Len(Measured(c, radius)) = Len(queue)
         /\ \A i \in 1 .. Len(queue) :
              /\ Measured(c, radius)[i].trace = queue[i].trace
              /\ Measured(c, radius)[i].center_deviation = Dist(c, queue[i].trace)
              /\ Measured(c, radius)[i].in_subdomain
                   <=> Dist(c, queue[i].trace) <= radius
<1>1. Len(queue) \in Nat /\ \A i \in 1 .. Len(queue) : queue[i] \in Entry
  BY LenProperties, ElementOfSeq
<1>2. ASSUME NEW i \in 1 .. Len(queue)
      PROVE  [queue[i] EXCEPT !.center_deviation = Dist(c, queue[i].trace),
                              !.in_subdomain = Dist(c, queue[i].trace) <= radius] \in Entry
  <2>1. queue[i].trace \in Point
    BY <1>1 DEF Entry
  <2>2. Dist(c, queue[i].trace) \in 0 .. MaxDist
    BY <2>1, DistType
  <2>3. Dist(c, queue[i].trace) \in 0 .. DBL_MAX
    BY <2>2, CooperationAssumption DEF DBL_MAX
  <2> DEFINE d == Dist(c, queue[i].trace)
             m == d <= radius
  <2>4. m \in BOOLEAN /\ d \in 0 .. DBL_MAX /\ queue[i] \in Entry
    BY <1>1, <2>3
  <2> HIDE DEF d, m
  <2>5. [queue[i] EXCEPT !.center_deviation = d, !.in_subdomain = m] \in Entry
    BY Zenon, <2>4 DEF Entry
  <2>6. QED
    BY <2>5 DEF d, m
<1>3. Measured(c, radius) \in [1 .. Len(queue) -> Entry]
  BY Zenon, <1>2 DEF Measured
<1>4. Measured(c, radius) \in Seq(Entry)
  BY <1>1, <1>3, SeqDef
<1>5. Len(Measured(c, radius)) = Len(queue)
  BY <1>1, <1>3, <1>4, LenProperties
<1>6. QED
  BY Zenon, <1>1, <1>4, <1>5 DEF Measured, Entry

(* Without drops exactly one entry.                                        *)
LEMMA WithoutProperties ==
  ASSUME NEW q \in Seq(Entry), NEW i \in 1 .. Len(q)
  PROVE  /\ Without(q, i) \in Seq(Entry)
         /\ Len(Without(q, i)) = Len(q) - 1
         /\ \A j \in 1 .. Len(q) - 1 :
              Without(q, i)[j] = q[IF j < i THEN j ELSE j + 1]
<1>1. Len(q) \in Nat /\ \A j \in 1 .. Len(q) : q[j] \in Entry
  BY LenProperties, ElementOfSeq
<1> DEFINE a == SubSeq(q, 1, i - 1)
           b == SubSeq(q, i + 1, Len(q))
<1>2. /\ a \in Seq(Entry) /\ Len(a) = i - 1
      /\ \A j \in 1 .. i - 1 : a[j] = q[j]
  <2>1. \A j \in 1 .. i - 1 : q[j] \in Entry
    BY <1>1
  <2>2. i - 1 \in Int /\ 1 \in Int
    BY <1>1
  <2>3. /\ a \in Seq(Entry)
        /\ Len(a) = IF 1 <= i - 1 THEN (i - 1) - 1 + 1 ELSE 0
        /\ \A j \in 1 .. (i - 1) - 1 + 1 : a[j] = q[1 + j - 1]
    BY <2>1, <2>2, SubSeqProperties
  <2>4. QED
    BY <1>1, <2>3
<1>3. /\ b \in Seq(Entry) /\ Len(b) = Len(q) - i
      /\ \A j \in 1 .. Len(q) - i : b[j] = q[i + j]
  <2>1. \A j \in i + 1 .. Len(q) : q[j] \in Entry
    BY <1>1
  <2>2. i + 1 \in Int /\ Len(q) \in Int
    BY <1>1
  <2>3. /\ b \in Seq(Entry)
        /\ Len(b) = IF i + 1 <= Len(q) THEN Len(q) - (i + 1) + 1 ELSE 0
        /\ \A j \in 1 .. Len(q) - (i + 1) + 1 : b[j] = q[(i + 1) + j - 1]
    BY <2>1, <2>2, SubSeqProperties
  <2>4. QED
    BY <1>1, <2>3
<1>4. Without(q, i) = a \o b
  BY DEF Without
<1> HIDE DEF a, b
<1>5. /\ a \o b \in Seq(Entry) /\ Len(a \o b) = Len(a) + Len(b)
      /\ \A j \in 1 .. Len(a) + Len(b) :
           (a \o b)[j] = IF j <= Len(a) THEN a[j] ELSE b[j - Len(a)]
  BY Zenon, <1>2, <1>3, ConcatProperties
<1>6. ASSUME NEW j \in 1 .. Len(q) - 1
      PROVE  (a \o b)[j] = q[IF j < i THEN j ELSE j + 1]
  <2>1. CASE j < i
    BY <1>1, <1>2, <1>3, <1>5, <2>1
  <2>2. CASE j >= i
    <3>1. j - (i - 1) \in 1 .. Len(q) - i /\ i + (j - (i - 1)) = j + 1
      BY <1>1, <2>2
    <3>2. j \in 1 .. Len(a) + Len(b) /\ ~ (j <= Len(a))
      BY <1>1, <1>2, <1>3, <2>2
    <3>3. (a \o b)[j] = b[j - (i - 1)]
      BY <1>2, <1>5, <3>2
    <3>4. b[j - (i - 1)] = q[i + (j - (i - 1))]
      BY <1>3, <3>1
    <3>5. (a \o b)[j] = q[j + 1]
      BY <3>1, <3>3, <3>4
    <3>6. QED
      BY <1>1, <2>2, <3>5
  <2>3. j < i \/ j >= i
    BY <1>1
  <2>4. QED
    BY Zenon, <2>1, <2>2, <2>3
<1>7. QED
  BY <1>1, <1>2, <1>3, <1>4, <1>5, <1>6

-----------------------------------------------------------------------------
(* The invariant.                                                          *)

(* The fields of a new entry.                                              *)
LEMMA EntryFields ==
  ASSUME NEW p, NEW d, NEW b \in BOOLEAN, NEW e,
         e = [trace |-> p, center_deviation |-> d, in_subdomain |-> b]
  PROVE  e.trace = p /\ e.center_deviation = d /\ (e.in_subdomain <=> b)
OBVIOUS

(* A new entry measured from the present center keeps the marks exact.     *)
LEMMA AddedKeepsMarks ==
  ASSUME Inv, NEW p \in Point, Len(queue) < MaxQueue,
         queue' = Added(queue, p, r),
         UNCHANGED <<center, r, LB_seed>>
  PROVE  /\ queue' \in Seq(Entry) /\ Len(queue') <= MaxQueue
         /\ LB_seed' \in 0 .. Len(queue')
         /\ MarksMatchRadius' /\ DeviationsAreCurrent' /\ LBSeedNotInSubdomain'
         /\ LB_seed' # 0 => queue'[LB_seed'].center_deviation = DBL_MAX
<1>1. /\ center \in Point \union {NoPoint} /\ queue \in Seq(Entry)
      /\ Len(queue) \in Nat /\ LB_seed \in 0 .. Len(queue) /\ r \in 0 .. DBL_MAX
  BY LenProperties DEF Inv, TypeOK
<1>2. /\ queue' \in Seq(Entry) /\ Len(queue') = Len(queue) + 1
      /\ \A i \in 1 .. Len(queue) : queue'[i] = queue[i]
      /\ queue'[Len(queue) + 1] =
           [trace |-> p, center_deviation |-> Deviation(p),
            in_subdomain |-> Inside(Deviation(p), r)]
  BY <1>1, AddedProperties
<1>3. \A i \in 1 .. Len(queue') : i \in 1 .. Len(queue) \/ i = Len(queue) + 1
  BY <1>1, <1>2
<1>4. MarksMatchRadius'
  <2> DEFINE e == queue'[Len(queue) + 1]
  <2>1. e.center_deviation = Deviation(p) /\ (e.in_subdomain <=> Inside(Deviation(p), r))
    <3>1. Inside(Deviation(p), r) \in BOOLEAN
      BY DEF Inside
    <3>2. QED
      BY <1>2, <3>1, EntryFields
  <2>2. center # NoPoint => (e.in_subdomain <=> e.center_deviation <= r)
    BY <2>1 DEF Inside
  <2> HIDE DEF e
  <2>3. QED
    BY <1>2, <1>3, <2>2 DEF Inv, MarksMatchRadius, e
<1>5. DeviationsAreCurrent'
  <2>1. queue'[Len(queue) + 1].trace = p /\ queue'[Len(queue) + 1].center_deviation = Deviation(p)
    BY <1>2
  <2>2. ASSUME NEW i \in 1 .. Len(queue'), center # NoPoint, i # LB_seed'
        PROVE  queue'[i].center_deviation = Dist(center, queue'[i].trace)
    <3>1. CASE i \in 1 .. Len(queue)
      BY <1>1, <1>2, <2>2, <3>1 DEF Inv, DeviationsAreCurrent
    <3>2. CASE i = Len(queue) + 1
      BY <2>1, <2>2, <3>2 DEF Deviation
    <3> QED
      BY Zenon, <1>3, <3>1, <3>2
  <2> QED
    BY <1>1, <2>2 DEF DeviationsAreCurrent
<1>6. Len(queue') <= MaxQueue /\ LB_seed' \in 0 .. Len(queue')
  BY <1>1, <1>2, CooperationAssumption
<1>7. LBSeedNotInSubdomain' /\ (LB_seed' # 0 => queue'[LB_seed'].center_deviation = DBL_MAX)
  BY <1>1, <1>2 DEF Inv, LBSeedNotInSubdomain
<1>8. QED
  BY <1>2, <1>4, <1>5, <1>6, <1>7

(* The invariant holds initially.                                          *)
LEMMA InitInv == Init => Inv
<1> SUFFICES ASSUME Init PROVE Inv
  OBVIOUS
<1>1. PICK p \in Point :
        queue = <<[trace |-> p, center_deviation |-> DBL_MAX, in_subdomain |-> FALSE]>>
  BY Zenon DEF Init
<1>2. DBL_MAX \in Nat /\ DBL_MAX \in 0 .. DBL_MAX
  BY CooperationAssumption DEF DBL_MAX
<1>3. queue \in Seq(Entry) /\ Len(queue) = 1
  BY <1>1, <1>2 DEF Entry
<1>4. << >> \in Seq([id : Nat, center : Point])
  OBVIOUS
<1>5. TypeOK
  BY <1>2, <1>3, <1>4, CooperationAssumption DEF Init, TypeOK
<1>6. QED
  BY <1>5 DEF Init, Inv, MarksMatchRadius, DeviationsAreCurrent, LBSeedNotInSubdomain

(* Every step keeps the invariant.                                         *)
LEMMA NextInv == Inv /\ [Next]_vars => Inv'
<1> SUFFICES ASSUME Inv, [Next]_vars PROVE Inv'
  OBVIOUS
<1>1. /\ center \in Point \union {NoPoint} /\ queue \in Seq(Entry)
      /\ Len(queue) \in Nat /\ LB_seed \in 0 .. Len(queue) /\ r \in 0 .. DBL_MAX
      /\ \A i \in 1 .. Len(queue) : queue[i] \in Entry
  BY LenProperties, ElementOfSeq DEF Inv, TypeOK
<1>2. MaxDist \in Nat /\ DBL_MAX \in Nat /\ MaxDist < DBL_MAX
  BY CooperationAssumption DEF DBL_MAX
<1>3. ASSUME NEW p \in Point, FindSeed(p) PROVE Inv'
  <2>1. CASE ~ Outside(p) /\ queue' = Added(queue, p, r) /\ pushed' = NoSeed /\ UNCHANGED r
    <3>1. /\ queue' \in Seq(Entry) /\ Len(queue') <= MaxQueue /\ LB_seed' \in 0 .. Len(queue')
          /\ MarksMatchRadius' /\ DeviationsAreCurrent' /\ LBSeedNotInSubdomain'
          /\ LB_seed' # 0 => queue'[LB_seed'].center_deviation = DBL_MAX
      BY <1>3, <2>1, AddedKeepsMarks DEF FindSeed
    <3>2. QED
      BY <1>3, <2>1, <3>1 DEF FindSeed, Inv, TypeOK
  <2>2. CASE /\ Outside(p) /\ Nearer(p) = {} /\ r' = Dist(center, p)
             /\ queue' = Added(MoveIn(queue, r'), p, r') /\ pushed' = NoSeed
    <3>1. center \in Point /\ center # NoPoint /\ center' = center /\ LB_seed' = LB_seed
      BY <1>1, <1>3, <2>2 DEF Outside, FindSeed
    <3>2. r' \in 0 .. MaxDist /\ r' > r /\ Deviation(p) = r'
      BY <2>2, <3>1, DistType DEF Outside, Deviation
    <3> DEFINE q == MoveIn(queue, r')
    <3>3. /\ q \in Seq(Entry) /\ Len(q) = Len(queue)
          /\ \A i \in 1 .. Len(queue) :
               /\ q[i].trace = queue[i].trace
               /\ q[i].center_deviation = queue[i].center_deviation
               /\ q[i].in_subdomain
                    <=> (queue[i].in_subdomain \/ queue[i].center_deviation <= r')
      BY <1>1, <3>2, MoveInProperties
    <3> HIDE DEF q
    <3>4. /\ queue' \in Seq(Entry) /\ Len(queue') = Len(queue) + 1
          /\ \A i \in 1 .. Len(queue) : queue'[i] = q[i]
          /\ queue'[Len(queue) + 1] =
               [trace |-> p, center_deviation |-> Deviation(p),
                in_subdomain |-> Inside(Deviation(p), r')]
      <4>1. queue' = Added(q, p, r')
        BY <2>2 DEF q
      <4>2. QED
        BY <1>1, <3>3, <4>1, AddedProperties
    <3>5. \A i \in 1 .. Len(queue') : i \in 1 .. Len(queue) \/ i = Len(queue) + 1
      BY <1>1, <3>4
    <3>6. ASSUME NEW i \in 1 .. Len(queue)
          PROVE  queue'[i].in_subdomain <=> queue'[i].center_deviation <= r'
      <4>1. queue[i].center_deviation \in 0 .. DBL_MAX
        BY <1>1 DEF Entry
      <4>2. queue[i].in_subdomain <=> queue[i].center_deviation <= r
        BY <3>1 DEF Inv, MarksMatchRadius
      <4>3. queue[i].center_deviation <= r => queue[i].center_deviation <= r'
        BY <1>1, <1>2, <3>2, <4>1
      <4>4. QED
        BY <3>3, <3>4, <4>2, <4>3
    <3>7. queue'[Len(queue) + 1].in_subdomain
            <=> queue'[Len(queue) + 1].center_deviation <= r'
      <4>1. Inside(Deviation(p), r') <=> Deviation(p) <= r'
        BY <3>1 DEF Inside
      <4>2. Inside(Deviation(p), r') \in BOOLEAN
        BY DEF Inside
      <4>3. /\ queue'[Len(queue) + 1].center_deviation = Deviation(p)
            /\ queue'[Len(queue) + 1].in_subdomain <=> Inside(Deviation(p), r')
        BY <3>4, <4>2, EntryFields
      <4>4. QED
        BY <4>1, <4>3
    <3>8. MarksMatchRadius'
      BY <3>5, <3>6, <3>7 DEF MarksMatchRadius
    <3>9. DeviationsAreCurrent'
      <4>1. ASSUME NEW i \in 1 .. Len(queue), i # LB_seed
            PROVE  queue'[i].center_deviation = Dist(center, queue'[i].trace)
        <5>1. queue[i].center_deviation = Dist(center, queue[i].trace)
          BY <3>1, <4>1 DEF Inv, DeviationsAreCurrent
        <5>2. QED
          BY <3>3, <3>4, <5>1
      <4>2. /\ queue'[Len(queue) + 1].center_deviation = r'
            /\ queue'[Len(queue) + 1].trace = p
        BY <3>2, <3>4
      <4>3. QED
        BY <2>2, <3>1, <3>5, <4>1, <4>2 DEF DeviationsAreCurrent
    <3>10. LB_seed' # 0 => queue'[LB_seed'].center_deviation = DBL_MAX
      <4>1. LB_seed # 0 => LB_seed \in 1 .. Len(queue)
        BY <1>1
      <4>2. LB_seed # 0 => queue'[LB_seed].center_deviation = queue[LB_seed].center_deviation
        BY <3>3, <3>4, <4>1
      <4>3. QED
        BY <3>1, <4>2 DEF Inv
    <3>11. LBSeedNotInSubdomain'
      BY <1>1, <1>2, <3>1, <3>2, <3>4, <3>6, <3>10 DEF LBSeedNotInSubdomain
    <3>12. TypeOK'
      <4>1. r' \in 0 .. DBL_MAX
        BY <1>2, <3>2
      <4>2. Len(queue') <= MaxQueue /\ LB_seed' \in 0 .. Len(queue')
        <5>1. Len(queue) < MaxQueue
          BY <1>3 DEF FindSeed
        <5>2. Len(queue') = Len(queue) + 1
          BY <3>4
        <5>3. QED
          BY <1>1, <3>1, <5>1, <5>2, CooperationAssumption
      <4>3. UNCHANGED <<pc, id, center, subdomain_array, divisions, LB_seed, adjust_r>>
            /\ queue' \in Seq(Entry) /\ pushed' = NoSeed
        BY <1>3, <2>2, <3>4 DEF FindSeed
      <4>4. QED
        BY <4>1, <4>2, <4>3 DEF Inv, TypeOK
    <3>13. QED
      BY <1>2, <1>3, <3>1, <3>2, <3>8, <3>9, <3>10, <3>11, <3>12 DEF FindSeed, Inv
  <2>3. CASE /\ Outside(p) /\ queue' = Added(queue, p, r) /\ UNCHANGED r
             /\ \E k \in Nearer(p) :
                  SendTo(k, p) /\ pushed' = [id |-> subdomain_array[k].id, trace |-> p]
    <3>1. PICK k \in Nearer(p) : pushed' = [id |-> subdomain_array[k].id, trace |-> p]
      BY <2>3
    <3>2. subdomain_array \in Seq([id : Nat, center : Point])
          /\ k \in 1 .. Len(subdomain_array)
      BY DEF Inv, TypeOK, Nearer
    <3>3. subdomain_array[k].id \in Nat
      <4>1. subdomain_array[k] \in [id : Nat, center : Point]
        BY Zenon, <3>2, ElementOfSeq
      <4>2. QED
        BY <4>1
    <3>4. pushed' \in [id : Nat, trace : Point]
      BY <3>1, <3>3
    <3>5. /\ queue' \in Seq(Entry) /\ Len(queue') <= MaxQueue /\ LB_seed' \in 0 .. Len(queue')
          /\ MarksMatchRadius' /\ DeviationsAreCurrent' /\ LBSeedNotInSubdomain'
          /\ LB_seed' # 0 => queue'[LB_seed'].center_deviation = DBL_MAX
      BY <1>3, <2>3, AddedKeepsMarks DEF FindSeed
    <3>6. QED
      BY <1>3, <2>3, <3>4, <3>5 DEF FindSeed, Inv, TypeOK
  <2>4. QED
    BY <1>3, <2>1, <2>2, <2>3 DEF FindSeed
<1>4. CASE EndFuzzOne
  <2>1. CASE LB_seed = 0
    BY <1>1, <1>2, <1>4, <2>1
       DEF EndFuzzOne, sdVars, Inv, TypeOK, MarksMatchRadius, DeviationsAreCurrent,
           LBSeedNotInSubdomain
  <2>2. CASE LB_seed # 0
    <3>1. LB_seed \in 1 .. Len(queue) /\ queue' = Without(queue, LB_seed)
      BY <1>1, <1>4, <2>2 DEF EndFuzzOne
    <3>2. /\ queue' \in Seq(Entry) /\ Len(queue') = Len(queue) - 1
          /\ \A j \in 1 .. Len(queue) - 1 :
               queue'[j] = queue[IF j < LB_seed THEN j ELSE j + 1]
      BY Zenon, <1>1, <3>1, WithoutProperties
    <3>3. ASSUME NEW j \in 1 .. Len(queue')
          PROVE  \E i \in 1 .. Len(queue) : i # LB_seed /\ queue'[j] = queue[i]
      <4> DEFINE i == IF j < LB_seed THEN j ELSE j + 1
      <4>1. i \in 1 .. Len(queue) /\ i # LB_seed
        BY <1>1, <3>1, <3>2
      <4>2. queue'[j] = queue[i]
        BY <1>1, <3>2
      <4>3. QED
        BY <4>1, <4>2
    <3>4. center' = center /\ r' = r /\ LB_seed' = 0
      BY <1>4 DEF EndFuzzOne, sdVars
    <3>5. MarksMatchRadius'
      BY <3>3, <3>4 DEF Inv, MarksMatchRadius
    <3>6. DeviationsAreCurrent'
      BY <3>3, <3>4 DEF Inv, DeviationsAreCurrent
    <3>7. TypeOK'
      BY <1>1, <1>2, <1>4, <3>2, CooperationAssumption DEF EndFuzzOne, sdVars, Inv, TypeOK
    <3>8. QED
      BY <1>2, <1>4, <3>4, <3>5, <3>6, <3>7 DEF EndFuzzOne, Inv, LBSeedNotInSubdomain
  <2>3. QED
    BY <2>1, <2>2
<1>5. ASSUME NEW p \in Point, TakeSeed(p) PROVE Inv'
  <2>1. /\ queue' \in Seq(Entry) /\ Len(queue') <= MaxQueue /\ LB_seed' \in 0 .. Len(queue')
        /\ MarksMatchRadius' /\ DeviationsAreCurrent' /\ LBSeedNotInSubdomain'
        /\ LB_seed' # 0 => queue'[LB_seed'].center_deviation = DBL_MAX
    BY <1>5, AddedKeepsMarks DEF TakeSeed, sdVars
  <2>2. adjust_r' \in -1 .. DBL_MAX /\ (center # NoPoint => adjust_r' <= MaxDist)
    BY <1>1, <1>2, <1>5, DeviationType DEF TakeSeed, Inv, TypeOK
  <2>3. QED
    BY <1>5, <2>1, <2>2 DEF TakeSeed, sdVars, Inv, TypeOK
<1>6. CASE EndCooperation
  <2>1. CASE adjust_r <= r /\ UNCHANGED <<r, queue>>
    BY <1>1, <1>2, <1>6, <2>1
       DEF EndCooperation, Inv, TypeOK, MarksMatchRadius, DeviationsAreCurrent,
           LBSeedNotInSubdomain
  <2>2. CASE adjust_r > r /\ r' = adjust_r /\ queue' = MoveIn(queue, r')
    <3>1. /\ r' \in 0 .. DBL_MAX /\ r' > r /\ LB_seed = 0 /\ LB_seed' = 0 /\ center' = center
          /\ adjust_r' = -1
      BY <1>1, <1>2, <1>6, <2>2 DEF EndCooperation, Inv, TypeOK
    <3>2. /\ queue' \in Seq(Entry) /\ Len(queue') = Len(queue)
          /\ \A i \in 1 .. Len(queue) :
               /\ queue'[i].trace = queue[i].trace
               /\ queue'[i].center_deviation = queue[i].center_deviation
               /\ queue'[i].in_subdomain
                    <=> (queue[i].in_subdomain \/ queue[i].center_deviation <= r')
      BY <1>1, <2>2, <3>1, MoveInProperties
    <3>3. ASSUME center # NoPoint, NEW i \in 1 .. Len(queue)
          PROVE  queue'[i].in_subdomain <=> queue'[i].center_deviation <= r'
      <4>1. queue[i].center_deviation \in 0 .. DBL_MAX
        BY <1>1 DEF Entry
      <4>2. queue[i].in_subdomain <=> queue[i].center_deviation <= r
        BY <3>3 DEF Inv, MarksMatchRadius
      <4>3. queue[i].center_deviation <= r => queue[i].center_deviation <= r'
        BY <1>1, <1>2, <3>1, <4>1
      <4>4. QED
        BY <3>2, <4>2, <4>3
    <3>4. MarksMatchRadius'
      BY <3>1, <3>2, <3>3 DEF MarksMatchRadius
    <3>5. DeviationsAreCurrent'
      BY <3>1, <3>2 DEF Inv, DeviationsAreCurrent
    <3>6. center # NoPoint => r' < DBL_MAX
      BY <1>2, <2>2 DEF Inv, TypeOK
    <3>7. TypeOK'
      BY <1>1, <1>2, <1>6, <3>1, <3>2 DEF EndCooperation, Inv, TypeOK
    <3>8. QED
      BY <1>2, <3>1, <3>4, <3>5, <3>6, <3>7 DEF Inv, LBSeedNotInSubdomain
  <2>3. QED
    BY <1>6, <2>1, <2>2 DEF EndCooperation
<1>7. ASSUME NEW a \in Assignments, NEW radius \in Radius, update_subdomain(a, radius)
      PROVE  Inv'
  <2>1. /\ a.center \in Point /\ a.id \in Nat
        /\ a.table \in Seq([id : Nat, center : Point]) /\ a.center # NoPoint
    BY Zenon, CooperationAssumption
  <2>2. radius \in 0 .. DBL_MAX /\ radius < DBL_MAX /\ radius \in Int
    BY <1>2 DEF Radius, DBL_MAX
  <2>3. /\ queue' \in Seq(Entry) /\ Len(queue') = Len(queue)
        /\ \A i \in 1 .. Len(queue) :
             /\ queue'[i].trace = queue[i].trace
             /\ queue'[i].center_deviation = Dist(a.center, queue[i].trace)
             /\ queue'[i].in_subdomain <=> Dist(a.center, queue[i].trace) <= radius
    BY <1>1, <1>7, <2>1, <2>2, MeasuredProperties DEF update_subdomain
  <2>4. /\ center' = a.center /\ r' = radius /\ LB_seed = 0 /\ LB_seed' = 0
        /\ adjust_r' = adjust_r
    BY <1>7 DEF update_subdomain, Inv
  <2>5. MarksMatchRadius' /\ DeviationsAreCurrent' /\ LBSeedNotInSubdomain'
    BY <2>3, <2>4 DEF MarksMatchRadius, DeviationsAreCurrent, LBSeedNotInSubdomain
  <2>6. TypeOK'
    <3>1. /\ pc' = "sync" /\ id' = a.id /\ subdomain_array' = a.table
          /\ pushed' = pushed /\ divisions' \in 0 .. MaxDivisions
      BY <1>7, CooperationAssumption DEF update_subdomain, Inv, TypeOK
    <3>2. Len(queue') <= MaxQueue /\ LB_seed' \in 0 .. Len(queue')
      BY <1>1, <2>3, <2>4 DEF Inv, TypeOK
    <3>3. QED
      BY <2>1, <2>2, <2>3, <2>4, <3>1, <3>2 DEF Inv, TypeOK
  <2>7. adjust_r = -1 /\ -1 <= MaxDist
    BY <1>2, <1>7 DEF update_subdomain, Inv
  <2>8. QED
    BY <1>7, <2>2, <2>4, <2>5, <2>6, <2>7 DEF update_subdomain, Inv
<1>8. CASE NoUpdate
  BY <1>8 DEF NoUpdate, sdVars, Inv, TypeOK, MarksMatchRadius, DeviationsAreCurrent,
              LBSeedNotInSubdomain
<1>9. ASSUME NEW p \in Point, SyncSeed(p) PROVE Inv'
  <2>1. /\ queue' \in Seq(Entry) /\ Len(queue') <= MaxQueue /\ LB_seed' \in 0 .. Len(queue')
        /\ MarksMatchRadius' /\ DeviationsAreCurrent' /\ LBSeedNotInSubdomain'
        /\ LB_seed' # 0 => queue'[LB_seed'].center_deviation = DBL_MAX
    BY <1>9, AddedKeepsMarks DEF SyncSeed, sdVars
  <2>2. QED
    BY <1>9, <2>1 DEF SyncSeed, sdVars, Inv, TypeOK
<1>10. CASE EndSync
  BY <1>10 DEF EndSync, sdVars, Inv, TypeOK, MarksMatchRadius, DeviationsAreCurrent,
               LBSeedNotInSubdomain
<1>11. ASSUME NEW p \in Point, do_load_balance(p) PROVE Inv'
  <2> DEFINE e == [trace |-> p, center_deviation |-> DBL_MAX, in_subdomain |-> FALSE]
  <2>1. e \in Entry
    BY <1>2 DEF Entry
  <2>2. /\ queue' \in Seq(Entry) /\ Len(queue') = Len(queue) + 1
        /\ \A i \in 1 .. Len(queue) : queue'[i] = queue[i]
        /\ queue'[Len(queue) + 1] = e
    BY <1>1, <1>11, <2>1, AppendProperties DEF do_load_balance
  <2>3. /\ LB_seed = 0 /\ LB_seed' = Len(queue) + 1 /\ center' = center /\ r' = r
        /\ adjust_r' = adjust_r /\ adjust_r = -1 /\ pc' = "resync"
    BY <1>11, <2>2 DEF do_load_balance, sdVars, Inv
  <2>4. \A i \in 1 .. Len(queue') : i \in 1 .. Len(queue) \/ i = Len(queue) + 1
    BY <1>1, <2>2
  <2>5. \A i \in 1 .. Len(queue) : i # Len(queue) + 1 /\ i # 0
    BY <1>1
  <2>6. MarksMatchRadius'
    <3>1. center # NoPoint => ~ (DBL_MAX <= r)
      BY <1>1, <1>2 DEF Inv
    <3>2. QED
      BY <2>2, <2>3, <2>4, <3>1 DEF Inv, MarksMatchRadius
  <2>7. DeviationsAreCurrent'
    BY <2>2, <2>3, <2>4, <2>5 DEF Inv, DeviationsAreCurrent
  <2>8. LBSeedNotInSubdomain' /\ queue'[LB_seed'].center_deviation = DBL_MAX
    <3>1. queue'[LB_seed'] = e
      BY <2>2, <2>3
    <3>2. QED
      BY <3>1 DEF LBSeedNotInSubdomain
  <2>9. TypeOK'
    <3>1. UNCHANGED <<id, subdomain_array, divisions, pushed>> /\ Len(queue) < MaxQueue
      BY <1>11 DEF do_load_balance, sdVars
    <3>2. Len(queue') <= MaxQueue /\ LB_seed' \in 0 .. Len(queue')
      BY <1>1, <2>2, <2>3, <3>1, CooperationAssumption
    <3>3. QED
      BY <2>2, <2>3, <3>1, <3>2 DEF Inv, TypeOK
  <2>10. QED
    BY <1>2, <2>3, <2>6, <2>7, <2>8, <2>9 DEF Inv
<1>12. CASE NoBalance
  BY <1>12 DEF NoBalance, sdVars, Inv, TypeOK, MarksMatchRadius, DeviationsAreCurrent,
               LBSeedNotInSubdomain
<1>13. CASE UNCHANGED vars
  BY <1>13 DEF vars, sdVars, Inv, TypeOK, MarksMatchRadius, DeviationsAreCurrent,
               LBSeedNotInSubdomain
<1>14. QED
  BY <1>3, <1>4, <1>5, <1>6, <1>7, <1>8, <1>9, <1>10, <1>11, <1>12, <1>13 DEF Next

-----------------------------------------------------------------------------
(* What a step may not do.                                                 *)

(* Entries of the subdomain are in the next queue too, and the radius is   *)
(* no smaller.                                                             *)
Kept ==
  /\ r' >= r
  /\ \A i \in 1 .. Len(queue) :
       queue[i].in_subdomain => \E j \in 1 .. Len(queue') : queue'[j] = queue[i]

(* MoveIn leaves the entries of the subdomain as they are.                 *)
LEMMA MoveInKeeps ==
  ASSUME NEW q \in Seq(Entry), NEW radius \in Int, NEW i \in 1 .. Len(q), q[i].in_subdomain
  PROVE  MoveIn(q, radius)[i] = q[i]
<1>1. q[i] \in Entry
  BY ElementOfSeq
<1>2. MoveIn(q, radius)[i]
        = [q[i] EXCEPT !.in_subdomain = @ \/ q[i].center_deviation <= radius]
  BY DEF MoveIn
<1>3. q[i].in_subdomain = TRUE
  BY <1>1 DEF Entry
<1>4. (q[i].in_subdomain \/ q[i].center_deviation <= radius) = TRUE
  BY <1>3
<1>5. [q[i] EXCEPT !.in_subdomain = TRUE] = q[i]
  BY Zenon, <1>1, <1>3 DEF Entry
<1> QED
  BY Zenon, <1>2, <1>4, <1>5

(* Without drops no other entry.                                           *)
LEMMA WithoutKeeps ==
  ASSUME NEW q \in Seq(Entry), NEW k \in 1 .. Len(q), NEW i \in 1 .. Len(q), i # k
  PROVE  \E j \in 1 .. Len(Without(q, k)) : Without(q, k)[j] = q[i]
<1>1. Len(q) \in Nat
  BY LenProperties
<1>2. /\ Len(Without(q, k)) = Len(q) - 1
      /\ \A j \in 1 .. Len(q) - 1 : Without(q, k)[j] = q[IF j < k THEN j ELSE j + 1]
  BY WithoutProperties
<1>3. CASE i < k
  <2>1. i \in 1 .. Len(q) - 1 /\ Without(q, k)[i] = q[i]
    BY <1>1, <1>2, <1>3
  <2> QED
    BY <1>2, <2>1
<1>4. CASE i > k
  <2>1. /\ i - 1 \in 1 .. Len(q) - 1 /\ ~ (i - 1 < k) /\ (i - 1) + 1 = i
    BY <1>1, <1>4
  <2>2. Without(q, k)[i - 1] = q[i]
    BY <1>2, <2>1
  <2> QED
    BY <1>2, <2>1, <2>2
<1> QED
  BY <1>1, <1>3, <1>4

(* Appending an entry keeps all.                                           *)
LEMMA AddedKeeps ==
  ASSUME center \in Point \union {NoPoint}, NEW q \in Seq(Entry), NEW p \in Point, NEW radius,
         NEW i \in 1 .. Len(q)
  PROVE  \E j \in 1 .. Len(Added(q, p, radius)) : Added(q, p, radius)[j] = q[i]
<1>1. Len(Added(q, p, radius)) = Len(q) + 1 /\ Added(q, p, radius)[i] = q[i]
  BY Zenon, AddedProperties
<1>2. i \in 1 .. Len(Added(q, p, radius))
  BY <1>1, LenProperties
<1> QED
  BY <1>1, <1>2

(* Within a division every step keeps the seeds of the subdomain.          *)
LEMMA NextKept == Inv /\ [Next]_vars => (divisions' = divisions => Kept)
<1> SUFFICES ASSUME Inv, [Next]_vars, divisions' = divisions PROVE Kept
  OBVIOUS
<1>1. /\ center \in Point \union {NoPoint} /\ queue \in Seq(Entry) /\ Len(queue) \in Nat
      /\ LB_seed \in 0 .. Len(queue) /\ r \in Int /\ adjust_r \in Int /\ divisions \in Int
      /\ DBL_MAX \in Nat
  BY LenProperties, CooperationAssumption DEF Inv, TypeOK, DBL_MAX
<1>2. ASSUME r' = r, NEW p \in Point, queue' = Added(queue, p, r) PROVE Kept
  <2>1. r' >= r
    BY <1>1, <1>2
  <2>2. \A i \in 1 .. Len(queue) : \E j \in 1 .. Len(queue') : queue'[j] = queue[i]
    <3> SUFFICES ASSUME NEW i \in 1 .. Len(queue)
                 PROVE  \E j \in 1 .. Len(queue') : queue'[j] = queue[i]
      OBVIOUS
    <3>1. center \in Point \union {NoPoint} /\ queue \in Seq(Entry)
      BY Zenon, <1>1
    <3>2. \E j \in 1 .. Len(Added(queue, p, r)) : Added(queue, p, r)[j] = queue[i]
      BY <3>1, AddedKeeps
    <3> QED
      BY Zenon, <1>2, <3>2
  <2> QED
    BY Zenon, <2>1, <2>2 DEF Kept
<1>3. ASSUME r' = r, queue' = queue PROVE Kept
  BY <1>1, <1>3 DEF Kept
<1>4. ASSUME NEW p \in Point, FindSeed(p) PROVE Kept
  <2>1. CASE queue' = Added(queue, p, r) /\ UNCHANGED r
    BY <1>2, <2>1
  <2>2. CASE Outside(p) /\ r' = Dist(center, p) /\ queue' = Added(MoveIn(queue, r'), p, r')
    <3>1. r' \in Int /\ r' >= r
      <4>1. center \in Point /\ Dist(center, p) > r
        BY <1>1, <2>2 DEF Outside
      <4>2. Dist(center, p) \in 0 .. MaxDist
        BY <4>1, DistType
      <4> QED
        BY <1>1, <2>2, <4>1, <4>2
    <3>2. ASSUME NEW i \in 1 .. Len(queue), queue[i].in_subdomain
          PROVE  \E j \in 1 .. Len(queue') : queue'[j] = queue[i]
      <4>1. MoveIn(queue, r') \in Seq(Entry) /\ Len(MoveIn(queue, r')) = Len(queue)
        BY <1>1, <3>1, MoveInProperties
      <4>2. MoveIn(queue, r')[i] = queue[i]
        BY <1>1, <3>1, <3>2, MoveInKeeps
      <4> QED
        BY <1>1, <2>2, <4>1, <4>2, AddedKeeps
    <3> QED
      BY <3>1, <3>2 DEF Kept
  <2> QED
    BY <1>4, <2>1, <2>2 DEF FindSeed
<1>5. ASSUME NEW p \in Point, TakeSeed(p) \/ SyncSeed(p) PROVE Kept
  BY <1>2, <1>5 DEF TakeSeed, SyncSeed, sdVars
<1>6. ASSUME NEW p \in Point, do_load_balance(p) PROVE Kept
  <2> DEFINE e == [trace |-> p, center_deviation |-> DBL_MAX, in_subdomain |-> FALSE]
  <2>1. e \in Entry /\ queue' = Append(queue, e) /\ r' = r
    BY <1>1, <1>6 DEF do_load_balance, Entry, sdVars
  <2>2. Len(queue') = Len(queue) + 1 /\ \A i \in 1 .. Len(queue) : queue'[i] = queue[i]
    BY <1>1, <2>1, AppendProperties
  <2>3. \A i \in 1 .. Len(queue) : i \in 1 .. Len(queue')
    BY <1>1, <2>2
  <2> QED
    BY <1>1, <2>1, <2>2, <2>3 DEF Kept
<1>7. CASE EndFuzzOne
  <2>1. r' = r /\ queue' = IF LB_seed = 0 THEN queue ELSE Without(queue, LB_seed)
    BY <1>7 DEF EndFuzzOne, sdVars
  <2>2. CASE LB_seed = 0
    BY <1>3, <2>1, <2>2
  <2>3. CASE LB_seed # 0
    <3>1. LB_seed \in 1 .. Len(queue) /\ queue' = Without(queue, LB_seed)
      BY <1>1, <2>1, <2>3
    <3>2. ASSUME NEW i \in 1 .. Len(queue), queue[i].in_subdomain
          PROVE  \E j \in 1 .. Len(queue') : queue'[j] = queue[i]
      <4>1. i # LB_seed
        BY <2>3, <3>2 DEF Inv, LBSeedNotInSubdomain
      <4> QED
        BY <1>1, <3>1, <4>1, WithoutKeeps
    <3> QED
      BY <1>1, <2>1, <3>2 DEF Kept
  <2> QED
    BY <2>2, <2>3
<1>8. CASE EndCooperation
  <2>1. CASE UNCHANGED <<r, queue>>
    BY <1>3, <2>1
  <2>2. CASE adjust_r > r /\ r' = adjust_r /\ queue' = MoveIn(queue, r')
    <3>1. Len(queue') = Len(queue)
      BY <1>1, <2>2, MoveInProperties
    <3>2. \A i \in 1 .. Len(queue) : queue[i].in_subdomain => queue'[i] = queue[i]
      BY <1>1, <2>2, MoveInKeeps
    <3> QED
      BY <1>1, <2>2, <3>1, <3>2 DEF Kept
  <2> QED
    BY <1>8, <2>1, <2>2 DEF EndCooperation
<1>9. ASSUME NEW a \in Assignments, NEW radius \in Radius, update_subdomain(a, radius)
      PROVE  Kept
  BY <1>1, <1>9 DEF update_subdomain
<1>10. CASE NoUpdate \/ EndSync \/ NoBalance \/ UNCHANGED vars
  BY <1>3, <1>10 DEF NoUpdate, EndSync, NoBalance, sdVars, vars
<1> QED
  BY <1>4, <1>5, <1>6, <1>7, <1>8, <1>9, <1>10 DEF Next

(* A seed found outside the radius goes to the nearest of all centers, or  *)
(* of all but the one in the place of the worker's own number.             *)
LEMMA FindSeedSends ==
  ASSUME Inv, NEW p \in Point, FindSeed(p), Outside(p)
  PROVE  \/ GoesToNearest(p, 1 .. Len(subdomain_array))
         \/ /\ id + 1 \in 1 .. Len(subdomain_array)
            /\ Dist(subdomain_array[id + 1].center, p) < Dist(center, p)
            /\ GoesToNearest(p, 1 .. Len(subdomain_array) \ {id + 1})
<1> DEFINE d(k) == Dist(subdomain_array[k].center, p)
           own == Dist(center, p)
           places == 1 .. Len(subdomain_array)
           others == places \ {id + 1}
<1>1. own \in Int /\ id \in Int /\ \A k \in places : d(k) \in Int
  <2>1. center \in Point /\ id \in Int
    BY DEF Outside, Inv, TypeOK
  <2>2. \A k \in places : subdomain_array[k] \in [id : Nat, center : Point]
    BY Zenon, ElementOfSeq DEF Inv, TypeOK
  <2>3. \A k \in places : subdomain_array[k].center \in Point
    BY <2>2
  <2>4. \A c \in Point : Dist(c, p) \in Int
    BY DistType
  <2> QED
    BY <2>1, <2>3, <2>4
<1>2. Nearer(p) = {k \in others : d(k) < own}
  BY <1>1 DEF Nearer
<1>3. ASSUME NEW K \in SUBSET places, others \subseteq K,
             \A k \in K : k \notin others => own <= d(k)
      PROVE  GoesToNearest(p, K)
  <2>1. \A k \in K : k \notin Nearer(p) => own <= d(k)
    BY <1>1, <1>2, <1>3
  <2>2. \/ Nearer(p) = {} /\ pushed' = NoSeed
        \/ \E k \in Nearer(p) :
             SendTo(k, p) /\ pushed' = [id |-> subdomain_array[k].id, trace |-> p]
    BY DEF FindSeed
  <2>3. CASE Nearer(p) = {} /\ pushed' = NoSeed
    BY <2>1, <2>3 DEF GoesToNearest
  <2>4. ASSUME NEW k \in Nearer(p), SendTo(k, p),
               pushed' = [id |-> subdomain_array[k].id, trace |-> p]
        PROVE  GoesToNearest(p, K)
    <3>1. k \in K /\ d(k) < own
      BY <1>2, <1>3
    <3>2. ASSUME NEW j \in K PROVE d(k) <= d(j)
      <4>1. CASE j \in Nearer(p)
        BY <1>1, <1>3, <2>4, <3>1, <4>1 DEF SendTo
      <4>2. CASE j \notin Nearer(p)
        BY <1>1, <1>3, <2>1, <3>1, <4>2
      <4> QED
        BY <4>1, <4>2
    <3> QED
      BY <2>4, <3>1, <3>2 DEF GoesToNearest
  <2> QED
    BY <2>2, <2>3, <2>4
<1>4. CASE id + 1 \in places => own <= d(id + 1)
  BY <1>3, <1>4
<1>5. CASE id + 1 \in places /\ ~ (own <= d(id + 1))
  <2>1. d(id + 1) < own
    BY <1>1, <1>5
  <2> QED
    BY <1>3, <1>5, <2>1
<1> QED
  BY <1>4, <1>5

(* The last seed of the queue is the found one.                            *)
LEMMA FoundIsLast ==
  ASSUME Inv, NEW p \in Point, FindSeed(p)
  PROVE  queue'[Len(queue')].trace = p
<1>1. queue \in Seq(Entry) /\ center \in Point \union {NoPoint} /\ r \in Int
  BY CooperationAssumption DEF Inv, TypeOK, DBL_MAX
<1>2. ASSUME NEW q \in Seq(Entry), NEW radius, queue' = Added(q, p, radius)
      PROVE  queue'[Len(queue')].trace = p
  <2>1. Len(queue') = Len(q) + 1 /\ queue'[Len(q) + 1] =
          [trace |-> p, center_deviation |-> Deviation(p),
           in_subdomain |-> Inside(Deviation(p), radius)]
    BY <1>1, <1>2, AddedProperties
  <2> QED
    BY <2>1
<1>3. CASE queue' = Added(queue, p, r)
  BY <1>1, <1>2, <1>3
<1>4. CASE Outside(p) /\ r' = Dist(center, p) /\ queue' = Added(MoveIn(queue, r'), p, r')
  <2>1. r' \in Int
    BY <1>1, <1>4, DistType DEF Outside
  <2>2. MoveIn(queue, r') \in Seq(Entry)
    BY <1>1, <2>1, MoveInProperties
  <2> QED
    BY <1>2, <1>4, <2>2
<1> QED
  BY <1>3, <1>4 DEF FindSeed

-----------------------------------------------------------------------------
(* Results, for every set of points, table and queue bound.                *)

(* Types.                                                                  *)
THEOREM CooperationTypeOK == Spec => []TypeOK
<1>1. Inv => TypeOK
  BY DEF Inv
<1>2. QED
  BY <1>1, InitInv, NextInv, PTL DEF Spec

(* The in_subdomain marks are exact at every point of the main loop.       *)
THEOREM MarksExact == Spec => []MarksMatchRadius
<1>1. Inv => MarksMatchRadius
  BY DEF Inv
<1>2. QED
  BY <1>1, InitInv, NextInv, PTL DEF Spec

(* No deviation is left over from an earlier center.                       *)
THEOREM DeviationsCurrent == Spec => []DeviationsAreCurrent
<1>1. Inv => DeviationsAreCurrent
  BY DEF Inv
<1>2. QED
  BY <1>1, InitInv, NextInv, PTL DEF Spec

(* The load-balancing seed is never in the subdomain.                      *)
THEOREM LBSeedOutside == Spec => []LBSeedNotInSubdomain
<1>1. Inv => LBSeedNotInSubdomain
  BY DEF Inv
<1>2. QED
  BY <1>1, InitInv, NextInv, PTL DEF Spec

(* Within a division the radius never shrinks and no seed of the subdomain *)
(* leaves it: neither growing the radius, nor cooperation, nor deleting    *)
(* the load-balancing seed, which moves the later seeds up, loses one.     *)
THEOREM SubdomainOnlyGrows == Spec => SeedsStayInSubdomain
<1>1. Inv /\ [Next]_vars => [divisions' = divisions => Kept]_vars
  BY NextKept
<1>2. Spec => [][divisions' = divisions => Kept]_vars
  BY <1>1, InitInv, NextInv, PTL DEF Spec
<1> QED
  BY <1>2 DEF SeedsStayInSubdomain, Kept

(* In whatever order SCAN returned the keys, a seed found outside the      *)
(* radius goes to the nearest of all centers, or that center is in the     *)
(* place of the worker's own number and the seed goes to the nearest of    *)
(* the others (afl-fuzz-bitmap.c:604).                                     *)
THEOREM OneCenterCanBeMissed == Spec => OnlyOwnPlaceIsMissed
<1> DEFINE p == queue'[Len(queue')].trace
           Sent == pc = "fuzz" /\ pc' = "fuzz" /\ Outside(p) =>
                     \/ GoesToNearest(p, 1 .. Len(subdomain_array))
                     \/ /\ id + 1 \in 1 .. Len(subdomain_array)
                        /\ Dist(subdomain_array[id + 1].center, p) < Dist(center, p)
                        /\ GoesToNearest(p, 1 .. Len(subdomain_array) \ {id + 1})
<1>1. Inv /\ [Next]_vars => [Sent]_vars
  <2> SUFFICES ASSUME Inv, Next, pc = "fuzz", pc' = "fuzz", Outside(p)
               PROVE  Sent
    BY DEF Sent
  <2>1. PICK x \in Point : FindSeed(x)
    BY DEF Next, TakeSeed, SyncSeed, do_load_balance, EndFuzzOne, update_subdomain,
           EndCooperation, NoUpdate, EndSync, NoBalance
  <2>2. p = x
    BY <2>1, FoundIsLast
  <2> HIDE DEF p
  <2> QED
    BY <2>1, <2>2, FindSeedSends
<1>2. Spec => [][Sent]_vars
  BY <1>1, InitInv, NextInv, PTL DEF Spec
<1> QED
  BY <1>2 DEF OnlyOwnPlaceIsMissed
=============================================================================
