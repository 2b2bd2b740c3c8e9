------------------------ MODULE TestcaseCacheProofs ------------------------
(***************************************************************************)
(* Proofs about the testcase cache, for every number of queue entries,     *)
(* slots and bytes: the search for a free slot stays inside the array, the *)
(* search for a victim ends, no buffer is freed while it is in use, and    *)
(* the account of the bytes covers the memory.                             *)
(***************************************************************************)
EXTENDS TestcaseCache, FiniteSetTheorems, TLAPS

(* The array is never cut below the limit, nothing is stored behind        *)
(* max_count, and every slot below smallest_free is taken.                 *)
SlotFacts ==
  /\ max_entries <= slots
  /\ \A t \in Slot : t >= max_count => cache[t] = NULL
  /\ \A t \in Slot : t < smallest_free => cache[t] # NULL

(* Only queued entries have buffers, and the private ones are those of the *)
(* episode.                                                                *)
BufferFacts ==
  /\ \A e \in Entry : len[e] = 0 => buf[e] = "none"
  /\ \A e \in Entry : e \in temp <=> buf[e] = "private"
  /\ lb # NULL => lb \in temp

(* What fuzz_one and queue_testcase_get hold while they run.  The slot of  *)
(* the last victim is still free when the testcase is loaded.              *)
PhaseFacts ==
  /\ pc \in {"fuzz", "load"} => queue_cur \in Entry /\ len[queue_cur] > 0
  /\ pc = "load" => /\ target \in Entry /\ len[target] > 0 /\ buf[target] = "none"
                    /\ tid # max_count => cache[tid] = NULL

IInv ==
  /\ TypeOK /\ SlotFacts /\ BufferFacts /\ PhaseFacts
  /\ SlotsMatchBuffers /\ CountIsExact /\ NoOverrun /\ BufferInUseStays

(* The bytes the slots c hold, when the entries have the given sizes.      *)
Held(c, size) == [t \in Slot |-> IF c[t] = NULL THEN 0 ELSE size[c[t]]]
Bytes(c, size) == SumBelow(Held(c, size), ENTRIES + 1)

(* cache_size lies between the memory in use and the lengths in use.  A    *)
(* trim leaves a buffer longer than its testcase, and may add 2^32 to the  *)
(* account, but each entry is trimmed once only.                           *)
Slack(T) == Cardinality(T) * W32

Accounts ==
  /\ lb = NULL => temp = {}
  /\ \A e \in Entry : buf[e] = "cached" => len[e] <= alloc[e]
  /\ Bytes(cache, alloc) <= cache_size
  /\ cache_size <= Bytes(cache, len) + Slack(trim_done)

(* The accounts hold until a testcase is copied into too small a buffer.   *)
AccountsUnlessOverrun == ~ overrun => Accounts

TrimStep(n) == Trim(n) \/ CustomTrim(n) \/ PostProcess(n)

-----------------------------------------------------------------------------
(* Every set of numbers with an element has a smallest one.                *)
LEMMA Smallest ==
  ASSUME NEW S \in SUBSET Nat, S # {}
  PROVE  \E x \in S : \A y \in S : x <= y
<1> DEFINE R == OpToRel(<, Nat)
<1>1. \E x \in S : \A y \in S : ~ (<<y, x>> \in R)
  <2>1. IsWellFoundedOn(R, Nat)
    BY Zenon, NatLessThanWellFounded
  <2> QED
    BY Zenon, <2>1, WFMin
<1>2. ASSUME NEW x \in S, NEW y \in S, ~ (<<y, x>> \in R)
      PROVE  x <= y
  BY <1>2 DEF OpToRel
<1> QED
  BY Zenon, <1>1, <1>2

(* A free slot from a given one on makes the search stop.                  *)
LEMMA FirstFree ==
  ASSUME TypeOK, NEW from \in Nat, NEW u \in from .. slots - 1, cache[u] = NULL
  PROVE  \E t \in Slot : IsFree(t, from)
<1> DEFINE S == {t \in from .. slots - 1 : cache[t] = NULL}
<1>1. slots \in Int /\ from .. slots - 1 \subseteq Slot
  BY CacheAssumption DEF TypeOK, Slot
<1>2. PICK t \in S : \A v \in S : t <= v
  <2>1. S \in SUBSET Nat /\ u \in S
    BY <1>1
  <2> HIDE DEF S
  <2> QED
    BY <2>1, Smallest
<1>3. \A v \in from .. t - 1 : cache[v] # NULL
  BY <1>1, <1>2
<1> QED
  BY <1>1, <1>2, <1>3 DEF IsFree

(* The taken slots are finite in number.                                   *)
LEMMA OccupiedFinite ==
  /\ IsFiniteSet(Slot) /\ IsFiniteSet(Occupied) /\ Cardinality(Occupied) \in Nat
<1>1. IsFiniteSet(Slot)
  BY CacheAssumption, FS_Interval DEF Slot
<1>2. Occupied \in SUBSET Slot
  BY DEF Occupied
<1> QED
  BY <1>1, <1>2, FS_Subset, FS_CardinalityType

(* Below the limit the search finds a slot, wherever it is started by      *)
(* queue_testcase_get and queue_testcase_store_mem.                        *)
LEMMA RoomFrom ==
  ASSUME TypeOK, SlotFacts, CountIsExact, cache_count < max_entries - 1,
         NEW from \in 0 .. max_count, from # max_count => cache[from] = NULL
  PROVE  /\ SearchFrom(from) \in Nat
         /\ \E t \in Slot : IsFree(t, SearchFrom(from))
<1>0. /\ slots \in Nat /\ slots <= ENTRIES + 1 /\ max_entries \in Nat /\ max_count \in Nat
      /\ max_count <= slots /\ smallest_free \in Nat /\ cache_count \in Nat /\ from \in Nat
      /\ max_entries <= slots /\ ENTRIES \in Nat
  BY CacheAssumption DEF TypeOK, SlotFacts
<1>1. CASE from >= max_entries
  <2>1. SearchFrom(from) = smallest_free
    BY <1>1 DEF SearchFrom
  <2>2. PICK u \in smallest_free .. slots - 1 : cache[u] = NULL
    <3> SUFFICES ASSUME \A u \in smallest_free .. slots - 1 : cache[u] # NULL
                 PROVE  FALSE
      OBVIOUS
    <3>1. 0 .. slots - 1 \in SUBSET Occupied
      BY <1>0 DEF Occupied, SlotFacts, Slot
    <3>2. Cardinality(0 .. slots - 1) = slots
      BY <1>0, FS_Interval
    <3>3. Cardinality(0 .. slots - 1) <= Cardinality(Occupied)
      BY Zenon, <3>1, OccupiedFinite, FS_Subset
    <3> QED
      BY <1>0, <3>2, <3>3 DEF CountIsExact
  <2> QED
    BY <1>0, <2>1, <2>2, FirstFree
<1>2. CASE from < max_entries
  <2>1. SearchFrom(from) = from
    BY <1>0, <1>2 DEF SearchFrom
  <2>2. from \in from .. slots - 1 /\ cache[from] = NULL
    BY <1>0, <1>2 DEF SlotFacts, Slot
  <2> QED
    BY <1>0, <2>1, <2>2, FirstFree
<1> QED
  BY <1>0, <1>1, <1>2

-----------------------------------------------------------------------------
(* Putting an entry without a buffer into a free slot keeps the facts      *)
(* about slots and buffers.                                                *)
LEMMA RegisterKeeps ==
  ASSUME IInv, NEW from \in Nat, NEW t \in Slot, IsFree(t, from),
         NEW e \in Entry, buf[e] = "none", len' \in [Entry -> 0 .. MaxLen],
         UNCHANGED <<slots, max_entries>>, Register(t, e)
  PROVE  /\ cache' \in [Slot -> Entry \union {NULL}]
         /\ buf' = [buf EXCEPT ![e] = "cached"]
         /\ alloc' \in [Entry -> 0 .. MaxLen]
         /\ cache_size' \in 0 .. W64 - 1 /\ cache_count' \in Nat
         /\ max_count' \in 0 .. slots' /\ smallest_free' \in 0 .. max_count'
         /\ max_count <= max_count'
         /\ SlotFacts' /\ SlotsMatchBuffers' /\ CountIsExact'
<1>0. /\ t \in Nat /\ t < slots /\ cache[t] = NULL
      /\ slots \in Nat /\ max_count \in Nat /\ max_count <= slots
      /\ smallest_free \in Nat /\ smallest_free <= max_count
      /\ cache \in [Slot -> Entry \union {NULL}]
  BY DEF IInv, TypeOK, IsFree, Slot
<1>1. cache' = [cache EXCEPT ![t] = e]
  BY DEF Register
<1>2. cache' \in [Slot -> Entry \union {NULL}]
  BY <1>0, <1>1
<1>3. buf' = [buf EXCEPT ![e] = "cached"]
  BY DEF Register
<1>4. alloc' \in [Entry -> 0 .. MaxLen]
  <2>1. alloc \in [Entry -> 0 .. MaxLen] /\ alloc' = [alloc EXCEPT ![e] = len'[e]]
    BY DEF IInv, TypeOK, Register
  <2> QED
    BY <2>1
<1>5. cache_size' \in 0 .. W64 - 1
  <2>1. cache_size \in Nat /\ len'[e] \in Nat /\ cache_size' = (cache_size + len'[e]) % W64
    BY CacheAssumption DEF IInv, TypeOK, Register
  <2> QED
    BY <2>1, CacheAssumption
<1>6. cache_count \in Nat /\ cache_count' = cache_count + 1
  BY DEF IInv, TypeOK, Register
<1>7. /\ max_count' \in 0 .. slots' /\ smallest_free' \in 0 .. max_count'
      /\ max_count <= max_count'
  BY <1>0 DEF Register
<1>8. SlotFacts'
  <2>1. (max_entries <= slots)'
    BY DEF IInv, SlotFacts
  <2>2. ASSUME NEW u \in Slot, u >= max_count'
        PROVE  cache'[u] = NULL
    <3>1. u # t /\ u >= max_count
      BY <1>0, <2>2 DEF Register, Slot
    <3> QED
      BY <1>0, <1>1, <3>1 DEF IInv, SlotFacts
  <2>3. ASSUME NEW u \in Slot, u < smallest_free'
        PROVE  cache'[u] # NULL
    <3>1. u = t \/ u < smallest_free
      BY <1>0, <2>3 DEF Register, Slot
    <3> QED
      BY <1>0, <1>1, <3>1, CacheAssumption DEF IInv, SlotFacts
  <2> QED
    BY <2>1, <2>2, <2>3 DEF SlotFacts
<1>9. SlotsMatchBuffers'
  <2>1. ~ \E u \in Slot : cache[u] = e
    BY DEF IInv, SlotsMatchBuffers
  <2>2. ASSUME NEW f \in Entry
        PROVE  (buf'[f] = "cached") <=> \E u \in Slot : cache'[u] = f
    <3>1. CASE f = e
      BY <1>0, <1>1, <1>3, <3>1 DEF IInv, TypeOK
    <3>2. CASE f # e
      <4>1. buf'[f] = buf[f]
        BY <1>3, <3>2 DEF IInv, TypeOK
      <4>2. \A u \in Slot : cache'[u] = f <=> cache[u] = f
        BY <1>0, <1>1, <3>2, CacheAssumption
      <4> QED
        BY <4>1, <4>2 DEF IInv, SlotsMatchBuffers
    <3> QED
      BY <3>1, <3>2
  <2>3. ASSUME NEW u \in Slot, NEW v \in Slot, cache'[u] = cache'[v], cache'[u] # NULL
        PROVE  u = v
    BY <1>0, <1>1, <2>1, <2>3 DEF IInv, SlotsMatchBuffers
  <2> QED
    BY <2>2, <2>3 DEF SlotsMatchBuffers
<1>10. CountIsExact'
  <2>1. Occupied' = Occupied \union {t} /\ t \notin Occupied
    BY <1>0, <1>1, CacheAssumption DEF Occupied
  <2>2. Cardinality(Occupied') = Cardinality(Occupied) + 1
    BY Zenon, <2>1, OccupiedFinite, FS_AddElement
  <2> QED
    BY <1>6, <2>2 DEF IInv, CountIsExact
<1> QED
  BY <1>2, <1>3, <1>4, <1>5, <1>6, <1>7, <1>8, <1>9, <1>10

(* Nothing that the facts about slots and buffers mention changes.         *)
LEMMA SlotsStay ==
  ASSUME IInv, UNCHANGED <<cache, cache_count, max_count, smallest_free, limitVars>>,
         \A e \in Entry : buf'[e] = "cached" <=> buf[e] = "cached"
  PROVE  SlotFacts' /\ SlotsMatchBuffers' /\ CountIsExact'
<1>1. SlotFacts'
  BY DEF IInv, SlotFacts, limitVars
<1>2. SlotsMatchBuffers'
  BY DEF IInv, SlotsMatchBuffers
<1>3. CountIsExact'
  BY DEF IInv, CountIsExact, Occupied
<1> QED
  BY <1>1, <1>2, <1>3

-----------------------------------------------------------------------------
(* Each step keeps the invariant.                                          *)

(* queue_testcase_store_mem stores below the limit only.                   *)
LEMMA FindSeedKeeps ==
  ASSUME IInv, NEW e \in Entry, NEW n \in 1 .. MaxLen, FindSeed(e, n)
  PROVE  IInv'
<1> USE DEF FindSeed
<1>1. len' \in [Entry -> 0 .. MaxLen] /\ len' = [len EXCEPT ![e] = n] /\ len[e] = 0
  BY CacheAssumption DEF IInv, TypeOK, Queued
<1>2. buf[e] = "none" /\ e \notin temp /\ n > 0
  BY <1>1 DEF IInv, BufferFacts
<1>3. CASE pc' = pc /\ UNCHANGED <<bufVars, slotVars>>
  <2>1. TypeOK'
    BY <1>1, <1>3 DEF IInv, TypeOK, bufVars, slotVars, limitVars
  <2>2. BufferFacts'
    BY <1>1, <1>2, <1>3 DEF IInv, BufferFacts, TypeOK, bufVars
  <2>3. PhaseFacts'
    BY <1>1, <1>2, <1>3 DEF IInv, PhaseFacts, TypeOK, bufVars, slotVars
  <2>4. SlotFacts' /\ SlotsMatchBuffers' /\ CountIsExact'
    BY <1>3, SlotsStay DEF bufVars, slotVars
  <2>5. NoOverrun' /\ BufferInUseStays'
    BY <1>3 DEF IInv, NoOverrun, BufferInUseStays, bufVars
  <2> QED
    BY <2>1, <2>2, <2>3, <2>4, <2>5 DEF IInv
<1>4. CASE ~ NoSpace(n) /\ RegisterFrom(SearchFrom(max_count), e, pc)
  <2>0. cache_count < max_entries - 1
    BY <1>4 DEF NoSpace, IInv, TypeOK
  <2>1. /\ SearchFrom(max_count) \in Nat
        /\ \E t \in Slot : IsFree(t, SearchFrom(max_count))
    BY <2>0, RoomFrom DEF IInv, TypeOK
  <2>2. PICK t \in Slot : IsFree(t, SearchFrom(max_count)) /\ Register(t, e) /\ pc' = pc
    BY <1>4, <2>1 DEF RegisterFrom
  <2>3. /\ cache' \in [Slot -> Entry \union {NULL}]
        /\ buf' = [buf EXCEPT ![e] = "cached"]
        /\ alloc' \in [Entry -> 0 .. MaxLen]
        /\ cache_size' \in 0 .. W64 - 1 /\ cache_count' \in Nat
        /\ max_count' \in 0 .. slots' /\ smallest_free' \in 0 .. max_count'
        /\ max_count <= max_count'
        /\ SlotFacts' /\ SlotsMatchBuffers' /\ CountIsExact'
    BY <1>1, <1>2, <2>1, <2>2, RegisterKeeps DEF limitVars
  <2>4. TypeOK'
    <3>1. tid' \in 0 .. max_count'
      BY <2>3 DEF IInv, TypeOK
    <3>2. buf' \in [Entry -> {"none", "cached", "private"}]
      BY <2>3 DEF IInv, TypeOK
    <3> QED
      BY <1>1, <2>2, <2>3, <3>1, <3>2 DEF IInv, TypeOK, limitVars
  <2>5. BufferFacts'
    BY <1>1, <1>2, <2>3 DEF IInv, BufferFacts, TypeOK
  <2>6. PhaseFacts'
    BY <1>1, <1>2, <2>2 DEF IInv, PhaseFacts, TypeOK
  <2>7. NoOverrun' /\ BufferInUseStays'
    BY <2>2, <2>3 DEF IInv, NoOverrun, BufferInUseStays, TypeOK
  <2> QED
    BY <2>3, <2>4, <2>5, <2>6, <2>7 DEF IInv
<1> QED
  BY <1>3, <1>4

(* An episode starts with a buffer that is in no slot.                     *)
LEMMA StartEpisodeKeeps ==
  ASSUME IInv, NEW e \in Entry, NEW n \in 1 .. MaxLen, StartEpisode(e, n)
  PROVE  IInv'
<1> USE DEF StartEpisode, Private
<1>1. /\ len' = [len EXCEPT ![e] = n] /\ len[e] = 0 /\ n > 0
      /\ buf' = [buf EXCEPT ![e] = "private"] /\ buf[e] = "none"
  BY DEF IInv, TypeOK, Queued, BufferFacts
<1>2. TypeOK'
  BY <1>1, CacheAssumption DEF IInv, TypeOK, slotVars, limitVars
<1>3. BufferFacts'
  BY <1>1 DEF IInv, BufferFacts, TypeOK
<1>4. PhaseFacts'
  BY <1>1 DEF IInv, PhaseFacts, TypeOK
<1>5. \A f \in Entry : buf'[f] = "cached" <=> buf[f] = "cached"
  BY <1>1 DEF IInv, TypeOK
<1>6. SlotFacts' /\ SlotsMatchBuffers' /\ CountIsExact'
  BY <1>5, SlotsStay DEF slotVars
<1>7. NoOverrun' /\ BufferInUseStays'
  BY <1>1 DEF IInv, NoOverrun, BufferInUseStays, TypeOK
<1> QED
  BY <1>2, <1>3, <1>4, <1>6, <1>7 DEF IInv

(* So do its finds.                                                        *)
LEMMA FindInEpisodeKeeps ==
  ASSUME IInv, NEW e \in Entry, NEW n \in 1 .. MaxLen, FindInEpisode(e, n)
  PROVE  IInv'
<1> USE DEF FindInEpisode, Private
<1>1. /\ len' = [len EXCEPT ![e] = n] /\ len[e] = 0 /\ n > 0
      /\ buf' = [buf EXCEPT ![e] = "private"] /\ buf[e] = "none"
  BY DEF IInv, TypeOK, Queued, BufferFacts
<1>2. TypeOK'
  BY <1>1, CacheAssumption DEF IInv, TypeOK, slotVars, limitVars
<1>3. BufferFacts'
  BY <1>1 DEF IInv, BufferFacts, TypeOK
<1>4. PhaseFacts'
  BY <1>1 DEF IInv, PhaseFacts, TypeOK
<1>5. \A f \in Entry : buf'[f] = "cached" <=> buf[f] = "cached"
  BY <1>1 DEF IInv, TypeOK
<1>6. SlotFacts' /\ SlotsMatchBuffers' /\ CountIsExact'
  BY <1>5, SlotsStay DEF slotVars
<1>7. NoOverrun' /\ BufferInUseStays'
  BY <1>1 DEF IInv, NoOverrun, BufferInUseStays, PhaseFacts, TypeOK
<1> QED
  BY <1>2, <1>3, <1>4, <1>6, <1>7 DEF IInv

(* The buffers it frees at its end are in no slot.                         *)
LEMMA EndEpisodeKeeps ==
  ASSUME IInv, EndEpisode
  PROVE  IInv'
<1> USE DEF EndEpisode
<1>1. lb \in Entry /\ lb \in temp
  BY DEF IInv, TypeOK, BufferFacts
<1>2. TypeOK'
  BY <1>1, CacheAssumption DEF IInv, TypeOK, slotVars, limitVars
<1>3. BufferFacts'
  BY <1>1 DEF IInv, BufferFacts, TypeOK
<1>4. PhaseFacts'
  BY DEF PhaseFacts
<1>5. \A f \in Entry : buf'[f] = "cached" <=> buf[f] = "cached"
  BY DEF IInv, BufferFacts
<1>6. SlotFacts' /\ SlotsMatchBuffers' /\ CountIsExact'
  BY <1>5, SlotsStay DEF slotVars
<1>7. NoOverrun' /\ BufferInUseStays'
  BY DEF NoOverrun, BufferInUseStays
<1> QED
  BY <1>2, <1>3, <1>4, <1>6, <1>7 DEF IInv

(* Looking up the entry to fuzz.                                           *)
LEMMA SelectKeeps ==
  ASSUME IInv, NEW e \in Entry, Select(e)
  PROVE  IInv'
<1> USE DEF Select
<1>1. UNCHANGED <<len, buf, alloc, cache, cache_size, cache_count, max_count, smallest_free>>
  BY DEF bufVars, slotVars
<1>2. /\ pc' \in {"fuzz", "load"} /\ target' \in Entry \union {NULL} /\ tid' \in 0 .. max_count
      /\ pc' = "load" => target' = e /\ tid' = max_count /\ buf[e] = "none"
  BY DEF Get, IInv, TypeOK
<1>3. TypeOK'
  BY <1>1, <1>2 DEF IInv, TypeOK, limitVars
<1>4. BufferFacts'
  BY <1>1 DEF IInv, BufferFacts
<1>5. PhaseFacts'
  BY <1>1, <1>2 DEF PhaseFacts, Queued
<1>6. SlotFacts' /\ SlotsMatchBuffers' /\ CountIsExact'
  BY <1>1, SlotsStay
<1>7. NoOverrun' /\ BufferInUseStays'
  BY <1>1, <1>2 DEF NoOverrun, BufferInUseStays
<1> QED
  BY <1>3, <1>4, <1>5, <1>6, <1>7 DEF IInv

(* Looking up a splice partner.                                            *)
LEMMA SpliceKeeps ==
  ASSUME IInv, NEW e \in Entry, Splice(e)
  PROVE  IInv'
<1> USE DEF Splice
<1>1. UNCHANGED <<len, buf, alloc, cache, cache_size, cache_count, max_count, smallest_free>>
  BY DEF bufVars, slotVars
<1>2. /\ pc' \in {"fuzz", "load"} /\ target' \in Entry \union {NULL} /\ tid' \in 0 .. max_count
      /\ pc' = "load" => target' = e /\ tid' = max_count /\ buf[e] = "none"
  BY DEF Get, IInv, TypeOK
<1>3. TypeOK'
  BY Zenon, <1>1, <1>2 DEF IInv, TypeOK, limitVars
<1>4. BufferFacts'
  BY Zenon, <1>1 DEF IInv, BufferFacts
<1>5. PhaseFacts'
  BY <1>1, <1>2 DEF IInv, PhaseFacts, Queued
<1>6. SlotFacts' /\ SlotsMatchBuffers' /\ CountIsExact'
  BY <1>1, SlotsStay
<1>7. NoOverrun' /\ BufferInUseStays'
  BY <1>1, <1>2 DEF IInv, NoOverrun, BufferInUseStays
<1> QED
  BY <1>3, <1>4, <1>5, <1>6, <1>7 DEF IInv

(* Learning the limit keeps the array larger than the limit and everything *)
(* stored inside it.                                                       *)
LEMMA LearnKeeps ==
  ASSUME TypeOK, SlotFacts, Full(len[target]), Learn
  PROVE  /\ slots' \in 0 .. ENTRIES + 1 /\ max_entries' \in 3 .. ENTRIES
         /\ do_once' \in BOOLEAN /\ max_entries' <= slots' /\ max_count <= slots'
<1> DEFINE now == TooLarge(len[target]) /\ cache_count < max_entries
                  /\ max_count < max_entries /\ ~ do_once
           top == IF max_count > cache_count THEN max_count ELSE cache_count
<1>0. /\ slots \in Nat /\ slots <= ENTRIES + 1 /\ max_entries \in Nat /\ max_entries >= 3
      /\ max_entries <= ENTRIES /\ max_count \in Nat /\ max_count <= slots
      /\ cache_count \in Nat /\ ENTRIES \in Nat /\ max_entries <= slots
  BY CacheAssumption DEF TypeOK, SlotFacts
<1>1. CASE now
  <2>1. max_entries' = top + 1 /\ slots' = top + 2 /\ do_once' = TRUE
    BY Zenon, <1>1 DEF Learn
  <2>2. cache_count >= 2
    BY <1>0 DEF Full
  <2> QED
    BY <1>0, <1>1, <2>1, <2>2
<1>2. CASE ~ now
  <2>1. max_entries' = max_entries /\ slots' = slots /\ do_once' = do_once
    BY <1>2 DEF Learn, TypeOK
  <2> QED
    BY <1>0, <2>1 DEF TypeOK
<1> QED
  BY <1>1, <1>2

(* A victim is neither the target nor the entry being fuzzed.              *)
LEMMA EvictKeeps ==
  ASSUME IInv, NEW t \in Slot, Evict(t)
  PROVE  IInv'
<1> DEFINE old == cache[t]
<1>0. /\ pc = "load" /\ t \in Nat /\ t < max_count /\ old # NULL /\ old # queue_cur
      /\ cache \in [Slot -> Entry \union {NULL}] /\ max_count \in Nat /\ smallest_free \in Nat
      /\ smallest_free <= max_count
  BY DEF Evict, IInv, TypeOK, Victim, Slot
<1>1. old \in Entry /\ buf[old] = "cached"
  BY <1>0 DEF IInv, SlotsMatchBuffers
<1>2. /\ buf' = [buf EXCEPT ![old] = "none"] /\ alloc' = [alloc EXCEPT ![old] = 0]
      /\ cache' = [cache EXCEPT ![t] = NULL]
      /\ smallest_free' = (IF t < smallest_free THEN t ELSE smallest_free)
      /\ cache_size' = (cache_size - len[old]) % W64 /\ cache_count' = Fewer /\ tid' = t
      /\ UNCHANGED <<pc, queue_cur, cur_buf, lb, temp, trim_done, overrun, len, max_count,
                     target>>
  BY DEF Evict, fuzzVars
<1>3. /\ slots' \in 0 .. ENTRIES + 1 /\ max_entries' \in 3 .. ENTRIES
      /\ do_once' \in BOOLEAN /\ max_entries' <= slots' /\ max_count <= slots'
  BY LearnKeeps DEF IInv, Evict
<1>4. Occupied' = Occupied \ {t} /\ t \in Occupied
  BY <1>0, <1>2 DEF Occupied
<1>5. Cardinality(Occupied') = Cardinality(Occupied) - 1 /\ Cardinality(Occupied') \in Nat
  <2>1. IsFiniteSet(Occupied')
    BY <1>4, OccupiedFinite, FS_RemoveElement
  <2> QED
    BY <1>4, <2>1, OccupiedFinite, FS_RemoveElement, FS_CardinalityType
<1>6. CountIsExact' /\ cache_count' \in Nat
  BY <1>2, <1>5 DEF IInv, CountIsExact, Fewer
<1>7. TypeOK'
  <2>1. cache_size' \in 0 .. W64 - 1
    <3>1. cache_size \in Int /\ len[old] \in Int
      BY <1>1, CacheAssumption DEF IInv, TypeOK
    <3> QED
      BY <1>2, <3>1, CacheAssumption
  <2>2. buf' \in [Entry -> {"none", "cached", "private"}] /\ alloc' \in [Entry -> 0 .. MaxLen]
    <3>1. /\ buf \in [Entry -> {"none", "cached", "private"}]
          /\ alloc \in [Entry -> 0 .. MaxLen] /\ 0 \in 0 .. MaxLen
      BY CacheAssumption DEF IInv, TypeOK
    <3> QED
      BY Zenon, <1>2, <3>1
  <2>3. cache' \in [Slot -> Entry \union {NULL}]
    BY <1>0, <1>2
  <2>4. max_count' \in 0 .. slots' /\ smallest_free' \in 0 .. max_count' /\ tid' \in 0 .. max_count'
    BY <1>0, <1>2, <1>3
  <2> QED
    BY Zenon, <1>2, <1>3, <1>6, <2>1, <2>2, <2>3, <2>4 DEF IInv, TypeOK
<1>8. SlotFacts'
  BY <1>0, <1>2, <1>3, CacheAssumption DEF IInv, SlotFacts, Slot
<1>9. BufferFacts'
  BY Zenon, <1>1, <1>2 DEF IInv, BufferFacts, TypeOK
<1>10. PhaseFacts'
  <2>1. buf'[target] = "none" /\ cache'[tid'] = NULL
    BY <1>0, <1>1, <1>2 DEF IInv, PhaseFacts, TypeOK
  <2> QED
    BY <1>2, <2>1 DEF IInv, PhaseFacts
<1>11. SlotsMatchBuffers'
  <2>1. ASSUME NEW f \in Entry
        PROVE  (buf'[f] = "cached") <=> \E u \in Slot : cache'[u] = f
    <3>1. CASE f = old
      <4>1. \A u \in Slot : cache'[u] # old
        BY <1>0, <1>1, <1>2 DEF IInv, SlotsMatchBuffers
      <4> QED
        BY Zenon, <1>2, <3>1, <4>1 DEF IInv, TypeOK
    <3>2. CASE f # old
      <4>1. buf'[f] = buf[f]
        BY <1>2, <3>2 DEF IInv, TypeOK
      <4>2. \A u \in Slot : cache'[u] = f <=> cache[u] = f
        BY <1>0, <1>2, <3>2, CacheAssumption
      <4> QED
        BY <4>1, <4>2 DEF IInv, SlotsMatchBuffers
    <3> QED
      BY <3>1, <3>2
  <2>2. ASSUME NEW u \in Slot, NEW v \in Slot, cache'[u] = cache'[v], cache'[u] # NULL
        PROVE  u = v
    <3>1. u # t /\ v # t
      BY <1>0, <1>2, <2>2
    <3>2. cache[u] = cache[v] /\ cache[u] # NULL
      BY <1>0, <1>2, <2>2, <3>1
    <3> QED
      BY <3>2 DEF IInv, SlotsMatchBuffers
  <2> QED
    BY <2>1, <2>2 DEF SlotsMatchBuffers
<1>12. NoOverrun' /\ BufferInUseStays'
  <2>1. NoOverrun'
    BY <1>0, <1>2 DEF NoOverrun
  <2>2. queue_cur \in Entry /\ buf'[queue_cur] = buf[queue_cur]
    BY <1>0, <1>2 DEF IInv, PhaseFacts, TypeOK
  <2> QED
    BY <1>2, <2>1, <2>2 DEF IInv, BufferInUseStays
<1> QED
  BY <1>6, <1>7, <1>8, <1>9, <1>10, <1>11, <1>12 DEF IInv

(* Below the limit the target finds a slot.                                *)
LEMMA LoadKeeps ==
  ASSUME IInv, Load
  PROVE  IInv'
<1> DEFINE e == target
<1> USE DEF Load
<1>1. /\ e \in Entry /\ len[e] > 0 /\ buf[e] = "none" /\ queue_cur \in Entry
      /\ len[queue_cur] > 0 /\ UNCHANGED len /\ len \in [Entry -> 0 .. MaxLen]
  BY DEF IInv, TypeOK, PhaseFacts
<1>2. cache_count < max_entries - 1
  BY DEF Full, IInv, TypeOK
<1>3. /\ SearchFrom(tid) \in Nat
      /\ \E t \in Slot : IsFree(t, SearchFrom(tid))
  BY <1>2, RoomFrom DEF IInv, TypeOK, PhaseFacts
<1>4. PICK t \in Slot : IsFree(t, SearchFrom(tid)) /\ Register(t, e) /\ pc' = "fuzz"
  BY <1>3 DEF RegisterFrom
<1>5. /\ cache' \in [Slot -> Entry \union {NULL}]
      /\ buf' = [buf EXCEPT ![e] = "cached"]
      /\ alloc' \in [Entry -> 0 .. MaxLen]
      /\ cache_size' \in 0 .. W64 - 1 /\ cache_count' \in Nat
      /\ max_count' \in 0 .. slots' /\ smallest_free' \in 0 .. max_count'
      /\ max_count <= max_count'
      /\ SlotFacts' /\ SlotsMatchBuffers' /\ CountIsExact'
  BY Zenon, <1>1, <1>3, <1>4, RegisterKeeps DEF limitVars
<1>6. TypeOK'
  <2>1. tid' \in 0 .. max_count'
    BY <1>5 DEF IInv, TypeOK
  <2>2. buf' \in [Entry -> {"none", "cached", "private"}]
    BY Zenon, <1>5 DEF IInv, TypeOK
  <2> QED
    BY Zenon, <1>1, <1>4, <1>5, <2>1, <2>2 DEF IInv, TypeOK, limitVars
<1>7. BufferFacts'
  BY <1>1, <1>5 DEF IInv, BufferFacts, TypeOK
<1>8. PhaseFacts'
  BY <1>1, <1>4 DEF PhaseFacts
<1>9. NoOverrun' /\ BufferInUseStays'
  BY <1>1, <1>4, <1>5 DEF IInv, NoOverrun, BufferInUseStays, TypeOK
<1> QED
  BY Zenon, <1>5, <1>6, <1>7, <1>8, <1>9 DEF IInv

(* Trimming changes lengths and accounts only.                             *)
LEMMA TrimKeeps ==
  ASSUME IInv, NEW n \in 1 .. MaxLen, TrimStep(n)
  PROVE  IInv'
<1>1. /\ pc = "fuzz" /\ queue_cur \in Entry /\ len[queue_cur] > 0
      /\ len' = [len EXCEPT ![queue_cur] = n] /\ trim_done' = trim_done \union {queue_cur}
      /\ UNCHANGED <<pc, queue_cur, cur_buf, lb, temp, buf, cache, cache_count, max_count,
                     smallest_free, slots, max_entries, do_once, target, tid>>
  BY DEF IInv, PhaseFacts, TrimStep, Trim, CustomTrim, PostProcess, Trimmed, bufVars,
         slotVars, limitVars
<1>2. alloc' \in [Entry -> 0 .. MaxLen] /\ cache_size' \in 0 .. W64 - 1
  <2>0. alloc \in [Entry -> 0 .. MaxLen] /\ cache_size \in 0 .. W64 - 1 /\ n \in 0 .. MaxLen
    BY CacheAssumption DEF IInv, TypeOK
  <2>1. UNCHANGED <<alloc, cache_size>> \/ Reallocate(n)
    BY DEF TrimStep, Trim, CustomTrim, PostProcess, bufVars, slotVars
  <2>2. CASE Reallocate(n)
    <3>1. len[queue_cur] \in Int
      BY <1>1 DEF IInv, TypeOK
    <3>2. Retaken(n, len[queue_cur]) \in 0 .. W64 - 1
      <4>1. (n - len[queue_cur]) % W32 \in Int
        BY <3>1, CacheAssumption
      <4> QED
        BY <2>0, <4>1, CacheAssumption DEF Retaken
    <3> QED
      BY <2>0, <2>2, <3>2 DEF Reallocate
  <2> QED
    BY <2>0, <2>1, <2>2
<1>3. TypeOK'
  <2>1. len' \in [Entry -> 0 .. MaxLen]
    BY <1>1, CacheAssumption DEF IInv, TypeOK
  <2>2. overrun' \in BOOLEAN
    BY DEF IInv, TypeOK, TrimStep, Trim, CustomTrim, PostProcess
  <2> QED
    BY Zenon, <1>1, <1>2, <2>1, <2>2 DEF IInv, TypeOK
<1>4. BufferFacts'
  BY <1>1 DEF IInv, BufferFacts, TypeOK
<1>5. PhaseFacts'
  BY <1>1 DEF IInv, PhaseFacts, TypeOK
<1>6. SlotFacts' /\ SlotsMatchBuffers' /\ CountIsExact'
  BY <1>1, SlotsStay DEF limitVars
<1>7. NoOverrun' /\ BufferInUseStays'
  BY <1>1 DEF IInv, NoOverrun, BufferInUseStays
<1> QED
  BY Zenon, <1>3, <1>4, <1>5, <1>6, <1>7 DEF IInv

(* fuzz_one lets go of its buffer.                                         *)
LEMMA EndFuzzOneKeeps ==
  ASSUME IInv, EndFuzzOne
  PROVE  IInv'
<1> USE DEF EndFuzzOne
<1>1. TypeOK' /\ BufferFacts' /\ PhaseFacts'
  BY DEF IInv, TypeOK, BufferFacts, PhaseFacts, bufVars, slotVars, limitVars
<1>2. SlotFacts' /\ SlotsMatchBuffers' /\ CountIsExact'
  BY SlotsStay DEF bufVars, slotVars
<1>3. NoOverrun' /\ BufferInUseStays'
  BY DEF NoOverrun, BufferInUseStays
<1> QED
  BY Zenon, <1>1, <1>2, <1>3 DEF IInv

(* Nothing happens.                                                        *)
LEMMA StutterKeeps ==
  ASSUME IInv, UNCHANGED vars
  PROVE  IInv'
<1> USE DEF vars, fuzzVars, bufVars, slotVars, limitVars
<1>1. TypeOK' /\ BufferFacts' /\ PhaseFacts'
  BY DEF IInv, TypeOK, BufferFacts, PhaseFacts
<1>2. SlotFacts' /\ SlotsMatchBuffers' /\ CountIsExact'
  BY SlotsStay
<1>3. NoOverrun' /\ BufferInUseStays'
  BY DEF IInv, NoOverrun, BufferInUseStays
<1> QED
  BY Zenon, <1>1, <1>2, <1>3 DEF IInv

-----------------------------------------------------------------------------
(* An empty cache.                                                         *)
LEMMA InitHolds == Init => IInv
<1> SUFFICES ASSUME Init PROVE IInv
  OBVIOUS
<1> USE DEF Init
<1>1. TypeOK
  <2>1. /\ 0 \in 0 .. MaxLen /\ MaxLen \in 0 .. MaxLen /\ 0 \in 0 .. W64 - 1
        /\ ENTRIES \in 0 .. ENTRIES + 1 /\ ENTRIES \in 3 .. ENTRIES /\ 0 \in 0 .. ENTRIES
    BY CacheAssumption
  <2>2. len \in [Entry -> 0 .. MaxLen]
    BY <2>1
  <2>3. alloc \in [Entry -> 0 .. MaxLen] /\ cache \in [Slot -> Entry \union {NULL}]
    BY <2>1
  <2>4. buf \in [Entry -> {"none", "cached", "private"}]
    OBVIOUS
  <2>5. /\ pc \in {"idle", "fuzz", "load", "crash"} /\ cur_buf \in {"none", "own", "scratch"}
        /\ queue_cur \in Entry \union {NULL} /\ lb \in Entry \union {NULL}
        /\ target \in Entry \union {NULL} /\ temp \subseteq Entry /\ trim_done \subseteq Entry
        /\ do_once \in BOOLEAN /\ overrun \in BOOLEAN
    BY Zenon
  <2>6. /\ slots \in 0 .. ENTRIES + 1 /\ max_entries \in 3 .. ENTRIES /\ max_count \in 0 .. slots
        /\ smallest_free \in 0 .. max_count /\ tid \in 0 .. max_count
        /\ cache_size \in 0 .. W64 - 1 /\ cache_count \in Nat
    BY <2>1
  <2> HIDE DEF Init
  <2> QED
    BY <2>2, <2>3, <2>4, <2>5, <2>6 DEF TypeOK
<1>2. SlotFacts /\ BufferFacts /\ PhaseFacts
  BY CacheAssumption DEF SlotFacts, BufferFacts, PhaseFacts, Slot
<1>3. SlotsMatchBuffers
  BY CacheAssumption DEF SlotsMatchBuffers
<1>4. CountIsExact
  <2>1. Occupied = {}
    BY DEF Occupied
  <2> QED
    BY <2>1, FS_EmptySet DEF CountIsExact
<1>5. NoOverrun /\ BufferInUseStays
  BY DEF NoOverrun, BufferInUseStays
<1> QED
  BY <1>1, <1>2, <1>3, <1>4, <1>5 DEF IInv

(* The invariant is kept by every step.                                    *)
LEMMA NextKeeps == IInv /\ [Next]_vars => IInv'
<1> SUFFICES ASSUME IInv, [Next]_vars PROVE IInv'
  OBVIOUS
<1>1. ASSUME NEW e \in Entry, Select(e) \/ Splice(e) PROVE IInv'
  BY <1>1, SelectKeeps, SpliceKeeps
<1>2. ASSUME NEW e \in Entry, NEW n \in 1 .. MaxLen,
             FindSeed(e, n) \/ StartEpisode(e, n) \/ FindInEpisode(e, n)
      PROVE  IInv'
  BY <1>2, FindSeedKeeps, StartEpisodeKeeps, FindInEpisodeKeeps
<1>3. ASSUME NEW t \in Slot, Evict(t) PROVE IInv'
  BY <1>3, EvictKeeps
<1>4. ASSUME NEW n \in 1 .. MaxLen, TrimStep(n) PROVE IInv'
  BY <1>4, TrimKeeps
<1>5. ASSUME Load \/ EndEpisode \/ EndFuzzOne \/ UNCHANGED vars PROVE IInv'
  BY <1>5, LoadKeeps, EndEpisodeKeeps, EndFuzzOneKeeps, StutterKeeps
<1> QED
  BY <1>1, <1>2, <1>3, <1>4, <1>5 DEF Next, TrimStep

(* The invariant always holds.                                             *)
LEMMA Inductive == Spec => []IInv
  BY InitHolds, NextKeeps, PTL DEF Spec

(* While an eviction is due, at least two slots are taken and at most one  *)
(* of them by the entry being fuzzed.                                      *)
LEMMA VictimFollows == IInv => VictimExists
<1> SUFFICES ASSUME IInv, pc = "load", Full(len[target])
             PROVE  \E t \in Slot : Victim(t)
  BY DEF VictimExists
<1>1. cache_count >= 2
  BY DEF Full, IInv, TypeOK
<1>2. PICK t \in Occupied : cache[t] # queue_cur
  <2> SUFFICES ASSUME \A t \in Occupied : cache[t] = queue_cur PROVE FALSE
    OBVIOUS
  <2>1. Occupied # {}
    BY <1>1, FS_EmptySet DEF IInv, CountIsExact
  <2>2. PICK t \in Occupied : TRUE
    BY Zenon, <2>1
  <2>3. Occupied = {t}
    BY <2>2 DEF IInv, SlotsMatchBuffers, Occupied
  <2> QED
    BY <1>1, <2>3, FS_Singleton DEF IInv, CountIsExact
<1>3. t \in Slot /\ cache[t] # NULL
  BY DEF Occupied
<1>4. t \in 0 .. max_count - 1
  BY <1>3 DEF IInv, SlotFacts, TypeOK, Slot
<1> QED
  BY <1>2, <1>3, <1>4 DEF Victim

-----------------------------------------------------------------------------
(* The accounts.                                                           *)

(* Induction up to a bound, over a set instead of a predicate.             *)
LEMMA InductionUpTo ==
  ASSUME NEW N \in Nat, NEW S, 0 \in S, \A n \in 0 .. N - 1 : n \in S => n + 1 \in S
  PROVE  \A n \in 0 .. N : n \in S
<1> DEFINE Bad == {n \in 0 .. N : n \notin S}
<1> SUFFICES ASSUME Bad # {} PROVE FALSE
  OBVIOUS
<1>0. Bad \in SUBSET Nat
  OBVIOUS
<1>1. PICK m \in Bad : \A y \in Bad : m <= y
  <2> HIDE DEF Bad
  <2> QED
    BY Zenon, <1>0, Smallest
<1>2. m \in 0 .. N /\ m # 0
  OBVIOUS
<1>3. m - 1 \in 0 .. N - 1 /\ m - 1 \in S /\ (m - 1) + 1 = m
  BY <1>1, <1>2
<1> QED
  BY <1>3

(* What a sum is, without the recursion.                                   *)
IsSum(g, f, n) == g = [m \in 0 .. n |-> IF m = 0 THEN 0 ELSE g[m - 1] + f[m - 1]]

LEMMA SumExists ==
  ASSUME NEW N \in Nat, NEW f
  PROVE  \E g : IsSum(g, f, N)
<1> DEFINE S == {n \in 0 .. N : \E g : IsSum(g, f, n)}
<1>1. 0 \in S
  <2>1. IsSum([m \in 0 .. 0 |-> 0], f, 0)
    BY DEF IsSum
  <2> QED
    BY <2>1
<1>2. ASSUME NEW n \in 0 .. N - 1, n \in S
      PROVE  n + 1 \in S
  <2>1. PICK g : IsSum(g, f, n)
    BY <1>2
  <2> DEFINE h == [m \in 0 .. n + 1 |-> IF m <= n THEN g[m] ELSE g[n] + f[n]]
  <2>2. ASSUME NEW m \in 0 .. n + 1
        PROVE  h[m] = IF m = 0 THEN 0 ELSE h[m - 1] + f[m - 1]
    BY <2>1 DEF IsSum
  <2>3. h = [m \in 0 .. n + 1 |-> IF m = 0 THEN 0 ELSE h[m - 1] + f[m - 1]]
    BY <2>2
  <2> HIDE DEF h
  <2>4. IsSum(h, f, n + 1)
    BY <2>3 DEF IsSum
  <2> QED
    BY <2>4
<1> HIDE DEF S
<1>3. N \in S
  BY <1>1, <1>2, InductionUpTo
<1> QED
  BY <1>3 DEF S

LEMMA SumUnique ==
  ASSUME NEW n \in Nat, NEW m \in Nat, n <= m, NEW f, NEW g, NEW h,
         IsSum(g, f, n), IsSum(h, f, m)
  PROVE  g[n] = h[n]
<1> DEFINE S == {i \in 0 .. n : g[i] = h[i]}
<1>1. 0 \in S
  BY DEF IsSum
<1>2. ASSUME NEW i \in 0 .. n - 1, i \in S
      PROVE  i + 1 \in S
  <2>1. g[i + 1] = g[i] + f[i]
    BY DEF IsSum
  <2>2. h[i + 1] = h[i] + f[i]
    BY DEF IsSum
  <2> QED
    BY <1>2, <2>1, <2>2
<1> HIDE DEF S
<1>3. n \in S
  BY <1>1, <1>2, InductionUpTo
<1> QED
  BY <1>3 DEF S

(* The equations of SumBelow.                                              *)
LEMMA SumEquations ==
  ASSUME NEW n \in Nat, NEW f
  PROVE  SumBelow(f, 0) = 0 /\ SumBelow(f, n + 1) = SumBelow(f, n) + f[n]
<1> DEFINE s(m) == CHOOSE g : IsSum(g, f, m)
<1>1. \A m \in Nat : IsSum(s(m), f, m)
  BY SumExists
<1>2. \A m \in Nat : SumBelow(f, m) = s(m)[m]
  BY DEF SumBelow, IsSum
<1> HIDE DEF s
<1>3. s(n)[n] = s(n + 1)[n]
  BY <1>1, SumUnique
<1>4. s(n + 1)[n + 1] = s(n + 1)[n] + f[n] /\ s(0)[0] = 0
  BY <1>1 DEF IsSum
<1> QED
  BY <1>2, <1>3, <1>4

(* A sum of n terms up to M is at most n * M.                              *)
LEMMA SumIsBounded ==
  ASSUME NEW N \in Nat, NEW M \in Nat, NEW f, \A i \in 0 .. N - 1 : f[i] \in 0 .. M
  PROVE  SumBelow(f, N) \in Nat /\ SumBelow(f, N) <= N * M
<1> DEFINE S == {n \in 0 .. N : SumBelow(f, n) \in Nat /\ SumBelow(f, n) <= n * M}
<1>1. 0 \in S
  <2>1. SumBelow(f, 0) = 0
    BY SumEquations
  <2> QED
    BY <2>1
<1>2. ASSUME NEW n \in 0 .. N - 1, n \in S
      PROVE  n + 1 \in S
  <2>1. SumBelow(f, n + 1) = SumBelow(f, n) + f[n]
    BY SumEquations
  <2>2. (n + 1) * M = n * M + M
    OBVIOUS
  <2>3. n * M \in Nat /\ f[n] \in 0 .. M
    OBVIOUS
  <2> QED
    BY <1>2, <2>1, <2>2, <2>3
<1> HIDE DEF S
<1>3. \A n \in 0 .. N : n \in S
  BY <1>1, <1>2, InductionUpTo
<1>4. N \in S
  BY <1>3
<1> QED
  BY <1>4 DEF S

(* Changing one term changes the sum by as much.                           *)
LEMMA SumWithOneChange ==
  ASSUME NEW N \in Nat, NEW f \in [0 .. N - 1 -> Nat], NEW g \in [0 .. N - 1 -> Nat],
         NEW t \in 0 .. N - 1,
         \A i \in 0 .. N - 1 : i # t => g[i] = f[i]
  PROVE  SumBelow(g, N) = SumBelow(f, N) - f[t] + g[t]
<1> DEFINE S == {n \in 0 .. N : /\ SumBelow(f, n) \in Nat /\ SumBelow(g, n) \in Nat
                                /\ SumBelow(g, n) = SumBelow(f, n)
                                                      + (IF t < n THEN g[t] - f[t] ELSE 0)}
<1>0. f[t] \in Nat /\ g[t] \in Nat
  OBVIOUS
<1>1. 0 \in S
  <2>1. SumBelow(f, 0) = 0 /\ SumBelow(g, 0) = 0
    BY SumEquations
  <2> QED
    BY <2>1
<1>2. ASSUME NEW n \in 0 .. N - 1, n \in S
      PROVE  n + 1 \in S
  <2>1. /\ SumBelow(f, n + 1) = SumBelow(f, n) + f[n]
        /\ SumBelow(g, n + 1) = SumBelow(g, n) + g[n]
    BY SumEquations
  <2>2. f[n] \in Nat /\ g[n] \in Nat /\ (n # t => g[n] = f[n])
    OBVIOUS
  <2>3. /\ SumBelow(f, n) \in Nat /\ SumBelow(g, n) \in Nat
        /\ SumBelow(g, n) = SumBelow(f, n) + (IF t < n THEN g[t] - f[t] ELSE 0)
    BY <1>2
  <2>4. SumBelow(g, n + 1) = SumBelow(f, n + 1) + (IF t < n + 1 THEN g[t] - f[t] ELSE 0)
    <3>1. CASE n = t
      BY <1>0, <2>1, <2>3, <3>1
    <3>2. CASE n # t
      <4>1. (t < n + 1) <=> (t < n)
        BY <3>2
      <4> QED
        BY <1>0, <2>1, <2>2, <2>3, <3>2, <4>1
    <3> QED
      BY <3>1, <3>2
  <2>5. SumBelow(f, n + 1) \in Nat /\ SumBelow(g, n + 1) \in Nat
    <3>1. SumBelow(f, n) \in Nat /\ SumBelow(g, n) \in Nat
      BY Zenon, <2>3
    <3>2. f[n] \in Nat /\ g[n] \in Nat
      BY Zenon, <2>2
    <3> QED
      BY <2>1, <3>1, <3>2
  <2>6. n + 1 \in 0 .. N
    OBVIOUS
  <2> QED
    BY <2>4, <2>5, <2>6
<1> HIDE DEF S
<1>3. \A n \in 0 .. N : n \in S
  BY Zenon, <1>1, <1>2, InductionUpTo
<1>4. N \in S /\ t < N
  BY <1>3
<1> QED
  BY <1>0, <1>4 DEF S

(* What the slots hold fits into 64 bits, with the slack of all trims.     *)
LEMMA BytesFit ==
  ASSUME NEW c \in [Slot -> Entry \union {NULL}], NEW size \in [Entry -> 0 .. MaxLen],
         NEW T \in SUBSET Entry
  PROVE  /\ Bytes(c, size) \in Nat /\ Slack(T) \in Nat
         /\ Bytes(c, size) + Slack(T) < W64
<1> DEFINE N == ENTRIES + 1
<1>1. N \in Nat /\ MaxLen \in Nat /\ W32 \in Nat /\ W64 \in Nat
  BY CacheAssumption
<1>2. \A t \in 0 .. N - 1 : Held(c, size)[t] \in 0 .. MaxLen
  BY CacheAssumption DEF Held, Slot
<1>3. Bytes(c, size) \in Nat /\ Bytes(c, size) <= N * MaxLen
  BY <1>1, <1>2, SumIsBounded DEF Bytes
<1>4. /\ Cardinality(T) \in Nat /\ Cardinality(Entry) \in Nat
      /\ Cardinality(T) <= Cardinality(Entry)
  <2>1. IsFiniteSet(Entry) /\ IsFiniteSet(T)
    BY CacheAssumption, FS_Subset
  <2> QED
    BY <2>1, FS_Subset, FS_CardinalityType
<1>5. Slack(T) \in Nat /\ Slack(T) <= Cardinality(Entry) * W32
  <2>1. ASSUME NEW i \in Nat, NEW j \in Nat, NEW w \in Nat, i <= j
        PROVE  i * w \in Nat /\ i * w <= j * w
    <3>1. PICK k \in Nat : j = i + k
      <4>1. j - i \in Nat /\ j = i + (j - i)
        BY <2>1
      <4> QED
        BY <4>1
    <3>2. j * w = i * w + k * w /\ k * w \in Nat /\ i * w \in Nat
      BY <3>1
    <3> QED
      BY <3>2
  <2> QED
    BY <1>1, <1>4, <2>1 DEF Slack
<1>6. W64 > N * MaxLen + Cardinality(Entry) * W32
  BY SizeAssumption
<1>7. N * MaxLen \in Nat /\ Cardinality(Entry) * W32 \in Nat
  BY <1>1, <1>4
<1> HIDE DEF N
<1> QED
  BY <1>1, <1>3, <1>5, <1>6, <1>7

(* Only slot t changes what it holds.                                      *)
LEMMA BytesWithOneChange ==
  ASSUME NEW c \in [Slot -> Entry \union {NULL}], NEW a \in [Entry -> 0 .. MaxLen],
         NEW d \in [Slot -> Entry \union {NULL}], NEW b \in [Entry -> 0 .. MaxLen],
         NEW t \in Slot, \A u \in Slot \ {t} : Held(d, b)[u] = Held(c, a)[u]
  PROVE  /\ Held(c, a)[t] \in Nat /\ Held(d, b)[t] \in Nat
         /\ Bytes(d, b) = Bytes(c, a) - Held(c, a)[t] + Held(d, b)[t]
<1> DEFINE N == ENTRIES + 1
           f == Held(c, a)
           g == Held(d, b)
<1>1. Slot = 0 .. N - 1 /\ N \in Nat
  BY CacheAssumption DEF Slot
<1>2. f \in [Slot -> Nat] /\ g \in [Slot -> Nat]
  BY CacheAssumption DEF Held
<1>3. \A u \in Slot : u # t => g[u] = f[u]
  OBVIOUS
<1> HIDE DEF N, f, g
<1>4. SumBelow(g, N) = SumBelow(f, N) - f[t] + g[t]
  BY Zenon, <1>1, <1>2, <1>3, SumWithOneChange
<1> QED
  BY Zenon, <1>2, <1>4 DEF Bytes, N, f, g

(* A trim takes up one more of the entries.                                *)
LEMMA SlackOfOneMore ==
  ASSUME NEW T \in SUBSET Entry, NEW q \in Entry, q \notin T
  PROVE  Slack(T \union {q}) = Slack(T) + W32
<1>1. IsFiniteSet(T) /\ Cardinality(T) \in Nat
  BY CacheAssumption, FS_Subset, FS_CardinalityType
<1>2. Cardinality(T \union {q}) = Cardinality(T) + 1
  BY Zenon, <1>1, FS_AddElement
<1> QED
  BY <1>1, <1>2, CacheAssumption DEF Slack

(* The size is a number below 2^64.                                        *)
LEMMA SizeIsNumber == TypeOK => cache_size \in Nat /\ cache_size < W64
  BY CacheAssumption DEF TypeOK

(* Lengths are numbers.                                                    *)
LEMMA LengthsAreNumbers == 0 .. MaxLen \subseteq Nat
  BY CacheAssumption

(* Facts about numbers, for steps that are otherwise about the cache.      *)
LEMMA Numbers ==
  /\ \A x \in Nat : x <= x
  /\ \A x, y \in Nat : x - 0 + y = x + y
  OBVIOUS

(* What is in the slots and how much of it.                                *)
Content(c, a) == c \in [Slot -> Entry \union {NULL}] /\ a \in [Entry -> 0 .. MaxLen]

LEMMA ContentFits ==
  ASSUME NEW c, NEW a, NEW T \in SUBSET Entry, Content(c, a)
  PROVE  /\ Bytes(c, a) \in Nat /\ Slack(T) \in Nat
         /\ Bytes(c, a) + Slack(T) \in Nat /\ Bytes(c, a) + Slack(T) < W64
<1>1. Bytes(c, a) \in Nat /\ Slack(T) \in Nat /\ Bytes(c, a) + Slack(T) < W64
  BY Zenon, BytesFit DEF Content
<1> QED
  BY <1>1

(* Slot t held nothing and now holds n bytes; the others are as before.    *)
OneMore(c, a, d, b, t, n) ==
  /\ Content(c, a) /\ Content(d, b) /\ t \in Slot /\ n \in Nat
  /\ Held(c, a)[t] = 0 /\ Held(d, b)[t] = n
  /\ \A u \in Slot \ {t} : Held(d, b)[u] = Held(c, a)[u]

Grows(x, y, n) == y = x + n

LEMMA BytesWithOneMore ==
  ASSUME NEW c, NEW a, NEW d, NEW b, NEW t, NEW n, OneMore(c, a, d, b, t, n)
  PROVE  Grows(Bytes(c, a), Bytes(d, b), n)
<1>1. Bytes(d, b) = Bytes(c, a) - Held(c, a)[t] + Held(d, b)[t]
  BY BytesWithOneChange DEF OneMore, Content
<1>2. Bytes(c, a) \in Nat /\ n \in Nat
  BY Zenon, ContentFits DEF OneMore
<1> QED
  BY Zenon, <1>1, <1>2, Numbers DEF OneMore, Grows

(* The account lies between the memory in use and the bytes in the slots   *)
(* with the slack.  All grow together, and the account does not wrap.      *)
Accounted(memory, size, bytes, slack) ==
  /\ memory \in Nat /\ size \in Nat /\ bytes \in Nat /\ slack \in Nat
  /\ memory <= size /\ size <= bytes + slack

LEMMA AccountGrows ==
  ASSUME NEW memory, NEW size, NEW bytes, NEW slack, Accounted(memory, size, bytes, slack),
         NEW n \in Nat, NEW newMemory, Grows(memory, newMemory, n),
         NEW newBytes, Grows(bytes, newBytes, n), newBytes + slack < W64
  PROVE  Accounted(newMemory, (size + n) % W64, newBytes, slack)
  BY CacheAssumption DEF Accounted, Grows

OthersKeepLength(e) == \A f \in Entry \ {e} : len'[f] = len[f]

(* What is put into a free slot is added to the account.                   *)
LEMMA RegisterAccounts ==
  ASSUME IInv, Accounts, TypeOK', NEW t \in Slot, cache[t] = NULL, NEW e \in Entry,
         buf[e] = "none", OthersKeepLength(e), Register(t, e),
         UNCHANGED <<lb, temp, trim_done>>
  PROVE  Accounts'
<1> DEFINE n == len'[e]
<1>1. /\ Content(cache, len) /\ Content(cache', len')
      /\ Content(cache, alloc) /\ Content(cache', alloc')
      /\ trim_done \in SUBSET Entry
  BY Zenon DEF IInv, TypeOK, Content
<1>2. /\ cache' = [cache EXCEPT ![t] = e] /\ alloc' = [alloc EXCEPT ![e] = n]
      /\ buf' = [buf EXCEPT ![e] = "cached"] /\ cache_size' = (cache_size + n) % W64
  BY Zenon DEF Register
<1>3. \A u \in Slot \ {t} : cache'[u] = cache[u] /\ cache[u] # e
  BY Zenon, <1>1, <1>2 DEF IInv, SlotsMatchBuffers, Content
<1>4. cache'[t] = e /\ e # NULL /\ alloc'[e] = n /\ n \in Nat
  <2>1. cache'[t] = e /\ e # NULL /\ alloc'[e] = n
    BY Zenon, <1>1, <1>2, CacheAssumption DEF Content
  <2>2. n \in 0 .. MaxLen
    BY Zenon, <1>1 DEF Content
  <2> QED
    BY Zenon, <2>1, <2>2, LengthsAreNumbers
<1>5. /\ Held(cache, len)[t] = 0 /\ Held(cache', len')[t] = n
      /\ Held(cache, alloc)[t] = 0 /\ Held(cache', alloc')[t] = n
  BY Zenon, <1>4 DEF Held
<1>6. \A u \in Slot \ {t} : /\ Held(cache', len')[u] = Held(cache, len)[u]
                            /\ Held(cache', alloc')[u] = Held(cache, alloc)[u]
  <2> SUFFICES ASSUME NEW u \in Slot \ {t}
               PROVE  /\ Held(cache', len')[u] = Held(cache, len)[u]
                      /\ Held(cache', alloc')[u] = Held(cache, alloc)[u]
    BY Zenon
  <2>1. cache'[u] = cache[u] /\ cache[u] # e /\ cache[u] \in Entry \union {NULL}
    BY Zenon, <1>1, <1>3 DEF Content
  <2>2. cache[u] # NULL => len'[cache[u]] = len[cache[u]] /\ alloc'[cache[u]] = alloc[cache[u]]
    BY Zenon, <1>1, <1>2, <2>1 DEF OthersKeepLength, Content
  <2> QED
    BY Zenon, <2>1, <2>2 DEF Held
<1>7. Grows(Bytes(cache, len), Bytes(cache', len'), n)
  <2>1. OneMore(cache, len, cache', len', t, n)
    BY Zenon, <1>1, <1>4, <1>5, <1>6 DEF OneMore
  <2> QED
    BY Zenon, <2>1, BytesWithOneMore
<1>8. Grows(Bytes(cache, alloc), Bytes(cache', alloc'), n)
  <2>1. OneMore(cache, alloc, cache', alloc', t, n)
    BY Zenon, <1>1, <1>4, <1>5, <1>6 DEF OneMore
  <2> QED
    BY Zenon, <2>1, BytesWithOneMore
<1>9. Accounted(Bytes(cache, alloc), cache_size, Bytes(cache, len), Slack(trim_done))
  <2>1. Bytes(cache, alloc) \in Nat
    BY Zenon, <1>1, ContentFits
  <2>2. Bytes(cache, len) \in Nat /\ Slack(trim_done) \in Nat
    BY Zenon, <1>1, ContentFits
  <2>3. cache_size \in Nat
    BY Zenon, SizeIsNumber DEF IInv
  <2>4. Bytes(cache, alloc) <= cache_size /\ cache_size <= Bytes(cache, len) + Slack(trim_done)
    BY Zenon DEF Accounts
  <2> QED
    BY Zenon, <2>1, <2>2, <2>3, <2>4 DEF Accounted
<1>10. Accounted(Bytes(cache', alloc'), (cache_size + n) % W64, Bytes(cache', len'),
                 Slack(trim_done))
  <2>1. Bytes(cache', len') + Slack(trim_done) < W64
    BY Zenon, <1>1, ContentFits
  <2> QED
    BY Zenon, <1>4, <1>7, <1>8, <1>9, <2>1, AccountGrows
<1>11. /\ Bytes(cache', alloc') <= cache_size'
       /\ cache_size' <= Bytes(cache', len') + Slack(trim_done)
  BY Zenon, <1>2, <1>10 DEF Accounted
<1>12. \A f \in Entry : buf'[f] = "cached" => len'[f] <= alloc'[f]
  <2> SUFFICES ASSUME NEW f \in Entry, buf'[f] = "cached" PROVE len'[f] <= alloc'[f]
    BY Zenon
  <2>1. CASE f = e
    BY Zenon, <1>4, <2>1, Numbers
  <2>2. CASE f # e
    <3>1. buf[f] = "cached" /\ len'[f] = len[f] /\ alloc'[f] = alloc[f]
      BY Zenon, <1>1, <1>2, <2>2 DEF IInv, TypeOK, OthersKeepLength
    <3> QED
      BY Zenon, <3>1 DEF Accounts
  <2> QED
    BY Zenon, <2>1, <2>2
<1> QED
  BY Zenon, <1>11, <1>12 DEF Accounts

(* No slot holds an entry whose length or buffer changes.                  *)
LEMMA AccountsStay ==
  ASSUME IInv, Accounts, TypeOK', UNCHANGED <<cache, cache_size, trim_done>>,
         \A e \in Entry : buf[e] = "cached" <=> buf'[e] = "cached",
         \A e \in Entry : buf[e] = "cached" => len'[e] = len[e] /\ alloc'[e] = alloc[e],
         lb' = NULL => temp' = {}
  PROVE  Accounts'
<1>1. \A t \in Slot : cache[t] # NULL => cache[t] \in Entry /\ buf[cache[t]] = "cached"
  BY Zenon DEF IInv, TypeOK, SlotsMatchBuffers
<1>2. Held(cache', len') = Held(cache, len) /\ Held(cache', alloc') = Held(cache, alloc)
  BY Zenon, <1>1 DEF Held
<1>3. \A e \in Entry : buf'[e] = "cached" => len'[e] <= alloc'[e]
  BY Zenon DEF Accounts
<1> QED
  BY Zenon, <1>2, <1>3 DEF Accounts, Bytes

(* One entry gets another size.                                            *)
LEMMA BytesOfOneEntry ==
  ASSUME NEW c \in [Slot -> Entry \union {NULL}], NEW a \in [Entry -> 0 .. MaxLen],
         NEW b \in [Entry -> 0 .. MaxLen], NEW q \in Entry,
         \A e \in Entry \ {q} : b[e] = a[e],
         \A t, u \in Slot : c[t] = c[u] /\ c[t] # NULL => t = u
  PROVE  /\ (\E t \in Slot : c[t] = q) => Bytes(c, b) = Bytes(c, a) - a[q] + b[q]
         /\ (\A t \in Slot : c[t] # q) => Bytes(c, b) = Bytes(c, a)
<1>0. q # NULL
  BY CacheAssumption
<1>1. ASSUME NEW u \in Slot, c[u] # q
      PROVE  Held(c, b)[u] = Held(c, a)[u]
  <2>1. c[u] = NULL \/ c[u] \in Entry \ {q}
    BY <1>1
  <2> QED
    BY <2>1 DEF Held
<1>2. ASSUME NEW t \in Slot, c[t] = q
      PROVE  Bytes(c, b) = Bytes(c, a) - a[q] + b[q]
  <2>1. \A u \in Slot \ {t} : Held(c, b)[u] = Held(c, a)[u]
    BY <1>0, <1>1, <1>2
  <2>2. Bytes(c, b) = Bytes(c, a) - Held(c, a)[t] + Held(c, b)[t]
    BY <2>1, BytesWithOneChange
  <2>3. Held(c, a)[t] = a[q] /\ Held(c, b)[t] = b[q]
    BY <1>0, <1>2 DEF Held
  <2> QED
    BY <2>2, <2>3
<1>3. ASSUME \A t \in Slot : c[t] # q
      PROVE  Bytes(c, b) = Bytes(c, a)
  <2>1. Held(c, b) = Held(c, a)
    BY Zenon, <1>1, <1>3 DEF Held
  <2> QED
    BY <2>1 DEF Bytes
<1> QED
  BY <1>2, <1>3

(* An eviction takes the length off the account, never more than the       *)
(* buffer it frees, and never more than there is.                          *)
LEMMA EvictAccounts ==
  ASSUME IInv, Accounts, TypeOK', NEW t \in Slot, Evict(t)
  PROVE  Accounts'
<1> DEFINE old == cache[t]
<1>1. /\ cache \in [Slot -> Entry \union {NULL}] /\ cache' \in [Slot -> Entry \union {NULL}]
      /\ len \in [Entry -> 0 .. MaxLen] /\ len' = len /\ trim_done' = trim_done
      /\ alloc \in [Entry -> 0 .. MaxLen] /\ alloc' \in [Entry -> 0 .. MaxLen]
      /\ trim_done \in SUBSET Entry /\ cache_size \in Nat /\ cache_size < W64
  BY Zenon, SizeIsNumber DEF IInv, TypeOK, Evict, fuzzVars
<1>2. /\ buf' = [buf EXCEPT ![old] = "none"] /\ alloc' = [alloc EXCEPT ![old] = 0]
      /\ cache' = [cache EXCEPT ![t] = NULL] /\ cache_size' = (cache_size - len[old]) % W64
      /\ old # NULL /\ UNCHANGED <<lb, temp>>
  BY DEF Evict, Victim, fuzzVars
<1>3. /\ old \in Entry /\ buf[old] = "cached" /\ len[old] <= alloc[old]
      /\ len[old] \in Nat /\ alloc[old] \in Nat
  BY <1>1, <1>2 DEF IInv, SlotsMatchBuffers, Accounts
<1>4. \A u \in Slot \ {t} : cache'[u] = cache[u] /\ cache[u] # old
  BY Zenon, <1>1, <1>2 DEF IInv, SlotsMatchBuffers
<1>5. /\ Held(cache, len)[t] = len[old] /\ Held(cache', len')[t] = 0
      /\ Held(cache, alloc)[t] = alloc[old] /\ Held(cache', alloc')[t] = 0
  BY Zenon, <1>1, <1>2 DEF Held
<1>6. \A u \in Slot \ {t} : Held(cache', len')[u] = Held(cache, len)[u]
  BY <1>1, <1>4 DEF Held
<1>7. \A u \in Slot \ {t} : Held(cache', alloc')[u] = Held(cache, alloc)[u]
  BY Zenon, <1>1, <1>2, <1>4 DEF Held
<1>8. Bytes(cache', len') = Bytes(cache, len) - len[old] + 0
  BY <1>1, <1>5, <1>6, BytesWithOneChange
<1>9. Bytes(cache', alloc') = Bytes(cache, alloc) - alloc[old] + 0
  BY <1>1, <1>5, <1>7, BytesWithOneChange
<1>10. /\ Bytes(cache, len) \in Nat /\ Bytes(cache, alloc) \in Nat /\ Slack(trim_done) \in Nat
       /\ Bytes(cache', len') \in Nat /\ Bytes(cache', alloc') \in Nat
  BY Zenon, <1>1, BytesFit
<1>11. cache_size' = cache_size - len[old]
  <2>1. cache_size - len[old] \in Nat /\ cache_size - len[old] < W64
    <3>1. /\ cache_size \in Nat /\ cache_size < W64 /\ W64 \in Nat
          /\ len[old] \in Nat /\ alloc[old] \in Nat /\ len[old] <= alloc[old]
      BY Zenon, <1>1, <1>3, CacheAssumption
    <3>2. Bytes(cache, alloc) <= cache_size
      BY Zenon DEF Accounts
    <3>3. alloc[old] <= Bytes(cache, alloc)
      BY <1>9, <1>10, <3>1
    <3>4. len[old] <= cache_size
      BY <1>10, <3>1, <3>2, <3>3
    <3> QED
      BY <3>1, <3>4
  <2> QED
    BY <1>2, <2>1, CacheAssumption
<1>12. \A f \in Entry : buf'[f] = "cached" => len'[f] <= alloc'[f]
  BY <1>1, <1>2, <1>3 DEF IInv, TypeOK, Accounts
<1> QED
  BY <1>1, <1>2, <1>3, <1>8, <1>9, <1>10, <1>11, <1>12 DEF Accounts

(* The difference of two lengths, as a u32, is the difference or lies 2^32 *)
(* above it.                                                               *)
LEMMA Difference ==
  ASSUME NEW n \in 0 .. MaxLen, NEW old \in 0 .. MaxLen
  PROVE  (n - old) % W32 \in {n - old, n - old + W32} /\ (n - old) % W32 \in Nat
<1>0. W32 \in Nat /\ W32 > MaxLen /\ MaxLen \in Nat
  BY CacheAssumption
<1>1. CASE n >= old
  BY <1>0, <1>1
<1>2. CASE n < old
  <2>1. (n - old) % W32 \in 0 .. W32 - 1
    BY <1>0
  <2>2. n - old = W32 * ((n - old) \div W32) + ((n - old) % W32)
    BY <1>0
  <2>3. (n - old) \div W32 = -1
    BY <1>0, <1>2
  <2> QED
    BY <1>0, <2>1, <2>2, <2>3
<1> QED
  BY <1>0, <1>1, <1>2

(* A trim changes one length.  Without a custom trimmer the buffer and the *)
(* account stay; with one, or with a post-processor that leaves the buffer *)
(* large enough, they follow the new length.                               *)
LEMMA TrimAccounts ==
  ASSUME IInv, Accounts, TypeOK', NEW n \in 1 .. MaxLen, TrimStep(n), ~ overrun'
  PROVE  Accounts'
<1> DEFINE q == queue_cur
           old == len[q]
           in == \E t \in Slot : cache[t] = q
<1>1. /\ cache \in [Slot -> Entry \union {NULL}] /\ cache' = cache /\ buf' = buf
      /\ len \in [Entry -> 0 .. MaxLen] /\ len' \in [Entry -> 0 .. MaxLen]
      /\ alloc \in [Entry -> 0 .. MaxLen] /\ alloc' \in [Entry -> 0 .. MaxLen]
      /\ trim_done \in SUBSET Entry /\ trim_done' \in SUBSET Entry /\ cache_size \in Nat
      /\ buf \in [Entry -> {"none", "cached", "private"}]
  BY Zenon, SizeIsNumber
  DEF IInv, TypeOK, TrimStep, Trim, CustomTrim, PostProcess, bufVars, slotVars
<1>2. /\ q \in Entry /\ q \notin trim_done /\ len' = [len EXCEPT ![q] = n]
      /\ trim_done' = trim_done \union {q} /\ lb = NULL /\ UNCHANGED <<lb, temp>>
  BY DEF IInv, PhaseFacts, TrimStep, Trim, CustomTrim, PostProcess, Trimmed
<1>3. buf[q] # "private"
  <2>1. temp = {}
    BY Zenon, <1>2 DEF Accounts
  <2>2. \A e \in Entry : e \in temp <=> buf[e] = "private"
    BY Zenon DEF IInv, BufferFacts
  <2> QED
    BY Zenon, <1>2, <2>1, <2>2
<1>4. in <=> buf[q] = "cached"
  BY Zenon, <1>2 DEF IInv, SlotsMatchBuffers
<1>5. \A t, u \in Slot : cache[t] = cache[u] /\ cache[t] # NULL => t = u
  BY Zenon DEF IInv, SlotsMatchBuffers
<1>6. /\ len'[q] = n /\ n \in Nat /\ n \in 0 .. MaxLen /\ old \in 0 .. MaxLen /\ old \in Nat
      /\ \A e \in Entry \ {q} : len'[e] = len[e]
  BY <1>1, <1>2, CacheAssumption
<1>7. /\ in => Bytes(cache', len') = Bytes(cache, len) - old + n
      /\ ~ in => Bytes(cache', len') = Bytes(cache, len)
  <2>1. /\ (\E t \in Slot : cache[t] = q) => Bytes(cache, len') = Bytes(cache, len) - old + len'[q]
        /\ (\A t \in Slot : cache[t] # q) => Bytes(cache, len') = Bytes(cache, len)
    <3>1. /\ cache \in [Slot -> Entry \union {NULL}] /\ q \in Entry
          /\ len \in [Entry -> 0 .. MaxLen] /\ len' \in [Entry -> 0 .. MaxLen]
          /\ \A e \in Entry \ {q} : len'[e] = len[e]
      BY Zenon, <1>1, <1>2, <1>6
    <3> HIDE DEF q
    <3> QED
      BY <1>5, <3>1, BytesOfOneEntry
  <2> QED
    BY Zenon, <1>1, <1>6, <2>1
<1>8. Slack(trim_done') = Slack(trim_done) + W32
  BY Zenon, <1>1, <1>2, SlackOfOneMore
<1>9. /\ Bytes(cache, len) \in Nat /\ Bytes(cache, alloc) \in Nat /\ Slack(trim_done) \in Nat
      /\ Bytes(cache', len') \in Nat /\ Bytes(cache', alloc') \in Nat
      /\ Bytes(cache', len') + Slack(trim_done') < W64
  BY Zenon, <1>1, BytesFit
<1>10. /\ Bytes(cache, alloc) <= cache_size /\ cache_size <= Bytes(cache, len) + Slack(trim_done)
       /\ \A e \in Entry : buf[e] = "cached" => len[e] <= alloc[e]
       /\ W32 \in Nat /\ W32 > MaxLen /\ MaxLen \in Nat /\ W64 \in Nat
  BY CacheAssumption DEF Accounts
<1>11. CASE (n <= old /\ alloc' = alloc /\ cache_size' = cache_size)
  <2>1. \A e \in Entry : buf'[e] = "cached" => len'[e] <= alloc'[e]
    <3>1. \A e \in Entry : len'[e] <= len[e] /\ len'[e] \in Nat /\ len[e] \in Nat /\ alloc[e] \in Nat
      BY <1>1, <1>2, <1>6, <1>11
    <3> QED
      BY <1>1, <1>10, <1>11, <3>1
  <2>2. Bytes(cache', alloc') <= cache_size'
    BY Zenon, <1>1, <1>10, <1>11
  <2>3. cache_size' <= Bytes(cache', len') + Slack(trim_done')
    BY <1>1, <1>6, <1>7, <1>8, <1>9, <1>10, <1>11
  <2> QED
    BY <1>2, <2>1, <2>2, <2>3 DEF Accounts
<1>12. CASE (buf[q] = "none" /\ alloc' = alloc /\ cache_size' = cache_size)
  <2>1. \A e \in Entry : buf'[e] = "cached" => len'[e] <= alloc'[e]
    BY <1>1, <1>6, <1>10, <1>12
  <2>2. ~ in
    BY Zenon, <1>4, <1>12
  <2>3. /\ Bytes(cache', alloc') <= cache_size'
        /\ cache_size' <= Bytes(cache', len') + Slack(trim_done')
    BY <1>1, <1>7, <1>8, <1>9, <1>10, <1>12, <2>2
  <2> QED
    BY <1>2, <2>1, <2>3 DEF Accounts
<1>13. CASE (buf[q] # "none" /\ alloc' = [alloc EXCEPT ![q] = n] /\ cache_size' = Retaken(n, old))
  <2>1. buf[q] = "cached" /\ in
    BY Zenon, <1>1, <1>2, <1>3, <1>4, <1>13
  <2>2. /\ \A e \in Entry \ {q} : alloc'[e] = alloc[e]
        /\ alloc'[q] = n /\ alloc[q] \in Nat /\ old <= alloc[q]
    BY <1>1, <1>2, <1>10, <1>13, <2>1
  <2>3. Bytes(cache', alloc') = Bytes(cache, alloc) - alloc[q] + n
    BY <1>1, <1>2, <1>5, <2>1, <2>2, BytesOfOneEntry
  <2> DEFINE diff == (n - old) % W32
  <2>4. diff \in {n - old, n - old + W32} /\ diff \in Nat
    BY Zenon, <1>6, Difference
  <2>5. cache_size' = (cache_size + diff) % W64
    BY Zenon, <1>13 DEF Retaken
  <2> HIDE DEF diff, q, old, in
  <2>6. cache_size + diff \in Nat /\ cache_size + diff <= Bytes(cache', len') + Slack(trim_done')
    BY <1>1, <1>6, <1>7, <1>8, <1>9, <1>10, <2>1, <2>4
  <2>7. cache_size' = cache_size + diff
    <3>1. cache_size + diff < W64
      BY <1>1, <1>8, <1>9, <1>10, <2>4, <2>6
    <3> QED
      BY <1>10, <2>5, <2>6, <3>1
  <2>8. Bytes(cache', alloc') <= cache_size'
    BY <1>1, <1>6, <1>9, <1>10, <2>2, <2>3, <2>4, <2>7
  <2>9. \A e \in Entry : buf'[e] = "cached" => len'[e] <= alloc'[e]
    BY <1>1, <1>6, <1>10, <2>2
  <2> QED
    BY Zenon, <1>2, <2>6, <2>7, <2>8, <2>9 DEF Accounts
<1> QED
  BY Zenon, <1>11, <1>12, <1>13
  DEF TrimStep, Trim, CustomTrim, PostProcess, Reallocate, bufVars, slotVars

(* A find is stored or not.                                                *)
LEMMA FindSeedAccounts ==
  ASSUME IInv, Accounts, TypeOK', NEW e \in Entry, NEW n \in 1 .. MaxLen, FindSeed(e, n), NoOverrun'
  PROVE  Accounts'
<1>1. /\ len' = [len EXCEPT ![e] = n] /\ len \in [Entry -> 0 .. MaxLen] /\ len[e] = 0
      /\ buf[e] = "none" /\ UNCHANGED <<lb, temp, trim_done>>
  BY DEF FindSeed, IInv, TypeOK, Queued, BufferFacts
<1>2. \A f \in Entry \ {e} : len'[f] = len[f]
  BY Zenon, <1>1
<1>3. CASE UNCHANGED <<bufVars, slotVars>>
  <2>1. /\ \A f \in Entry : buf[f] = "cached" <=> buf'[f] = "cached"
        /\ \A f \in Entry : buf[f] = "cached" => len'[f] = len[f] /\ alloc'[f] = alloc[f]
        /\ UNCHANGED <<cache, cache_size, trim_done>> /\ (lb' = NULL => temp' = {})
    BY Zenon, <1>1, <1>2, <1>3 DEF bufVars, slotVars, Accounts
  <2> QED
    BY Zenon, <2>1, AccountsStay
<1>4. CASE \E t \in Slot : IsFree(t, SearchFrom(max_count)) /\ Register(t, e)
  <2>1. PICK t \in Slot : cache[t] = NULL /\ Register(t, e)
    BY Zenon, <1>4 DEF IsFree
  <2> QED
    BY Zenon, <1>1, <1>2, <2>1, RegisterAccounts DEF OthersKeepLength
<1> QED
  BY Zenon, <1>3, <1>4 DEF FindSeed, RegisterFrom, NoOverrun

(* A testcase is loaded.                                                   *)
LEMMA LoadAccounts ==
  ASSUME IInv, Accounts, TypeOK', Load, NoOverrun'
  PROVE  Accounts'
<1>1. /\ target \in Entry /\ buf[target] = "none" /\ UNCHANGED <<lb, temp, trim_done, len>>
  BY Zenon DEF Load, IInv, PhaseFacts
<1>2. PICK t \in Slot : cache[t] = NULL /\ Register(t, target)
  BY Zenon DEF Load, RegisterFrom, NoOverrun, IsFree
<1> QED
  BY Zenon, <1>1, <1>2, RegisterAccounts DEF OthersKeepLength

(* The buffers of an episode are in no slot.                               *)
LEMMA EpisodeAccounts ==
  ASSUME IInv, Accounts, TypeOK', NEW e \in Entry, NEW n \in 1 .. MaxLen,
         StartEpisode(e, n) \/ FindInEpisode(e, n) \/ EndEpisode
  PROVE  Accounts'
<1>1. UNCHANGED <<cache, cache_size, trim_done>> /\ (lb' = NULL => temp' = {})
  <2>1. CASE StartEpisode(e, n)
    BY Zenon, <2>1, CacheAssumption DEF StartEpisode, slotVars
  <2>2. CASE FindInEpisode(e, n)
    BY Zenon, <2>2 DEF FindInEpisode, slotVars
  <2>3. CASE EndEpisode
    BY Zenon, <2>3 DEF EndEpisode, slotVars
  <2> QED
    BY Zenon, <2>1, <2>2, <2>3
<1>2. /\ \A f \in Entry : buf[f] = "cached" <=> buf'[f] = "cached"
      /\ \A f \in Entry : buf[f] = "cached" => len'[f] = len[f] /\ alloc'[f] = alloc[f]
  <2>1. CASE StartEpisode(e, n) \/ FindInEpisode(e, n)
    <3>1. Private(e, n) /\ ~ Queued(e)
      BY Zenon, <2>1 DEF StartEpisode, FindInEpisode
    <3>2. len[e] \in 0 .. MaxLen
      BY Zenon DEF IInv, TypeOK
    <3>3. len[e] = 0
      BY <3>1, <3>2, CacheAssumption DEF Queued
    <3>4. buf[e] = "none"
      BY Zenon, <3>3 DEF IInv, BufferFacts
    <3> QED
      BY Zenon, <3>1, <3>4 DEF Private, IInv, TypeOK
  <2>2. CASE EndEpisode
    <3>1. lb \in temp /\ \A f \in Entry : f \in temp <=> buf[f] = "private"
      BY Zenon, <2>2 DEF EndEpisode, IInv, BufferFacts
    <3>2. /\ len' = [len EXCEPT ![lb] = 0]
          /\ buf' = [f \in Entry |-> IF f \in temp THEN "none" ELSE buf[f]]
          /\ alloc' = [f \in Entry |-> IF f \in temp THEN 0 ELSE alloc[f]]
      BY Zenon, <2>2 DEF EndEpisode
    <3> QED
      BY Zenon, <3>1, <3>2 DEF IInv, TypeOK
  <2> QED
    BY Zenon, <2>1, <2>2
<1> QED
  BY Zenon, <1>1, <1>2, AccountsStay

(* Looking up entries and ending fuzz_one leave the cache alone.           *)
LEMMA QuietAccounts ==
  ASSUME IInv, Accounts, TypeOK',
         UNCHANGED <<lb, temp, len, buf, alloc, cache, cache_size, trim_done>>
  PROVE  Accounts'
  BY Zenon, AccountsStay DEF Accounts

(* The accounts of an empty cache.                                         *)
LEMMA InitAccounts == Init => Accounts
<1> SUFFICES ASSUME Init PROVE Accounts
  OBVIOUS
<1>1. /\ cache \in [Slot -> Entry \union {NULL}] /\ len \in [Entry -> 0 .. MaxLen]
      /\ alloc \in [Entry -> 0 .. MaxLen] /\ trim_done \in SUBSET Entry
  BY InitHolds DEF IInv, TypeOK
<1>2. Bytes(cache, len) \in Nat /\ Slack(trim_done) \in Nat
  BY <1>1, BytesFit
<1>3. Bytes(cache, alloc) = 0
  <2>1. ENTRIES + 1 \in Nat /\ \A t \in 0 .. (ENTRIES + 1) - 1 : Held(cache, alloc)[t] \in 0 .. 0
    BY CacheAssumption DEF Init, Held, Slot
  <2>2. Bytes(cache, alloc) \in Nat /\ Bytes(cache, alloc) <= (ENTRIES + 1) * 0
    BY Zenon, <2>1, SumIsBounded DEF Bytes
  <2> QED
    BY <2>1, <2>2
<1>4. /\ cache_size = 0 /\ temp = {} /\ \A e \in Entry : buf[e] # "cached"
  BY DEF Init
<1> QED
  BY <1>2, <1>3, <1>4 DEF Accounts

(* The accounts are kept by every step.                                    *)
LEMMA NextAccounts ==
  IInv /\ IInv' /\ AccountsUnlessOverrun /\ [Next]_vars => AccountsUnlessOverrun'
<1> SUFFICES ASSUME IInv, IInv', AccountsUnlessOverrun, [Next]_vars, ~ overrun'
             PROVE  Accounts'
  BY DEF AccountsUnlessOverrun
<1>0. TypeOK' /\ NoOverrun' /\ Accounts
  <2>1. ~ overrun
    BY DEF Next, Select, Splice, FindSeed, StartEpisode, FindInEpisode, Evict, Trim,
           CustomTrim, PostProcess, Load, EndEpisode, EndFuzzOne, vars, fuzzVars
  <2> QED
    BY <2>1 DEF IInv, AccountsUnlessOverrun
<1>1. ASSUME NEW e \in Entry, Select(e) \/ Splice(e) PROVE Accounts'
  BY <1>0, <1>1, QuietAccounts DEF Select, Splice, bufVars, slotVars
<1>2. ASSUME NEW e \in Entry, NEW n \in 1 .. MaxLen,
             FindSeed(e, n) \/ StartEpisode(e, n) \/ FindInEpisode(e, n)
      PROVE  Accounts'
  BY <1>0, <1>2, FindSeedAccounts, EpisodeAccounts
<1>3. ASSUME NEW t \in Slot, Evict(t) PROVE Accounts'
  BY <1>0, <1>3, EvictAccounts
<1>4. ASSUME NEW n \in 1 .. MaxLen, TrimStep(n) PROVE Accounts'
  BY <1>0, <1>4, TrimAccounts
<1>5. CASE Load
  BY <1>0, <1>5, LoadAccounts
<1>6. CASE EndEpisode
  <2>1. lb \in Entry /\ 1 \in 1 .. MaxLen
    BY <1>6, CacheAssumption DEF EndEpisode, IInv, TypeOK
  <2> QED
    BY Zenon, <1>0, <1>6, <2>1, EpisodeAccounts
<1>7. CASE EndFuzzOne \/ UNCHANGED vars
  BY <1>0, <1>7, QuietAccounts DEF EndFuzzOne, vars, fuzzVars, bufVars, slotVars
<1> QED
  BY <1>1, <1>2, <1>3, <1>4, <1>5, <1>6, <1>7 DEF Next, TrimStep

-----------------------------------------------------------------------------
(* The search for a free slot, in queue_testcase_get and in                *)
(* queue_testcase_store_mem, never leaves the array, which is cut to the   *)
(* learned size once, whatever was evicted and stored before.              *)
THEOREM SearchStaysInside == Spec => []NoOverrun
<1>1. IInv => NoOverrun
  BY DEF IInv
<1> QED
  BY <1>1, Inductive, PTL

(* Whenever queue_testcase_get has to evict, there is an entry it may      *)
(* evict: its random draw can end.                                         *)
THEOREM EvictionFindsAVictim == Spec => []VictimExists
  BY VictimFollows, Inductive, PTL

(* Loading splice partners and ending load-balance episodes never frees    *)
(* the buffer fuzz_one is working on.                                      *)
THEOREM BufferInUseIsKept == Spec => []BufferInUseStays
<1>1. IInv => BufferInUseStays
  BY DEF IInv
<1> QED
  BY <1>1, Inductive, PTL

(* Slots and buffers agree, so that the buffers an episode frees are in no *)
(* slot and no buffer is freed twice.                                      *)
THEOREM SlotsAgreeWithBuffers == Spec => []SlotsMatchBuffers
<1>1. IInv => SlotsMatchBuffers
  BY DEF IInv
<1> QED
  BY <1>1, Inductive, PTL

(* q_testcase_cache_count is the number of slots taken.                    *)
THEOREM CountIsKept == Spec => []CountIsExact
<1>1. IInv => CountIsExact
  BY DEF IInv
<1> QED
  BY <1>1, Inductive, PTL

(* Every variable keeps its type; in particular the learned limit is at    *)
(* least three and every index is inside the array.                        *)
THEOREM TypesAreKept == Spec => []TypeOK
<1>1. IInv => TypeOK
  BY DEF IInv
<1> QED
  BY <1>1, Inductive, PTL

(* q_testcase_cache_size never falls below the memory the cache holds,     *)
(* whatever is stored, trimmed, lengthened by a custom trimmer, evicted or *)
(* freed by an episode, so that the limit of the cache is kept; on the way *)
(* the proof shows that neither += nor -= wraps.  The exception is a post- *)
(* processor that lengthens a cached testcase by SLACK or more.            *)
THEOREM AccountCoversTheMemory == Spec => []SizeCoversTheMemory
<1>1. IInv /\ AccountsUnlessOverrun => SizeCoversTheMemory
  <2> SUFFICES ASSUME IInv, Accounts PROVE cache_size >= SlotSum(alloc)
    BY Zenon DEF AccountsUnlessOverrun, SizeCoversTheMemory
  <2>1. Bytes(cache, alloc) = SlotSum(alloc)
    BY Zenon DEF Bytes, Held, SlotSum
  <2>2. Bytes(cache, alloc) \in Nat /\ cache_size \in Nat
    BY BytesFit, CacheAssumption DEF IInv, TypeOK
  <2> QED
    BY <2>1, <2>2 DEF Accounts
<1>2. Init => AccountsUnlessOverrun
  BY InitAccounts DEF AccountsUnlessOverrun
<1> QED
  BY <1>1, <1>2, Inductive, NextAccounts, PTL DEF Spec
=============================================================================
