--------------------------- MODULE TestcaseCache ---------------------------
(***************************************************************************)
(* The testcase cache of an instance (queue_testcase_get, _store_mem,      *)
(* _retake, _retake_mem) inside fuzz_one: contents of queue entries are    *)
(* kept in memory, in numbered slots, within a number of bytes and a       *)
(* number of entries that is learned once.  A load-balance episode keeps   *)
(* its seeds in buffers of their own, which it frees at its end.           *)
(*                                                                         *)
(* Every turn of the eviction loop is an action.  Contents are left out,   *)
(* lengths are kept, and whether an entry's weight is below 1 is decided   *)
(* anew at every call, since weights change with the queue.                *)
(***************************************************************************)
EXTENDS Integers, FiniteSets

CONSTANTS
  Entry,    \* queue entries
  NULL,     \* no entry
  MaxLen,   \* the longest testcase (MAX_FILE)
  MAX_SIZE, \* q_testcase_max_cache_size
  ENTRIES,  \* q_testcase_max_cache_entries at the start
  SLACK,    \* how much longer a reallocated testcase may get (1024)
  W32, W64  \* 2^32 and 2^64

(* afl-fuzz.c:1770 insists on two of the longest testcases.  With fewer    *)
(* than three entries, which only AFL_TESTCACHE_ENTRIES can ask for, the   *)
(* search for a victim does not end.                                       *)
ASSUME CacheAssumption ==
  /\ IsFiniteSet(Entry) /\ NULL \notin Entry
  /\ MaxLen \in Nat \ {0} /\ MAX_SIZE \in Nat /\ MAX_SIZE >= 2 * MaxLen
  /\ ENTRIES \in Nat /\ ENTRIES >= 3 /\ SLACK \in Nat
  /\ W32 \in Nat /\ W32 > MaxLen /\ W64 \in Nat /\ W64 > W32

(* What the slots can hold, and 2^32 for each entry of the queue, stay     *)
(* below 2^64.  With testcases of at most 1 MB and a u32 for the number of *)
(* slots that is so for every queue of fewer than 2^32 - 2^20 entries.     *)
ASSUME SizeAssumption == W64 > (ENTRIES + 1) * MaxLen + Cardinality(Entry) * W32

Slot == 0 .. ENTRIES

VARIABLES
  pc,             \* between two entries, fuzzing, loading a testcase
  queue_cur,      \* the entry being fuzzed
  cur_buf,        \* in_buf of fuzz_one: its own buffer, the scratch buffer
  lb,             \* the load-balance seed of the episode, or NULL
  temp,           \* the entries from it on in the queue
  len,            \* q->len, 0 for an entry that is not in the queue
  buf,            \* q->testcase_buf: none, cached, or private to an episode
  alloc,          \* the size of that buffer
  trim_done,
  overrun,        \* history: a testcase was copied into too small a buffer
  cache,          \* q_testcase_cache: the entry in each slot
  slots,          \* the number of slots allocated
  cache_size,     \* q_testcase_cache_size
  cache_count,    \* q_testcase_cache_count
  max_count,      \* q_testcase_max_cache_count
  smallest_free,  \* q_testcase_smallest_free
  max_entries,    \* q_testcase_max_cache_entries
  do_once,
  target, tid     \* the entry being loaded and its slot so far

fuzzVars  == <<pc, queue_cur, cur_buf, lb, temp, trim_done, overrun>>
bufVars   == <<buf, alloc>>
slotVars  == <<cache, cache_size, cache_count, max_count, smallest_free>>
limitVars == <<slots, max_entries, do_once>>
vars == <<fuzzVars, len, bufVars, slotVars, limitVars, target, tid>>

Init ==
  /\ pc = "idle" /\ queue_cur = NULL /\ cur_buf = "none" /\ lb = NULL /\ temp = {}
  /\ len \in [Entry -> {0, MaxLen}] /\ \E e \in Entry : len[e] > 0
  /\ buf = [e \in Entry |-> "none"] /\ alloc = [e \in Entry |-> 0] /\ trim_done = {}
  /\ overrun = FALSE
  /\ cache = [t \in Slot |-> NULL] /\ slots = ENTRIES
  /\ cache_size = 0 /\ cache_count = 0 /\ max_count = 0 /\ smallest_free = 0
  /\ max_entries = ENTRIES /\ do_once = FALSE
  /\ target = NULL /\ tid = 0

Queued(e) == len[e] > 0

-----------------------------------------------------------------------------
(* Slots.                                                                  *)

(* "uh we were full, so now we have to search from start"                  *)
MutantSearchFrom(t) == t
SearchFrom(t) == IF t >= max_entries THEN smallest_free ELSE t

(* The first free slot from a given one on; there may be none.             *)
IsFree(t, from) ==
  /\ t \in from .. slots - 1 /\ cache[t] = NULL
  /\ \A u \in from .. t - 1 : cache[u] # NULL

Register(t, e) ==
  /\ cache' = [cache EXCEPT ![t] = e]
  /\ buf' = [buf EXCEPT ![e] = "cached"]
  /\ alloc' = [alloc EXCEPT ![e] = len'[e]]
  /\ cache_size' = (cache_size + len'[e]) % W64
  /\ cache_count' = cache_count + 1
  /\ IF t >= max_count
     THEN max_count' = t + 1 /\ UNCHANGED smallest_free
     ELSE /\ smallest_free' = IF t = smallest_free THEN t + 1 ELSE smallest_free
          /\ UNCHANGED max_count

(* The search runs into memory past the slots when none of them is free.   *)
RegisterFrom(from, e, next) ==
  \/ \E t \in Slot : IsFree(t, from) /\ Register(t, e) /\ pc' = next
  \/ /\ \A t \in Slot : ~ IsFree(t, from)
     /\ pc' = "crash" /\ UNCHANGED <<bufVars, slotVars>>

-----------------------------------------------------------------------------
(* New entries.                                                            *)

(* queue_testcase_store_mem: "no space or uninteresting? will be loaded    *)
(* regularly later"                                                        *)
TooLarge(n) == (cache_size + n) % W64 >= MAX_SIZE
NoSpace(n) == TooLarge(n) \/ cache_count >= max_entries - 1

FindSeed(e, n) ==
  /\ pc \in {"idle", "fuzz"} /\ ~ Queued(e) /\ lb = NULL
  /\ len' = [len EXCEPT ![e] = n]
  /\ \/ pc' = pc /\ UNCHANGED <<bufVars, slotVars>>       \* weight < 1
     \/ NoSpace(n) /\ pc' = pc /\ UNCHANGED <<bufVars, slotVars>>
     \/ ~ NoSpace(n) /\ RegisterFrom(SearchFrom(max_count), e, pc)
  /\ UNCHANGED <<queue_cur, cur_buf, lb, temp, trim_done, overrun, limitVars, target, tid>>

(* A load-balance episode: the seed and its finds have their own buffers.  *)
(* The seed is not trimmed.  At the end it is deleted, the finds are       *)
(* written to disk and their buffers freed.                                *)
Private(e, n) ==
  /\ len' = [len EXCEPT ![e] = n] /\ temp' = temp \union {e}
  /\ buf' = [buf EXCEPT ![e] = "private"] /\ alloc' = [alloc EXCEPT ![e] = n]

StartEpisode(e, n) ==
  /\ pc = "idle" /\ lb = NULL /\ ~ Queued(e) /\ Private(e, n)
  /\ lb' = e /\ queue_cur' = e /\ cur_buf' = "own" /\ pc' = "fuzz"
  /\ UNCHANGED <<trim_done, overrun, slotVars, limitVars, target, tid>>

FindInEpisode(e, n) ==
  /\ pc = "fuzz" /\ lb # NULL /\ ~ Queued(e) /\ Private(e, n)
  /\ UNCHANGED <<pc, queue_cur, cur_buf, lb, trim_done, overrun, slotVars, limitVars, target, tid>>

EndEpisode ==
  /\ pc = "fuzz" /\ lb # NULL
  /\ pc' = "idle" /\ cur_buf' = "none" /\ lb' = NULL /\ temp' = {}
  /\ len' = [len EXCEPT ![lb] = 0]
  /\ buf' = [e \in Entry |-> IF e \in temp THEN "none" ELSE buf[e]]
  /\ alloc' = [e \in Entry |-> IF e \in temp THEN 0 ELSE alloc[e]]
  /\ UNCHANGED <<queue_cur, trim_done, overrun, slotVars, limitVars, target, tid>>

-----------------------------------------------------------------------------
(* queue_testcase_get                                                      *)

(* Without a buffer, an entry of weight below 1 is read into a scratch     *)
(* buffer and any other one is loaded into the cache.                      *)
Get(e) ==
  IF buf[e] # "none" THEN pc' = "fuzz" /\ UNCHANGED <<target, tid>>
  ELSE \/ pc' = "fuzz" /\ UNCHANGED <<target, tid>>
       \/ pc' = "load" /\ target' = e /\ tid' = max_count

Select(e) ==
  /\ pc = "idle" /\ Queued(e)
  /\ queue_cur' = e /\ Get(e)
  /\ cur_buf' = IF buf[e] # "none" THEN "own" ELSE IF pc' = "load" THEN "none" ELSE "scratch"
  /\ UNCHANGED <<lb, temp, trim_done, overrun, len, bufVars, slotVars, limitVars>>

Splice(e) ==
  /\ pc = "fuzz" /\ Queued(e) /\ e # queue_cur /\ Get(e)
  /\ UNCHANGED <<queue_cur, cur_buf, lb, temp, trim_done, overrun, len, bufVars, slotVars, limitVars>>

MutantFull(n) == TooLarge(n) \/ cache_count >= max_entries - 1
Full(n) == (TooLarge(n) /\ cache_count > 1) \/ cache_count >= max_entries - 1

(* "once the cache is filled by size - that is the max"                    *)
Learn ==
  LET now == TooLarge(len[target]) /\ cache_count < max_entries
             /\ max_count < max_entries /\ ~ do_once
      top == IF max_count > cache_count THEN max_count ELSE cache_count
  IN /\ max_entries' = IF now THEN top + 1 ELSE max_entries
     /\ slots' = IF now THEN top + 2 ELSE slots
     /\ do_once' = (do_once \/ now)

MutantVictim(t) == t \in 0 .. max_count - 1 /\ cache[t] # NULL
Victim(t) == t \in 0 .. max_count - 1 /\ cache[t] \notin {NULL, queue_cur}

Fewer == cache_count - 1

Evict(t) ==
  LET old == cache[t] IN
  /\ pc = "load" /\ Full(len[target]) /\ Learn /\ Victim(t)
  /\ buf' = [buf EXCEPT ![old] = "none"] /\ alloc' = [alloc EXCEPT ![old] = 0]
  /\ cache' = [cache EXCEPT ![t] = NULL]
  /\ cache_size' = (cache_size - len[old]) % W64
  /\ cache_count' = Fewer
  /\ smallest_free' = IF t < smallest_free THEN t ELSE smallest_free
  /\ tid' = t
  /\ UNCHANGED <<fuzzVars, len, max_count, target>>

Load ==
  /\ pc = "load" /\ ~ Full(len[target])
  /\ UNCHANGED len
  /\ RegisterFrom(SearchFrom(tid), target, "fuzz")
  /\ cur_buf' = IF target = queue_cur THEN "own" ELSE cur_buf
  /\ target' = NULL /\ tid' = 0
  /\ UNCHANGED <<queue_cur, lb, temp, trim_done, overrun, limitVars>>

-----------------------------------------------------------------------------
(* Trimming.                                                               *)

Trimmed(n) ==
  /\ pc = "fuzz" /\ lb = NULL /\ queue_cur \notin trim_done
  /\ len' = [len EXCEPT ![queue_cur] = n]
  /\ trim_done' = trim_done \union {queue_cur}

(* trim_case works on the buffer itself, and retake_mem leaves it alone    *)
(* then: neither the buffer nor the size of the cache shrinks.             *)
Trim(n) ==
  /\ Trimmed(n) /\ n <= len[queue_cur]
  /\ UNCHANGED <<pc, queue_cur, cur_buf, lb, temp, overrun, bufVars, slotVars, limitVars,
                 target, tid>>

(* queue_testcase_retake, after a custom trim, which may lengthen the      *)
(* testcase: its condition holds of any two lengths, so the buffer is      *)
(* always reallocated.  len - old_len is a u32.                            *)
MutantRetaken(n, old) == cache_size
Retaken(n, old) == (cache_size + ((n - old) % W32)) % W64

Reallocate(n) ==
  /\ alloc' = [alloc EXCEPT ![queue_cur] = n]
  /\ cache_size' = Retaken(n, len[queue_cur])

CustomTrim(n) ==
  /\ Trimmed(n)
  /\ IF buf[queue_cur] = "none" THEN UNCHANGED <<alloc, cache_size>> ELSE Reallocate(n)
  /\ UNCHANGED <<pc, queue_cur, cur_buf, lb, temp, overrun, buf, cache, cache_count,
                 max_count, smallest_free, limitVars, target, tid>>

(* A custom post-processor gives trim_case another buffer, of any length,  *)
(* and queue_testcase_retake_mem copies it.  "only realloc if we save      *)
(* memory": when it is longer by SLACK the copy runs past the end of the   *)
(* old buffer, and the size of the cache is left alone.                    *)
Fits(n, old) == n < old + SLACK

PostProcess(n) ==
  LET cached == buf[queue_cur] # "none"
      fits   == Fits(n, len[queue_cur])
  IN /\ Trimmed(n)
     /\ IF cached /\ fits THEN Reallocate(n) ELSE UNCHANGED <<alloc, cache_size>>
     /\ overrun' = (overrun \/ (cached /\ ~ fits))
     /\ UNCHANGED <<pc, queue_cur, cur_buf, lb, temp, buf, cache, cache_count, max_count,
                    smallest_free, limitVars, target, tid>>

EndFuzzOne ==
  /\ pc = "fuzz" /\ lb = NULL /\ pc' = "idle" /\ cur_buf' = "none"
  /\ UNCHANGED <<queue_cur, lb, temp, trim_done, overrun, len, bufVars, slotVars, limitVars, target, tid>>

Next ==
  \/ \E e \in Entry : Select(e) \/ Splice(e)
  \/ \E e \in Entry, n \in 1 .. MaxLen : FindSeed(e, n) \/ StartEpisode(e, n) \/ FindInEpisode(e, n)
  \/ \E t \in Slot : Evict(t)
  \/ \E n \in 1 .. MaxLen : Trim(n) \/ CustomTrim(n) \/ PostProcess(n)
  \/ Load \/ EndEpisode \/ EndFuzzOne

Spec == Init /\ [][Next]_vars

-----------------------------------------------------------------------------
(* Correctness.                                                            *)

(* Types.                                                                  *)
TypeOK ==
  /\ pc \in {"idle", "fuzz", "load", "crash"}
  /\ queue_cur \in Entry \union {NULL} /\ cur_buf \in {"none", "own", "scratch"}
  /\ lb \in Entry \union {NULL} /\ temp \subseteq Entry /\ trim_done \subseteq Entry
  /\ overrun \in BOOLEAN
  /\ len \in [Entry -> 0 .. MaxLen] /\ buf \in [Entry -> {"none", "cached", "private"}]
  /\ alloc \in [Entry -> 0 .. MaxLen]
  /\ cache \in [Slot -> Entry \union {NULL}] /\ slots \in 0 .. ENTRIES + 1
  /\ cache_size \in 0 .. W64 - 1 /\ cache_count \in Nat
  /\ max_count \in 0 .. slots /\ smallest_free \in 0 .. max_count
  /\ max_entries \in 3 .. ENTRIES /\ do_once \in BOOLEAN
  /\ target \in Entry \union {NULL} /\ tid \in 0 .. max_count

(* The slots and the buffers fit each other: an entry is in at most one    *)
(* slot, in one exactly while its buffer belongs to the cache, and the     *)
(* buffers a load-balance episode frees at its end are in none.            *)
SlotsMatchBuffers ==
  /\ \A e \in Entry : buf[e] = "cached" <=> \E t \in Slot : cache[t] = e
  /\ \A t, u \in Slot : cache[t] = cache[u] /\ cache[t] # NULL => t = u

Occupied == {t \in Slot : cache[t] # NULL}

(* afl-fuzz.h:891 "How many queue entries currently have cached testcases" *)
CountIsExact == cache_count = Cardinality(Occupied)

(* The search for a free slot, which has no end of its own, stops inside   *)
(* the array, before and after the array was cut to the learned size.      *)
NoOverrun == pc # "crash"

(* The eviction loop draws slots until it hits an entry that is not the    *)
(* one being fuzzed: there always is one.                                  *)
VictimExists == pc = "load" /\ Full(len[target]) => \E t \in Slot : Victim(t)

(* The buffer fuzz_one works on is not freed under it by the loading of    *)
(* splice partners.                                                        *)
BufferInUseStays == cur_buf = "own" => buf[queue_cur] # "none"

(* f[0] + ... + f[n - 1]                                                   *)
SumBelow(f, n) ==
  LET sum[m \in 0 .. n] == IF m = 0 THEN 0 ELSE sum[m - 1] + f[m - 1] IN sum[n]

SlotSum(size) ==
  SumBelow([t \in Slot |-> IF cache[t] = NULL THEN 0 ELSE size[cache[t]]], ENTRIES + 1)

(* The accounting never falls below the memory in use, so the limit of the *)
(* cache is kept and cache_size -= len cannot wrap: trims of either kind,  *)
(* evictions and episodes change it consistently.  The one exception is a  *)
(* post-processor that lengthens a cached testcase by SLACK or more.       *)
SizeCoversTheMemory == ~ overrun => cache_size >= SlotSum(alloc)

(* afl-fuzz.h:885 again, for every post-processor: at least the memory in  *)
(* use is counted.                                                         *)
MemoryIsAlwaysCovered == cache_size >= SlotSum(alloc)

(* afl-fuzz.h:885 "How much of the testcase cache is used so far"          *)
SizeIsExact == cache_size = SlotSum(len)
=============================================================================
