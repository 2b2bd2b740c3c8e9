---------------------------- MODULE LoadBalance ----------------------------
(***************************************************************************)
(* The master's side of load balancing.  It counts what each worker        *)
(* contributes to its queue (sync_fuzzers, scan_LB_report), draws a busy   *)
(* and an idle subdomain from two alias tables, and walks over the seeds   *)
(* of the busy one to send them to the idle one (show_stats_normal).  A    *)
(* division resets the counts and gives the workers new numbers, at any    *)
(* call of show_stats, also in the middle of a synchronisation.            *)
(*                                                                         *)
(* The queues load_balance_queue_<id> are not part of the state: only      *)
(* whether the receiving one is full comes back to the master, and it may  *)
(* be or not.  What the workers do with them, and when they adopt a        *)
(* division, is the subject of SubdomainProtocol; here a worker starts,    *)
(* and reports finds.  Seeds of the master are numbered in the order of    *)
(* its queue.  How seeds are divided is left open (see DomainDivision),    *)
(* and so is which finds are new to the master.                            *)
(***************************************************************************)
EXTENDS Integers, Sequences, FiniteSets, SequencesExt, FiniteSetsExt

CONSTANTS
  Worker,        \* sync ids of the -S instances
  Early,         \* the workers that run before the first division
  NumSeeds,      \* initial seeds of the master
  FACTOR,        \* the maximum must exceed the minimum this many times (5)
  WIDTH,         \* contributions are counted modulo WIDTH (2^32)
  MaxDivisions,  \* bound: divisions in a behaviour
  MaxMeasured,   \* bound: seeds whose distances are known at a division
  MaxImports,    \* bound: seeds the master takes over from workers
  MaxSends,      \* bound: seeds sent to balance the load
  MaxReports     \* bound: finds of load-balance episodes sent to the master

ASSUME LoadBalanceAssumption ==
  /\ IsFiniteSet(Worker) /\ Early \subseteq Worker
  /\ NumSeeds \in Nat /\ NumSeeds >= Cardinality(Worker)
  /\ FACTOR \in Nat /\ WIDTH \in Nat \ {0}
  /\ MaxDivisions \in Nat /\ MaxMeasured \in Nat /\ MaxMeasured <= NumSeeds
  /\ MaxImports \in Nat /\ MaxSends \in Nat /\ MaxReports \in Nat

Id         == 0 .. Cardinality(Worker) - 1
Seed       == 1 .. NumSeeds + MaxImports
UINT32_MAX == WIDTH - 1
NoTable    == [n |-> 0]
NoId       == -1
NoDir      == "none"

VARIABLES
  mpc,              \* the master: in its loop or at a step of a synchronisation
  todo, dir,        \* workers still to visit; the one whose reports are read
  sid, old_import,  \* read when the current directory is entered
  queued_imported, queue_top,
  subdomain_num, divisions,
  items, cursor, max_LB, LB_count,
  item0,            \* what items[0] holds, also while size is 0; 0 is NULL
  contribute, total_contribute, min_contribute, max_contribute,
  Iname_Sid_map,    \* worker -> subdomain, NoId before its first task
  send_table, recv_table,
  sends, reported,
  dirs,             \* the directories of the workers
  LB_report,        \* lengths of the lists <worker>_LB_report
  credited,         \* history: subdomains credited since the last division
  unclaimed,        \* history: imports of workers without a subdomain
  offered           \* history: seeds of a subdomain sent in its current round

syncVars  == <<todo, dir, sid, old_import>>
countVars == <<contribute, total_contribute, min_contribute, max_contribute, credited, unclaimed>>
itemVars  == <<items, item0, cursor, max_LB, LB_count, offered>>
tables    == <<send_table, recv_table>>
divVars   == <<subdomain_num, divisions, Iname_Sid_map>>
queueVars == <<queued_imported, queue_top>>
workerVars == <<dirs, reported>>
vars == <<mpc, syncVars, countVars, itemVars, tables, divVars, queueVars, sends,
          LB_report, workerVars>>

-----------------------------------------------------------------------------
(* The alias tables (Vose's method).  Probabilities are in units of 1/one. *)

(* p: the scaled weights, n: their number.  Small and Large are stacks on  *)
(* which smaller indices lie on top; Rest is what a large one keeps when   *)
(* it fills up a small one.                                                *)
MutantRest(large, small, one) == large - small
Rest(large, small, one) == large - (one - small)

Vose(p, n, one) ==
  LET down  == [j \in 1 .. n |-> n - j]
      start == [p     |-> p,
                small |-> SelectSeq(down, LAMBDA j : p[j] < one),
                large |-> SelectSeq(down, LAMBDA j : p[j] >= one),
                prob  |-> [j \in 0 .. n - 1 |-> one],
                alias |-> [j \in 0 .. n - 1 |-> 0]]
      step(t, k) ==
        IF t.small = << >> \/ t.large = << >> THEN t
        ELSE LET s    == Last(t.small)
                 l    == Last(t.large)
                 rest == Rest(t.p[l], t.p[s], one)
             IN [p     |-> [t.p EXCEPT ![l] = rest],
                 small |-> IF rest < one THEN Append(Front(t.small), l) ELSE Front(t.small),
                 large |-> IF rest < one THEN Front(t.large) ELSE t.large,
                 prob  |-> [t.prob EXCEPT ![s] = t.p[s]],
                 alias |-> [t.alias EXCEPT ![s] = l]]
      end   == FoldLeft(step, start, down)
  IN [n |-> n, one |-> one, prob |-> end.prob, alias |-> end.alias, weight |-> p]

(* sample_weight = contribute^2.  Were all of them 0, every quotient would *)
(* be 0/0, which is not below 1.                                           *)
SendTable(c, n) ==
  LET w   == [k \in 0 .. n - 1 |-> c[k] * c[k]]
      sum == MapThenSumSet(LAMBDA k : w[k], 0 .. n - 1)
  IN IF sum = 0 THEN Vose([k \in 0 .. n - 1 |-> 1], n, 1)
     ELSE Vose([k \in 0 .. n - 1 |-> w[k] * n], n, sum)

(* The reciprocals, over a common denominator.  A contribution of 0 gives  *)
(* infinity / infinity, which stays large whatever is taken from it, and   *)
(* leaves 0 for the others.                                                *)
MutantRecvTable(c, n) == SendTable(c, n)

RecvTable(c, n) ==
  LET w     == [k \in 0 .. n - 1 |-> c[k] * c[k]]
      zero  == {k \in 0 .. n - 1 : w[k] = 0}
      recip == [k \in 0 .. n - 1 |-> FoldSet(LAMBDA j, acc : w[j] * acc, 1, (0 .. n - 1) \ {k})]
      sum   == MapThenSumSet(LAMBDA k : recip[k], 0 .. n - 1)
  IN IF zero # {} THEN Vose([k \in 0 .. n - 1 |-> IF k \in zero THEN 2 * n ELSE 0], n, 1)
     ELSE Vose([k \in 0 .. n - 1 |-> recip[k] * n], n, sum)

(* What select_send_domain or select_recv_domain may return: a slot below  *)
(* subdomain_num is drawn, and the slot or its alias is taken.  Slots past *)
(* the end of a table made for fewer subdomains are zero (afl_realloc      *)
(* clears what it allocates, and allocates more than a few subdomains      *)
(* need): probability 0, alias 0.                                          *)
Picks(t) ==
  UNION {IF s < t.n
         THEN (IF t.prob[s] > 0 THEN {s} ELSE {}) \union
              (IF t.prob[s] < t.one THEN {t.alias[s]} ELSE {})
         ELSE {0} : s \in 0 .. subdomain_num - 1}

-----------------------------------------------------------------------------
Init ==
  /\ mpc = "loop" /\ todo = {}
  /\ dir = NoDir /\ sid = NoId /\ old_import = 0 /\ queued_imported = 0 /\ queue_top = NumSeeds
  /\ subdomain_num = 0 /\ divisions = 0
  /\ items = [k \in Id |-> << >>] /\ item0 = [k \in Id |-> 0] /\ cursor = [k \in Id |-> 0]
  /\ max_LB = [k \in Id |-> 0] /\ LB_count = [q \in Seed |-> 0]
  /\ contribute = [k \in Id |-> 0] /\ total_contribute = [k \in Id |-> 0]
  /\ min_contribute = 0 /\ max_contribute = 0
  /\ Iname_Sid_map = [w \in Worker |-> NoId]
  /\ send_table = NoTable /\ recv_table = NoTable
  /\ sends = 0 /\ reported = 0
  /\ LB_report = [w \in Worker |-> 0] /\ dirs = Early
  /\ credited = {} /\ unclaimed = 0 /\ offered = [k \in Id |-> {}]

-----------------------------------------------------------------------------
(* The master's synchronisation.                                           *)

(* SCAN for the keys *_LB_report that exist now; without one the visit of  *)
(* the directories begins at once.                                         *)
scan_LB_report ==
  LET keys == {w \in Worker : LB_report[w] > 0} IN
  /\ mpc = "loop"
  /\ IF keys = {} THEN mpc' = "sync" /\ todo' = dirs ELSE mpc' = "scan" /\ todo' = keys
  /\ UNCHANGED <<dir, sid, old_import, countVars, itemVars, tables, divVars, queueVars,
                 sends, LB_report, workerVars>>

FirstItems(it) == [k \in Id |-> IF it[k] = << >> THEN item0[k] ELSE it[k][1]]

(* save_if_interesting keeps a seed; once there are subdomains, the seed   *)
(* that was the last of the queue until then joins the items of each.      *)
Import ==
  /\ queued_imported < MaxImports
  /\ queued_imported' = queued_imported + 1
  /\ queue_top' = queue_top + 1
  /\ items' = [k \in Id |-> IF k < subdomain_num THEN Append(items[k], queue_top)
                            ELSE items[k]]
  /\ item0' = FirstItems(items')

(* min_contribute and max_contribute follow every credit.                  *)
Credit(k, n) ==
  /\ contribute' = [contribute EXCEPT ![k] = (@ + n) % WIDTH]
  /\ total_contribute' = [total_contribute EXCEPT ![k] = @ + n]
  /\ min_contribute' = Min({min_contribute, contribute'[k]})
  /\ max_contribute' = Max({max_contribute, contribute'[k]})
  /\ credited' = credited \union {k}
  /\ UNCHANGED unclaimed

NoCredit(n) ==
  /\ unclaimed' = unclaimed + n
  /\ UNCHANGED <<contribute, total_contribute, min_contribute, max_contribute, credited>>

(* The map holds the number plus one, NULL without a subdomain.            *)
MutantSid(w) == IF Iname_Sid_map[w] = NoId THEN NoId ELSE Iname_Sid_map[w] + 1
Sid(w) == Iname_Sid_map[w]

(* sync_LB_seeds: LPOP until the list of one worker is empty, then credit  *)
(* what was new to the master, to the total only.                          *)
EnterReport(w) ==
  /\ mpc = "scan" /\ LB_report[w] > 0
  /\ mpc' = "report" /\ dir' = w /\ todo' = todo \ {w} /\ old_import' = queued_imported
  /\ UNCHANGED <<sid, countVars, itemVars, tables, divVars, queueVars, sends,
                 LB_report, workerVars>>

PopReport ==
  /\ mpc = "report" /\ LB_report[dir] > 0
  /\ LB_report' = [LB_report EXCEPT ![dir] = @ - 1]
  /\ Import \/ UNCHANGED <<queueVars, items, item0>>
  /\ UNCHANGED <<mpc, syncVars, countVars, cursor, max_LB, LB_count, offered, tables,
                 divVars, sends, workerVars>>

LeaveReport ==
  LET k == Sid(dir)
      n == queued_imported - old_import
  IN /\ mpc = "report" /\ LB_report[dir] = 0 /\ mpc' = "scan"
     /\ IF k = NoId THEN NoCredit(n)
        ELSE /\ total_contribute' = [total_contribute EXCEPT ![k] = @ + n]
             /\ UNCHANGED <<contribute, min_contribute, max_contribute, credited, unclaimed>>
     /\ dir' = NoDir /\ old_import' = 0
     /\ UNCHANGED <<todo, sid, itemVars, tables, divVars, queueVars, sends,
                    LB_report, workerVars>>

(* sync_fuzzers opens the directory once the scan is over.                 *)
OpenSyncDir ==
  /\ mpc = "scan" /\ \A w \in todo : LB_report[w] = 0
  /\ mpc' = "sync" /\ todo' = dirs
  /\ UNCHANGED <<dir, sid, old_import, countVars, itemVars, tables, divVars, queueVars,
                 sends, LB_report, workerVars>>

(* The next directory: its subdomain and the import count are read here.   *)
MutantEnterDir(w) ==
  /\ mpc = "sync" /\ w \in todo
  /\ mpc' = "import" /\ todo' = todo \ {w}
  /\ sid' = Sid(w)
  /\ UNCHANGED <<dir, old_import, countVars, itemVars, tables, divVars, queueVars, sends,
                 LB_report, workerVars>>

EnterDir(w) ==
  /\ mpc = "sync" /\ w \in todo
  /\ mpc' = "import" /\ todo' = todo \ {w}
  /\ sid' = Sid(w) /\ old_import' = queued_imported
  /\ UNCHANGED <<dir, countVars, itemVars, tables, divVars, queueVars, sends,
                 LB_report, workerVars>>

ImportSeed ==
  /\ mpc = "import" /\ Import
  /\ UNCHANGED <<mpc, syncVars, countVars, cursor, max_LB, LB_count, offered, tables,
                 divVars, sends, LB_report, workerVars>>

LeaveDir ==
  LET n == queued_imported - old_import IN
  /\ mpc = "import" /\ mpc' = IF todo = {} THEN "loop" ELSE "sync"
  /\ IF sid >= 0 THEN Credit(sid, n) ELSE NoCredit(n)
  /\ sid' = NoId /\ old_import' = 0
  /\ UNCHANGED <<dir, todo, itemVars, tables, divVars, queueVars, sends,
                 LB_report, workerVars>>

-----------------------------------------------------------------------------
(* show_stats_normal, called anywhere in the loop and in a synchronisation.*)

ShowStats == mpc \in {"loop", "report", "sync", "import"}

(* A division: the counts start again, the measured seeds are spread over  *)
(* the items (owner n: a center, or disabled), and the directories get     *)
(* their numbers.  The subdomains of the previous division start with 1.   *)
Reset(f, v) == [k \in Id |-> IF k < subdomain_num THEN v ELSE f[k]]

Divide ==
  LET n == Cardinality(dirs) IN
  /\ ShowStats /\ divisions < MaxDivisions /\ n > 1
  /\ divisions' = divisions + 1 /\ subdomain_num' = n
  /\ contribute' = Reset(contribute, 1)
  /\ max_contribute' = 0 /\ min_contribute' = UINT32_MAX
  /\ cursor' = Reset(cursor, 0)
  /\ \E owner \in [1 .. MaxMeasured -> 0 .. n] :
       /\ Cardinality({q \in 1 .. MaxMeasured : owner[q] = n}) >= n
       /\ items' = [k \in Id |-> SelectSeq([q \in 1 .. MaxMeasured |-> q],
                                           LAMBDA q : k < n /\ owner[q] = k)]
       /\ item0' = FirstItems(items')
  /\ \E f \in [dirs -> 0 .. n - 1] :
       /\ IsInjective(f)
       /\ Iname_Sid_map' = [w \in Worker |-> IF w \in dirs THEN f[w] ELSE Iname_Sid_map[w]]
  /\ credited' = {} /\ offered' = [k \in Id |-> {}]
  /\ UNCHANGED <<mpc, syncVars, total_contribute, unclaimed, max_LB, LB_count, tables,
                 queueVars, sends, LB_report, workerVars>>

Unbalanced == max_contribute > (min_contribute * FACTOR) % WIDTH

(* In the ten-minute check.                                                *)
update_subdomain_alias_table ==
  /\ ShowStats /\ subdomain_num > 0 /\ Unbalanced
  /\ send_table' = SendTable(contribute, subdomain_num)
  /\ recv_table' = RecvTable(contribute, subdomain_num)
  /\ UNCHANGED <<mpc, syncVars, countVars, itemVars, divVars, queueVars, sends,
                 LB_report, workerVars>>

(* The next seed of subdomain s whose LB_count is within the round, from   *)
(* the cursor on; at the end of the list a new round begins.               *)
MutantWithin(s, seq, from) ==
  {i \in from .. Len(seq) - 1 : LB_count[seq[i + 1]] < max_LB[s]}

Within(s, seq, from) ==
  {i \in from .. Len(seq) - 1 : LB_count[seq[i + 1]] <= max_LB[s]}

(* The choice of the seed.  seq is the list of items, sorted anew or not,  *)
(* from is the place to begin at.                                          *)
Send(s, seq, from) ==
  LET found == Within(s, seq, from)
      next  == IF found = {} THEN Len(seq) ELSE Min(found) + 1
      over  == next >= Len(seq)
      seed  == IF found # {} THEN seq[Min(found) + 1]
               ELSE IF seq # << >> THEN seq[1] ELSE item0[s]
  IN IF seed = 0
     THEN mpc' = "crash" /\ UNCHANGED <<cursor, max_LB, LB_count, offered>>
     ELSE /\ LB_count' = [LB_count EXCEPT ![seed] = IF found # {} THEN @ + 1 ELSE @]
          /\ max_LB' = [max_LB EXCEPT ![s] = IF over THEN @ + 1 ELSE @]
          /\ cursor' = [cursor EXCEPT ![s] = IF ~ over THEN next
                                             ELSE IF found = {} THEN 1 ELSE 0]
          /\ offered' = [offered EXCEPT ![s] = IF ~ over THEN @ \union {seed}
                                               ELSE IF found = {} THEN {seed} ELSE {}]
          /\ UNCHANGED mpc

(* LLEN of the receiving queue; it is not full, and the seed is pushed to  *)
(* it unless its file cannot be opened.                                    *)
SendSeed ==
  /\ ShowStats /\ send_table # NoTable /\ Unbalanced /\ sends < MaxSends
  /\ \E s \in Picks(send_table), k \in Picks(recv_table) :
       /\ s # k
       /\ \/ Send(s, items[s], cursor[s]) /\ UNCHANGED <<items, item0>>
          \/ \E p \in Permutations(1 .. Len(items[s])) :
               LET sorted == [i \in 1 .. Len(items[s]) |-> items[s][p[i]]] IN
               /\ Send(s, sorted, 0)
               /\ items' = [items EXCEPT ![s] = sorted] /\ item0' = FirstItems(items')
  /\ sends' = sends + 1
  /\ UNCHANGED <<syncVars, countVars, tables, divVars, queueVars, LB_report, workerVars>>

-----------------------------------------------------------------------------
(* The workers.                                                            *)

masterVars == <<mpc, syncVars, countVars, itemVars, tables, divVars, queueVars, sends>>

StartWorker(w) ==
  /\ w \notin dirs /\ dirs' = dirs \union {w}
  /\ UNCHANGED <<masterVars, LB_report, reported>>

(* In an episode with a seed the master sent, a worker that has adopted a  *)
(* subdomain appends a find outside it to its report.                      *)
ReportFind(w) ==
  /\ sends > 0 /\ Iname_Sid_map[w] # NoId
  /\ reported < MaxReports /\ reported' = reported + 1
  /\ LB_report' = [LB_report EXCEPT ![w] = @ + 1]
  /\ UNCHANGED <<masterVars, dirs>>

Next ==
  \/ scan_LB_report \/ PopReport \/ LeaveReport \/ OpenSyncDir \/ ImportSeed \/ LeaveDir
  \/ Divide \/ update_subdomain_alias_table \/ SendSeed
  \/ \E w \in Worker : EnterReport(w) \/ EnterDir(w) \/ StartWorker(w) \/ ReportFind(w)

Spec == Init /\ [][Next]_vars

-----------------------------------------------------------------------------
(* Correctness.                                                            *)

(* Types.                                                                  *)
TypeOK ==
  /\ mpc \in {"loop", "scan", "report", "sync", "import", "crash"}
  /\ sid \in Id \union {NoId} /\ queue_top \in Seed /\ subdomain_num \in 0 .. Cardinality(Worker)
  /\ items \in [Id -> Seq(Seed)] /\ \A k \in Id : cursor[k] \in 0 .. Max({1, Len(items[k])})
  /\ contribute \in [Id -> 0 .. UINT32_MAX] /\ total_contribute \in [Id -> Nat]
  /\ Iname_Sid_map \in [Worker -> Id \union {NoId}] /\ dirs \subseteq Worker
  /\ LB_report \in [Worker -> Nat]

(* do ... while (c_send == c_recv) at stats.c:914 can end: the tables,     *)
(* also those made before the last division for fewer subdomains, always   *)
(* allow two different subdomains.                                         *)
PairExists ==
  send_table # NoTable => \E s \in Picks(send_table), k \in Picks(recv_table) : s # k

(* Vose's method is exact, where the weights are finite: a slot below      *)
(* subdomain_num is drawn (parallel.c:2151), and a subdomain comes out     *)
(* with the probability of its weight.  With a table made for fewer        *)
(* subdomains the slots past its end all go to subdomain 0, and nothing    *)
(* else is distorted.                                                      *)
Mass(t, k) ==
  MapThenSumSet(LAMBDA s : IF s >= t.n THEN (IF k = 0 THEN t.one ELSE 0)
                           ELSE (IF s = k THEN t.prob[s] ELSE 0)
                                + (IF t.alias[s] = k THEN t.one - t.prob[s] ELSE 0),
                0 .. subdomain_num - 1)
TablesAreExact ==
  \A t \in {send_table, recv_table} \ {NoTable} :
    MapThenSumSet(LAMBDA k : t.weight[k], 0 .. t.n - 1) = t.n * t.one
      => \A k \in 0 .. subdomain_num - 1 :
           Mass(t, k) = (IF k < t.n THEN t.weight[k] ELSE 0)
                        + (IF k = 0 THEN (subdomain_num - t.n) * t.one ELSE 0)

(* Every seed taken over from a worker is credited exactly once, also when *)
(* a division comes in between: to the total of some subdomain, unless the *)
(* worker had none.  Since the last division max_contribute is the largest *)
(* contribution, and min_contribute never lies above one, of the           *)
(* subdomains counted so far.                                              *)
CreditsAddUp ==
  /\ queued_imported = MapThenSumSet(LAMBDA k : total_contribute[k], Id) + unclaimed
       + (IF mpc \in {"report", "import"} THEN queued_imported - old_import ELSE 0)
  /\ credited # {} => max_contribute = Max({contribute[k] : k \in credited})
  /\ \A k \in credited : min_contribute <= contribute[k]

(* A round of load balancing passes over no seed: when it ends, each item  *)
(* of the subdomain has been sent in it, the last one by the step that     *)
(* ends it, or was ahead of it (stats.c:937 "prefer better seeds that have *)
(* been tested less").  Only a round that began on an empty list, with the *)
(* seed that items[0] still held, misses the item that comes first later.  *)
BeganEmpty(k) == ~ (offered[k] \subseteq ToSet(items[k]))
RoundsAreComplete ==
  [][\A k \in Id : max_LB'[k] > max_LB[k] =>
       \A i \in 1 .. Len(items[k]) :
          \/ items[k][i] \in offered[k]
          \/ LB_count'[items[k][i]] > LB_count[items[k][i]]
          \/ LB_count[items[k][i]] > max_LB[k]
          \/ i = 1 /\ BeganEmpty(k)]_vars

(* stats.c:958 "perhaps no seed was selected, take number 0": the sender   *)
(* has a seed number 0.                                                    *)
SenderHasItems == mpc # "crash"
=============================================================================
