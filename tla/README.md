# PartitionFuzz: TLA+ models and proofs

PartitionFuzz is a fork of AFL++ 4.21 that fuzzes in parallel. One master
(`afl-fuzz -M`) and several workers (`afl-fuzz -S`) share a sync directory and
a Redis database. The master clusters its executed seeds into as many
subdomains as there are workers and publishes one subdomain per worker. The
workers explore their own subdomain, hand seeds that fall outside it to the
worker they belong to, and take over seeds of overloaded subdomains.

This directory models that distributed layer and the queue machinery it rests
on. Paths below are relative to `src/`; `parallel.c` and the `afl-fuzz*.c`
files are in `src/src/`.

## 1. Inventory

| part | state | operations | what is hard |
|---|---|---|---|
| incremental distance matrix (`parallel.c` 1085-1385) | `dist_*` cursors and phase, `distance_matrix_cache`, `last_dist_queue_buf_len` | `begin_distance_matrix_update`, `update_distance_matrix_until`, `maybe_service_distance_matrix` | a round is cut off by a time budget between any two pairs and resumed in a later iteration of the main loop, after the queue has changed |
| domain division (`parallel.c` 203-297, 711-1083) | `subdomain_array`, `q->subdomain_id`, `q->is_center` | `get_domain_center`, `assign_points_to_clusters`, `update_medoids`, `input_domain_division_k_medoids` | ties, duplicate traces, disabled seeds, too few seeds, convergence, leftovers of the previous division |
| subdomain publication and adoption (`parallel-db.c`, `afl-fuzz.c` 3279-3323) | Redis hashes `subdomain_<worker>`, a worker's `sd` and `subdomain_array` | `save_one_subdomain_to_db`, `update_subdomain`, `get_all_subdomain_from_db`, `change_subdomain_state` | several Redis commands per operation, interleaved between master and workers; late starts, crashes |
| cooperation (`afl-fuzz-bitmap.c` 578-694, `parallel.c` 1630-1733) | Redis lists `coop_queue_<id>`, radii, deviations and marks of the seeds | routing in `save_if_interesting`, `do_cooperation` | routing on stale centers; a radius written by two parties; marks that must follow center and radius |
| seed synchronisation (`parallel.c` 1428-1548, `afl-fuzz-run.c` 670-938) | `seed_<id>` hashes, `sync_cursor`, `global_seed_flag` | `sync_subdomain_seeds_from_db`, `sync_fuzzers` | labels rewritten while a worker walks them |
| load balancing (`parallel.c` 1740-1801, 2011-2438, `afl-fuzz-stats.c` 880-971) | alias tables, `load_balance_queue_<id>`, `<worker>_LB_report` | scheduling in `show_stats_normal`, `do_load_balance`, `scan_LB_report` | a temporary queue entry that is deleted again, bounded queues, zero weights |
| seed queue (`afl-fuzz-queue.c`, `afl-fuzz.c` 2659-3365) | `queue_buf`, `top_rated`, `tc_ref`, favored and redundant marks, `queue/` on disk | `add_to_queue`, `update_bitmap_score`, `cull_queue`, `mark_as_redundant`, selection, `fuzz_one`, end of an episode | an entry that is cut out of the queue again, with everything that refers to it |
| testcase cache (`afl-fuzz-queue.c` 1489-1772) | slots, counts and sizes of `q_testcase_*`, `q->testcase_buf` | `queue_testcase_get`, `_store_mem`, `_retake`, `_retake_mem` | unbounded searches over slots, eviction while a buffer is in use, sizes changed by wrapped differences |

How the parts interact: the distance matrix feeds the division; the division
labels the seeds in the database and publishes the subdomains; a worker adopts
its subdomain, re-measures its queue, walks the labelled seeds, then fuzzes and
cooperates; load balancing adds one foreign seed to a queue for one call of
`fuzz_one`, which the matrix, the marks, the champions and the cache must not
notice.

## 2. Modules

| module | models | variables and actions |
|---|---|---|
| `DistanceService` | the matrix service of the master, with the steps of the main loop that change the queue | queue, snapshot, phase and cursors as in `afl_state_t`; one action per unit of work between two budget checks, plus `SaveSeed`, `mark_as_redundant`, `do_load_balance`, `EndFuzzOne` and the stop signal |
| `PublishedMatrix` | what the service promises: a matrix that grows row by row and whose visible values never change | abstract specification; `DistanceService` is shown to implement it |
| `DomainDivision` | one division of a given queue | `get_domain_center`, then alternating `assign_points_to_clusters` and `update_medoids`, radii, labels; every order of ties the loops fix is kept |
| `SubdomainProtocol` | master, workers, Redis keys of a division, and the queues between the processes | one action per Redis command or directory operation (`LLEN` and `RPUSH` of a queue only the master appends to make one step); the geometry is a free choice |
| `Cooperation` | one worker's queue with center, radius, deviations and marks | one action per phase of the main loop; points and distances are constants |
| `SeedSync` | the master's seeds in the database and one worker's walk over them | one action per Redis command; any number of initial seeds; publication, to the one worker, is one step |
| `WorkerQueue` | one worker's queue: champions, favored set, markers, files on disk, and the main loop around them | one action per phase of the loop and of `fuzz_one`; entries are heap objects whose address is never used again, so that a stale pointer shows |
| `LoadBalance` | the master's contributions, alias tables and rounds over the items of a subdomain, and its walk over the sync directory | one action per directory, imported seed and report; whether the receiving queue is full, and what the workers report, is a free choice; a division may happen at any call of `show_stats`, also inside an import |
| `TestcaseCache` | the cached contents of an instance's queue | slots, counts, sizes as in `afl_state_t`; every turn of the eviction loop is an action |

Each `MC…` module gives the constants of its component values for TLC.
`DistanceServiceProofs`, `DomainDivisionProofs`, `SubdomainProtocolProofs`,
`CooperationProofs`, `SeedSyncProofs`, `WorkerQueueInvariant`,
`WorkerQueueProofs` and `TestcaseCacheProofs` hold the proofs;
`WorkerQueueInvariant` has the first half of those about the queue.

The split follows the state. `SubdomainProtocol` and `SeedSync` share the
master's division and the adoption. One has the keys of all workers, the other
the labels of the seeds; the adoption has the same three commands in both, so
that an update can be lost in both. `SubdomainProtocol` and `Cooperation` share
`do_cooperation` and `update_subdomain`: one has the messages, the other the
geometry. `SubdomainProtocol` and `LoadBalance` share the load-balance queues:
one has the commands of the workers, the other the master that decides what to
send. Each leaves the other's half open as a nondeterministic choice. One case
is cut off: a worker whose table has an entry without a center dies with its
next find outside the radius (`MissingCenter` of `SubdomainProtocol`), and
`Cooperation` has no such tables. The load-balance
episode is in four modules, each time with the state it endangers: the rows of
the matrix, the marks, the champions and files, the buffers.

Abstractions. A trace is a point, the distance of two traces a number; seed
contents, file names and log output are left out. `center_deviation = DBL_MAX`
is a number above every distance. Numbers that a field cannot hold or that are
printed with the wrong conversion are modelled by what is stored: a radius
formatted with `%u` is `Garbage`, `was_fuzzed` is read back from the first
digit of the number stored. A failed `assert` or `FATAL` is a terminal state.
The clock is nondeterministic: a budget may run out at every check, a period
may pass at any time.

## 3. Runs

| run | properties | instance |
|---|---|---|
| `distance_service` | `ReadyPairsComputed`, `SnapshotIsQueuePrefix`, `RefinesPublishedMatrix`, `EverySeedGetsItsRow` | four seeds |
| `division` | `TypeOK`, `DiesOnlyForLackOfSeeds`, `CentersConsistent`, `ConvergesToLocalOptimum`, `SubdomainsPartitionTheSeeds`, `LabelsFollowSubdomains`, `CostNeverIncreases` | five seeds, 2-edge traces, three workers, one disabled seed, one imported seed, one without a row; first division, or on top of an earlier one |
| `protocol` | `NoSharedSubdomain`, `UpdatesAreLostOnlyInTheWindow`, `LateReadersKnowAll`, `EveryTaskIsAdopted` | two workers, two divisions, one crash and restart |
| `protocol_late` | `NoSharedSubdomain`, `LateReadersKnowAll` | three workers, one of which starts late, one division, one find outside a radius, one load-balance seed |
| `cooperation` | `MarksMatchRadius`, `DeviationsAreCurrent`, `SeedsStayInSubdomain`, `OnlyOwnPlaceIsMissed` | three seeds, 3-edge traces, three subdomains, tables in three orders and of either division, two divisions |
| `seed_sync` | `NothingMissed`, `InitialSeedsStayHome`, `EverySeedArrives` | three seeds, of which one to three are initial, two divisions |
| `worker_queue` | `TypeOK`, `ReferencesAreCounted`, `NothingDangles`, `DirectoryFollowsTheQueue`, `PendingCountsHold`, `FavoredFollowTheChampions`, `EveryEdgeHasAChampion` | four allocations of two inputs with overlapping traces, one task, one failed calibration |
| `load_balance` | `TypeOK`, `CreditsAddUp`, `RoundsAreComplete` | two workers, two divisions, two imports, three seeds sent, one report |
| `load_balance_growth` | `PairExists`, `TablesAreExact` | three workers, one of which starts late, three divisions, two imports |
| `testcase_cache` | `NoOverrun`, `VictimExists`, `BufferInUseStays`, `SizeCoversTheMemory` | four entries of one or two bytes, five bytes, four slots, a slack of one byte |
| `worker_given_up` (violation) | `TheLoopGetsOn` | two allocations |
| `load_balance_assert` (violation) | `NoAssertionFails` | `SubdomainProtocol` with two workers, two divisions and one load-balance seed |

The type invariants that are proved (section 4) are not checked a second time.

What the passing runs show:

* Distance matrix. Under every interleaving of exhausted budgets with new,
  disabled and load-balancing seeds and a stop request, every pair a reader can
  see lies in an allocated row and holds the distance of the two traces, or -1
  next to a disabled seed. The snapshot is a prefix of the queue, so `q->id`
  addresses the matrix, and a seed that stays in the queue gets its row unless
  the instance is stopped.
* Division. Centers stay distinct and in their own cluster, the medoid
  assertion holds although a disabled seed may be a center, the total distance
  never rises, the loop converges within four rounds and to a local optimum,
  the subdomains partition the enabled seeds, and labels of an earlier division
  do not survive in seeds that have a row. The master dies only if there are
  fewer than three rows or fewer enabled seeds than workers. Deadlock is
  checked, so no division gets stuck.
* Publication and adoption. No subdomain is explored by two workers. A division
  is missed in two ways only: it is written between the worker's read and the
  clearing of its flag, or the worker crashes after that; otherwise it is
  adopted. A worker that begins to read its table when the division is out knows
  every subdomain of it, whatever its table held before; with a third worker
  this holds also if that one is given no subdomain, if its key has no center,
  and if a worker dies of that.
* Cooperation. The `in_subdomain` marks are exact, deviations belong to the
  present center, and within a division no seed leaves the subdomain. A seed
  found outside the radius goes to the nearest center, unless that is in the
  place of the table the worker passes over as its own. In the order in which
  SCAN returns the keys that place may be another worker's (section 5).
* Seed synchronisation. Between two walks a worker without a publication to
  adopt has taken every seed of its subdomain below `sync_cursor`, also after it
  lost an update. The initial seeds are stored with label 0 and not taken, with
  one exception, which `InitialSeedsStayHome` names: the newest of them, when
  the first division comes before any other seed and has not measured it. A seed
  that stays labelled arrives.
* Queue. When the load-balance seed is cut out again, no champion slot, favored
  flag or row is left pointing to it, although its deletion relies on `tc_ref`
  alone; entries are renumbered, and every number has its file, which is what
  the master's walk over the directory needs. The counters the selection reads
  hold between two cullings. Within a task every edge of a calibrated, enabled
  entry in the radius has a champion. Once culled, the favored entries cover
  every edge that has a champion, and belong to the subdomain unless it has no
  champion at all.
* Load balancing. Every import is credited once although a division may renumber
  the subdomains in the middle of it. A round passes over no seed, also when
  items are appended while it lasts. It has one exception, which
  `RoundsAreComplete` names: begun on an empty list, with the seed `items[0]`
  still held, it misses the item that comes first later. The alias tables are
  exact where their weights are finite: over the slots the code draws from,
  each subdomain has the mass of its weight, and the slots past the end of an
  older table go to subdomain 0. They always allow two different subdomains, so
  the loop at `afl-fuzz-stats.c:914` can end.
* Testcase cache. The search for a free slot stays inside the array, also after
  the limit was learned and the array shrunk; a full cache has a victim; the
  buffer in use is not evicted. The accounted size covers the memory in use, for
  trims, custom trims and post-processors, until a post-processor lengthens a
  cached testcase by the slack or more (section 5).

### Findings

For each of these `PROJECT.json` quotes the comment or assertion the code
disagrees with.

* `worker_given_up`: an entry whose calibration was given up is scored when the
  radius grows or a task is adopted. With `exec_us` 0 it wins its edges, becomes
  the favored entry to fuzz next, is abandoned unfuzzed every time, and the
  selection loop returns to it for ever.
* `load_balance_assert`: two workers can share a load-balance queue, one of them
  with an old subdomain or with none and `sd.id = 0`. The one that counted the
  last seed with `LLEN` finds the list empty and fails the assertion at
  `parallel.c:1760`.

### Bounds

Every bound is a constant of its module. Four seeds let a snapshot, a repair
of an old row, a new row and a seed found meanwhile coexist in the matrix
service. Five seeds and three centers give clusters of different sizes, equal
traces, ties and a cluster that loses members. Two overlapping divisions are
what the races of the protocol need; the run with liveness has a crash and no
seeds, the run with a late worker has one seed in each kind of queue and one
division, which is enough for it to take a seed of queue 0 without a subdomain,
to leave a key without a center, and for another worker to read that. Three
seeds in a worker's queue let one enter, one stay and the load-balancing seed
lie between them. The three orders of a table have every subdomain in every
place; with all six TLC finds no error either, but takes more than five minutes.
Three seeds of which one, two or all are initial let a first division come
before and after the first seed that is not; two divisions let a label change
behind the cursor, at it and ahead of it, and let an update be lost. TLC finds
no error with three divisions either, in about four minutes.
Four allocations let a worker hold its first entry, the load-balance seed, a
find behind it and one received later; the two inputs cover each other's edges
at different distances, so that a champion changes, leaves and enters the
radius. `DisableRedundant` is false in the runs: with `AFL_DISABLE_REDUNDANT`
redundant entries are disabled instead of marked. Two imports and two divisions
place a division before, inside and after each import; three workers, of which
two take part in the first division, make the alias tables older and shorter
than the division. A division leaves each of two subdomains at most one measured
seed besides the centers; with two imports appended and three seeds sent a round
of one, two or three items begins, is extended and ends, and so does one that
began on an empty list. `FACTOR` is 1 in these runs and 5 in the code, since two
imports would never make one contribution five times another; no property
speaks of the factor. With `WIDTH` 16 no count wraps, as with 2^32 in practice,
but the product of the factor and `min_contribute`, which a division sets to
the largest number, stays above every contribution, as 2^32 - 5 does in the
code. Five bytes and four slots let
the cache be full by size, by number, and after learning its limit, with the
current entry in any slot; `W32` is small so that the wrapped differences of
the trims show, and `SLACK` is 1 for the 1024 of the code, so that growing from
one byte to two is beyond it (growth with a reallocation happens in the custom
trim). In the division run `OldCenters` names the seeds that may still be
flagged as centers of an earlier division: the first and the last.

### Fairness

* `DistanceService`: the main loop goes on and the throttling period passes
  (weak fairness of both). A round does some work before its budget runs out,
  because the budget is checked after a pair, never before it; this is part of
  the actions and not assumed.
* `SubdomainProtocol`: a division that was started goes on, each running
  worker's loop goes on, and a crashed worker is restarted. Finding or sending
  seeds is not fair, and bounded: each seed handed over has new coverage. That
  the loop goes on includes that its inner selection loop ends, which the run
  `worker_given_up` shows to fail for a queue with an entry whose calibration
  was given up: `EveryTaskIsAdopted` and `EverySeedArrives` are about workers
  that do not meet that case.
* `SeedSync`: the worker's loop goes on, with the same reservation, and a
  division that was started ends. The periodic call is strongly fair: its timer
  is checked at the end of every iteration and stays expired until the call is
  made.
* `WorkerQueue` (only for `worker_given_up`): the loop never waits, and the
  random choices of the skipping and of the alias table do not avoid a usable
  entry for ever. Even so the loop does not get on.

## 4. Proofs

TLAPS checks these for every value of the constants that satisfies the named
assumption of the module.

`DistanceServiceProofs` (assumption: the bound on seeds and every distance is
a natural number). The invariants the run checks are not inductive. The
inductive invariant adds, for each phase, what the cursors have completed:
rows below the resize cursor are allocated, pairs below the repair cursor are
repaired, the row under construction is right up to its column, and nothing
below `ready` is touched. The load-balancing seed is behind the snapshot
because it is added after the service has run and deleted before it runs
again, which the invariant states through the position in the main loop. From
it follow `ServiceTypeOK`, `RowsVisibleWhenComputed`, `SnapshotPrefix`,
`LBSeedNotInSnapshot`, `LengthsConsistent` and the refinement
`ServiceRefinesPublishedMatrix`.

`DomainDivisionProofs` (assumption: numeric bounds, at least one iteration, and
distances that are natural numbers; they need not be a metric). That a center
lies in its own cluster depends on the whole run of the loop, since a disabled
seed can be one of the first two centers. `IInv` says for each step which seeds
are flagged and labelled (`CentersLabelled`), that disabled seeds have labels
only as first centers (`DisabledLabels`), and that a cluster with enabled
members has an enabled center unless its medoid is about to be recomputed
(`EnabledCenters`). From it follow `DivisionTypes`, `CentersAgree`,
`ItemsArePartitioned`, `LabelsAreRight` and `OnlyLackOfSeedsIsFatal`. A second
invariant, `OInv`, says which centers are medoids and when every seed is with a
nearest center, and gives `EndsInLocalOptimum`. `CostFalls` compares the total
before and after a step: an assignment lowers it seed by seed, a medoid update
cluster by cluster, and the two sums are exchanged (`SumOfSums`).

`CooperationProofs` (assumption: distances lie between 0 and `MaxDist`, the
center constant `NoPoint` is no point, and published assignments are
well-formed; the distance need not be a metric). `MarksMatchRadius` fails to be
inductive in two ways. The load-balancing seed has no deviation, so it must be
known to be `DBL_MAX` away, above every radius, and to be gone before a radius
or center of `do_cooperation` or `update_subdomain` changes. And the pending
radius `adjust_r` must be a real distance while there is a center. `Inv` adds
both. From it follow `CooperationTypeOK`, `MarksExact`, `DeviationsCurrent` and
`LBSeedOutside`. Two action properties rest on it. `SubdomainOnlyGrows`: each
operation on the queue (`MoveIn`, `Added`, `Without`) keeps every marked seed,
and the one that is cut out is not marked. `OneCenterCanBeMissed`: the loop at
`afl-fuzz-bitmap.c:604` computes the nearest of the centers in all places but
one (`FindSeedSends`). If the center in that place is nearer than the own one,
the second case of the property holds; if not, leaving it out makes no
difference, and the first does.

`SubdomainProtocolProofs` (assumption: finitely many workers and numeric
bounds). `NoSharedSubdomain` speaks of adopted subdomains only, while a worker
may adopt at any time what its key holds. `HeldApart` therefore speaks of
everything a worker holds, its key and its own subdomain, and `Numbering` says
why the next subdomain published is new: its division is at least as new as any
held, and in the same division the numbers held are below the number of
directories visited. `OwnTaskOrOlder` keeps a worker from holding another one's
future. `Window` restates `UpdatesAreLostOnlyInTheWindow` at every position of
the loop. `Tables` restates `LateReadersKnowAll` for a scan in progress: of a
worker that began on time, the keys no longer to be read are known, and the
master is idle, since the next division would make the worker's one an old one.
From the conjunction follow `SubdomainsAreNotShared`, `WorkersFollowTheirKeys`,
`TablesAreComplete`, `OnlyTheWindowLosesUpdates` and the types.

`SeedSyncProofs` (assumption: a positive number of seeds, ids that are
numbers). `NothingMissed` holds between walks; its inductive form `WalkFacts`
covers a walk in progress: below the position reached, which is the walk's own
position or the cursor, every seed labelled with the worker's subdomain is
taken, if the labels are complete and the flag is 0. A lost update does no harm
because the flag is cleared in the step that resets the cursor. `MasterFacts`
says that the master labels existing seeds only. `InitialFacts` says that the
label 0 an initial seed is stored with is gone before a worker walks, for all
of them that the first division relabels (`Hidden`): all, or all but the newest
if that was the last of the queue and not measured. From them follow
`CursorMissesNothing`, `InitialSeedsAreNotTaken` and the types.

`WorkerQueueInvariant` and `WorkerQueueProofs` (assumption: finitely many edges
and tasks, numbered from 1; inputs with a trace and a positive factor;
deviations and radii below `DBL_MAX`). Nothing the run checks is inductive by
itself, because a load-balance seed is queued like any other entry and cut out
again. `SeedIsApart` says what holds meanwhile: no favored flag, redundancy mark
or row reaches the seed or an entry behind it, and it is `DBL_MAX` away and
outside the subdomain. `Directory` says that numbers, files and markers follow
the positions, `Champions` that references are counted also for entries not
queued and that a champion covers its edge, `Control` where in the loop the flag
is set. Scoring and culling are recursive functions over entries and edges; the
lemmas `ScoringExists` and `CullingExists` show that these functions are defined
as they read, `RescoredScores` and `CulledIsRight` what they return. From `IInv`
follow all seven properties of the run (`QueueIsTyped`, `ReferencesStayCounted`,
`NoneDangles`, `DirectoryFollows`, `PendingIsCounted`,
`FavoredCoverTheChampions`, `NoEdgeIsForgotten`) and
`WithATaskTheSeedIsApart`.

`TestcaseCacheProofs` (`CacheAssumption`: the cache holds two of the longest
testcases, which `afl-fuzz.c:1770` enforces, and at least three entries, which
holds unless `AFL_TESTCACHE_ENTRIES` asks for fewer). That the search stays
inside is not inductive. `SlotFacts` adds that the limit fits the array, that
slots from `max_count` on are empty and that those below `smallest_free` are
used; `BufferFacts` that only queued entries have buffers, and that the private
ones are those of a load-balance episode; `PhaseFacts` that the slot of the last
victim is still free when the testcase is loaded. With `SlotsMatchBuffers` and
`CountIsExact` they say that a count below the limit leaves a free slot. From
them follow `SearchStaysInside`, `EvictionFindsAVictim`, `BufferInUseIsKept`,
`SlotsAgreeWithBuffers`, `CountIsKept` and the types.
`AccountCoversTheMemory` needs a bound from above as well: a size that wrapped
at 2^64 would no longer cover anything. `Accounts` says that the account lies
between the memory in use and the lengths in use plus 2^32 for each trimmed
entry, since a trim may add 2^32 and happens once per entry. It holds until a
testcase is copied into too small a buffer (`AccountsUnlessOverrun`).
`SizeAssumption`
keeps that bound below 2^64. With testcases of at most 1 MB it holds for every
queue of fewer than 2^32 - 2^20 entries.

Sums. The total distance and the bytes of the cache are sums by a recursive
function. The lemmas `SumExists` and `SumUnique` show that the function exists
and obeys its equations; facts about all sums then follow from
`InductionUpTo`, which is about a set of numbers and takes no operator as a
parameter. It is proved from the least element of the complement.

TLC confirms the inductive invariants on the instances the runs use:
`MCDistanceService.cfg`, `MCDomainDivision.cfg` (`IInv`, `OInv`),
`MCCooperation.cfg` (`Inv`), `MCSubdomainProtocol.cfg` and
`MCSubdomainProtocolLate.cfg`, `MCSeedSync.cfg`, `MCWorkerQueue.cfg` and
`MCTestcaseCache.cfg` (`IInv`, `AccountsUnlessOverrun`).

Model-checked only:

* every liveness property (`EverySeedGetsItsRow`, `EveryTaskIsAdopted`,
  `EverySeedArrives`): fairness is beyond the provers;
* that the division converges within four rounds, the other half of
  `ConvergesToLocalOptimum`, which is about the instance;
* `LoadBalance`. Its alias tables come from folds and selections that take an
  operator, about which the provers cannot argue, and its type invariant
  depends on them. `PairExists` and `TablesAreExact` are about what the folds
  compute. `CreditsAddUp` and `RoundsAreComplete` would need
  the folds replaced by recursive functions first, as was done for the cache.

## 5. Other observations

Further disagreements between the code and what it says of itself. Each of
these configurations ends with a counterexample.

* `MCDomainDivisionAssert.cfg`, `EnoughSeedsToDivide`: `parallel.c:216` asserts
  `seed_num > 2`, but a division starts with one ready row
  (`afl-fuzz-stats.c:808`).
* `MCSubdomainProtocolLostUpdate.cfg`, `SettledWorkersAreCurrent`: the key is
  read (`afl-fuzz.c:3293`) and its flag cleared (3296) in two commands; a
  division written in between is never adopted.
* `MCSubdomainProtocolTable.cfg`, `TableIsComplete`: a worker that adopts while
  the master is still publishing keeps an incomplete table for the whole
  division, unlike the comment at `afl-fuzz.c:3298` ("synchronise all task
  regions").
* `MCSubdomainProtocolDirectories.cfg`, `DirectoriesAreCounted`: the assertion at
  `parallel.c:1072` says that as many directories were walked as counted; a
  worker that starts between the two walks over `sync_dir` makes the second one
  run past `c_arr` before the assertion is reached.
* `MCCooperationNearest.cfg`, `SentToNearestMedoid`: the comment at
  `afl-fuzz-bitmap.c:582` says "send to nearest medious". The table is in SCAN
  order (`parallel-db.c:284`), and the loop at `afl-fuzz-bitmap.c:604` compares
  an index with an id, so it skips another worker's entry instead of its own.
* `MCSeedSyncInitial.cfg`, `InitialSeedsAreNotSynced`: the comment at
  `afl-fuzz-init.c:825` says that initial seeds are not synchronised. The label
  loop leaves out the newest seed (`parallel.c:846`); if that is an initial one
  without a row, it keeps label 0 and the worker of subdomain 0 takes it.
* `MCSeedSyncState.cfg`, `SeedStateIsTheMasters`: `q->id` is passed twice to the
  `HSET` (`parallel-db.c:16`), so every later field gets its predecessor's
  value; seeds whose id begins with the digit 1 reach the workers as already
  fuzzed (line 86).
* `MCLoadBalanceSender.cfg`, `SenderHasItems`: `afl-fuzz-stats.c:958` falls back
  to "seed number 0" of the sender, which has none if a division gave it only
  its center.
* `MCWorkerQueueBalanceSeed.cfg`, `LoadBalanceSeedIsNotSelected`: the comment at
  `afl-fuzz.c:3155` says that a load-balance seed takes no part in the
  selection; a worker without a subdomain scores it like any other.
* `MCTestcaseCacheSize.cfg`, `SizeIsExact`: `afl-fuzz.h:885` describes the size
  as the memory used so far; trimming does not reduce it.
* `MCTestcaseCachePostProcess.cfg`, `MemoryIsAlwaysCovered`, from the same
  comment: a testcase that a post-processor lengthened by 1024 bytes or more is
  copied into the old buffer, past its end (`afl-fuzz-queue.c:1532`), and the
  size is not changed; a later eviction subtracts the new length, so it falls
  below the memory in use or wraps.

Noted while translating the code; the models contain the behaviour, no
configuration is devoted to it.

* `parallel.c:846`: the loop that stores labels leaves out the newest seed,
  which keeps its label of the previous division (the comment at 1015 says such
  labels are reset).
* `parallel.c:873`: contributions are reset for the old number of subdomains,
  so on the first division, and for workers that joined, they start at 0 and
  not at the 1 of the comment at 884.
* `afl-fuzz-bitmap.c:730`: each import appends the seed that was last in the
  master's queue until then to the items of every subdomain.
* `afl-fuzz-stats.c:881`: the alias tables are only renewed when contributions
  differ enough, so they may be those of an earlier division with fewer
  subdomains.
* `afl-fuzz-stats.c:866`: the comment speaks of the time since the last
  clustering; the code (881) measures from the start.
* `afl-fuzz.c:1748`: with fewer than three cache entries configured, the search
  for a victim may have none to find; the proofs assume three.
* `parallel.c:222`: the search for the first two centers does not look at
  `disabled`; a disabled center keeps its label.
* `parallel-db.c:504`: the radius is formatted with `%u`.
* `afl-fuzz-bitmap.c:627`: a radius widened after a publication is stored in
  the new subdomain's key and adopted with the new center.
* `afl-fuzz.c:3265`: a worker without a subdomain has `sd.id = 0` and drains
  `coop_queue_0`; it then sets its radius to `DBL_MAX`, marks its whole queue,
  and creates a key without a center. A worker that reads it into its table
  follows a null pointer with its next find outside the radius
  (`afl-fuzz-bitmap.c:608`, action `MissingCenter`), unless the entry is in the
  place it passes over.
* `afl-fuzz.c:3283`: a worker restarted after an adoption finds the flag
  cleared and has no subdomain until the next division.
* `afl-fuzz-bitmap.c:688`: a seed handed over is also kept, unlike the comment
  at 564.
* `afl-fuzz-bitmap.c:803`: a seed the master imported is offered to the workers
  until the next division, unlike the comment at 800.

## 6. Not modelled

The models cover the files PartitionFuzz adds or changes: `parallel.c`,
`parallel-db.c`, and the parts of `afl-fuzz.c`, `afl-fuzz-queue.c`,
`afl-fuzz-bitmap.c`, `afl-fuzz-run.c`, `afl-fuzz-one.c` and `afl-fuzz-stats.c`
they interact with. They are a small share of the repository's lines. The rest
is AFL++: compiler passes and wrappers, the runtime linked into targets, the
FRIDA, QEMU, Nyx and Unicorn modes, the custom mutators with the libraries they
bundle, generated tables, and the stand-alone tools. That code runs in other
processes or before a campaign, shares no state with the partitioning, and is
largely third-party or sequential data transformation with nothing for these
properties to tell apart.

Within the fuzzer, the following are left out:

* the forkserver and shared memory: an execution succeeds, fails to calibrate,
  or finds something; timeouts and restarts of the target do not change the
  state modelled here;
* the mutation stages, dictionaries, cmplog and splicing as transformations: the
  models have "some input is found";
* the virgin maps and hit counts: whether a seed is kept is a free choice;
* the weights behind `create_alias_table`: any entry it may give is selected.
  The alias method itself is modelled for the subdomains, where it is the same
  algorithm;
* `check_subdomain_overlap`, which decides when a re-division is worth it: a
  division may start whenever its time has come;
* the position the master keeps for each worker in `.synced/`: how many seeds a
  directory yields, and which, is a free choice. That the position can be relied
  on, because every number has its file, is `DirectoryFollowsTheQueue`;
* the election of a temporary main node (`afl-fuzz-run.c:721`, 917);
* resumption of a campaign, statistics files and the screen;
* a failing Redis: commands are atomic and succeed. In the code a command
  without a reply is fatal in some places (`parallel-db.c:160`, 187, 443) and
  only logged in others (`parallel-db.c:21`, `parallel.c:1649`).

## 7. What could come next

1. The forkserver handshake (`afl-forkserver.c`), which every execution above
   takes for granted.
2. Several workers of `Cooperation` joined by the queues of `SubdomainProtocol`
   in one composition.
3. A proof of `CreditsAddUp`, with the alias tables as recursive functions.
