# magpieDB in TLA+

Specifications of magpieDB, an embedded vector database in Go, with TLC
configurations that check them on small instances and TLAPS proofs of the results
that hold for every value of the constants. Line numbers are those of the sources
the project was written from; `PROJECT.json` names, for every definition, the lines
it stands for.

## The system

| Component | Files | State | Operations |
|---|---|---|---|
| MVCC manager | `mvcc.go` | ID counter, last committed ID, version chains, active transactions | begin, read a version, validate, install, commit, abort, collect |
| Transactions | `transaction.go` | read set, write set, one commit lock for all | Get, Store, Remove, Commit, Rollback, Batch |
| Database handle | `magpie.go` | `Nest.mu`, header, `vectorPages`, index, closed flag | Open, Store, Find, Get, Close, GarbageCollect, Compact |
| Paged storage | `storage.go`, `page.go` | mapped file, its size, free list | allocate, free, read and write pages, persist the index |
| Version storage | `storage_mvcc.go` | version pages, chain of page numbers per ID | StoreVersion, GCVersionsOlderThan |
| Write-ahead log | `wal.go` | buffer, file | Append, Flush, Truncate, read |
| Recovery | `recovery.go` | none of its own | header, index or rebuild, page map, replay |
| Worker pool | `workers.go` | task channel, context, wait group, running flag | Start, Stop, SubmitTask, the five tasks |
| HNSW index | `index.go`, `hnsw.go` | nodes, links per layer, entry point | Add, Remove, Search, OptimizeIndex |
| Query cache | `cache.go` | map and LRU list | Get, Put, Invalidate |
| Compaction | `compact.go` | a second file | copy live vectors, rename |
| Packing | `page_packing.go` | none | pack, unpack, validate |
| Others | `filter.go`, `backup.go`, `reindex.go`, `statistics.go`, `compression.go`, `metrics.go`, `pool.go`, `distance.go`, `cmd/`, `examples/` | counters, files | predicates, copies, arithmetic |

How they meet. A client calls the handle or a transaction. Transactions touch the
version chains without `Nest.mu`, take the commit lock to commit, and `Nest.mu`
within it to update the index; `Nest.Store` takes `Nest.mu` alone and writes the same
chains. Storage, log and header are written under `Nest.mu` by Store, by the index
phase of Commit, by the checkpoint and by Close; the log and version phases of Commit
write them without it. Workers call back into the handle and take `Nest.mu`, while
Close holds it and waits for the workers. Recovery reads what all of them wrote.

What is hard: the three unlocked steps of `BeginTx` against commits and collections;
two kinds of writers on one chain; a failure between the phases of a commit; a process
that ends between any two writes; a log that is buffered; pages that are reused
uncleared; stopping a pool whose tasks need the lock the stopper holds; an approximate
index whose links go one way. `PROJECT.json` lists these hazards one by one, each with
the properties that would show it going wrong, or the reason why none does yet.

What makes each component correct: a transaction reads one state and commits only if
nobody overwrote it (MVCC); a commit that returned stays readable (MVCC); what was
acknowledged is found again (storage, log, recovery); a page has one owner (storage);
Close ends everything before it writes (workers); the graph is sound and search finds
what can be reached (HNSW); a cached result is not older than the last Store (cache).

## Modules

| Module | Contents |
|---|---|
| `MVCC` | chains, transactions, commit, `Nest.Store` and collection on them |
| `MVCCProofs` | theorems about `MVCC` |
| `SnapshotIsolation` | what a transaction is promised, without versions, IDs or locks |
| `MVCCRefinement` | the mapping under which `MVCC` implements it |
| `MVCCRefinementProofs` | the theorem that it does |
| `Workers` | the pool, its periodic goroutines, `Nest.mu`, Close |
| `WorkersProofs` | theorems about `Workers` |
| `Durability` | file, log, free list, Store, Commit, checkpoint, collection, Close, crash, recovery |
| `DurabilityProofs` | theorems about `Durability` |
| `Log` | the write-ahead log on a disk whose writes and syncs fail |
| `LogProofs` | theorems about `Log` |
| `Compaction` | Compact file operation by file operation, beside Store, Commit, collection, Close, Open |
| `CompactionProofs` | theorems about `Compaction` and `Packing` |
| `Packing` | the arithmetic of packed pages |
| `HNSW` | the layered graph and its search |
| `HNSWProofs` | theorems about the entry point, the links and the answers of `HNSW` |
| `QueryCache` | the cache, its recency list, Find, and the calls that make results old |
| `QueryCacheProofs` | theorems about what a search sees, the list, and what breaks it |
| `MCMVCC`, `MCMVCCRefinement`, `MCWorkers`, `MCDurability`, `MCCompaction`, `MCHNSW`, `MCQueryCache` | instances for TLC; `Log` needs none |

The modules cut the system where its parts meet in few facts. `MVCC` has the memory side
of a commit, `Durability` its disk side, `Compaction` what both meet when the storage is
replaced under them. `Durability` takes the log as a sequence that never fails; `Log`
says when that is right. `Workers` has the locks around all of them.

### MVCC

A member of `Txs` is one `Tx` handle, used once; a member of `Storers` is one call of
`Nest.Store`. A step is what the code does under one lock or on one atomic word. So
`BeginTx` is three steps (`AllocateID`, `LoadSnapshot`, `Register`); Commit is
`Validate` (which takes the commit lock), `WriteWAL`, an `Install` per entry of the
write set, `UpdateIndex` under `Nest.mu`, then `LoadLastCommitted` and
`CompareAndSwap`, the loop of `CommitTx`, and `Close`, which deregisters the
transaction and releases the lock. `DirectStore` is the part of `Nest.Store` up to its
own `BeginTx`; the rest of that call uses the same steps, with `Nest.mu` held and
without the commit lock. `GarbageCollect` cuts all chains at once, under the manager's
lock. `Faults` says which disk writes may fail; a failed index update leaves the handle
active, as in the code, and the client may commit again or roll back (`MaxVersions`
bounds those retries and nothing else).

A version keeps its number, its creator, its deleter and whether it has a vector.
`index` keeps whose vector the index holds. `early` is a history variable: who had an ID
inside the snapshot, and was unfinished, when it was taken. A snapshot with nobody in it
is *quiet*. IDs are given out at begin but published at commit, so a snapshot can cover
unfinished transactions, and then the usual guarantees fail: the properties below are
about quiet snapshots. Removals are treated apart too: a delete marker has the creator
of the version it removes, so newer snapshots look past it (`mvcc_removed`). `PlainIds`
are those only transactions write and nobody removes.

### SnapshotIsolation and MVCCRefinement

The abstract specification keeps, per ID, who wrote it last, and per transaction the
snapshot it began with and what it has read of it. `Begin` takes the committed state in
one step, `Prepare` demands that what was read and what is written is as the snapshot has
it, `Commit` replaces all written IDs at once. Two exceptions are part of the promise
because the code makes them: a transaction whose snapshot is not quiet is *loose* and
promised nothing, and between `LoadSnapshot` and `Register` a collection may take an ID
out of a snapshot (`Lose`; the ID is then absent, never wrong, and only if its value is
being replaced).

`MVCCRefinement` adds the history variable `committed`, set when the loop of `CommitTx`
ends, and maps stages to statuses, and what a handle finds in the chains to its snapshot.
It speaks of `PlainIds`, and of log writes that may fail: a commit that fails later leaves
some of its versions behind, which no atomic commit does.

### Workers

A member of `Tasks` is one periodic task: the goroutine that submits it and the task.
A step is one channel operation, one critical section of the pool's mutex, or the
taking or releasing of `Nest.mu`. `SubmitTask` is `Tick` (reads `running`), then a
select: `Send`, `GiveUp` on the cancelled context, `Park` when neither is ready, and
`SendOnClosed`, the panic. `Receive` wakes a parked sender, any of them. Tasks differ by
the lock they need (`CollectTasks`, `WriteTasks`, `ReadTasks`, `IdleTasks`): the
compaction and compression tasks do nothing in this version and are idle tasks. `Close`
holds `Nest.mu` through `StopTasks`, `Stop`, `Cancel`, `CloseChannel`, `Join` and
`Persist`. A panic ends the process, so nothing runs after it. `late` remembers tasks
that got past the running test although Stop had already cleared it.

### Durability

The file is a sequence of pages; the header is kept apart, a persisted index takes one
page. A step is what happens between two writes that the end of the process may
separate. `Store` logs, `StoreApply` updates index and page, `StoreHeader` writes the
header and acknowledges. Commit logs each entry, flushes, writes a page per version,
then takes `Nest.mu`, applies and writes the header. The checkpoint flushes, then
truncates. `Close` persists an index that is not empty, writes the header, empties the
log. `Open` reads the header, takes the persisted index if there ever was one and
otherwise rebuilds it from the pages, builds the page map, and replays the log.

`AllocatePage` is modelled with what it leaves in a page: a page from the free list and
a page beyond the header's count keep their old contents, and `writeVectorToPage` then
adds its entry to those that are there (`Garbled` are bytes another entry overwrote). A
version page has the type of a vector page, so the scans read an entry of an ID nobody
stored from it (`Phantom`). Metadata that fits no page (`Oversized`) fails a Store after
it is logged and makes replay, and so Open, fail.

The header keeps whether the dimensions are known: given when the database is created
(`DimensionsGiven`), or set by the first Store. Open refuses a header without them.

A crash is the end of the process. File and mapped pages survive it as they were
written. Losing power, with pages the system has not written yet, is not modelled here;
for the log it is, in `Log`. `acked`, `stored`, `exposed`, `logged`, `removed` and `sealed`
are histories; `exposed` are the IDs acknowledged on top of a persisted index.

### Log

A record of the file is whole or cut: within its length, right behind it, or within its
data. `FlushEntries` is one write and one sync; when either fails the call returns an
error, a part of the write may be there, and the entries stay in the buffer to be written
again. A crash takes any part of what was not synced. Open reads up to the first record
it cannot read (`Readable`): cut, or with a checksum that does not match, which happens
when metadata is not the same after JSON (`exact`). Whether it then goes on (`ReadsOn`)
or is refused (`Fails`) depends on where the record was cut and on what lies behind it.
`blame` remembers what a reader may stumble over.

### Compaction

A file is the IDs of its vector pages and the persisted index. `CompactTmp` writes the
temporary file, then closing, the two renames, reopening and the removal of the .bak are
steps that may fail; Compact keeps `Nest.mu` throughout. A commit's log and version phases
do not take that lock and run between them. `versions` is the storage `MVCCStorage` has
had since Open: the one that compaction closes and never replaces, so that afterwards
commits are refused for want of pages, or panic on the mapping that is gone. `Panic`, like
`Crash`, ends the process. `OpenNew` is what Open does when the file has no name between
the renames: it creates an empty database. `acked`, `orphaned`, `clobbered` and `purged`
are histories. Recovery and the pages' contents are `Durability`'s.

### Packing

Pure arithmetic: how many vectors fit a packed page, which vectors lie on which page,
where their data ends.

### HNSW

An ID stands for its vector: only distances count. Every operation is one step, since
the index has a lock of its own. Levels are chosen freely, as `assignLevel` draws them.
`SearchLayer` has the code's heaps as sets (no two distances from one point are equal,
an assumption of the module). A `Turn` is one pass of its loop, with the ten-percent rule
and the skipping; `Turns` is the state after each pass, up to the visit budget, and a search
that has ended stays as it is. `Expand` looks at the neighbours of a candidate one by one.
`Descent` is the walk through the layers that Search and insertion share. `LinkBack` prunes;
`Reconnected` links the neighbours of a removed node, each of which takes the others in
their order (`Relinked`) up to 2M links on every layer. Every loop is a recursive function
of the number of its passes, which the proofs can reason about, and no RECURSIVE operator.
`peak` remembers the most nodes since the index was empty. Serialize and Deserialize
restore nodes, links, entry point and parameters, the identity on this state.

### QueryCache

A member of `Finders` calls `Find` again and again (a worker of `BatchFind` does the
same); a member of `Writers` makes one call that changes data. A result is the number of
changes its search had seen. `Get` is the lookup, before `Nest.mu` is taken; a hit moves
its element to the front of the list under the read lock of the cache, and since another
hit may do so at the same time, `MoveToFront` makes the six pointer assignments of
`container/list` one by one. `Search` and `Put` lie between the taking and the releasing
of `Nest.mu` for reading; `Put` replaces, inserts or evicts in one step, under the write
lock. Statement by statement is the coarsest interleaving a data race allows; the build
may produce others. On a list that a race has broken `EvictBroken` is what the eviction
loop does: it panics when the back is the root, whose value is no key, and spins when the
back has left the list, which `Remove` ignores. Elements are reused once nothing in use
points to them.

`Store` and `Remove` invalidate before they release `Nest.mu`. `Commit`, `Compact` and a
Store that fails after it has changed the index do not. `firm` counts the changes at the
last invalidation, `since` is its value when a Find began, `recency` is the order of use
that the list should have, `raced` counts lookups from the first race on (`AfterRace`
bounds them).

## Runs

| Run | Bounds | Shows |
|---|---|---|
| `mvcc_isolation` | 3 transactions, 2 IDs, log writes may fail | `TypeOK`, `ImplementsIsolation` |
| `mvcc_store` | 2 transactions, 1 `Nest.Store`, 2 IDs, every write may fail | `NoDirtyReads`, `StableReads`, `CommittedReadable`, `PublishedCovered`, `CountMatchesIndex` |
| `mvcc_liveness` | 2 transactions that store and remove an ID, 1 `Nest.Store` of another, fairness | `IndexFollowsChains`, `CommitReturns`, `StoreReturns` |
| `mvcc_removed` | 2 transactions, 1 `Nest.Store`, 1 ID | violates `RemovedStaysRemoved` |
| `workers_pool` | 1 worker, 3 tasks, 1 client, 2 closers, queue of 1, Close may fail, fairness | `TypeOK`, `PersistsAlone`, `OnlyEarlySendersPanic`, `AcceptedRuns`, `GoroutinesEnd`, `CloseReturnsOrBlocks` |
| `workers_deadlock` | 2 workers, 3 tasks, 1 client, 1 closer, fairness | violates `CloseReturns` |
| `durability_crash` | 2 IDs, 2 ordinary vectors and an oversized one, dimensions given or not, 2 calls, log buffer of 2, 3 openings | `TypeOK`, `AcknowledgedOnDisk`, `AcknowledgedFound`, `CommittedIsLogged`, `CleanReopenKeepsIndex`, `RefusedUnsizedOrOversized` |
| `durability_pages` | 1 ID, 1 vector, removals, 4 calls, 1 opening | `PagesApart`, `AcknowledgedFound`, `NewestVersionKept` |
| `log` | buffer of 3, 4 appends, 1 failed write or sync, 2 crashes | `FlushedIsRead`, `ReadsInOrder`, `RefusedForAReason` |
| `compaction` | 2 IDs, 4 writes, 2 compactions, 2 failures, 2 crashes | `TypeOK`, `CrashLosesNothing`, `AcknowledgedSurvive`, `PurgedStayAway` |
| `hnsw_index` | 4 vectors, M = 1, EfConstruct = 2, 3 layers | `EntryIsTop`, `LinksSound`, `SearchFindsReachable`, `SmallIndexExact` |
| `cache_find` | 2 searching goroutines, 2 calls, 3 queries, cache of 2, 3 lookups from a race on | `TypeOK`, `ListIsRecency`, `OnlyRacesHarm`, `StoresSeen` |

Why the bounds are enough. Lost updates need two writers and a third transaction below
them to tell the order; a marker that is looked past needs a store, a removal and a
reader. The collector needs one open reader, one committed version above it. For the
pool, a queue of one is full after one task, two closers meet in every stage, and Close
that may fail is called again. In `Durability` the log needs a buffer that fills inside
a transaction of two entries, a second vector for an ID the log and the pages tell apart,
and a third opening for a crash while the log is replayed a second time; in `Log`, one that fills after a failed flush has left
entries in it, and a second crash for a log that two processes have written. Two
failures are what a compaction needs to fail to install and to fail to undo it, two
compactions to rename over a .bak that an earlier one has left. A freed page takes four
calls to come back: store, remove, store again so that the marker can be collected, and
the call that reuses it. With M = 1, layer 0 keeps two links and the others one, so that
the fourth vector is the first to be pruned away. A race needs two cached results and
two hits; what breaks then takes the hit that races, a search for a third query that
evicts, and for the endless loop one search more.

The properties are not independent of the code: for each property of a passing run
`PROJECT.json` names a mutated definition, kept beside the original and commented
"Mutant of", with which TLC refutes the property under the same configuration. Among
them are a dropped conflict check, a collection that forgets open transactions, a
compare-and-swap replaced by a store, a wait group that is not counted down, a header
with a stale page count, a log that is not synced, a compaction that does not hold the
lock, and a removal that trusts links to go both ways.

`CHECK_DEADLOCK FALSE` stands where the system may stop: a closed database, a panic or a
Close that waits for ever (`Workers`), and the bounds on calls and openings
(`Durability`).

### What the violated properties show

- `RemovedStaysRemoved`: after a committed Remove, a new transaction still reads the
  removed version, against the visibility rule of `MVCC_IMPLEMENTATION_SUMMARY.md:102`.
- `CloseReturns`: Close holds `Nest.mu` while it waits for a worker that wants it.

### Other behaviour the models exhibit

What the properties had to make room for, part by part.

- Transactions. The snapshot is the highest committed ID: a transaction with a lower ID
  that commits later appears in it, so only quiet snapshots are the consistent ones
  `MVCC_IMPLEMENTATION_SUMMARY.md:107` speaks of. A Get that finds nothing leaves no trace
  in the read set, so write skew on absent IDs is possible. A transaction between
  `LoadSnapshot` and `Register` does not hold up the collector. Two removers of one ID
  decrement the unsigned count twice. A version whose page could not be written stays in
  its chain after the rollback.
- Recovery. A Store acknowledged on top of a persisted index is, after a crash, on disk
  but not in the index (`exposed`; compare `INTEGRATION_SUMMARY.md:95`). A checkpoint may
  empty the log between a commit's log phase and its pages. An index closed empty comes
  back as it was persisted before. A database created without dimensions and written by
  transactions only is refused by every later Open.
- Log. The entries of a failed flush are logged again later. Once a process has gone on
  writing behind a cut record, everything after the cut is lost to replay, or Open is
  refused.
- Compaction. After it the version storage works on a closed file: every later commit
  that needs a version page is refused or panics until the database is opened again
  (compare `magpie.go:630`, `docs/COMPACTION.md:39`). A crash between the renames
  lets the next Open create an empty database beside the .bak, and the next compaction
  rename over that .bak. Entries that are still in the log undo removals. Packed pages are
  read with `readVectorPage`, which takes their data to begin two bytes earlier. A vector
  of 988 numbers is stored by Store and cut by packing.
- Cache. Results of a committed transaction are missing from cached searches until the
  next Store, and a closed database still answers them. Two hits at once, followed by a
  search that evicts, can end the process or leave a goroutine spinning with both locks
  held (`EvictBroken` is reached, and `OnlyRacesHarm` says that nothing else leads there).

## Fairness

`MVCC`: a call that has been made runs on (weak fairness of its steps). Taking the commit
lock or `Nest.mu` is strongly fair, since Go's mutex hands itself to a waiter that has
starved for a millisecond. Clients owe nothing: a transaction may stay open for ever.
`Workers`: a goroutine that can run does; a select that stays ready takes a ready case;
`Nest.mu` is strongly fair as above. Ticks and calls need not come. `Durability`,
`Log`, `Compaction`, `HNSW` and `QueryCache` state safety only and assume no fairness.

## Proofs

Proved for all values of the constants that satisfy the modules' `ConstantsAssumption` (and,
for the refinement, `FaultsAssumption`: only the log's write fails). What the assumptions
ask for beyond types is that different things are different (a stored vector is not one of
`Absent`, `Empty`, `Garbled`; `Root` and `Nil` are no list elements; in `HNSW` no two
vectors are equally far from a third, so nothing is said of how ties are broken), and that the IDs of
`MVCC` and `HNSW`, the pool of `Workers` and the writers of `QueryCache` are finite sets:
IDs are 64-bit numbers, the others are what a process can start. The bounds on calls,
failures and crashes may have any value.

| Theorem | Statement |
|---|---|
| `TypeCorrect` | `Spec => []TypeOK` |
| `Invariant` | `Spec => []IInv` |
| `ReadsAreStable` | `Spec => StableReads` |
| `ReadsAreClean` | `Spec => []NoDirtyReads` |
| `PublicationHolds` | `Spec => []PublishedCovered` |
| `CommittedStaysReadable` | `Spec => []CommittedReadable` |
| `ReadsAreCertified` | `Spec => CertifiedReads` |
| `OrderInvariant` | `Spec => []IInvFCW` |
| `FirstCommitterAlwaysWins` | `Spec => []FirstCommitterWins` |
| `HistoryInvariant` (MVCCRefinementProofs) | `HistorySpec => []HistoryInv` |
| `CountIsRight` | `Spec => []CountMatchesIndex` |
| `IndexIsNewest` | `Spec => []IndexFollowsChains`, where neither version nor index writes fail |
| `IsolationImplemented` (MVCCRefinementProofs) | `HistorySpec => ImplementsIsolation` |
| `TypeCorrect` (CompactionProofs) | `Spec => []TypeOK` |
| `CompactionIsCrashSafe` (CompactionProofs) | `Spec => []CrashLosesNothing` |
| `AcknowledgedAreKept` (CompactionProofs) | `Spec => []AcknowledgedSurvive` |
| `PurgedIsGone` (CompactionProofs) | `Spec => []PurgedStayAway` |
| `EveryVectorOnOnePage` (CompactionProofs) | each of `n` vectors lies on one page |
| `PagesHoldTheirVectors` (CompactionProofs) | pages hold their data up to 987 numbers, and no more |
| `Invariant`, `TypeCorrect` (WorkersProofs) | `Spec => []IInv`, `Spec => []TypeOK` |
| `CloseWritesAlone` (WorkersProofs) | `Spec => []PersistsAlone` |
| `PanicsAreEarly` (WorkersProofs) | `Spec => []OnlyEarlySendersPanic` |
| `Invariant`, `TypeCorrect` (DurabilityProofs) | `Spec => []IInv`, `Spec => []TypeOK` |
| `NoPageShared` (DurabilityProofs) | `Spec => []PagesApart` |
| `AcknowledgedStays` (DurabilityProofs) | `Spec => []AcknowledgedOnDisk` |
| `AcknowledgedComesBack` (DurabilityProofs) | `Spec => []AcknowledgedFound` |
| `CommitsAreLogged` (DurabilityProofs) | `Spec => []CommittedIsLogged` |
| `CleanReopen` (DurabilityProofs) | `Spec => []CleanReopenKeepsIndex` |
| `RefusedForTwoReasons` (DurabilityProofs) | `Spec => []RefusedUnsizedOrOversized` |
| `NewestVersionStays` (DurabilityProofs) | `Spec => NewestVersionKept` |
| `Invariant` (LogProofs) | `Spec => []IInv` |
| `FlushedComesBack` (LogProofs) | `Spec => []FlushedIsRead` |
| `ReadsAreOrdered` (LogProofs) | `Spec => []ReadsInOrder` |
| `RefusalsHaveReasons` (LogProofs) | `Spec => []RefusedForAReason` |
| `EntryStaysTop` (HNSWProofs) | `Spec => []EntryIsTop` |
| `LinksStaySound` (HNSWProofs) | `Spec => []LinksSound` |
| `SearchesFindReachable` (HNSWProofs) | `Spec => []SearchFindsReachable` |
| `SmallIndexesAreExact` (HNSWProofs) | `Spec => []SmallIndexExact` |
| `FindSeesStores` (QueryCacheProofs) | `Spec => []StoresSeen` |
| `TypeCorrect` (QueryCacheProofs) | `Spec => []TypeOK` |
| `ListInOrder` (QueryCacheProofs) | `Spec => []ListIsRecency` |
| `HarmNeedsRaces` (QueryCacheProofs) | `Spec => []OnlyRacesHarm` |

The argument for `MVCC` has three layers. `IInv` adds to the types: `Numbers` (IDs are
distinct and at most the counter, snapshots at most the last committed ID, what a stage
implies), `Settled` (whoever a quiet snapshot covers has finished), `Writes` (what a
write set holds and when) and `Chains` (every version of an ID that is never removed was
written by some process under its own number). From it follows that a quiet reader's
version can be hidden neither by a new version, whose number is above the snapshot, nor
by a collection, which keeps the first version at or below the oldest snapshot.

`IInvCommit` adds `Registered` (open transactions are known to the collector),
`ReadsSeen` (what was read is still what the snapshot shows) and `Kept` (of what a
process has written to an ID, its version or one already published stays in the chain).
None of the properties is inductive without these: `CommittedReadable`, for one, needs
`Kept` to survive a collection.

`IInvFCW` is about first committer wins: `CommitExclusion` (one committer),
`Validated` (between validation and installation the newest version stays inside the
snapshot), `Covered` (only the newest version of a plain ID can be unpublished),
`NewestFirst` (chains are ordered as far as a quiet snapshot can see).

`IsolationImplemented` rests on a fourth layer, `LinkInv`, which ties the history variable
`committed` to the chains of the plain IDs. `Owned`: every version was installed by a
handle that has not given up. `OnTop`: what a commit in flight has installed is the newest
version. `Certified`: from validation to the log nobody covers what was read. `Linked`: the
committed writer of an ID is the owner of the newest version, or of the one beneath while
the newest is in flight; nobody, if there is none beneath and the newest is still above
`lastCommittedTx`. The last clause is what a collection leaves of it: once `CommitTx` has
raised `lastCommittedTx` a collection may cut off the version beneath, so the clause must
not speak of it then. The step mapping has one lemma per abstract action. `LoadSnapshot`
is a `Begin`, because in a quiet snapshot the first version at or below `lastCommittedTx`
is the newest or the one beneath it (`FreshSnapshot`); `WriteWAL` is a `Prepare`, because
what nobody has covered since the snapshot is committed as the snapshot has it
(`NotCovered`); leaving the publication loop is the `Commit`; a collection is a `Lose`,
because it takes from a reader all or nothing, and nothing of an ID whose newest version
the reader may see (`GcLoses`). Every other step of a handle, every step of a
`Nest.Store`, is a stutter.

`CountIsRight` and `IndexIsNewest` are about the index beside the chains. The count is a
cardinality, and a step adds the IDs that were not indexed; it is right also after an update
that failed half-way, because index and count change together there. For the newest
versions `Signed` says that every version, delete markers included, carries the number of
the transaction it is from, and `Tracks` that the index holds the newest one of every ID
but those the holder of the commit lock has put on their chains and not yet into the index
(`Ahead`). The theorem excludes failed version and index writes because it is false with
them: both leave a chain ahead of the index for good. `mvcc_liveness` checks it for the
same faults.

`WorkersProofs` rests on the lock. `CloseExcludes`: every Close that has begun holds
`Nest.mu` alone. `Stopping` reads from `running`, `tasksClosed` and `closed` how far the one
Close in it has come: a pool that no longer runs is either empty or being stopped by the
Close that holds the lock. `PersistsAlone` then follows from the wait group, whose counter
`TypeOK` says is the number of workers left.

`DurabilityProofs` rests on the kind of a page. `Kinds`: a page that the free list or a
version chain names is a version page, one that the page map names is a vector page, a
root is an index page, and all of them lie below the pages in use; `Placed`: a version page
is in one place only. So an allocation, which takes a freed page or one beyond all in use,
never touches a page with an acknowledged vector (`OnDisk`), and `AcknowledgedOnDisk` is
inductive. `AcknowledgedFound` needs more: that what is acknowledged is in memory and in
the persisted index unless it was removed or may be missed (`Known`), what a Close has
persisted so far (`Persisted`), and what a Store or Commit about to acknowledge has already
written (`Written`). For `NewestVersionKept`, chains lead from newer to older versions, and
the version about to be written is newer than all (`Ordered`). The lemmas about `Ascending`
and `SetToSeq`, which the scans of recovery use, are proved by a least counterexample.

`LogProofs` is about the file with the buffer behind it (`Log`). What a crash or a write that
stops half way leaves is a beginning of it, whose last record may be cut (`Begins`), and the
properties of order carry over to beginnings. A failed flush keeps its entries, so that the
next one repeats them behind what it left; `RetryCalling` says that this keeps the order of
calls in which a later record is newer, equal, or a repetition. Numbers ascend as far as a
reader comes (`NumbersUp`), which is what a process that takes over a cut log preserves. A
reader stops at an entry that is not the same after JSON or, unless something is to blame,
at the very end (`CutAtEnd`), and what a flush has reported lies before it (`Kept`).

`HNSWProofs` has two invariants. That the entry point is on top (`IInv`) uses nothing of
distances or links. `Links` is `LinksSound` with its types and two facts more. `Counted`: there
are never more nodes than `peak`. `SmallLinked`: while `peak` is at most 2M + 1 and
EfConstruct + 1, every node of layer 0 links to every other; then nothing is ever pruned, an
insertion finds all nodes, and a removal leaves the others linked.

What a search answers goes through `Searches`, which every turn keeps: the results are the
best `ef` of the nodes visited. A node is turned away only when `ef` nodes beat it, and what
is visited later can only push it farther back (`BestGrows`, `UnwantedFact`). What is left is
which nodes are visited. If `ef` is at least the number of nodes, the results hold all that was visited:
no candidate is turned away, none is skipped and the search does not end early, since a
candidate is never farther than the worst result. Each turn then
expands one candidate more (`TurnProgress`), so that the budget of `3 * ef` turns outlasts the nodes
(`TurnsFact`), and what has been visited is closed under links: `Reach`
(`SearchLayerReach`, `FindsReachable`). In a small index the first turn visits every node,
however few of them the search keeps (`SearchLayerAll`, `FindsAll`).

The library's induction theorems take an operator as a parameter, which the provers cannot
instantiate. So that each loop's function exists (`IsLoop`, `Iteration`) and that a fact holds
after every turn (`Counting`) is proved from sets instead: the set of turn numbers where it
holds, and a least number outside it.

`QueryCacheProofs` adds to `StoresSeen` that whoever is between search and cache holds
`Nest.mu` for reading, and whoever is about to invalidate holds it for writing (`Locked`),
and that neither a cached result nor one on its way to the cache is older than the last
invalidation (`Fresh`). Of the list nothing is used, so that the theorem covers the
broken ones. `ListIsRecency` speaks of the moments when nobody moves an element, and is not
inductive: `InOrder` says for each of the six assignments of a move where the links lead
(`MovedBy`), past the element that is on its way from behind its old place to the front.
That holds while one hit at a time moves (`raced = 0`), and then an eviction finds a back
that is an element of the list, from which `OnlyRacesHarm` follows.

`FirstCommitterAlwaysWins` and `ReadsAreCertified` are checked by no run of their own:
`ImplementsIsolation` covers both for the instance TLC explores.

`CompactionProofs` has one inductive invariant: `TypeOK`, and four facts that tie the
pieces of state together. `Shapes`: what each stage of a job and of a commit carries.
`FilesInPlace`: which file has which name at which stage, and that the temporary file has
all the vectors of the index it was made from. `AcknowledgedLive`: while the database is
open, an acknowledged ID is in the index, or what keeps it has been renamed away.
`PurgedGone`: what a compaction dropped is in no log, on no page still to be covered, and
in no file that may become the database again. None of the three properties is inductive without these, since a crash turns the
index into what the files happen to hold.

The packed pages are arithmetic: a quotient times its divisor against a remainder, in
lemmas about division, then the bounds on a page.

Left to TLC is liveness under fairness, which the prover does not reach: `CommitReturns` and
`StoreReturns` (`mvcc_liveness`), `AcceptedRuns`, `GoroutinesEnd` and `CloseReturnsOrBlocks`
(`workers_pool`). Every other property of a passing run is a theorem.

## Not modelled

Left out for good: filters and distances (pure predicates and floating point), metrics
and buffer pools (counters), the command line; backup, reindexing and statistics, which
Open does not start; the platform's `msync`. Within modelled components: `Snapshot`, `Has`
and the commit without MVCC; how a query becomes a cache key, and cache sizes below 1;
index chains of several pages; checksums of pages; the remapping of the file while a reader
holds a slice of the old mapping (`storage.go:130`); unpacking and validating packed
pages, which only tests call; read-only mode and the merging of options (a caller's
`Options{}` turns the log off, `magpie.go:100`).

## Plan

1. `Durability` as an implementation of an abstract specification: a set of acknowledged
   vectors with a Close and a crash.
2. The mapped file and its readers; connectivity of the HNSW graph, which
   `docs/GRAPH_TOPOLOGY.md:96` asks for and pruning may break.
