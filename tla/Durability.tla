----------------------------- MODULE Durability -----------------------------
(***************************************************************************)
(* What survives a crash: the database file and its pages (storage.go,      *)
(* page.go), the version pages (storage_mvcc.go), the write-ahead log       *)
(* (wal.go), and the operations that write them: Nest.Store, Nest.Close and *)
(* Open (magpie.go), the disk side of Tx.Commit (transaction.go), the WAL   *)
(* checkpoint (workers.go) and recovery (recovery.go).                      *)
(*                                                                         *)
(* A crash is the end of the process: what was written to a file or to the  *)
(* mapped pages stays, what was in memory is lost.  A step is what happens  *)
(* between two writes a crash may separate.  Pages are numbered from 1, the *)
(* header is page 0 and kept apart; a persisted index takes one page.       *)
(***************************************************************************)
EXTENDS Integers, Sequences, FiniteSets, SequencesExt

CONSTANTS
    Ids,               \* vector IDs
    Vectors,           \* vectors with their metadata
    Oversized,         \* those whose metadata does not fit a page
    Absent,            \* "not in the index"
    Empty,             \* a nil vector: what the log holds for a removal
    Garbled,           \* bytes that are no vector of the ID
    Phantom,           \* the ID a version page has when it is read as a vector page
    PhantomsReadable,  \* whether such an entry points into its page (short vectors)
    Direct,            \* the IDs Nest.Store writes
    Writes,            \* what a transaction may write: functions from IDs to vectors or Empty
    DimensionsGiven,   \* whether Options.Dimensions was set when the database was created: the choices
    FlushAt,           \* entries that fill the log's buffer, 100 in the code
    MaxWrites,         \* bound: calls of Store and Commit
    MaxRestarts        \* bound: times the database is opened again

Names == Ids \cup {Phantom}

ASSUME ConstantsAssumption ==
    /\ Oversized \subseteq Vectors
    /\ Direct \subseteq Ids
    /\ Phantom \notin Ids
    /\ {Absent, Empty, Garbled} \cap Vectors = {}
    /\ Absent # Empty /\ Absent # Garbled /\ Empty # Garbled
    /\ \A w \in Writes : DOMAIN w \subseteq Ids /\ \A i \in DOMAIN w : w[i] \in Vectors \cup {Empty}
    /\ FlushAt \in Nat \ {0} /\ MaxWrites \in Nat /\ MaxRestarts \in Nat
    /\ PhantomsReadable \in BOOLEAN
    /\ DimensionsGiven \subseteq BOOLEAN

VARIABLES
    file,          \* the pages of the database file
    headerPages,   \* Header.PageCount, header page not counted
    headerRoot,    \* Header.IndexRootPage, 0 if the index was never persisted
    headerSized,   \* whether Header.Dimensions is not 0
    walFile,       \* entries in the log's file
    status,        \* "open", "replaying" inside Open, "down", "closed", "refused": Open failed
    size,          \* Storage.size in pages
    root,          \* header.IndexRootPage in memory
    sized,         \* whether header.Dimensions in memory is not 0
    index,         \* the vector Nest.index holds for an ID
    vectorPages,   \* Nest.vectorPages, 0 where there is none
    walBuffer,     \* WAL.buffer
    freeList,      \* Storage.freeList
    versionIndex,  \* MVCCStorage.versionIndex, newest first
    job,           \* what the holder of Nest.mu does
    tx,            \* the transaction that holds the commit lock
    replay,        \* log entries replayWAL has still to apply
    writes,        \* calls of Store and Commit so far
    restarts,      \* openings so far
    acked,         \* history: what acknowledged calls stored
    stored,        \* history: whether some call of Store has returned without an error
    exposed,       \* history: IDs acknowledged once an index had been persisted, or that a failed
                   \* Store has taken from the index, and not in an index persisted since
    logged,        \* history: IDs Commit has written to the log since it was last emptied
    removed,       \* history: IDs some transaction has tried to remove
    sealed         \* history: the index as the last Close had it

diskVars == <<file, headerPages, headerRoot, headerSized, walFile>>
pageVars == <<file, size, freeList>>
headerVars == <<headerPages, headerRoot, headerSized, root, sized>>
walVars == <<walFile, walBuffer>>
history == <<acked, stored, exposed, logged, removed, sealed>>
memoryVars == <<size, root, sized, index, vectorPages, walBuffer, freeList, versionIndex, job, tx>>
vars == <<diskVars, memoryVars, status, replay, writes, restarts, history>>

Idle == [kind |-> "none"]
NoTx == [stage |-> "none"]
NoIndex == [n \in Names |-> Absent]

\* A new database: Open has written the header and opened an empty log.
Init ==
    /\ file = <<>> /\ headerPages = 0 /\ headerRoot = 0 /\ walFile = <<>>
    /\ headerSized \in DimensionsGiven /\ sized = headerSized
    /\ status = "open"
    /\ size = 0 /\ root = 0 /\ index = NoIndex
    /\ vectorPages = [i \in Ids |-> 0]
    /\ walBuffer = <<>> /\ freeList = <<>>
    /\ versionIndex = [i \in Ids |-> <<>>]
    /\ job = Idle /\ tx = NoTx /\ replay = <<>>
    /\ writes = 0 /\ restarts = 0
    /\ acked = {} /\ stored = FALSE /\ exposed = {} /\ logged = {} /\ removed = {} /\ sealed = NoIndex

-----------------------------------------------------------------------------
(* Pages. *)

Blank == [kind |-> "blank"]
IndexPage(snapshot) == [kind |-> "index", snapshot |-> snapshot]
VersionPage(i, v, n, c) ==
    [kind |-> "version", id |-> i, vec |-> v, num |-> n, created |-> c, deleted |-> v = Empty]
Entry(i, v) == [id |-> i, vec |-> v]

\* The entries readVectorPage finds: a version page passes for a vector page.
EntriesOf(page) ==
    CASE page.kind = "vectors" -> page.entries
      [] page.kind = "version" -> <<Entry(Phantom, Garbled)>>
      [] OTHER -> <<>>

\* The page AllocatePage returns, ...
Slot == IF freeList # <<>> THEN Last(freeList) ELSE size + 1

\* ... and the file it leaves: a page it adds is blank, unless the file was longer
\* than the header said, when the page keeps what a lost process wrote there.
Extended ==
    IF freeList # <<>> THEN file
    ELSE IF Len(file) > size THEN SubSeq(file, 1, size + 1)
    ELSE Append(file, Blank)

\* Mutant of FreeListAfter: the page stays on the list.
FreeListKeepingIt == freeList
FreeListAfter == IF freeList # <<>> THEN Front(freeList) ELSE freeList

\* A page is allocated and gets the given content.
Place(page) ==
    /\ file' = [Extended EXCEPT ![Slot] = page]
    /\ size' = IF freeList # <<>> THEN size ELSE size + 1
    /\ freeList' = FreeListAfter

\* writeVectorToPage on a page with entries adds one; its bytes lie on the data of those.
WithEntry(page, i, v) ==
    [kind |-> "vectors",
     entries |-> Append([k \in DOMAIN EntriesOf(page) |-> [EntriesOf(page)[k] EXCEPT !.vec = Garbled]],
                        Entry(i, v))]

StoreVector(i, v) ==
    /\ Place(WithEntry(Extended[Slot], i, v))
    /\ vectorPages' = [vectorPages EXCEPT ![i] = Slot]

\* storeVector fails on the metadata, whose page is allocated already.
StoreNothing ==
    /\ Place(Extended[Slot])
    /\ UNCHANGED vectorPages

\* Mutant of CoveredPages: the page count is the one read when the file was opened.
CoveredPagesUnrefreshed == headerPages
CoveredPages == size

\* Mutant of SizedHeader: the dimensions are written when the file is created only.
SizedHeaderUnrefreshed == headerSized
SizedHeader == sized

WriteHeader ==
    /\ headerPages' = CoveredPages
    /\ headerRoot' = root
    /\ headerSized' = SizedHeader

-----------------------------------------------------------------------------
(* The log. *)

\* Mutant of WalAppend: the buffer is flushed one entry late.
WalAppendFlushingLate(i, v) ==
    LET full == Append(walBuffer, Entry(i, v)) IN
    IF Len(full) > FlushAt
      THEN walFile' = walFile \o full /\ walBuffer' = <<>>
      ELSE walBuffer' = full /\ UNCHANGED walFile
WalAppend(i, v) ==
    LET full == Append(walBuffer, Entry(i, v)) IN
    IF Len(full) >= FlushAt
      THEN walFile' = walFile \o full /\ walBuffer' = <<>>
      ELSE walBuffer' = full /\ UNCHANGED walFile

\* Mutant of Flush: the entries stay in the buffer.
FlushNothing == UNCHANGED walVars
Flush == walFile' = walFile \o walBuffer /\ walBuffer' = <<>>

Truncate ==
    /\ walFile' = <<>>
    /\ walBuffer' = <<>>
    /\ logged' = {}

\* The database is open and nobody holds Nest.mu.
LockFree == status = "open" /\ job = Idle

-----------------------------------------------------------------------------
(* Nest.Store, under Nest.mu. *)

\* The first vector gives the database its dimensions.
Store(i, v) ==
    /\ LockFree
    /\ writes < MaxWrites
    /\ writes' = writes + 1
    /\ WalAppend(i, v)
    /\ sized' = TRUE
    /\ job' = [kind |-> "store", id |-> i, vec |-> v]
    /\ UNCHANGED <<pageVars, headerPages, headerRoot, headerSized, root, status, index, vectorPages, versionIndex, tx, replay,
                   restarts, history>>

\* The index takes the vector, then a page; if the page fails the ID leaves the index.
StoreApply ==
    /\ job.kind = "store"
    /\ \/ /\ job.vec \notin Oversized
          /\ index' = [index EXCEPT ![job.id] = job.vec]
          /\ StoreVector(job.id, job.vec)
          /\ job' = [job EXCEPT !.kind = "stored"]
          /\ UNCHANGED exposed
       \/ /\ job.vec \in Oversized
          /\ index' = [index EXCEPT ![job.id] = Absent]
          /\ StoreNothing
          /\ job' = Idle
          /\ exposed' = exposed \cup {job.id}
    /\ UNCHANGED <<headerVars, walVars, status, versionIndex, tx, replay, writes, restarts, acked,
                   stored, logged, removed, sealed>>

\* Entries are acknowledged.
Acknowledge(entries) ==
    /\ acked' = acked \cup entries
    /\ exposed' = IF root = 0 THEN exposed ELSE exposed \cup {e.id : e \in entries}

\* The header is written, the pages are synced and Store returns.
StoreHeader ==
    /\ job.kind = "stored"
    /\ WriteHeader
    /\ Acknowledge({Entry(job.id, job.vec)})
    /\ stored' = TRUE
    /\ job' = Idle
    /\ UNCHANGED <<pageVars, root, sized, walVars, status, index, vectorPages, versionIndex, tx, replay,
                   writes, restarts, logged, removed, sealed>>

-----------------------------------------------------------------------------
(* Tx.Commit after validation: the log, the version pages, then index and    *)
(* vector pages under Nest.mu.                                              *)

\* IDs are given out in the order of the calls here; module MVCC lets them cross.
CommitBegin(w) ==
    /\ status = "open" /\ tx = NoTx
    /\ writes < MaxWrites
    /\ writes' = writes + 1
    /\ tx' = [stage |-> "log", num |-> writes + 1, writes |-> w, todo |-> DOMAIN w]
    /\ removed' = removed \cup {i \in DOMAIN w : w[i] = Empty}
    /\ UNCHANGED <<pageVars, headerVars, walVars, status, index, vectorPages, versionIndex, job,
                   replay, restarts, acked, stored, exposed, logged, sealed>>

CommitLog(i) ==
    /\ tx.stage = "log" /\ i \in tx.todo
    /\ WalAppend(i, tx.writes[i])
    /\ logged' = logged \cup {i}
    /\ tx' = [tx EXCEPT !.todo = @ \ {i}]
    /\ UNCHANGED <<pageVars, headerVars, status, index, vectorPages, versionIndex, job, replay,
                   writes, restarts, acked, stored, exposed, removed, sealed>>

CommitFlush ==
    /\ tx.stage = "log" /\ tx.todo = {}
    /\ Flush
    /\ tx' = [tx EXCEPT !.stage = "versions", !.todo = DOMAIN tx.writes]
    /\ UNCHANGED <<pageVars, headerVars, status, index, vectorPages, versionIndex, job, replay,
                   writes, restarts, history>>

\* sortVersionChain: the newest first, by the numbers on the pages.
Sorted(chain, disk) ==
    LET order == CHOOSE p \in [DOMAIN chain -> DOMAIN chain] :
                     /\ IsInjective(p)
                     /\ \A j, k \in DOMAIN chain : j < k => disk[chain[p[j]]].num >= disk[chain[p[k]]].num
    IN  [k \in DOMAIN chain |-> chain[order[k]]]

\* StoreVersion: a page for the version, its chain sorted again.  A removal carries
\* the creator of the version it removes.  Metadata that does not fit fails the
\* commit once the page is allocated.
CommitVersion(i) ==
    /\ tx.stage = "versions" /\ i \in tx.todo
    /\ \/ /\ tx.writes[i] \notin Oversized
          /\ \E c \in IF tx.writes[i] = Empty THEN 1..tx.num ELSE {tx.num} :
                Place(VersionPage(i, tx.writes[i], tx.num, c))
          /\ versionIndex' = [versionIndex EXCEPT ![i] = Sorted(<<Slot>> \o @, file')]
          /\ tx' = [tx EXCEPT !.todo = @ \ {i}]
       \/ /\ tx.writes[i] \in Oversized
          /\ Place(Extended[Slot])
          /\ tx' = NoTx
          /\ UNCHANGED versionIndex
    /\ UNCHANGED <<headerVars, walVars, status, index, vectorPages, job, replay, writes, restarts,
                   history>>

\* updateIndexMVCC takes Nest.mu.
CommitLock ==
    /\ tx.stage = "versions" /\ tx.todo = {}
    /\ LockFree
    /\ job' = [kind |-> "commit"]
    /\ tx' = [tx EXCEPT !.stage = "index", !.todo = DOMAIN tx.writes]
    /\ UNCHANGED <<pageVars, headerVars, walVars, status, index, vectorPages, versionIndex, replay,
                   writes, restarts, history>>

CommitApply(i) ==
    /\ tx.stage = "index" /\ i \in tx.todo
    /\ IF tx.writes[i] = Empty
         THEN index' = [index EXCEPT ![i] = Absent] /\ UNCHANGED <<pageVars, vectorPages>>
         ELSE index' = [index EXCEPT ![i] = tx.writes[i]] /\ StoreVector(i, tx.writes[i])
    /\ tx' = [tx EXCEPT !.todo = @ \ {i}]
    /\ UNCHANGED <<headerVars, walVars, status, versionIndex, job, replay, writes, restarts, history>>

CommitHeader ==
    /\ tx.stage = "index" /\ tx.todo = {}
    /\ WriteHeader
    /\ Acknowledge({Entry(i, tx.writes[i]) : i \in {j \in DOMAIN tx.writes : tx.writes[j] # Empty}})
    /\ job' = Idle
    /\ tx' = NoTx
    /\ UNCHANGED <<pageVars, root, sized, walVars, status, index, vectorPages, versionIndex, replay,
                   writes, restarts, stored, logged, removed, sealed>>

-----------------------------------------------------------------------------
(* The WAL checkpoint, the collection of version pages, and Nest.Close. *)

CheckpointFlush ==
    /\ LockFree
    /\ Flush
    /\ job' = [kind |-> "checkpoint"]
    /\ UNCHANGED <<pageVars, headerVars, status, index, vectorPages, versionIndex, tx, replay, writes,
                   restarts, history>>

\* The pages are synced, then the log is emptied; the index stays in memory.
CheckpointTruncate ==
    /\ job.kind = "checkpoint"
    /\ Truncate
    /\ job' = Idle
    /\ UNCHANGED <<pageVars, headerVars, status, index, vectorPages, versionIndex, tx, replay, writes,
                   restarts, acked, stored, exposed, removed, sealed>>

\* Mutant of Collectable: the newest version of an ID goes as well.
CollectableAny(i, k, oldest) ==
    LET page == file[versionIndex[i][k]] IN page.deleted /\ page.created < oldest
\* GCVersionsOlderThan frees a deleted version created before oldest, the newest never.
Collectable(i, k, oldest) ==
    LET page == file[versionIndex[i][k]] IN k > 1 /\ page.deleted /\ page.created < oldest

\* The pages it frees, and what is left of a chain, in the order it had.
Collected(oldest) ==
    UNION {{versionIndex[i][k] : k \in {j \in DOMAIN versionIndex[i] : Collectable(i, j, oldest)}}
           : i \in Ids}

Ascending(S) ==
    CHOOSE s \in [1..Cardinality(S) -> S] : \A j, k \in DOMAIN s : j < k => s[j] < s[k]

Kept(i, oldest) ==
    LET places == Ascending({k \in DOMAIN versionIndex[i] : ~Collectable(i, k, oldest)})
    IN  [n \in DOMAIN places |-> versionIndex[i][places[n]]]

GarbageCollect(oldest) ==
    /\ LockFree
    /\ Collected(oldest) # {}
    /\ freeList' = freeList \o SetToSeq(Collected(oldest))
    /\ versionIndex' = [i \in Ids |-> Kept(i, oldest)]
    /\ UNCHANGED <<file, size, headerVars, walVars, status, index, vectorPages, job, tx, replay,
                   writes, restarts, history>>

HasVectors == \E n \in Names : index[n] # Absent

\* Close persists an index that is not empty, on its root page or on a new one.
\* Callers have finished their transactions.
Close ==
    /\ LockFree /\ tx = NoTx
    /\ job' = [kind |-> "persisted"]
    /\ \/ /\ HasVectors /\ root = 0
          /\ root' = Slot
          /\ Place(IndexPage(index))
       \/ /\ HasVectors /\ root # 0
          /\ file' = [file EXCEPT ![root] = IndexPage(index)]
          /\ UNCHANGED <<root, size, freeList>>
       \/ /\ ~HasVectors
          /\ UNCHANGED <<pageVars, root>>
    /\ exposed' = IF HasVectors THEN {i \in exposed : index[i] = Absent} ELSE exposed
    /\ UNCHANGED <<headerPages, headerRoot, headerSized, sized, walVars, status, index, vectorPages,
                   versionIndex, tx, replay, writes, restarts, acked, stored, logged, removed, sealed>>

CloseHeader ==
    /\ job.kind = "persisted"
    /\ WriteHeader
    /\ job' = [kind |-> "synced"]
    /\ UNCHANGED <<pageVars, root, sized, walVars, status, index, vectorPages, versionIndex, tx, replay,
                   writes, restarts, history>>

\* What a process leaves behind: nothing of its memory.
Forget ==
    /\ size' = 0 /\ root' = 0 /\ sized' = FALSE /\ index' = NoIndex
    /\ vectorPages' = [i \in Ids |-> 0]
    /\ walBuffer' = <<>> /\ freeList' = <<>>
    /\ versionIndex' = [i \in Ids |-> <<>>]
    /\ job' = Idle /\ tx' = NoTx /\ replay' = <<>>

\* The log is emptied and the files are closed.
CloseEnd ==
    /\ job.kind = "synced"
    /\ status' = "closed"
    /\ walFile' = <<>> /\ logged' = {}
    /\ sealed' = index
    /\ Forget
    /\ UNCHANGED <<file, headerPages, headerRoot, headerSized, writes, restarts, acked, stored, exposed,
                   removed>>

-----------------------------------------------------------------------------
(* Crash, and Open of an existing file. *)

Crash ==
    /\ status \in {"open", "replaying"}
    /\ status' = "down"
    /\ logged' = IF tx.stage = "log" THEN logged \ DOMAIN tx.writes ELSE logged
    /\ Forget
    /\ UNCHANGED <<diskVars, writes, restarts, acked, stored, exposed, removed, sealed>>

\* Mutant of PagesWith: the scan stops before the last page.
PagesWithoutLast(n) ==
    {p \in 1..(headerPages - 1) : \E k \in DOMAIN EntriesOf(file[p]) : EntriesOf(file[p])[k].id = n}
\* The pages the header covers that hold an entry for n.
PagesWith(n) ==
    {p \in 1..headerPages : \E k \in DOMAIN EntriesOf(file[p]) : EntriesOf(file[p])[k].id = n}

FirstVector(p, n) ==
    LET mine == {k \in DOMAIN EntriesOf(file[p]) : EntriesOf(file[p])[k].id = n}
    IN  EntriesOf(file[p])[Min(mine)].vec

\* rebuildIndexFromPages: index.Add takes the first entry of an ID and refuses the rest.
Rebuilt ==
    [n \in Names |->
        IF PagesWith(n) = {} \/ (n = Phantom /\ ~PhantomsReadable) THEN Absent
        ELSE FirstVector(Min(PagesWith(n)), n)]

\* Mutant of LoadedIndex: the persisted index is not looked for.
LoadedIndexRebuilt == Rebuilt
LoadedIndex == IF headerRoot # 0 THEN file[headerRoot].snapshot ELSE Rebuilt

\* The map of pages takes the last.
PageMap == [i \in Ids |-> IF PagesWith(i) = {} THEN 0 ELSE Max(PagesWith(i))]

\* DeserializeDBHeader refuses a header without dimensions.
OpenRefused ==
    /\ status \in {"down", "closed"}
    /\ restarts < MaxRestarts
    /\ restarts' = restarts + 1
    /\ ~headerSized
    /\ status' = "refused"
    /\ UNCHANGED <<diskVars, memoryVars, replay, writes, history>>

Open ==
    /\ status \in {"down", "closed", "refused"}
    /\ restarts < MaxRestarts
    /\ restarts' = restarts + 1
    /\ headerSized
    /\ status' = "replaying"
    /\ size' = headerPages /\ root' = headerRoot /\ sized' = TRUE
    /\ index' = LoadedIndex
    /\ vectorPages' = PageMap
    /\ replay' = walFile
    /\ UNCHANGED <<diskVars, walBuffer, freeList, versionIndex, job, tx, writes, history>>

\* applyWALEntry: an ID the index knows is skipped, whatever its vector.
ReplayOne ==
    /\ status = "replaying" /\ replay # <<>>
    /\ LET e == Head(replay) IN
       \/ index[e.id] # Absent /\ UNCHANGED <<pageVars, index, vectorPages>>
       \/ /\ index[e.id] = Absent /\ e.vec \notin Oversized
          /\ index' = [index EXCEPT ![e.id] = e.vec]
          /\ StoreVector(e.id, e.vec)
    /\ replay' = Tail(replay)
    /\ UNCHANGED <<headerVars, walVars, status, versionIndex, job, tx, writes, restarts, history>>

\* An entry whose metadata fits no page: Open returns the error, the log stays.
ReplayFails ==
    /\ status = "replaying" /\ replay # <<>>
    /\ index[Head(replay).id] = Absent /\ Head(replay).vec \in Oversized
    /\ status' = "refused"
    /\ file' = Extended
    /\ Forget
    /\ UNCHANGED <<headerPages, headerRoot, headerSized, walFile, writes, restarts, history>>

ReplayEnd ==
    /\ status = "replaying" /\ replay = <<>>
    /\ status' = "open"
    /\ Truncate
    /\ UNCHANGED <<pageVars, headerVars, index, vectorPages, versionIndex, job, tx, replay, writes,
                   restarts, acked, stored, exposed, removed, sealed>>

-----------------------------------------------------------------------------
Commit ==
    \/ \E w \in Writes : CommitBegin(w)
    \/ \E i \in Ids : CommitLog(i) \/ CommitVersion(i) \/ CommitApply(i)
    \/ CommitFlush \/ CommitLock \/ CommitHeader

Next ==
    \/ \E i \in Direct, v \in Vectors : Store(i, v)
    \/ StoreApply \/ StoreHeader
    \/ Commit
    \/ CheckpointFlush \/ CheckpointTruncate
    \/ \E oldest \in 1..MaxWrites : GarbageCollect(oldest)
    \/ Close \/ CloseHeader \/ CloseEnd
    \/ Crash \/ OpenRefused \/ Open \/ ReplayOne \/ ReplayFails \/ ReplayEnd

Spec == Init /\ [][Next]_vars

-----------------------------------------------------------------------------
(* Properties. *)

Stored(p) == {EntriesOf(file[p])[k] : k \in DOMAIN EntriesOf(file[p])}
VersionPages == UNION {{versionIndex[i][k] : k \in DOMAIN versionIndex[i]} : i \in Ids}
VectorPagesInUse == {vectorPages[i] : i \in Ids} \ {0}
FreePages == {freeList[k] : k \in DOMAIN freeList}

\* Page numbers lie in the file, and headers, logs and chains have their types: what
\* Open reads from disk is always something a process has written there whole.
TypeOK ==
    /\ headerPages \in 0..Len(file) /\ headerRoot \in 0..headerPages
    /\ headerRoot # 0 => file[headerRoot].kind = "index"
    /\ size \in 0..Len(file) /\ root \in 0..size
    /\ status \in {"open", "replaying", "down", "closed", "refused"}
    /\ index \in [Names -> Vectors \cup {Absent, Empty, Garbled}]
    /\ vectorPages \in [Ids -> 0..size]
    /\ VersionPages \cup FreePages \subseteq 1..size
    /\ Len(walBuffer) < FlushAt
    /\ \A e \in acked : e.id \in Ids /\ e.vec \in Vectors \ Oversized

\* No page serves two masters: the version pages, the pages the open database reads
\* its vectors from, the index and the free list are apart, and no page is twice on
\* the list or in two places of a chain (AllocatePage, FreePage, GCVersionsOlderThan).
PagesApart ==
    /\ VersionPages \cap VectorPagesInUse = {}
    /\ FreePages \cap (VersionPages \cup VectorPagesInUse \cup {root}) = {}
    /\ root \notin VersionPages \cup VectorPagesInUse
    /\ \A j, k \in DOMAIN freeList : j # k => freeList[j] # freeList[k]
    /\ \A i, j \in Ids : \A k \in DOMAIN versionIndex[i], l \in DOMAIN versionIndex[j] :
          versionIndex[i][k] = versionIndex[j][l] => i = j /\ k = l

\* A collection leaves the newest version of every ID on disk, at the front of its
\* chain (storage_mvcc.go:111 "Guarantees to keep at least one version per vector ID").
NewestVersionKept ==
    [][status = "open" /\ status' = "open" =>
          \A i \in Ids : versionIndex[i] # <<>> =>
              /\ versionIndex'[i] # <<>>
              /\ file'[Head(versionIndex'[i])].num >= file[Head(versionIndex[i])].num]_vars

\* Every vector Store or Commit has acknowledged sits intact in a page the header on
\* disk covers, whatever crashed, was collected, reused or replayed since.
AcknowledgedOnDisk ==
    \A e \in acked : \E p \in 1..headerPages : e \in Stored(p)

\* Every acknowledged ID that nobody removed is in the index Open loads or rebuilds, at
\* any moment the process may end, but for two kinds: those acknowledged after some
\* Close had persisted an index, until the next Close (INTEGRATION_SUMMARY.md:95 has "WAL
\* ensures no data loss between persists"), and those an update has taken from the index
\* before it failed.
AcknowledgedFound ==
    \A e \in acked : e.id \notin removed \cup exposed => LoadedIndex[e.id] # Absent

\* Open is refused for one of two reasons only: the log holds an entry whose metadata fits
\* no page; or the database was created without dimensions, "auto-detected from the first
\* insertion" (types.go:64), and no Store has ever succeeded.  Commits do not count: what
\* they alone have written, and even closed, is never opened again.
RefusedUnsizedOrOversized ==
    status = "refused" =>
        \/ \E k \in DOMAIN walFile : walFile[k].vec \in Oversized
        \/ ~headerSized /\ ~stored

\* Past its log phase, what a commit has logged is in the log's file until the log is
\* emptied: a crash before its pages are written finds it there, and replay restores
\* every ID of it.
CommittedIsLogged ==
    tx.stage # "log" => \A i \in logged : \E k \in DOMAIN walFile : walFile[k].id = i

\* After a Close that found the index not empty, Open finds exactly that index, and
\* an empty log.
CleanReopenKeepsIndex ==
    status = "closed" /\ sealed # NoIndex => LoadedIndex = sealed /\ walFile = <<>>
=============================================================================
