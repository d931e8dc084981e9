----------------------------- MODULE Compaction -----------------------------
(***************************************************************************)
(* Nest.Compact (compact.go, magpie.go): the live vectors go to a new file, *)
(* the open one is closed and renamed to .bak, the new one is renamed into  *)
(* its place and opened.  It holds Nest.mu throughout; a commit between its *)
(* log and index phases does not, and the version pages (storage_mvcc.go)   *)
(* stay with the Storage that was closed.  Any step on the files may fail,  *)
(* and the process may end between any two.                                 *)
(*                                                                         *)
(* A file is the IDs its vector pages hold and the persisted index, if any. *)
(* Module Durability takes pages, log buffer and recovery apart; here Store,*)
(* each phase of a commit, and Open are single steps, and a transaction     *)
(* writes one ID.                                                           *)
(***************************************************************************)
EXTENDS Integers, Sequences, FiniteSets, SequencesExt

CONSTANTS
    Ids,             \* vector IDs
    Missing,         \* "no such file"
    NoRoot,          \* "no index was persisted in this file"
    MaxWrites,       \* bound: calls of Store and Commit
    MaxCompactions,  \* bound: calls of Compact
    MaxFaults,       \* bound: renames, openings and removals of files that fail
    MaxCrashes       \* bound: crashes

FileTypes == [vectors : SUBSET Ids, root : (SUBSET Ids) \cup {NoRoot}]

ASSUME ConstantsAssumption ==
    /\ \A f \in FileTypes : f # Missing
    /\ \A S \in SUBSET Ids : S # NoRoot
    /\ MaxWrites \in Nat /\ MaxCompactions \in Nat /\ MaxFaults \in Nat /\ MaxCrashes \in Nat

VARIABLES
    path,         \* the database file
    bak,          \* the file .bak
    wal,          \* IDs of the entries in the log's file
    walBuffer,    \* IDs of the entries in WAL.buffer
    status,       \* "open" or "down"
    handle,       \* whether Nest.storage and Nest.file are "open" or "closed"
    versions,     \* the same of the Storage that MVCCStorage has had since Open
    index,        \* the IDs in Nest.index
    uncovered,    \* IDs whose pages replay has written and no header covers
    chained,      \* IDs whose newest version in memory is one that can be removed
    versionIndex, \* MVCCStorage.versionIndex, newest first
    free,         \* length of the free list of MVCCStorage's Storage
    job,          \* what Compact, the holder of Nest.mu, is about to do
    tx,           \* the transaction that holds the commit lock
    writes,       \* calls of Store and Commit so far
    compactions,  \* calls of Compact so far
    faults,       \* failures so far
    crashes,      \* crashes so far
    acked,        \* history: IDs acknowledged, neither removed nor forgotten by an Open since
    orphaned,     \* history: Open has made an empty database while .bak holds the data
    clobbered,    \* history: IDs of such a .bak that another one was renamed over
    purged        \* history: IDs neither live nor logged when a compaction ended, nor written since

files == <<path, bak>>
logs == <<wal, walBuffer>>
memory == <<index, uncovered, chained>>
versionVars == <<versions, versionIndex, free>>
bounds == <<writes, compactions, faults, crashes>>
history == <<acked, orphaned, clobbered, purged>>
vars == <<files, logs, status, handle, memory, versionVars, job, tx, bounds, history>>

File(vectors, root) == [vectors |-> vectors, root |-> root]
Idle == [stage |-> "none"]
NoTx == [stage |-> "none"]

Init ==
    /\ path = File({}, NoRoot) /\ bak = Missing
    /\ wal = {} /\ walBuffer = {}
    /\ status = "open" /\ handle = "open" /\ versions = "open"
    /\ index = {} /\ uncovered = {} /\ chained = {}
    /\ versionIndex = [i \in Ids |-> <<>>] /\ free = 0
    /\ job = Idle /\ tx = NoTx
    /\ writes = 0 /\ compactions = 0 /\ faults = 0 /\ crashes = 0
    /\ acked = {} /\ orphaned = FALSE /\ clobbered = {} /\ purged = {}

\* Mutant of LockFree: Compact does not hold Nest.mu.
LockFreeInCompact == status = "open"
LockFree == status = "open" /\ job = Idle

\* The index Open loads, or rebuilds from the pages.
Loaded(f) == IF f.root = NoRoot THEN f.vectors ELSE f.root

\* The IDs Open would find now: a missing file is a new database.
Findable == IF path = Missing THEN {} ELSE Loaded(path) \cup wal

\* A page is taken from the free list if Nest.storage is MVCCStorage's Storage.
PageTaken == free' = IF versions = "open" /\ free > 0 THEN free - 1 ELSE free

\* A header is written: it covers all pages.
HeaderWritten(added) ==
    /\ path' = [path EXCEPT !.vectors = @ \cup uncovered \cup added]
    /\ uncovered' = {}

-----------------------------------------------------------------------------
(* Nest.Store, under Nest.mu. *)

Write(i) ==
    /\ writes < MaxWrites
    /\ writes' = writes + 1
    /\ purged' = purged \ {i}

\* With the storage closed the log takes the entry, storeVector fails, and the ID
\* leaves the index even if it was there before.
Store(i) ==
    /\ LockFree
    /\ Write(i)
    /\ walBuffer' = walBuffer \cup {i}
    /\ \/ /\ handle = "open"
          /\ HeaderWritten({i})
          /\ PageTaken
          /\ index' = index \cup {i}
          /\ chained' = chained \cup {i}
          /\ acked' = acked \cup {i}
       \/ /\ handle = "closed"
          /\ index' = index \ {i}
          /\ acked' = acked \ {i}
          /\ UNCHANGED <<path, uncovered, chained, free>>
    /\ UNCHANGED <<bak, wal, status, handle, versions, versionIndex, job, tx, compactions, faults,
                   crashes, orphaned, clobbered>>

-----------------------------------------------------------------------------
(* Tx.Commit.  Its log and version phases do not take Nest.mu. *)

CommitLog(i, kind) ==
    /\ status = "open" /\ tx = NoTx
    /\ kind = "remove" => i \in chained
    /\ Write(i)
    /\ wal' = wal \cup walBuffer \cup {i}
    /\ walBuffer' = {}
    /\ tx' = [stage |-> "versions", id |-> i, kind |-> kind]
    /\ UNCHANGED <<files, status, handle, memory, versionVars, job, compactions, faults, crashes,
                   acked, orphaned, clobbered>>

\* makeVisibleMVCC: the version in memory, then a page for it.  A closed Storage cannot
\* grow: the commit is refused unless its free list has a page.
CommitAllocate ==
    /\ tx.stage = "versions"
    /\ chained' = IF tx.kind = "store" THEN chained \cup {tx.id} ELSE chained \ {tx.id}
    /\ \/ /\ versions = "closed" /\ free = 0
          /\ tx' = NoTx
       \/ /\ ~(versions = "closed" /\ free = 0)
          /\ tx' = [tx EXCEPT !.stage = "page"]
    /\ free' = IF free > 0 THEN free - 1 ELSE free
    /\ UNCHANGED <<files, logs, status, handle, index, uncovered, versions, versionIndex, job, bounds,
                   history>>

CommitVersion ==
    /\ tx.stage = "page"
    /\ versions = "open"
    /\ versionIndex' = [versionIndex EXCEPT ![tx.id] = <<tx.kind>> \o @]
    /\ tx' = [tx EXCEPT !.stage = "index"]
    /\ UNCHANGED <<files, logs, status, handle, memory, versions, free, job, bounds, history>>

\* Mutant of CommitLock: the index phase does not wait for Nest.mu.
CommitLockIgnored == status = "open"
CommitLock == LockFree

\* updateIndexMVCC.  With the storage closed the index is changed and the commit fails.
CommitIndex ==
    /\ tx.stage = "index"
    /\ CommitLock
    /\ index' = IF tx.kind = "store" THEN index \cup {tx.id} ELSE index \ {tx.id}
    /\ IF handle = "open"
         THEN HeaderWritten(IF tx.kind = "store" THEN {tx.id} ELSE {})
         ELSE UNCHANGED <<path, uncovered>>
    /\ IF handle = "open" /\ tx.kind = "store" THEN PageTaken ELSE UNCHANGED free
    /\ acked' = IF tx.kind = "remove" THEN acked \ {tx.id}
                ELSE IF handle = "open" THEN acked \cup {tx.id} ELSE acked
    /\ purged' = purged \ {tx.id}
    /\ tx' = NoTx
    /\ UNCHANGED <<bak, logs, status, handle, chained, versions, versionIndex, job, bounds, orphaned,
                   clobbered>>

-----------------------------------------------------------------------------
(* The WAL checkpoint, the collection of versions, Close. *)

\* Syncing a closed Storage does nothing.
Checkpoint ==
    /\ LockFree
    /\ wal \cup walBuffer # {}
    /\ wal' = {} /\ walBuffer' = {}
    /\ UNCHANGED <<files, status, handle, memory, versionVars, job, tx, bounds, history>>

\* Removal marks that are not the newest version of their ID; no transaction is open.
Collectable(i) == {k \in DOMAIN versionIndex[i] : k > 1 /\ versionIndex[i][k] = "remove"}

GarbageCollect ==
    /\ LockFree /\ tx = NoTx
    /\ versions = "open"
    /\ \E i \in Ids : Collectable(i) # {}
    /\ free' = free + FoldFunction(+, 0, [i \in Ids |-> Cardinality(Collectable(i))])
    /\ versionIndex' = [i \in Ids |->
          IF versionIndex[i] = <<>> THEN <<>>
          ELSE <<Head(versionIndex[i])>> \o SelectSeq(Tail(versionIndex[i]), LAMBDA v : v = "store")]
    /\ UNCHANGED <<files, logs, status, handle, memory, versions, job, tx, bounds, history>>

\* What a process leaves behind of its memory.
Forget ==
    /\ status' = "down" /\ handle' = "open" /\ versions' = "open"
    /\ walBuffer' = {}
    /\ index' = {} /\ uncovered' = {} /\ chained' = {}
    /\ versionIndex' = [i \in Ids |-> <<>>] /\ free' = 0
    /\ job' = Idle /\ tx' = NoTx

\* With the storage closed Close fails or panics, and the process ends without it.
Close ==
    /\ LockFree /\ tx = NoTx
    /\ \/ /\ handle = "open"
          /\ path' = File(path.vectors \cup uncovered, IF index = {} THEN path.root ELSE index)
          /\ wal' = {}
       \/ /\ handle = "closed"
          /\ UNCHANGED <<path, wal>>
    /\ Forget
    /\ UNCHANGED <<bak, bounds, history>>

-----------------------------------------------------------------------------
(* CompactInternal, one file operation at a time. *)

Fault == faults < MaxFaults /\ faults' = faults + 1

\* Mutant of LiveVectors: the new file gets what the pages hold.
LiveVectorsOfPages == index \cup IF path = Missing THEN {} ELSE path.vectors
LiveVectors == index

\* The temporary file is complete: pages, index, header, sync.  A failure before that
\* removes it and changes nothing, which is no step.
CompactTmp ==
    /\ LockFree
    /\ compactions < MaxCompactions
    /\ compactions' = compactions + 1
    /\ job' = [stage |-> "close", tmp |-> File(LiveVectors, LiveVectors),
               found |-> Findable \cap index]
    /\ UNCHANGED <<files, logs, status, handle, memory, versionVars, tx, writes, faults, crashes,
                   history>>

\* Mutant of ClosedVersions: MVCCStorage has a Storage of its own.
ClosedVersionsNot == versions
ClosedVersions == "closed"

CompactClose ==
    /\ job.stage = "close"
    /\ handle' = "closed" /\ versions' = ClosedVersions
    /\ job' = [job EXCEPT !.stage = "backup"]
    /\ UNCHANGED <<files, logs, status, memory, versionIndex, free, tx, bounds, history>>

\* Renaming the old file to .bak, over whatever has that name.
CompactBackup ==
    /\ job.stage = "backup"
    /\ \/ /\ path # Missing
          /\ bak' = path /\ path' = Missing
          /\ job' = [job EXCEPT !.stage = "install"]
          /\ orphaned' = FALSE
          /\ clobbered' = IF orphaned THEN clobbered \cup bak.vectors ELSE clobbered
          /\ UNCHANGED faults
       \/ /\ path = Missing \/ Fault
          /\ path = Missing => UNCHANGED faults
          /\ job' = Idle
          /\ UNCHANGED <<files, orphaned, clobbered>>
    /\ UNCHANGED <<logs, status, handle, memory, versionVars, tx, writes, compactions, crashes, acked,
                   purged>>

CompactInstall ==
    /\ job.stage = "install"
    /\ \/ /\ path' = job.tmp
          /\ job' = [job EXCEPT !.stage = "reopen"]
          /\ UNCHANGED <<bak, faults>>
       \/ /\ Fault
          /\ path' = bak /\ bak' = Missing
          /\ job' = Idle
       \/ /\ faults + 2 <= MaxFaults
          /\ faults' = faults + 2
          /\ job' = Idle
          /\ UNCHANGED files
    /\ UNCHANGED <<logs, status, handle, memory, versionVars, tx, writes, compactions, crashes,
                   history>>

\* Nest.storage, the header, the index and the page map are the new ones.
CompactReopen ==
    /\ job.stage = "reopen"
    /\ \/ /\ handle' = "open"
          /\ index' = job.tmp.root
          /\ uncovered' = {}
          /\ job' = [job EXCEPT !.stage = "unlink"]
          /\ purged' = purged \cup (Ids \ (index \cup wal \cup walBuffer))
          /\ UNCHANGED faults
       \/ /\ Fault
          /\ job' = Idle
          /\ UNCHANGED <<handle, index, uncovered, purged>>
    /\ UNCHANGED <<files, logs, status, chained, versionVars, tx, writes, compactions, crashes, acked,
                   orphaned, clobbered>>

\* Errors of the removal are ignored.
CompactUnlink ==
    /\ job.stage = "unlink"
    /\ \/ bak' = Missing /\ UNCHANGED faults
       \/ Fault /\ UNCHANGED bak
    /\ job' = Idle
    /\ UNCHANGED <<path, logs, status, handle, memory, versionVars, tx, writes, compactions, crashes,
                   history>>

-----------------------------------------------------------------------------
(* The end of the process, and Open. *)

Crash ==
    /\ status = "open"
    /\ crashes < MaxCrashes
    /\ crashes' = crashes + 1
    /\ Forget
    /\ UNCHANGED <<files, wal, writes, compactions, faults, history>>

\* A commit whose page came before the Storage was closed, or from its free list, and a
\* collection that reads version pages, meet a nil mapping and end the process.
Panic ==
    /\ status = "open" /\ versions = "closed"
    /\ \/ tx.stage = "page"
       \/ LockFree /\ \E i \in Ids : versionIndex[i] # <<>>
    /\ Forget
    /\ UNCHANGED <<files, wal, bounds, history>>

\* Replay stores the IDs the index does not know and empties the log.
OpenExisting ==
    /\ status = "down"
    /\ path # Missing
    /\ status' = "open"
    /\ index' = Findable
    /\ uncovered' = wal \ Loaded(path)
    /\ wal' = {}
    /\ acked' = {i \in acked : i \in Findable \/ (orphaned /\ i \in bak.vectors)}
    /\ UNCHANGED <<files, walBuffer, handle, chained, versionVars, job, tx, bounds, orphaned,
                   clobbered, purged>>

\* os.O_CREATE: a new database; the log is kept and not read.
OpenNew ==
    /\ status = "down"
    /\ path = Missing
    /\ status' = "open"
    /\ path' = File({}, NoRoot)
    /\ orphaned' = TRUE
    /\ UNCHANGED <<bak, logs, handle, memory, versionVars, job, tx, bounds, acked, clobbered, purged>>

Compact == CompactTmp \/ CompactClose \/ CompactBackup \/ CompactInstall \/ CompactReopen \/ CompactUnlink

Next ==
    \/ \E i \in Ids : Store(i)
    \/ \E i \in Ids, kind \in {"store", "remove"} : CommitLog(i, kind)
    \/ CommitAllocate \/ CommitVersion \/ CommitIndex
    \/ Checkpoint \/ GarbageCollect \/ Close
    \/ Compact
    \/ Crash \/ Panic \/ OpenExisting \/ OpenNew

Spec == Init /\ [][Next]_vars

-----------------------------------------------------------------------------
(* Properties. *)

\* A persisted index names only IDs whose vectors are in the same file; the storage is
\* closed only inside Compact or after one has failed; MVCCStorage's Storage is never
\* open when Nest.storage is closed.
TypeOK ==
    /\ path \in FileTypes \cup {Missing} /\ bak \in FileTypes \cup {Missing}
    /\ \A f \in {path, bak} \ {Missing} : f.root # NoRoot => f.root \subseteq f.vectors
    /\ wal \subseteq Ids /\ walBuffer \subseteq Ids
    /\ handle = "closed" => versions = "closed"
    /\ index \subseteq Ids /\ uncovered \subseteq Ids /\ chained \subseteq Ids
    /\ orphaned => bak # Missing
    /\ job.stage \in {"install", "reopen", "unlink"} => bak # Missing

\* At every step of a compaction a crash loses nothing a crash before it would have
\* kept: the next Open finds every live vector that was findable when it began.  The one
\* exception is between the two renames, when they are all in .bak (or the log).
CrashLosesNothing ==
    job # Idle =>
        IF job.stage = "install"
          THEN path = Missing /\ job.found \subseteq Loaded(bak) \cup wal
          ELSE job.found \subseteq Findable

\* Whatever compactions have failed, wherever the process has ended, and though commits
\* and stores ran between and beside them: an acknowledged ID is in the pages of the
\* database file; in those of .bak if the file is missing, or was when it was last
\* opened; or it was in such a .bak that a later compaction has renamed a file over.
AcknowledgedSurvive ==
    \A i \in acked \ clobbered :
        \/ path # Missing /\ i \in path.vectors
        \/ bak # Missing /\ (path = Missing \/ orphaned) /\ i \in bak.vectors

\* A vector removed before a compaction does not come back, if the log has forgotten it
\* and nobody wrote it again: neither pages nor index of the new file have it, in this
\* session or a later one.
PurgedStayAway ==
    \A i \in purged :
        /\ i \notin index
        /\ path # Missing => i \notin Findable \cup path.vectors
=============================================================================
