-------------------------------- MODULE MVCC --------------------------------
(***************************************************************************)
(* Version chains, transactions and their commit protocol: MVCCManager and *)
(* TxManager (mvcc.go), Tx (transaction.go), and the two operations of Nest *)
(* that reach the same chains without a transaction: Nest.Store and         *)
(* Nest.GarbageCollect (magpie.go).                                        *)
(*                                                                         *)
(* A member of Txs is one Tx handle, used once, as in the code; a member of *)
(* Storers is one call of Nest.Store.  A step is a piece of code that runs  *)
(* under one lock or touches one atomic word.                              *)
(***************************************************************************)
EXTENDS Integers, Sequences, FiniteSets

CONSTANTS
    Txs,            \* Tx handles
    Storers,        \* calls of Nest.Store
    Ids,            \* vector IDs
    ReadIds,        \* the IDs Tx.Get is called on
    WritableIds,    \* the IDs Tx.Store is called on
    DirectIds,      \* the IDs Nest.Store writes
    RemovableIds,   \* the IDs Tx.Remove is called on
    Faults,         \* the disk writes that may fail: "wal", "version", "index"
    MaxVersions     \* bound: a failed Commit is retried while its chains are shorter

\* An ID is a 64-bit number.
ASSUME ConstantsAssumption ==
    /\ Txs \cap Storers = {}
    /\ IsFiniteSet(Ids)
    /\ ReadIds \subseteq Ids
    /\ WritableIds \subseteq Ids
    /\ DirectIds \subseteq Ids
    /\ RemovableIds \subseteq Ids
    /\ Faults \subseteq {"wal", "version", "index"}
    /\ MaxVersions \in Nat

Procs == Txs \cup Storers

\* IDs that only transactions write, and that they never remove.
PlainIds == Ids \ (DirectIds \cup RemovableIds)

VARIABLES
    txIDCounter,      \* MVCCManager.txIDCounter
    lastCommittedTx,  \* MVCCManager.lastCommittedTx
    versionChains,    \* MVCCManager.versionChains, newest first
    activeTxs,        \* MVCCManager.activeTxs
    pc,               \* where a Tx handle or a Nest.Store call stands
    id,               \* MVCCTransaction.ID, 0 before it is allocated
    snap,             \* MVCCTransaction.SnapshotTxID
    readSet,          \* MVCCTransaction.ReadSet, 0 where nothing was read
    writeSet,         \* MVCCTransaction.WriteSet, Absent where nothing is written
    pending,          \* the part of the write set makeVisibleMVCC has still to install
    current,          \* the local variable of CommitTx's compare-and-swap loop
    commitLock,       \* TxManager.commitLock: its holder, or nobody
    nestLock,         \* Nest.mu held for writing across steps: its holder, or nobody
    index,            \* whose vector Nest.index holds for an ID, if any
    vectorCount,      \* header.VectorCount
    early             \* history: who had an ID up to the snapshot, and was unfinished, when it was taken

begunVars == <<txIDCounter, id, snap, early>>
txVars == <<readSet, writeSet>>
indexVars == <<index, vectorCount>>
vars == <<txIDCounter, lastCommittedTx, versionChains, activeTxs, pc, id, snap,
          readSet, writeSet, pending, current, commitLock, nestLock,
          index, vectorCount, early>>

-----------------------------------------------------------------------------
(* Versions and chains. *)

\* An MVCCVersion; vec is Vector # nil.
Versions == [ver : Nat, created : Nat, deleted : Nat, vec : BOOLEAN]

\* "No version": a nil *MVCCVersion.
Absent == [ver |-> 0, created |-> 0, deleted |-> 0, vec |-> FALSE]

NewVersion(n) == [ver |-> n, created |-> n, deleted |-> 0, vec |-> TRUE]

\* The marker Remove writes for an ID whose visible version was created by c.
DeleteMarker(n, c) == [ver |-> n, created |-> c, deleted |-> n, vec |-> FALSE]

IsMarker(v) == v.deleted # 0 /\ ~v.vec

Least(S) == CHOOSE k \in S : \A j \in S : k <= j

\* Mutant of IsVisible: the snapshot is not looked at.
IsVisibleIgnoringSnapshot(v, s) == v.deleted = 0 \/ v.deleted > s
IsVisible(v, s) == v.created <= s /\ (v.deleted = 0 \/ v.deleted > s)

VisibleAt(chain, s) == {k \in DOMAIN chain : IsVisible(chain[k], s)}

\* The version a reader with snapshot s finds: the first visible one.
GetVisibleVersion(chain, s) ==
    IF VisibleAt(chain, s) = {} THEN Absent ELSE chain[Least(VisibleAt(chain, s))]

GetLatestVersion(chain) == IF chain = <<>> THEN Absent ELSE Head(chain)

CollectedAt(chain, m) == {k \in DOMAIN chain : chain[k].created <= m}

\* Mutant of GcVersionChain: the version at the boundary goes too.
GcVersionChainDroppingIt(chain, m) ==
    IF CollectedAt(chain, m) = {} THEN chain
    ELSE SubSeq(chain, 1, Least(CollectedAt(chain, m)) - 1)

\* What a collection at minSnapshot m leaves of a chain: everything down to the
\* first version created at or before m, that one included.
GcVersionChain(chain, m) ==
    IF CollectedAt(chain, m) = {} THEN chain
    ELSE SubSeq(chain, 1, Least(CollectedAt(chain, m)))

Written(p) == {i \in Ids : writeSet[p][i] # Absent}

\* Mutant of MinSnapshot: open transactions are not looked at.
MinSnapshotIgnoringActive == lastCommittedTx
MinSnapshot == Least({lastCommittedTx} \cup {snap[p] : p \in activeTxs})

-----------------------------------------------------------------------------
Init ==
    /\ txIDCounter = 0
    /\ lastCommittedTx = 0
    /\ versionChains = [i \in Ids |-> <<>>]
    /\ activeTxs = {}
    /\ pc = [p \in Procs |-> IF p \in Txs THEN "begin" ELSE "store"]
    /\ id = [p \in Procs |-> 0]
    /\ snap = [p \in Procs |-> 0]
    /\ readSet = [p \in Procs |-> [i \in Ids |-> 0]]
    /\ writeSet = [p \in Procs |-> [i \in Ids |-> Absent]]
    /\ pending = [p \in Procs |-> {}]
    /\ current = [p \in Procs |-> 0]
    /\ commitLock = {}
    /\ nestLock = {}
    /\ index = [i \in Ids |-> {}]
    /\ vectorCount = 0
    /\ early = [p \in Procs |-> {}]

Goto(p, stage) == pc' = [pc EXCEPT ![p] = stage]

Unfinished(p) == pc[p] \notin {"done", "aborted", "failed"}

-----------------------------------------------------------------------------
(* BeginTx: three steps, no lock around them. *)

AllocateID(p) ==
    /\ pc[p] = "begin"
    /\ txIDCounter' = txIDCounter + 1
    /\ id' = [id EXCEPT ![p] = txIDCounter + 1]
    /\ Goto(p, "numbered")
    /\ UNCHANGED <<lastCommittedTx, versionChains, activeTxs, snap, txVars, pending,
                   current, commitLock, nestLock, indexVars, early>>

\* Mutant of LoadSnapshot: the snapshot excludes the last committed transaction.
LoadSnapshotBefore(p) ==
    /\ pc[p] = "numbered"
    /\ snap' = [snap EXCEPT ![p] = lastCommittedTx - 1]
    /\ early' = [early EXCEPT ![p] =
                    {q \in Procs : id[q] \in 1..lastCommittedTx /\ Unfinished(q)}]
    /\ Goto(p, "snapped")
    /\ UNCHANGED <<txIDCounter, lastCommittedTx, versionChains, activeTxs, id, txVars,
                   pending, current, commitLock, nestLock, indexVars>>

LoadSnapshot(p) ==
    /\ pc[p] = "numbered"
    /\ snap' = [snap EXCEPT ![p] = lastCommittedTx]
    /\ early' = [early EXCEPT ![p] =
                    {q \in Procs : id[q] \in 1..lastCommittedTx /\ Unfinished(q)}]
    /\ Goto(p, "snapped")
    /\ UNCHANGED <<txIDCounter, lastCommittedTx, versionChains, activeTxs, id, txVars,
                   pending, current, commitLock, nestLock, indexVars>>

\* A Tx is then in its client's hands; Nest.Store goes on to its version.
Register(p) ==
    /\ pc[p] = "snapped"
    /\ activeTxs' = activeTxs \cup {p}
    /\ \/ p \in Txs /\ Goto(p, "active") /\ UNCHANGED writeSet
       \/ /\ p \in Storers
          /\ Goto(p, "installing")
          /\ writeSet' = [writeSet EXCEPT ![p] =
                 [i \in Ids |-> IF i \in pending[p] THEN NewVersion(id[p]) ELSE Absent]]
    /\ UNCHANGED <<begunVars, lastCommittedTx, versionChains, readSet, pending,
                   current, commitLock, nestLock, indexVars>>

-----------------------------------------------------------------------------
(* The operations of an open transaction. *)

SharedVars == <<begunVars, lastCommittedTx, versionChains, pending, current,
                commitLock, nestLock, indexVars>>

\* A version found is remembered in the read set.  A Get that is answered from the
\* write set, or that finds nothing, leaves no trace.
Get(t, i) ==
    /\ pc[t] = "active"
    /\ writeSet[t][i] = Absent
    /\ LET v == GetVisibleVersion(versionChains[i], snap[t]) IN
       /\ v # Absent
       /\ readSet' = [readSet EXCEPT ![t][i] = v.ver]
    /\ UNCHANGED <<SharedVars, pc, activeTxs, writeSet>>

Store(t, i) ==
    /\ pc[t] = "active"
    /\ writeSet' = [writeSet EXCEPT ![t][i] = NewVersion(id[t])]
    /\ UNCHANGED <<SharedVars, pc, activeTxs, readSet>>

\* A pending write keeps its vector and is marked deleted; otherwise a marker is
\* written, unless there is nothing to remove.
Remove(t, i) ==
    /\ pc[t] = "active"
    /\ \/ /\ writeSet[t][i] # Absent
          /\ writeSet' = [writeSet EXCEPT ![t][i].deleted = id[t]]
       \/ LET v == GetVisibleVersion(versionChains[i], snap[t]) IN
          /\ writeSet[t][i] = Absent
          /\ v # Absent
          /\ writeSet' = [writeSet EXCEPT ![t][i] = DeleteMarker(id[t], v.created)]
    /\ UNCHANGED <<SharedVars, pc, activeTxs, readSet>>

\* rollbackMVCC, which is also the way out of a commit that fails.
Abort(t) ==
    /\ Goto(t, "aborted")
    /\ activeTxs' = activeTxs \ {t}
    /\ writeSet' = [writeSet EXCEPT ![t] = [i \in Ids |-> Absent]]
    /\ readSet' = [readSet EXCEPT ![t] = [i \in Ids |-> 0]]
    /\ UNCHANGED <<begunVars, lastCommittedTx, current, nestLock, indexVars>>

Rollback(t) ==
    /\ pc[t] \in {"active", "indexFailed"}
    /\ Abort(t)
    /\ UNCHANGED <<versionChains, pending, commitLock>>

-----------------------------------------------------------------------------
(* commitMVCC. *)

\* A Commit whose index update failed leaves the handle active, so it can be
\* called again.
Commit(t) ==
    /\ \/ pc[t] = "active"
       \/ /\ pc[t] = "indexFailed"
          /\ \A i \in Written(t) : Len(versionChains[i]) < MaxVersions
    /\ Goto(t, "committing")
    /\ UNCHANGED <<begunVars, lastCommittedTx, versionChains, activeTxs, txVars, pending,
                   current, commitLock, nestLock, indexVars>>

\* ValidateTransaction: an ID that was read conflicts when its latest version is
\* another one and newer than the snapshot, an ID written blindly when its
\* latest version is newer than the snapshot.
Conflict(t, i) ==
    LET latest == GetLatestVersion(versionChains[i]) IN
    /\ latest.created > snap[t]
    /\ \/ readSet[t][i] # 0 /\ latest.ver # readSet[t][i]
       \/ readSet[t][i] = 0 /\ i \in Written(t)

Validate(t) ==
    /\ pc[t] = "committing"
    /\ commitLock = {}
    /\ \/ /\ \E i \in Ids : Conflict(t, i)
          /\ Abort(t)
          /\ UNCHANGED commitLock
       \/ /\ \A i \in Ids : ~Conflict(t, i)
          /\ commitLock' = {t}
          /\ Goto(t, "validated")
          /\ UNCHANGED <<begunVars, lastCommittedTx, activeTxs, txVars, current,
                         nestLock, indexVars>>
    /\ UNCHANGED <<versionChains, pending>>

WriteWAL(t) ==
    /\ pc[t] = "validated"
    /\ \/ /\ Goto(t, "installing")
          /\ pending' = [pending EXCEPT ![t] = Written(t)]
          /\ UNCHANGED <<begunVars, lastCommittedTx, activeTxs, txVars, current,
                         commitLock, nestLock, indexVars>>
       \/ /\ "wal" \in Faults
          /\ Abort(t)
          /\ commitLock' = {}
          /\ UNCHANGED pending
    /\ UNCHANGED versionChains

Push(p, i) ==
    versionChains' = [versionChains EXCEPT ![i] = <<writeSet[p][i]>> \o @]

\* AddVersion and StoreVersion for one entry of the write set, in no fixed order.
Install(p, i) ==
    /\ pc[p] = "installing"
    /\ i \in pending[p]
    /\ Push(p, i)
    /\ \/ /\ pending' = [pending EXCEPT ![p] = @ \ {i}]
          /\ IF p \in Storers THEN Goto(p, "publishing") ELSE UNCHANGED pc
          /\ UNCHANGED <<begunVars, lastCommittedTx, activeTxs, txVars, current,
                         commitLock, nestLock, indexVars>>
       \/ /\ p \in Txs
          /\ "version" \in Faults
          /\ Abort(p)
          /\ pending' = [pending EXCEPT ![p] = {}]
          /\ commitLock' = {}

\* Mutant of IndexAfter: an update leaves the old vector in place.
IndexAfterKeepingOld(t, S) ==
    [i \in Ids |-> IF i \in S /\ IsMarker(writeSet[t][i]) THEN {}
                   ELSE IF i \in S /\ index[i] = {} THEN {t} ELSE index[i]]

\* The index after the entries S of t's write set were applied.
IndexAfter(t, S) ==
    [i \in Ids |-> IF i \notin S THEN index[i]
                   ELSE IF IsMarker(writeSet[t][i]) THEN {} ELSE {t}]

Monus(a, b) == IF a > b THEN a - b ELSE 0

\* Mutant of CountAfter: updates of an indexed ID are counted as well.
CountAfterEveryWrite(t, S) ==
    LET markers == {i \in S : IsMarker(writeSet[t][i])}
    IN  {Monus(vectorCount + Cardinality(S \ markers), Cardinality(markers))}

\* Each marker takes one off the count while it is above zero, each new ID adds
\* one; the map's order decides how often the count is at zero.
CountAfter(t, S) ==
    LET markers == {i \in S : IsMarker(writeSet[t][i])}
        new == {i \in S \ markers : index[i] = {}}
    IN  Monus(vectorCount + Cardinality(new), Cardinality(markers))
        .. (Monus(vectorCount, Cardinality(markers)) + Cardinality(new))

UpdateIndex(t) ==
    /\ t \in Txs
    /\ pc[t] = "installing"
    /\ pending[t] = {}
    /\ nestLock = {}
    /\ \/ /\ index' = IndexAfter(t, Written(t))
          /\ vectorCount' \in CountAfter(t, Written(t))
          /\ Goto(t, "publishing")
          /\ UNCHANGED commitLock
       \/ /\ "index" \in Faults
          /\ \E S \in SUBSET Written(t) :
                 /\ index' = IndexAfter(t, S)
                 /\ vectorCount' \in CountAfter(t, S)
          /\ Goto(t, "indexFailed")
          /\ commitLock' = {}
    /\ UNCHANGED <<begunVars, lastCommittedTx, versionChains, activeTxs, txVars, pending,
                   current, nestLock>>

-----------------------------------------------------------------------------
(* CommitTx: raise lastCommittedTx to the transaction's ID, then deregister. *)

LoadLastCommitted(p) ==
    /\ pc[p] = "publishing"
    /\ current' = [current EXCEPT ![p] = lastCommittedTx]
    /\ Goto(p, IF id[p] > lastCommittedTx THEN "swapping" ELSE "closing")
    /\ UNCHANGED <<begunVars, lastCommittedTx, versionChains, activeTxs, txVars, pending,
                   commitLock, nestLock, indexVars>>

\* Mutant of CompareAndSwap: a plain store.
SwapUnconditionally(p) ==
    /\ pc[p] = "swapping"
    /\ lastCommittedTx' = id[p]
    /\ Goto(p, "closing")
    /\ UNCHANGED <<begunVars, versionChains, activeTxs, txVars, pending, current,
                   commitLock, nestLock, indexVars>>

\* Mutant of CompareAndSwap: a lost race is not retried.
CompareAndSwapOnce(p) ==
    /\ pc[p] = "swapping"
    /\ lastCommittedTx' = IF lastCommittedTx = current[p] THEN id[p] ELSE lastCommittedTx
    /\ Goto(p, "closing")
    /\ UNCHANGED <<begunVars, versionChains, activeTxs, txVars, pending, current,
                   commitLock, nestLock, indexVars>>

CompareAndSwap(p) ==
    /\ pc[p] = "swapping"
    /\ \/ /\ lastCommittedTx = current[p]
          /\ lastCommittedTx' = id[p]
          /\ Goto(p, "closing")
       \/ /\ lastCommittedTx # current[p]
          /\ Goto(p, "publishing")
          /\ UNCHANGED lastCommittedTx
    /\ UNCHANGED <<begunVars, versionChains, activeTxs, txVars, pending, current,
                   commitLock, nestLock, indexVars>>

\* Mutant of Close: the locks are not released.
CloseKeepingLocks(p) ==
    /\ pc[p] = "closing"
    /\ activeTxs' = activeTxs \ {p}
    /\ Goto(p, "done")
    /\ UNCHANGED <<begunVars, lastCommittedTx, versionChains, txVars, pending, current,
                   commitLock, nestLock, indexVars>>

Close(p) ==
    /\ pc[p] = "closing"
    /\ activeTxs' = activeTxs \ {p}
    /\ commitLock' = commitLock \ {p}
    /\ nestLock' = nestLock \ {p}
    /\ Goto(p, "done")
    /\ UNCHANGED <<begunVars, lastCommittedTx, versionChains, txVars, pending, current,
                   indexVars>>

-----------------------------------------------------------------------------
(* Nest.Store up to BeginTx, under nest.mu; when the page write fails the ID is *)
(* taken out of the index, whatever was there before.                         *)

DirectStore(s, i) ==
    /\ s \in Storers
    /\ pc[s] = "store"
    /\ nestLock = {}
    /\ \/ /\ nestLock' = {s}
          /\ index' = [index EXCEPT ![i] = {s}]
          /\ vectorCount' = IF index[i] = {} THEN vectorCount + 1 ELSE vectorCount
          /\ pending' = [pending EXCEPT ![s] = {i}]
          /\ Goto(s, "begin")
       \/ /\ "index" \in Faults
          /\ index' = [index EXCEPT ![i] = {}]
          /\ vectorCount' = IF index[i] = {} THEN vectorCount ELSE vectorCount - 1
          /\ Goto(s, "failed")
          /\ UNCHANGED <<nestLock, pending>>
    /\ UNCHANGED <<begunVars, lastCommittedTx, versionChains, activeTxs, txVars, current,
                   commitLock>>

\* Nest.GarbageCollect (memory part), called by clients and by the GC worker.
GarbageCollect ==
    /\ nestLock = {}
    /\ versionChains' = [i \in Ids |-> GcVersionChain(versionChains[i], MinSnapshot)]
    /\ UNCHANGED <<begunVars, lastCommittedTx, activeTxs, pc, txVars, pending, current,
                   commitLock, nestLock, indexVars>>

-----------------------------------------------------------------------------
Client(t) ==
    \/ \E i \in ReadIds : Get(t, i)
    \/ \E i \in WritableIds : Store(t, i)
    \/ \E i \in RemovableIds : Remove(t, i)
    \/ Rollback(t)
    \/ Commit(t)

\* The steps a call takes by itself once it has been made.
System(p) ==
    \/ LoadSnapshot(p)
    \/ Register(p)
    \/ p \in Txs /\ WriteWAL(p)
    \/ \E i \in Ids : Install(p, i)
    \/ LoadLastCommitted(p)
    \/ CompareAndSwap(p)
    \/ Close(p)

Next ==
    \/ \E p \in Procs : AllocateID(p) \/ System(p)
    \/ \E t \in Txs : Client(t) \/ Validate(t) \/ UpdateIndex(t)
    \/ \E s \in Storers, i \in DirectIds : DirectStore(s, i)
    \/ GarbageCollect

Spec == Init /\ [][Next]_vars

\* Calls run on; Go mutexes hand themselves to a waiter, so lock acquisitions
\* are strongly fair.  Clients owe nothing: a transaction may stay open for ever.
Fairness ==
    /\ \A p \in Procs : WF_vars(System(p))
    /\ \A s \in Storers : WF_vars(AllocateID(s))
    /\ \A t \in Txs : SF_vars(Validate(t)) /\ SF_vars(UpdateIndex(t))

FairSpec == Spec /\ Fairness

-----------------------------------------------------------------------------
(* Types. *)

Stages == {"store", "begin", "numbered", "snapped", "active", "committing", "validated",
           "installing", "publishing", "swapping", "closing", "done", "aborted",
           "failed", "indexFailed"}

\* Every variable holds a value of its kind; a write set never holds half a version.
TypeOK ==
    /\ txIDCounter \in Nat
    /\ lastCommittedTx \in Nat
    /\ versionChains \in [Ids -> Seq(Versions)]
    /\ activeTxs \subseteq Procs
    /\ pc \in [Procs -> Stages]
    /\ id \in [Procs -> Nat]
    /\ snap \in [Procs -> Nat]
    /\ readSet \in [Procs -> [Ids -> Nat]]
    /\ writeSet \in [Procs -> [Ids -> Versions]]
    /\ pending \in [Procs -> SUBSET Ids]
    /\ current \in [Procs -> Nat]
    /\ commitLock \subseteq Txs
    /\ nestLock \subseteq Storers
    /\ index \in [Ids -> SUBSET Procs]
    /\ vectorCount \in Int
    /\ early \in [Procs -> SUBSET Procs]

-----------------------------------------------------------------------------
(* What the protocol guarantees.  A snapshot is quiet when every transaction *)
(* whose ID it covers had finished when it was taken.                        *)

Quiet(p) == early[p] = {}

View(t, i) == GetVisibleVersion(versionChains[i], snap[t])

OpenTxs == Txs \cap activeTxs

\* A transaction with a quiet snapshot reads the same version of an ID from the
\* moment it is registered until it ends, whatever commits, partly installs or is
\* collected meanwhile (GetVisibleVersion against AddVersion and GarbageCollect).
StableReads ==
    [][\A t \in Txs, i \in Ids \ RemovableIds :
          t \in OpenTxs /\ t \in OpenTxs' /\ Quiet(t) => View(t, i)' = View(t, i)]_vars

\* Under a quiet snapshot a read only ever finds versions whose writer has finished
\* its commit: no dirty read, no half of somebody's write set.
NoDirtyReads ==
    \A t \in OpenTxs, i \in Ids \ RemovableIds, p \in Procs :
        Quiet(t) /\ id[p] # 0 /\ View(t, i).ver = id[p] => ~Unfinished(p)

\* When validation lets a transaction with a quiet snapshot through, everything it
\* read is still the latest version (ValidateTransaction's read-write check).
CertifiedReads ==
    [][\A t \in Txs : pc[t] = "committing" /\ pc'[t] = "validated" /\ Quiet(t) =>
          \A i \in Ids \ RemovableIds : readSet[t][i] # 0 =>
              GetLatestVersion(versionChains[i]).ver = readSet[t][i]]_vars

\* First committer wins: beneath a version written by a transaction with a quiet
\* snapshot lie only versions inside that snapshot, so nobody's concurrent write of
\* the ID was overwritten (the write-write check, the commit lock and AddVersion).
FirstCommitterWins ==
    \A i \in PlainIds, t \in Txs :
        \A k, l \in DOMAIN versionChains[i] :
            k < l /\ versionChains[i][k].ver = id[t] /\ Quiet(t)
                => versionChains[i][l].created <= snap[t]

\* An ID somebody has committed a write of is readable by every transaction that
\* begins now: collection and commit order never hide it.
CommittedReadable ==
    \A i \in Ids \ RemovableIds, p \in Procs :
        pc[p] = "done" /\ i \in Written(p)
            => GetVisibleVersion(versionChains[i], lastCommittedTx) # Absent

\* A commit that returned is covered by every later snapshot (the CommitTx loop,
\* which a committing transaction and a Nest.Store run at the same time).
PublishedCovered ==
    \A p \in Procs : pc[p] \in {"closing", "done"} => id[p] <= lastCommittedTx

\* With nobody in a commit the index holds, for an ID that Nest.Store leaves alone,
\* the vector of the newest version, and nothing when that is a delete marker.
IndexFollowsChains ==
    commitLock = {} /\ nestLock = {} =>
        \A i \in Ids \ DirectIds :
            LET latest == GetLatestVersion(versionChains[i]) IN
            index[i] = IF latest = Absent \/ IsMarker(latest) THEN {}
                       ELSE {p \in Procs : id[p] = latest.ver}

\* header.VectorCount is the number of indexed IDs, also after failed updates, as
\* long as nothing is removed by a transaction.
CountMatchesIndex ==
    RemovableIds = {} => vectorCount = Cardinality({i \in Ids : index[i] # {}})

\* A Commit call comes back, and unless the index failed its transaction no longer
\* holds up garbage collection.
CommitReturns ==
    \A t \in Txs : pc[t] = "committing" ~>
        pc[t] \in {"done", "aborted", "indexFailed"}

\* A Nest.Store that got nest.mu gives it back and its write becomes readable.
StoreReturns ==
    \A s \in Storers : pc[s] = "begin" ~> (pc[s] = "done" /\ id[s] <= lastCommittedTx)

-----------------------------------------------------------------------------
(* What the repository says of the program and the code does not do. *)

\* "Not deleted in snapshot": a snapshot that covers a committed removal does not
\* show the removed version.
RemovedStaysRemoved ==
    \A t \in OpenTxs, r \in Txs, i \in Ids :
        pc[r] = "done" /\ IsMarker(writeSet[r][i]) /\ id[r] <= snap[t]
            => View(t, i) = Absent \/ View(t, i).ver > id[r]
=============================================================================
