------------------------ MODULE MVCCRefinementProofs ------------------------
(***************************************************************************)
(* MVCC implements SnapshotIsolation, for every value of its constants.    *)
(***************************************************************************)
EXTENDS MVCCRefinement, MVCCProofs

-----------------------------------------------------------------------------
(* How chains and the committed state belong together. *)

InFlight(t) == pc[t] \in {"installing", "publishing", "swapping"}

\* t's version of i has been put on the chain.
Installed(t, i) ==
    /\ i \in Written(t)
    /\ \/ pc[t] = "installing" /\ i \notin pending[t]
       \/ pc[t] \in {"publishing", "swapping", "closing", "done"}

\* Handles are not calls of Nest.Store, and no index update fails.
HandleStages == \A t \in Txs : pc[t] \notin {"store", "failed", "indexFailed"}

CommittedType == committed \in [PlainIds -> SUBSET Txs]

\* Every version was installed by a commit that did not fail.
Owned ==
    \A i \in PlainIds : \A k \in DOMAIN versionChains[i] :
        \E t \in Txs : Installed(t, i) /\ versionChains[i][k] = NewVersion(id[t])

\* What a commit that has not taken place has installed is on top.
OnTop ==
    \A t \in Txs, i \in PlainIds : Installed(t, i) /\ InFlight(t) =>
        versionChains[i] # <<>> /\ versionChains[i][1].ver = id[t]

\* After validation what was read stays on top until the log is written.
Certified ==
    \A t \in Txs, i \in PlainIds :
        pc[t] = "validated" /\ readSet[t][i] # 0 /\ versionChains[i] # <<>>
            => versionChains[i][1].created <= snap[t]

\* The committed writer of an ID is that of the newest version, or of the one beneath
\* it while the newest is in flight.  A collection may cut the latter off, but only
\* when the newest is inside every snapshot that will be taken.
Linked ==
    \A i \in PlainIds :
        /\ versionChains[i] = <<>> => committed[i] = {}
        /\ \A t \in Txs :
              versionChains[i] # <<>> /\ versionChains[i][1].ver = id[t] /\ Installed(t, i) =>
                  /\ ~InFlight(t) => committed[i] = {t}
                  /\ InFlight(t) /\ Len(versionChains[i]) > 1 =>
                        committed[i] = Writer(versionChains[i][2].ver)
                  /\ InFlight(t) /\ Len(versionChains[i]) = 1 /\ id[t] > lastCommittedTx =>
                        committed[i] = {}

LinkInv == HandleStages /\ CommittedType /\ Owned /\ OnTop /\ Certified /\ Linked

HistoryInv == IInv /\ IInvCommit /\ IInvFCW /\ LinkInv

\* Writer after the step.
WriterAfter(n) == {t \in Txs : n # 0 /\ id'[t] = n}

-----------------------------------------------------------------------------
(* Steps of a handle. *)

\* No write fails but the log's: what a handle may do.
LEMMA TxSteps ==
    ASSUME TypeOK, HandleStages, NEW t \in Txs, Own(t)
    PROVE  \/ AllocateID(t) \/ LoadSnapshot(t) \/ Register(t)
           \/ \E i \in Ids : Get(t, i) \/ Store(t, i) \/ Remove(t, i)
           \/ Commit(t) /\ pc[t] = "active"
           \/ /\ pc[t] \in {"active", "committing", "validated"}
              /\ Abort(t) /\ UNCHANGED versionChains
           \/ Validate(t) /\ Goto(t, "validated")
           \/ WriteWAL(t) /\ Goto(t, "installing")
           \/ \E i \in Ids : /\ Install(t, i) /\ UNCHANGED <<pc, writeSet, id, readSet, snap, early>>
                             /\ pending' = [pending EXCEPT ![t] = @ \ {i}]
           \/ UpdateIndex(t) /\ Goto(t, "publishing")
           \/ LoadLastCommitted(t) \/ CompareAndSwap(t) \/ Close(t)
<1>0. t \in Procs /\ t \notin Storers /\ pc[t] \notin {"store", "failed", "indexFailed"}
  BY ConstantsAssumption DEF Procs, HandleStages
<1>1. "version" \notin Faults /\ "index" \notin Faults
  BY FaultsAssumption
<1>2. CASE Rollback(t)
  BY <1>0, <1>2 DEF Rollback
<1>3. CASE Commit(t)
  BY <1>0, <1>3 DEF Commit
<1>4. CASE Validate(t)
  BY <1>4 DEF Validate
<1>5. CASE WriteWAL(t)
  BY <1>5 DEF WriteWAL
<1>6. ASSUME NEW i \in Ids, Install(t, i)
      PROVE  /\ UNCHANGED <<pc, writeSet, id, readSet, snap, early>>
             /\ pending' = [pending EXCEPT ![t] = @ \ {i}]
  BY <1>0, <1>1, <1>6 DEF Install, begunVars, txVars
<1>7. CASE UpdateIndex(t)
  BY <1>1, <1>7 DEF UpdateIndex
<1>8. CASE Client(t)
  BY <1>2, <1>3, <1>8, ConstantsAssumption DEF Client
<1>9. CASE System(t)
  BY <1>5, <1>6, <1>9 DEF System
<1>10. QED
  BY <1>0, <1>4, <1>7, <1>8, <1>9 DEF Own

\* Handles stay handles.
LEMMA HandleStagesStep == TypeOK /\ HandleStages /\ [Next]_vars => HandleStages'
<1> SUFFICES ASSUME TypeOK, HandleStages, [Next]_vars, NEW t \in Txs
             PROVE  pc'[t] \notin {"store", "failed", "indexFailed"}
  BY DEF HandleStages
<1>0. t \in Procs /\ pc[t] \notin {"store", "failed", "indexFailed"}
  BY DEF Procs, HandleStages
<1>1. CASE ~Own(t)
  BY <1>0, <1>1, OthersUntouched DEF Local
<1>2. CASE Own(t)
  BY <1>0, <1>2, TxSteps
     DEF AllocateID, LoadSnapshot, Register, Get, Store, Remove, SharedVars, Commit, Abort, Goto,
         LoadLastCommitted, CompareAndSwap, Close, TypeOK
<1>3. QED
  BY <1>1, <1>2

\* Once installed, always installed; and nothing goes back in flight.
LEMMA InstalledKept ==
    ASSUME TypeOK, Numbers, HandleStages, [Next]_vars, NEW t \in Txs, NEW i \in Ids, Installed(t, i)
    PROVE  /\ Installed(t, i)' /\ id'[t] = id[t] /\ id[t] # 0
           /\ InFlight(t)' => InFlight(t)
           /\ InFlight(t) /\ ~InFlight(t)' => TakesPlace(t)
<1>0. /\ t \in Procs
      /\ pc[t] \in {"installing", "publishing", "swapping", "closing", "done"}
  BY DEF Procs, Installed
<1>1. HasSnapshot(t) /\ id[t] # 0
  BY <1>0 DEF HasSnapshot, HasID, Numbers
<1>2. id'[t] = id[t]
  BY <1>0, <1>1, SnapshotsKept
<1>3. CASE ~Own(t)
  <2>1. UNCHANGED <<pc[t], writeSet[t], pending[t]>>
    BY <1>0, <1>3, OthersUntouched DEF Local
  <2>2. QED
    BY <1>1, <1>2, <2>1 DEF Installed, Written, InFlight
<1>4. CASE Own(t)
  <2>1. writeSet'[t] = writeSet[t]
    BY <1>0, <1>4, TxSteps
       DEF AllocateID, LoadSnapshot, Register, Get, Store, Remove, Commit, Validate, WriteWAL,
           UpdateIndex, LoadLastCommitted, CompareAndSwap, Close, txVars
  <2>2. \/ UNCHANGED pc /\ \E j \in Ids : pending' = [pending EXCEPT ![t] = @ \ {j}]
        \/ pc[t] = "installing" /\ Goto(t, "publishing") /\ UNCHANGED pending
        \/ pc[t] = "publishing" /\ (Goto(t, "swapping") \/ Goto(t, "closing")) /\ UNCHANGED pending
        \/ pc[t] = "swapping" /\ (Goto(t, "publishing") \/ Goto(t, "closing")) /\ UNCHANGED pending
        \/ pc[t] = "closing" /\ Goto(t, "done") /\ UNCHANGED pending
    BY <1>0, <1>4, TxSteps
       DEF AllocateID, LoadSnapshot, Register, Get, Store, Remove, Commit, Validate, WriteWAL,
           UpdateIndex, LoadLastCommitted, CompareAndSwap, Close
  <2>3. /\ pc'[t] \in {"installing", "publishing", "swapping", "closing", "done"}
        /\ pc'[t] = "installing" => pc[t] = "installing" /\ pending'[t] \subseteq pending[t]
        /\ InFlight(t)' => InFlight(t)
        /\ InFlight(t) /\ ~InFlight(t)' => TakesPlace(t)
    BY <1>0, <2>2 DEF Goto, TypeOK, InFlight, TakesPlace
  <2>4. QED
    BY <1>0, <1>1, <1>2, <2>1, <2>3 DEF Installed, Written
<1>5. QED
  BY <1>3, <1>4

\* Only Install installs.
LEMMA NewlyInstalled ==
    ASSUME TypeOK, HandleStages, Writes, [Next]_vars, NEW t \in Txs, NEW i \in Ids,
           Installed(t, i)', ~Installed(t, i)
    PROVE  Install(t, i) /\ pc'[t] = "installing"
<1>0. t \in Procs
  BY DEF Procs
<1>1. Own(t)
  <2>1. CASE ~Own(t)
    <3>1. UNCHANGED <<pc[t], writeSet[t], pending[t]>>
      BY <1>0, <2>1, OthersUntouched DEF Local
    <3>2. QED
      BY <3>1 DEF Installed, Written
  <2>2. QED
    BY <2>1
<1>2. /\ i \in Written(t)'
      /\ pc'[t] \in {"installing", "publishing", "swapping", "closing", "done"}
      /\ pc'[t] = "installing" => i \notin pending'[t]
  BY DEF Installed
<1>3. CASE WriteWAL(t) /\ Goto(t, "installing")
  <2>1. pending'[t] = Written(t) /\ writeSet' = writeSet
    <3>1. ~Abort(t)
      BY <1>0, <1>3 DEF Abort, Goto, TypeOK
    <3>2. QED
      BY <1>0, <1>3, <3>1 DEF WriteWAL, TypeOK, txVars
  <2>2. pc'[t] = "installing"
    BY <1>0, <1>3 DEF Goto, TypeOK
  <2>3. QED
    BY <1>2, <2>1, <2>2 DEF Written
<1>4. ASSUME NEW j \in Ids, Install(t, j), UNCHANGED <<pc, writeSet, id, readSet, snap, early>>,
             pending' = [pending EXCEPT ![t] = @ \ {j}]
      PROVE  Install(t, i) /\ pc'[t] = "installing"
  <2>1. pc[t] = "installing" /\ i \in pending[t] /\ i \notin pending'[t]
    BY <1>2, <1>4 DEF Install, Installed, Written
  <2>2. i = j
    BY <1>0, <1>4, <2>1 DEF TypeOK
  <2>3. QED
    BY <1>4, <2>1, <2>2
<1>5. CASE UpdateIndex(t) \/ LoadLastCommitted(t) \/ CompareAndSwap(t) \/ Close(t)
  BY <1>0, <1>2, <1>5
     DEF UpdateIndex, LoadLastCommitted, CompareAndSwap, Close, txVars, Installed, Written
<1>6. ASSUME \/ AllocateID(t) \/ LoadSnapshot(t) \/ Register(t) \/ Commit(t) \/ Abort(t)
             \/ Validate(t) /\ Goto(t, "validated")
             \/ \E j \in Ids : Get(t, j) \/ Store(t, j) \/ Remove(t, j)
      PROVE  FALSE
  BY <1>0, <1>2, <1>6, ConstantsAssumption
     DEF AllocateID, LoadSnapshot, Register, Commit, Abort, Get, Store, Remove, SharedVars, Goto, TypeOK
<1>7. QED
  BY <1>1, <1>3, <1>4, <1>5, <1>6, TxSteps

-----------------------------------------------------------------------------
(* Chains and their owners. *)

\* A chain of a plain ID stays, grows by a version, or is cut at or below every snapshot.
LEMMA PlainChainKinds ==
    ASSUME IInv, [Next]_vars, NEW i \in PlainIds
    PROVE  \/ versionChains'[i] = versionChains[i]
           \/ \E t \in Txs : /\ Install(t, i)
                             /\ versionChains'[i] = <<NewVersion(id[t])>> \o versionChains[i]
           \/ /\ GarbageCollect
              /\ \E n \in 1..Len(versionChains[i]) :
                    /\ versionChains'[i] = SubSeq(versionChains[i], 1, n)
                    /\ versionChains[i][n].created <= MinSnapshot
                    /\ \A k \in 1..(n - 1) : versionChains[i][k].created > MinSnapshot
<1>0. /\ TypeOK /\ Numbers /\ Writes /\ i \in Ids \ RemovableIds /\ i \notin DirectIds
      /\ versionChains[i] \in Seq(Versions)
  BY DEF IInv, TypeOK, PlainIds
<1>1. ASSUME NEW p \in Procs, NEW j \in Ids, j # i, Install(p, j)
      PROVE  versionChains'[i] = versionChains[i]
  BY <1>0, <1>1 DEF Install, Push, TypeOK
<1>2. ASSUME NEW p \in Procs, Install(p, i)
      PROVE  p \in Txs /\ versionChains'[i] = <<NewVersion(id[p])>> \o versionChains[i]
  <2>1. i \in pending[p]
    BY <1>2 DEF Install
  <2>2. p \in Txs
    BY <1>0, <2>1 DEF Writes, Procs
  <2>3. QED
    BY <1>0, <1>2, <2>2, InstalledVersion
<1>3. CASE GarbageCollect
  <2>1. MinSnapshot \in Nat
    BY <1>0, MinSnapshotIsLow
  <2>2. versionChains'[i] = GcVersionChain(versionChains[i], MinSnapshot)
    BY <1>0, <1>3 DEF GarbageCollect
  <2>3. QED
    BY <1>0, <1>3, <2>1, <2>2, GcIsPrefix
<1>4. QED
  BY <1>0, <1>1, <1>2, <1>3, ChainSteps

\* A handle's ID names its handle.
LEMMA WriterOf ==
    ASSUME Numbers, NEW t \in Txs, id[t] # 0
    PROVE  Writer(id[t]) = {t}
BY DEF Writer, Numbers, Procs

\* Who is in flight is alone there.
LEMMA FlightIsExclusive ==
    ASSUME CommitExclusion, NEW t \in Txs, NEW u \in Txs,
           InFlight(t) \/ pc[t] \in CommitStages, InFlight(u) \/ pc[u] \in CommitStages
    PROVE  t = u
<1>1. pc[t] \in CommitStages /\ pc[u] \in CommitStages
  BY DEF InFlight, CommitStages
<1>2. commitLock = {t} /\ commitLock = {u}
  BY <1>1 DEF CommitExclusion
<1>3. QED
  BY <1>2

\* Chains keep holding installed versions only.
LEMMA OwnedStep == IInv /\ HandleStages /\ Owned /\ [Next]_vars => Owned'
<1> SUFFICES ASSUME IInv, HandleStages, Owned, [Next]_vars,
                    NEW i \in PlainIds, NEW k \in DOMAIN versionChains'[i]
             PROVE  \E t \in Txs : Installed(t, i)' /\ versionChains'[i][k] = NewVersion(id'[t])
  BY DEF Owned
<1>0. /\ TypeOK /\ Numbers /\ Writes /\ i \in Ids /\ i \in Ids \ RemovableIds
      /\ versionChains[i] \in Seq(Versions)
  BY DEF IInv, TypeOK, PlainIds
<1>1. ASSUME NEW l \in DOMAIN versionChains[i], versionChains'[i][k] = versionChains[i][l]
      PROVE  \E t \in Txs : Installed(t, i)' /\ versionChains'[i][k] = NewVersion(id'[t])
  <2>1. PICK t \in Txs : Installed(t, i) /\ versionChains[i][l] = NewVersion(id[t])
    BY DEF Owned
  <2>2. Installed(t, i)' /\ id'[t] = id[t]
    BY <1>0, <2>1, InstalledKept
  <2>3. QED
    BY <1>1, <2>1, <2>2
<1>2. CASE \A j \in DOMAIN versionChains'[i] :
              j \in DOMAIN versionChains[i] /\ versionChains'[i][j] = versionChains[i][j]
  BY <1>1, <1>2
<1>3. ASSUME NEW t \in Txs, Install(t, i),
             versionChains'[i] = <<NewVersion(id[t])>> \o versionChains[i]
      PROVE  \E u \in Txs : Installed(u, i)' /\ versionChains'[i][k] = NewVersion(id'[u])
  <2>1. CASE k = 1
    <3>1. t \in Procs /\ t \notin Storers /\ pc[t] = "installing" /\ i \in pending[t]
      BY <1>3, ConstantsAssumption DEF Install, Procs
    <3>2. UNCHANGED <<pc, writeSet, id>> /\ pending' = [pending EXCEPT ![t] = @ \ {i}]
      BY <1>3, <3>1, FaultsAssumption DEF Install, begunVars, txVars
    <3>3. i \in Written(t)
      BY <1>0, <3>1 DEF Writes
    <3>4. Installed(t, i)'
      BY <1>0, <3>1, <3>2, <3>3 DEF Installed, Written, TypeOK
    <3>5. versionChains'[i][k] = NewVersion(id'[t])
      BY <1>0, <1>3, <2>1, <3>2
    <3>6. QED
      BY <3>4, <3>5
  <2>2. CASE k # 1
    <3>1. k - 1 \in DOMAIN versionChains[i] /\ versionChains'[i][k] = versionChains[i][k - 1]
      BY <1>0, <1>3, <2>2
    <3>2. QED
      BY <1>1, <3>1
  <2>3. QED
    BY <2>1, <2>2
<1>4. QED
  BY <1>2, <1>3, PlainChainSteps

\* A commit in flight stays on top of the chains it has reached.
LEMMA OnTopStep ==
    IInv /\ CommitExclusion /\ HandleStages /\ OnTop /\ [Next]_vars => OnTop'
<1> SUFFICES ASSUME IInv, CommitExclusion, HandleStages, OnTop, [Next]_vars,
                    NEW t \in Txs, NEW i \in PlainIds, Installed(t, i)', InFlight(t)'
             PROVE  versionChains'[i] # <<>> /\ versionChains'[i][1].ver = id'[t]
  BY DEF OnTop
<1>0. /\ TypeOK /\ Numbers /\ Writes /\ i \in Ids /\ i \in Ids \ RemovableIds
      /\ t \in Procs /\ versionChains[i] \in Seq(Versions)
      /\ \A n : NewVersion(n).ver = n
  BY DEF IInv, TypeOK, PlainIds, Procs, NewVersion
<1>1. CASE Installed(t, i)
  <2>1. InFlight(t) /\ id'[t] = id[t]
    BY <1>0, <1>1, InstalledKept
  <2>2. versionChains[i] # <<>> /\ versionChains[i][1].ver = id[t]
    BY <1>1, <2>1 DEF OnTop
  <2>3. ASSUME NEW u \in Txs, Install(u, i)
        PROVE  FALSE
    <3>1. u = t
      BY <2>1, <2>3, FlightIsExclusive DEF Install, InFlight
    <3>2. QED
      BY <1>1, <2>3, <3>1 DEF Install, Installed
  <2>4. ASSUME NEW n \in 1..Len(versionChains[i]), versionChains'[i] = SubSeq(versionChains[i], 1, n)
        PROVE  versionChains'[i] # <<>> /\ versionChains'[i][1] = versionChains[i][1]
    BY <1>0, <2>4
  <2>5. QED
    BY <2>1, <2>2, <2>3, <2>4, PlainChainKinds
<1>2. CASE ~Installed(t, i)
  <2>1. Install(t, i) /\ pc'[t] = "installing"
    BY <1>0, <1>2, NewlyInstalled
  <2>2. versionChains'[i] = <<NewVersion(id[t])>> \o versionChains[i] /\ HasSnapshot(t)
    BY <1>0, <2>1, InstalledVersion
  <2>3. id'[t] = id[t]
    BY <1>0, <2>2, SnapshotsKept
  <2>4. QED
    BY <1>0, <2>2, <2>3
<1>3. QED
  BY <1>1, <1>2

\* Between validation and the log nobody covers what was read.
LEMMA CertifiedStep ==
    IInv /\ Reads /\ CommitExclusion /\ HandleStages /\ Certified /\ [Next]_vars => Certified'
<1> SUFFICES ASSUME IInv, Reads, CommitExclusion, HandleStages, Certified, [Next]_vars,
                    NEW t \in Txs, NEW i \in PlainIds,
                    pc'[t] = "validated", readSet'[t][i] # 0, versionChains'[i] # <<>>
             PROVE  versionChains'[i][1].created <= snap'[t]
  BY DEF Certified
<1>0. /\ TypeOK /\ TypeOK' /\ Numbers /\ Chains
      /\ t \in Procs /\ i \in Ids /\ i \in Ids \ RemovableIds
      /\ snap[t] \in Nat /\ versionChains[i] \in Seq(Versions)
      /\ versionChains'[i] \in Seq(Versions)
  BY TypeStep DEF IInv, TypeOK, PlainIds, Procs
<1>1. pc'[t] \in CommitStages /\ 1 \in DOMAIN versionChains'[i]
  BY <1>0 DEF CommitStages
<1>2. CASE /\ pc[t] = "committing" /\ Validate(t)
           /\ pc'[t] = "validated" /\ commitLock = {} /\ commitLock' = {t}
           /\ \A j \in Ids : ~Conflict(t, j)
           /\ UNCHANGED <<versionChains, writeSet, readSet, snap>>
  <2>1. ~Conflict(t, i) /\ readSet[t][i] # 0
    BY <1>0, <1>2
  <2>2. GetLatestVersion(versionChains[i]) = versionChains[i][1]
    BY <1>0, <1>1, <1>2 DEF GetLatestVersion
  <2>3. readSet[t][i] <= snap[t] /\ readSet[t][i] \in Nat
    BY <1>0 DEF Reads, TypeOK
  <2>4. /\ versionChains[i][1].ver = versionChains[i][1].created
        /\ versionChains[i][1].created \in Nat
    BY <1>0, <1>1, <1>2, PlainVersions DEF Versions
  <2>5. QED
    BY <1>0, <1>2, <2>1, <2>2, <2>3, <2>4 DEF Conflict
<1>3. CASE pc[t] \in CommitStages
  <2>1. ~Own(t)
    <3>1. ASSUME Own(t)
          PROVE  \/ UNCHANGED pc /\ pc[t] = "installing"
                 \/ \E stage \in {"installing", "publishing", "swapping", "closing", "done", "aborted"} :
                       Goto(t, stage)
      BY <1>0, <1>3, <3>1, TxSteps
         DEF CommitStages, AllocateID, LoadSnapshot, Register, Get, Store, Remove, Commit, Abort,
             Validate, Install, UpdateIndex, LoadLastCommitted, CompareAndSwap, Close
    <3>2. QED
      BY <1>0, <3>1 DEF Goto, TypeOK
  <2>2. pc[t] = "validated" /\ readSet'[t] = readSet[t] /\ snap'[t] = snap[t]
    BY <1>0, <2>1, OthersUntouched DEF Local
  <2>3. ASSUME NEW u \in Txs, Install(u, i)
        PROVE  FALSE
    <3>1. u = t
      BY <1>3, <2>3, FlightIsExclusive DEF Install, InFlight
    <3>2. QED
      BY <2>2, <2>3, <3>1 DEF Install
  <2>4. \A k \in DOMAIN versionChains'[i] :
            k \in DOMAIN versionChains[i] /\ versionChains'[i][k] = versionChains[i][k]
    BY <2>3, PlainChainSteps
  <2>5. QED
    BY <1>0, <1>1, <2>2, <2>4 DEF Certified
<1>4. QED
  BY <1>0, <1>1, <1>2, <1>3, CommitEntry

-----------------------------------------------------------------------------
(* The committed state. *)

\* A commit that takes place is the only one, and its writes become committed.
LEMMA CommittedStep ==
    ASSUME CommitExclusion, HistoryNext, NEW i \in PlainIds
    PROVE  /\ \A t \in Txs : TakesPlace(t) =>
                 committed'[i] = IF i \in Written(t) THEN {t} ELSE committed[i]
           /\ (\A t \in Txs : ~TakesPlace(t) \/ i \notin Written(t)) =>
                 committed'[i] = committed[i]
<1>1. \A t, u \in Txs : TakesPlace(t) /\ TakesPlace(u) => t = u
  BY FlightIsExclusive DEF TakesPlace, InFlight
<1>2. QED
  BY <1>1 DEF HistoryNext

\* An ID's writers are handles.
LEMMA CommittedTypeStep == CommittedType /\ HistoryNext => CommittedType'
BY DEF CommittedType, HistoryNext

\* The newest version and the committed writer of an ID stay together.
LEMMA LinkedStep ==
    IInv /\ IInvFCW /\ LinkInv /\ HistoryNext => Linked'
<1> SUFFICES ASSUME IInv, IInvFCW, LinkInv, HistoryNext, NEW i \in PlainIds
             PROVE  /\ versionChains'[i] = <<>> => committed'[i] = {}
                    /\ \A t \in Txs :
                          /\ versionChains'[i] # <<>> /\ versionChains'[i][1].ver = id'[t]
                          /\ Installed(t, i)'
                          => /\ ~InFlight(t)' => committed'[i] = {t}
                             /\ InFlight(t)' /\ Len(versionChains'[i]) > 1 =>
                                   committed'[i] = Writer(versionChains[i][2].ver)'
                             /\ /\ InFlight(t)' /\ Len(versionChains'[i]) = 1
                                /\ id'[t] > lastCommittedTx'
                                => committed'[i] = {}
  BY DEF Linked
<1> DEFINE c == versionChains[i]
           d == versionChains'[i]
<1>0. /\ [Next]_vars /\ TypeOK /\ TypeOK' /\ Numbers /\ Numbers' /\ Writes
      /\ CommitExclusion /\ HandleStages /\ Owned /\ OnTop /\ Linked
      /\ i \in Ids /\ i \in Ids \ RemovableIds
      /\ c \in Seq(Versions) /\ d \in Seq(Versions)
      /\ \A n : NewVersion(n).ver = n /\ NewVersion(n).created = n
  <2>1. [Next]_vars /\ TypeOK /\ TypeOK' /\ Numbers /\ Numbers' /\ i \in Ids
    BY TypeStep, NumbersStep DEF IInv, HistoryNext, PlainIds
  <2>2. c \in Seq(Versions) /\ d \in Seq(Versions)
    BY <2>1 DEF TypeOK
  <2>3. QED
    BY <2>1, <2>2 DEF IInv, IInvFCW, LinkInv, PlainIds, NewVersion
<1>1. ASSUME NEW u \in Txs, TakesPlace(u), i \in Written(u)
      PROVE  c # <<>> /\ c[1].ver = id[u] /\ Installed(u, i) /\ InFlight(u) /\ ~InFlight(u)'
  <2>1. Installed(u, i) /\ InFlight(u) /\ ~InFlight(u)'
    BY <1>1 DEF TakesPlace, Installed, InFlight
  <2>2. QED
    BY <1>0, <2>1 DEF OnTop
<1>2. ASSUME NEW k \in DOMAIN c
      PROVE  \E q \in Txs : /\ Installed(q, i) /\ c[k] = NewVersion(id[q])
                            /\ id'[q] = id[q] /\ id[q] # 0
                            /\ Writer(id[q]) = {q} /\ WriterAfter(id[q]) = {q}
  <2>1. PICK q \in Txs : Installed(q, i) /\ c[k] = NewVersion(id[q])
    BY <1>0 DEF Owned
  <2>2. id'[q] = id[q] /\ id[q] # 0
    BY <1>0, <2>1, InstalledKept
  <2>3. Writer(id[q]) = {q}
    BY <1>0, <2>2, WriterOf
  <2>4. WriterAfter(id[q]) = {q}
    BY <1>0, <2>2 DEF WriterAfter, Numbers, Procs
  <2>5. QED
    BY <2>1, <2>2, <2>3, <2>4
<1>3. \/ d = c
      \/ \E u \in Txs : Install(u, i) /\ d = <<NewVersion(id[u])>> \o c
      \/ \E n \in 1..Len(c) : d = SubSeq(c, 1, n) /\ c[n].created <= MinSnapshot
  BY <1>0, PlainChainKinds
<1> HIDE DEF c, d
<1>4. CASE d = <<>>
  <2>1. c = <<>>
    <3>1. ASSUME NEW n \in 1..Len(c), d = SubSeq(c, 1, n)
          PROVE  FALSE
      <4>1. Len(d) = n /\ n # 0
        BY <1>0, <3>1
      <4>2. QED
        BY <1>4, <4>1
    <3>2. ASSUME NEW u \in Txs, d = <<NewVersion(id[u])>> \o c
          PROVE  FALSE
      <4>1. Len(d) = 1 + Len(c) /\ Len(c) \in Nat
        BY <1>0, <3>2
      <4>2. QED
        BY <1>4, <4>1
    <3>3. QED
      BY <1>4, <1>3, <3>1, <3>2
  <2>2. committed[i] = {} /\ \A u \in Txs : ~TakesPlace(u) \/ i \notin Written(u)
    BY <1>0, <1>1, <2>1 DEF Linked, c
  <2>3. committed'[i] = {}
    BY <1>0, <2>2, CommittedStep
  <2>4. QED
    BY <1>4, <2>3 DEF d
<1>5. ASSUME NEW t \in Txs, d # <<>>, d[1].ver = id'[t], Installed(t, i)', NEW u \in Txs,
             Install(u, i), d = <<NewVersion(id[u])>> \o c
      PROVE  /\ InFlight(t)'
             /\ Len(d) > 1 => committed'[i] = WriterAfter(d[2].ver)
             /\ Len(d) = 1 => committed'[i] = {}
  <2>1. pc[u] = "installing" /\ i \in pending[u] /\ u \in Procs /\ t \in Procs /\ u \notin Storers
    BY <1>5, ConstantsAssumption DEF Install, Procs
  <2>2. UNCHANGED <<pc, id>>
    BY <1>5, <2>1, FaultsAssumption DEF Install, begunVars
  <2>3. id[u] # 0
    BY <1>0, <2>1 DEF Numbers, HasID
  <2>4. t = u
    BY <1>0, <1>5, <2>1, <2>2, <2>3 DEF Numbers
  <2>5. InFlight(t) /\ InFlight(t)' /\ pc[t] = "installing" /\ ~Installed(t, i)
    BY <2>1, <2>2, <2>4 DEF InFlight, Installed
  <2>6. \A w \in Txs : ~TakesPlace(w)
    BY <1>0, <2>5, FlightIsExclusive DEF TakesPlace, InFlight
  <2>7. committed'[i] = committed[i]
    BY <1>0, <2>6, CommittedStep
  <2>8. CASE c = <<>>
    BY <1>0, <1>5, <2>5, <2>7, <2>8 DEF Linked, c
  <2>9. CASE c # <<>>
    <3>1. 1 \in DOMAIN c /\ d[2] = c[1] /\ Len(d) # 1
      BY <1>0, <1>5, <2>9
    <3>2. PICK q \in Txs : /\ Installed(q, i) /\ c[1] = NewVersion(id[q])
                           /\ WriterAfter(id[q]) = {q}
      BY <1>2, <3>1
    <3>3. q # t /\ ~InFlight(q)
      BY <1>0, <2>5, <3>2, FlightIsExclusive
    <3>4. committed[i] = {q}
      BY <1>0, <2>9, <3>2, <3>3 DEF Linked, c
    <3>5. d[2].ver = id[q]
      BY <1>0, <3>1, <3>2
    <3>6. QED
      BY <2>5, <2>7, <3>1, <3>2, <3>4, <3>5
  <2>10. QED
    BY <2>8, <2>9
<1>6. ASSUME NEW t \in Txs, d # <<>>, d[1].ver = id'[t], Installed(t, i)',
             c # <<>>, d[1] = c[1],
             \/ d = c
             \/ \E n \in 1..Len(c) : d = SubSeq(c, 1, n) /\ c[n].created <= lastCommittedTx
      PROVE  /\ ~InFlight(t)' => committed'[i] = {t}
             /\ InFlight(t)' /\ Len(d) > 1 => committed'[i] = WriterAfter(d[2].ver)
             /\ InFlight(t)' /\ Len(d) = 1 /\ id'[t] > lastCommittedTx' => committed'[i] = {}
  <2>1. 1 \in DOMAIN c /\ t \in Procs
    BY <1>0, <1>6 DEF Procs
  <2>2. PICK q \in Txs : /\ Installed(q, i) /\ c[1] = NewVersion(id[q])
                         /\ id'[q] = id[q] /\ id[q] # 0
    BY <1>2, <2>1
  <2>3. t = q
    BY <1>0, <1>6, <2>1, <2>2 DEF Numbers, Procs
  <2>4. /\ Installed(t, i) /\ c[1].ver = id[t] /\ c[1].created = id[t] /\ id'[t] = id[t]
        /\ InFlight(t)' => InFlight(t)
        /\ InFlight(t) /\ ~InFlight(t)' => TakesPlace(t)
    BY <1>0, <2>2, <2>3, InstalledKept
  <2>5. CASE InFlight(t)'
    <3>1. \A w \in Txs : ~TakesPlace(w)
      BY <1>0, <2>4, <2>5, FlightIsExclusive DEF TakesPlace, InFlight
    <3>2. committed'[i] = committed[i]
      BY <1>0, <3>1, CommittedStep
    <3>3. CASE Len(d) > 1
      <4>1. 2 \in DOMAIN c /\ d[2] = c[2] /\ Len(c) > 1
        BY <1>0, <1>6, <3>3
      <4>2. PICK r \in Txs : /\ c[2] = NewVersion(id[r])
                             /\ Writer(id[r]) = {r} /\ WriterAfter(id[r]) = {r}
        BY <1>2, <4>1
      <4>3. committed[i] = Writer(c[2].ver)
        BY <1>0, <1>6, <2>4, <2>5, <4>1 DEF Linked, c
      <4>4. c[2].ver = id[r]
        BY <1>0, <4>2
      <4>5. QED
        BY <2>5, <3>2, <3>3, <4>1, <4>2, <4>3, <4>4 DEF WriterAfter
    <3>4. CASE Len(d) = 1 /\ id'[t] > lastCommittedTx'
      <4>1. lastCommittedTx <= lastCommittedTx' /\ lastCommittedTx' \in Nat
            /\ lastCommittedTx \in Nat /\ id[t] \in Nat
        BY <1>0, <2>1, LastCommittedGrows DEF TypeOK
      <4>2. id[t] > lastCommittedTx
        BY <2>4, <3>4, <4>1
      <4>3. Len(c) = 1
        <5>1. ASSUME NEW n \in 1..Len(c), d = SubSeq(c, 1, n), c[n].created <= lastCommittedTx
              PROVE  FALSE
          <6>1. n = 1
            BY <1>0, <3>4, <5>1
          <6>2. QED
            BY <2>4, <4>1, <4>2, <5>1, <6>1
        <5>2. QED
          BY <1>6, <3>4, <5>1
      <4>4. committed[i] = {}
        BY <1>0, <1>6, <2>4, <2>5, <4>2, <4>3 DEF Linked, c
      <4>5. QED
        BY <2>5, <3>2, <3>4, <4>4
    <3>5. QED
      BY <2>5, <3>3, <3>4
  <2>6. CASE ~InFlight(t)'
    <3>1. CASE InFlight(t)
      <4>1. TakesPlace(t) /\ i \in Written(t)
        BY <2>4, <2>6, <3>1 DEF Installed
      <4>2. QED
        BY <1>0, <2>6, <4>1, CommittedStep
    <3>2. CASE ~InFlight(t)
      <4>1. committed[i] = {t}
        BY <1>0, <1>6, <2>4, <3>2 DEF Linked, c
      <4>2. ASSUME NEW w \in Txs, TakesPlace(w), i \in Written(w)
            PROVE  FALSE
        <5>1. id[w] = id[t] /\ InFlight(w)
          BY <1>1, <2>4, <4>2
        <5>2. w = t
          BY <1>0, <2>1, <2>2, <2>3, <5>1 DEF Numbers, Procs
        <5>3. QED
          BY <3>2, <5>1, <5>2
      <4>3. committed'[i] = committed[i]
        BY <1>0, <4>2, CommittedStep
      <4>4. QED
        BY <2>6, <4>1, <4>3
    <3>3. QED
      BY <3>1, <3>2
  <2>7. QED
    BY <2>5, <2>6
<1>7. ASSUME NEW t \in Txs, d # <<>>, d[1].ver = id'[t], Installed(t, i)'
      PROVE  /\ ~InFlight(t)' => committed'[i] = {t}
             /\ InFlight(t)' /\ Len(d) > 1 => committed'[i] = WriterAfter(d[2].ver)
             /\ InFlight(t)' /\ Len(d) = 1 /\ id'[t] > lastCommittedTx' => committed'[i] = {}
  <2>1. CASE \E u \in Txs : Install(u, i) /\ d = <<NewVersion(id[u])>> \o c
    BY <1>5, <1>7, <2>1
  <2>2. CASE d = c
    BY <1>6, <1>7, <2>2
  <2>3. ASSUME NEW n \in 1..Len(c), d = SubSeq(c, 1, n), c[n].created <= MinSnapshot
        PROVE  /\ ~InFlight(t)' => committed'[i] = {t}
               /\ InFlight(t)' /\ Len(d) > 1 => committed'[i] = WriterAfter(d[2].ver)
               /\ InFlight(t)' /\ Len(d) = 1 /\ id'[t] > lastCommittedTx' => committed'[i] = {}
    <3>1. c # <<>> /\ d[1] = c[1] /\ c[n] \in Versions
      BY <1>0, <2>3
    <3>2. c[n].created <= lastCommittedTx
      <4>1. MinSnapshot \in Nat /\ MinSnapshot <= lastCommittedTx
        BY <1>0, MinSnapshotIsLow
      <4>2. c[n].created \in Nat /\ lastCommittedTx \in Nat
        BY <1>0, <3>1 DEF Versions, TypeOK
      <4>3. QED
        BY <2>3, <4>1, <4>2
    <3>3. QED
      BY <1>6, <1>7, <2>3, <3>1, <3>2
  <2>4. QED
    BY <1>3, <2>1, <2>2, <2>3
<1>8. Writer(versionChains[i][2].ver)' = WriterAfter(d[2].ver)
  BY DEF Writer, WriterAfter, d
<1>9. QED
  BY <1>4, <1>7, <1>8 DEF d

\* Nothing is committed at first.
LEMMA LinkInit == HistoryInit => LinkInv
<1> SUFFICES ASSUME HistoryInit
             PROVE  LinkInv
  OBVIOUS
<1>1. /\ \A t \in Txs : t \in Procs /\ pc[t] = "begin"
      /\ \A i \in PlainIds : /\ versionChains[i] = <<>> /\ DOMAIN versionChains[i] = {}
                             /\ committed[i] = {}
      /\ CommittedType
  BY DEF HistoryInit, Init, PlainIds, Procs, CommittedType
<1>2. HandleStages /\ Owned /\ OnTop /\ Certified /\ Linked
  BY <1>1 DEF HandleStages, Owned, OnTop, InFlight, Certified, Linked
<1>3. QED
  BY <1>1, <1>2 DEF LinkInv

\* Every step keeps chains and committed state together.
LEMMA LinkStep ==
    IInv /\ IInvFCW /\ LinkInv /\ [HistoryNext]_historyVars => LinkInv'
<1>1. ASSUME IInv, IInvFCW, LinkInv, HistoryNext
      PROVE  LinkInv'
  <2>1. /\ [Next]_vars /\ TypeOK /\ CommitExclusion /\ Reads
        /\ HandleStages /\ CommittedType /\ Owned /\ OnTop /\ Certified
    BY <1>1 DEF HistoryNext, IInv, IInvFCW, LinkInv
  <2>2. HandleStages' /\ Owned' /\ OnTop' /\ Certified'
    BY <1>1, <2>1, HandleStagesStep, OwnedStep, OnTopStep, CertifiedStep
  <2>3. CommittedType' /\ Linked'
    BY <1>1, <2>1, CommittedTypeStep, LinkedStep
  <2>4. QED
    BY <2>2, <2>3 DEF LinkInv
<1>2. ASSUME LinkInv, UNCHANGED historyVars
      PROVE  LinkInv'
  BY <1>2 DEF LinkInv, HandleStages, CommittedType, Owned, OnTop, Certified, Linked, Installed,
              InFlight, Written, Writer, historyVars, vars
<1>3. QED
  BY <1>1, <1>2

-----------------------------------------------------------------------------
(* What a handle's place in the abstract specification depends on. *)

\* The stages behind each status.
LEMMA Statuses ==
    ASSUME TypeOK, HandleStages, NEW t \in Txs
    PROVE  /\ StatusOf(t) = "idle" <=> pc[t] \in {"begin", "numbered"}
           /\ StatusOf(t) = "starting" <=> pc[t] = "snapped" /\ Quiet(t)
           /\ StatusOf(t) = "open" <=> pc[t] \in {"active", "committing", "validated"} /\ Quiet(t)
           /\ StatusOf(t) = "loose" <=>
                 pc[t] \in {"snapped", "active", "committing", "validated"} /\ ~Quiet(t)
           /\ StatusOf(t) = "committing" <=> InFlight(t)
           /\ StatusOf(t) = "committed" <=> pc[t] \in {"closing", "done"}
           /\ StatusOf(t) = "aborted" <=> pc[t] = "aborted"
<1>1. pc[t] \in Stages \ {"store", "failed", "indexFailed"}
  BY DEF TypeOK, HandleStages, Procs
<1>2. QED
  BY <1>1 DEF StatusOf, InFlight, Stages

\* The same after a step.
LEMMA StatusesAfter ==
    ASSUME TypeOK', HandleStages', NEW t \in Txs
    PROVE  /\ StatusOf(t)' = "idle" <=> pc'[t] \in {"begin", "numbered"}
           /\ StatusOf(t)' = "starting" <=> pc'[t] = "snapped" /\ Quiet(t)'
           /\ StatusOf(t)' = "open" <=> pc'[t] \in {"active", "committing", "validated"} /\ Quiet(t)'
           /\ StatusOf(t)' = "loose" <=>
                 pc'[t] \in {"snapped", "active", "committing", "validated"} /\ ~Quiet(t)'
           /\ StatusOf(t)' = "committing" <=> InFlight(t)'
           /\ StatusOf(t)' = "committed" <=> pc'[t] \in {"closing", "done"}
           /\ StatusOf(t)' = "aborted" <=> pc'[t] = "aborted"
<1>1. pc'[t] \in Stages \ {"store", "failed", "indexFailed"}
  BY DEF TypeOK, HandleStages, Procs
<1>2. QED
  BY <1>1 DEF StatusOf, InFlight, Stages

\* IDs that have been given out keep their owners.
LEMMA WritersKept ==
    ASSUME TypeOK, Numbers, [Next]_vars, NEW n \in Nat, n <= txIDCounter
    PROVE  WriterAfter(n) = Writer(n)
<1>1. ASSUME NEW t \in Txs
      PROVE  id'[t] = id[t] \/ (id[t] = 0 /\ id'[t] > n)
  <2>0. t \in Procs
    BY DEF Procs
  <2>1. ASSUME NEW p \in Procs, AllocateID(p)
        PROVE  id'[t] = id[t] \/ (id[t] = 0 /\ id'[t] > n)
    BY <2>0, <2>1 DEF AllocateID, Numbers, HasID, TypeOK
  <2>2. ASSUME NEW p \in Procs, LoadSnapshot(p) \/ Register(p) \/ CompareAndSwap(p) \/ Progress(p)
        PROVE  id' = id
    BY <2>2 DEF LoadSnapshot, Register, CompareAndSwap, Progress, begunVars
  <2>3. ASSUME NEW s \in Storers, NEW i \in DirectIds, DirectStore(s, i)
        PROVE  id' = id
    BY <2>3 DEF DirectStore, begunVars
  <2>4. QED
    BY <2>1, <2>2, <2>3, StepKinds DEF begunVars
<1>2. QED
  BY <1>1 DEF Writer, WriterAfter

\* What a handle finds has an ID that was given out, and a handle that wrote it.
LEMMA ViewOwner ==
    ASSUME IInv, Owned, Numbers, NEW t \in Txs, NEW i \in PlainIds
    PROVE  /\ View(t, i).ver \in Nat /\ View(t, i).ver <= txIDCounter
           /\ View(t, i) # Absent =>
                 \E q \in Txs : /\ Installed(q, i) /\ View(t, i) = NewVersion(id[q])
                                /\ Writer(View(t, i).ver) = {q}
<1>0. /\ TypeOK /\ t \in Procs /\ i \in Ids /\ i \in Ids \ RemovableIds
      /\ snap[t] \in Nat /\ txIDCounter \in Nat /\ versionChains[i] \in Seq(Versions)
      /\ \A n : NewVersion(n).ver = n
  BY DEF IInv, TypeOK, PlainIds, Procs, NewVersion
<1>1. CASE View(t, i) = Absent
  BY <1>0, <1>1 DEF Absent
<1>2. CASE View(t, i) # Absent
  <2>1. PICK k \in DOMAIN versionChains[i] : View(t, i) = versionChains[i][k]
    BY <1>0, <1>2, VisibleIsInChain DEF View
  <2>2. PICK q \in Txs : Installed(q, i) /\ versionChains[i][k] = NewVersion(id[q])
    BY DEF Owned
  <2>3. q \in Procs /\ id[q] \in Nat /\ id[q] <= txIDCounter /\ id[q] # 0
    BY <1>0, <2>2 DEF TypeOK, Numbers, Procs, Installed, HasID
  <2>4. Writer(id[q]) = {q}
    BY <2>3, WriterOf
  <2>5. QED
    BY <1>0, <2>1, <2>2, <2>3, <2>4
<1>3. QED
  BY <1>1, <1>2

\* No commit takes place: the committed state stays.
LEMMA CommittedKept ==
    ASSUME CommittedType, HistoryNext, \A t \in Txs : ~TakesPlace(t)
    PROVE  committed' = committed
BY DEF CommittedType, HistoryNext

\* A handle with a snapshot keeps the base it began with, as long as nothing is collected.
LEMMA BaseKept ==
    ASSUME IInv, LinkInv, [Next]_vars, ~GarbageCollect, NEW t \in Txs,
           StatusOf(t) \in {"starting", "open"}, StatusOf(t)' \in {"starting", "open"}
    PROVE  BaseOf(t)' = BaseOf(t)
<1>0. /\ TypeOK /\ Numbers /\ HandleStages /\ Owned /\ t \in Procs
  BY DEF IInv, LinkInv, Procs
<1>1. Quiet(t) /\ HasSnapshot(t)
  BY <1>0, Statuses DEF HasSnapshot, HasID
<1>2. snap'[t] = snap[t]
  BY <1>0, <1>1, SnapshotsKept
<1>3. ASSUME NEW i \in PlainIds
      PROVE  Writer(View(t, i).ver)' = Writer(View(t, i).ver)
  <2>1. View(t, i)' = View(t, i)
    <3>1. i \in Ids \ RemovableIds
      BY DEF PlainIds
    <3>2. GetVisibleVersion(versionChains'[i], snap[t]) = View(t, i)
      BY <1>0, <1>1, <3>1, ViewKeptUnlessCollected
    <3>3. QED
      BY <1>2, <3>2 DEF View
  <2>2. PICK n \in Nat : n = View(t, i).ver /\ n <= txIDCounter
    BY <1>0, ViewOwner
  <2>3. WriterAfter(n) = Writer(n)
    BY <1>0, <2>2, WritersKept
  <2>4. QED
    BY <2>1, <2>2, <2>3 DEF Writer, WriterAfter
<1>4. QED
  BY <1>3 DEF BaseOf

\* A read set that does not change means the same writers.
LEMMA SeenKept ==
    ASSUME IInv, Reads, [Next]_vars, NEW t \in Txs, StatusOf(t) = "open" => StatusOf(t)' = "open",
           StatusOf(t)' = "open" =>
              \/ StatusOf(t) = "open" /\ \A i \in PlainIds : readSet'[t][i] = readSet[t][i]
              \/ StatusOf(t) # "open" /\ \A i \in PlainIds : readSet'[t][i] = 0
    PROVE  SeenOf(t)' = SeenOf(t)
<1>0. /\ TypeOK /\ Numbers /\ t \in Procs /\ PlainIds \subseteq Ids
      /\ snap[t] \in Nat /\ lastCommittedTx \in Nat /\ txIDCounter \in Nat
  BY DEF IInv, TypeOK, Procs, PlainIds
<1>1. ASSUME NEW i \in PlainIds
      PROVE  WriterAfter(readSet[t][i]) = Writer(readSet[t][i])
  <2>1. PICK n \in Nat : n = readSet[t][i]
    BY <1>0 DEF TypeOK
  <2>2. n <= txIDCounter
    <3>1. n <= snap[t] /\ snap[t] <= lastCommittedTx /\ lastCommittedTx <= txIDCounter
      BY <1>0, <2>1 DEF Reads, Numbers
    <3>2. QED
      BY <1>0, <3>1
  <2>3. QED
    BY <1>0, <2>1, <2>2, WritersKept
<1>2. CASE StatusOf(t)' # "open"
  BY <1>2 DEF SeenOf
<1>3. CASE StatusOf(t)' = "open" /\ StatusOf(t) = "open"
  <2>1. \A i \in PlainIds : Writer(readSet[t][i])' = Writer(readSet[t][i])
    BY <1>1, <1>3 DEF Writer, WriterAfter
  <2>2. QED
    BY <1>3, <2>1 DEF SeenOf
<1>4. CASE StatusOf(t)' = "open" /\ StatusOf(t) # "open"
  <2>1. \A i \in PlainIds : Writer(readSet[t][i])' = {}
    BY <1>4 DEF Writer
  <2>2. QED
    BY <1>4, <2>1 DEF SeenOf
<1>5. QED
  BY <1>2, <1>3, <1>4

\* The abstract state of one handle.
Place(t) == <<StatusOf(t), BaseOf(t), SeenOf(t), WritesOf(t)>>

\* While the status stays, and what was read or is written, so does the abstract state.
LEMMA PlaceKept ==
    ASSUME IInv, LinkInv, Reads, [Next]_vars, ~GarbageCollect, NEW t \in Txs,
           StatusOf(t)' = StatusOf(t),
           StatusOf(t) = "open" => \A i \in PlainIds : readSet'[t][i] = readSet[t][i],
           StatusOf(t) = "committing" => writeSet'[t] = writeSet[t]
    PROVE  UNCHANGED Place(t)
<1>1. BaseOf(t)' = BaseOf(t)
  <2>1. CASE StatusOf(t) \in {"starting", "open"}
    BY <2>1, BaseKept
  <2>2. CASE StatusOf(t) \notin {"starting", "open"}
    BY <2>2 DEF BaseOf
  <2>3. QED
    BY <2>1, <2>2
<1>2. SeenOf(t)' = SeenOf(t)
  BY SeenKept
<1>3. WritesOf(t)' = WritesOf(t)
  BY DEF WritesOf, Written
<1>4. QED
  BY <1>1, <1>2, <1>3 DEF Place

\* A step of somebody moves nobody else, and only a handle's own commit counts.
LEMMA OthersStay ==
    ASSUME IInv, LinkInv, Reads, [Next]_vars, ~GarbageCollect, NEW p \in Procs, Own(p)
    PROVE  \A t \in Txs \ {p} : UNCHANGED Place(t) /\ ~TakesPlace(t)
<1> SUFFICES ASSUME NEW t \in Txs \ {p}
             PROVE  UNCHANGED Place(t) /\ ~TakesPlace(t)
  OBVIOUS
<1>1. UNCHANGED Local(t)
  BY OwnTouchesOwn DEF IInv, Procs
<1>2. StatusOf(t)' = StatusOf(t) /\ readSet'[t] = readSet[t] /\ writeSet'[t] = writeSet[t]
  BY <1>1 DEF Local, StatusOf, Quiet
<1>3. ~TakesPlace(t)
  BY <1>1 DEF Local, TakesPlace
<1>4. QED
  BY <1>2, <1>3, PlaceKept

\* A quiet snapshot that is taken now shows the committed state.
LEMMA FreshSnapshot ==
    ASSUME IInv, PublishedCovered, Covered, LinkInv, NEW i \in PlainIds,
           \A q \in Procs : id[q] \in 1..lastCommittedTx => ~Unfinished(q)
    PROVE  Writer(GetVisibleVersion(versionChains[i], lastCommittedTx).ver) = committed[i]
<1> DEFINE c == versionChains[i]
<1>0. /\ TypeOK /\ Numbers /\ Chains /\ Owned /\ Linked
      /\ i \in Ids /\ i \in Ids \ RemovableIds
      /\ c \in Seq(Versions) /\ lastCommittedTx \in Nat
      /\ \A n : NewVersion(n).ver = n /\ NewVersion(n).created = n /\ NewVersion(n).deleted = 0
      /\ Absent.ver = 0
  BY DEF IInv, LinkInv, TypeOK, PlainIds, NewVersion, Absent
<1>a. VisibleAt(c, lastCommittedTx) \in SUBSET Nat /\ DOMAIN c = 1..Len(c) /\ Len(c) \in Nat
  BY <1>0 DEF VisibleAt
<1>b. \A k \in DOMAIN c : k \in VisibleAt(c, lastCommittedTx) <=> c[k].created <= lastCommittedTx
  BY <1>0, PlainVersions DEF VisibleAt, IsVisible
<1>1. CASE c = <<>>
  <2>1. GetVisibleVersion(c, lastCommittedTx) = Absent
    BY <1>1 DEF GetVisibleVersion, VisibleAt
  <2>2. QED
    BY <1>0, <1>1, <2>1 DEF Linked, Writer
<1>2. CASE c # <<>>
  <2>0. 1 \in DOMAIN c
    BY <1>0, <1>2
  <2>1. PICK q \in Txs : Installed(q, i) /\ c[1] = NewVersion(id[q])
    BY <1>0, <2>0 DEF Owned
  <2>2. q \in Procs /\ id[q] \in Nat /\ id[q] # 0
    BY <1>0, <2>1 DEF TypeOK, Numbers, Procs, Installed, HasID
  <2>3. CASE c[1].created <= lastCommittedTx
    <3>1. 1 \in VisibleAt(c, lastCommittedTx) /\ \A j \in VisibleAt(c, lastCommittedTx) : 1 <= j
      BY <1>a, <1>b, <2>0, <2>3 DEF VisibleAt
    <3>2. Least(VisibleAt(c, lastCommittedTx)) = 1
      BY <1>a, <3>1, LeastIsUnique
    <3>3. GetVisibleVersion(c, lastCommittedTx) = c[1]
      BY <3>1, <3>2 DEF GetVisibleVersion
    <3>4. id[q] \in 1..lastCommittedTx
      BY <1>0, <2>1, <2>2, <2>3
    <3>5. ~InFlight(q)
      BY <2>2, <3>4 DEF Unfinished, InFlight
    <3>6. committed[i] = {q}
      BY <1>0, <1>2, <2>1, <3>5 DEF Linked
    <3>7. Writer(id[q]) = {q}
      BY <1>0, <2>2, WriterOf
    <3>8. QED
      BY <1>0, <2>1, <3>3, <3>6, <3>7
  <2>4. CASE ~(c[1].created <= lastCommittedTx)
    <3>1. id[q] > lastCommittedTx
      BY <1>0, <2>1, <2>2, <2>4
    <3>2. InFlight(q)
      <4>1. pc[q] \notin {"closing", "done"}
        BY <1>0, <2>2, <3>1 DEF PublishedCovered
      <4>2. QED
        BY <2>1, <4>1 DEF Installed, InFlight
    <3>3. CASE Len(c) > 1
      <4>1. 2 \in DOMAIN c /\ c[2].created <= lastCommittedTx
        BY <1>a, <3>3 DEF Covered
      <4>2. 2 \in VisibleAt(c, lastCommittedTx) /\ \A j \in VisibleAt(c, lastCommittedTx) : 2 <= j
        <5>1. 1 \notin VisibleAt(c, lastCommittedTx) /\ 2 \in VisibleAt(c, lastCommittedTx)
          BY <1>b, <2>0, <2>4, <4>1
        <5>2. \A j \in VisibleAt(c, lastCommittedTx) : j \in 1..Len(c)
          BY <1>a DEF VisibleAt
        <5>3. QED
          BY <1>a, <5>1, <5>2
      <4>3. Least(VisibleAt(c, lastCommittedTx)) = 2
        BY <1>a, <4>2, LeastIsUnique
      <4>4. GetVisibleVersion(c, lastCommittedTx) = c[2]
        BY <4>2, <4>3 DEF GetVisibleVersion
      <4>5. committed[i] = Writer(c[2].ver)
        BY <1>0, <1>2, <2>1, <3>2, <3>3 DEF Linked
      <4>6. QED
        BY <4>4, <4>5
    <3>4. CASE Len(c) = 1
      <4>1. VisibleAt(c, lastCommittedTx) = {}
        <5>1. \A k \in VisibleAt(c, lastCommittedTx) : k \in DOMAIN c
          BY DEF VisibleAt
        <5>2. DOMAIN c = {1}
          BY <1>a, <3>4
        <5>3. QED
          BY <1>b, <2>4, <5>1, <5>2
      <4>2. GetVisibleVersion(c, lastCommittedTx) = Absent
        BY <4>1 DEF GetVisibleVersion
      <4>3. committed[i] = {}
        BY <1>0, <1>2, <2>1, <3>1, <3>2, <3>4 DEF Linked
      <4>4. QED
        BY <1>0, <4>2, <4>3 DEF Writer
    <3>5. Len(c) = 1 \/ Len(c) > 1
      <4>1. \A n \in Nat : 1 \in 1..n => n = 1 \/ n > 1
        OBVIOUS
      <4>2. QED
        BY <1>a, <2>0, <4>1
    <3>6. QED
      BY <3>3, <3>4, <3>5
  <2>5. QED
    BY <2>3, <2>4
<1>3. QED
  BY <1>1, <1>2

\* An ID that nobody has covered since the snapshot is committed as the snapshot has it.
LEMMA NotCovered ==
    ASSUME IInv, LinkInv, NEW t \in Txs, HasSnapshot(t), Quiet(t), NEW i \in PlainIds,
           versionChains[i] # <<>> => versionChains[i][1].created <= snap[t]
    PROVE  committed[i] = Writer(View(t, i).ver)
<1> DEFINE c == versionChains[i]
<1>0. /\ TypeOK /\ Numbers /\ Settled /\ Chains /\ Owned /\ Linked
      /\ t \in Procs /\ i \in Ids /\ i \in Ids \ RemovableIds
      /\ c \in Seq(Versions) /\ snap[t] \in Nat
      /\ \A n : NewVersion(n).ver = n /\ NewVersion(n).created = n
      /\ Absent.ver = 0
  BY DEF IInv, LinkInv, TypeOK, PlainIds, NewVersion, Absent, Procs
<1>1. CASE c = <<>>
  <2>1. View(t, i) = Absent
    BY <1>1 DEF View, GetVisibleVersion, VisibleAt
  <2>2. QED
    BY <1>0, <1>1, <2>1 DEF Linked, Writer
<1>2. CASE c # <<>>
  <2>1. 1 \in DOMAIN c /\ c[1].created <= snap[t]
    BY <1>0, <1>2
  <2>2. PICK q \in Txs : Installed(q, i) /\ c[1] = NewVersion(id[q])
    BY <1>0, <2>1 DEF Owned
  <2>3. q \in Procs /\ id[q] # 0
    BY <1>0, <2>2 DEF Numbers, Procs, Installed, HasID
  <2>4. ~InFlight(q)
    BY <1>0, <2>1, <2>2, <2>3 DEF Settled, Unfinished, InFlight
  <2>5. committed[i] = {q}
    BY <1>0, <1>2, <2>2, <2>4 DEF Linked
  <2>6. 1 \in VisibleAt(c, snap[t])
    BY <1>0, <2>1, PlainVersions DEF VisibleAt, IsVisible
  <2>7. VisibleAt(c, snap[t]) \in SUBSET Nat /\ \A j \in VisibleAt(c, snap[t]) : 1 <= j
    BY <1>0 DEF VisibleAt
  <2>8. Least(VisibleAt(c, snap[t])) = 1
    BY <2>6, <2>7, LeastIsUnique
  <2>9. View(t, i) = c[1]
    BY <2>6, <2>8 DEF View, GetVisibleVersion
  <2>10. Writer(id[q]) = {q}
    BY <1>0, <2>3, WriterOf
  <2>11. QED
    BY <1>0, <2>2, <2>5, <2>9, <2>10
<1>3. QED
  BY <1>1, <1>2

\* What a collection takes from a reader it takes entirely, and the newest version is
\* not for that reader.
LEMMA GcLoses ==
    ASSUME NEW chain \in Seq(Versions), NEW m \in Nat, NEW s \in Nat,
           \A k \in DOMAIN chain : chain[k].deleted = 0,
           GetVisibleVersion(GcVersionChain(chain, m), s) # GetVisibleVersion(chain, s)
    PROVE  /\ GetVisibleVersion(GcVersionChain(chain, m), s) = Absent
           /\ chain # <<>> /\ ~(chain[1].created <= s)
<1>1. PICK n \in 1..Len(chain) : GcVersionChain(chain, m) = SubSeq(chain, 1, n)
  BY GcIsPrefix
<1> DEFINE new == SubSeq(chain, 1, n)
<1>2. DOMAIN new = 1..n /\ \A k \in 1..n : new[k] = chain[k]
  OBVIOUS
<1> HIDE DEF new
<1>3. VisibleAt(chain, s) \in SUBSET Nat
  BY DEF VisibleAt
<1>4. CASE \E k \in 1..n : k \in VisibleAt(chain, s)
  <2> DEFINE l == Least(VisibleAt(chain, s))
  <2>1. l \in VisibleAt(chain, s) /\ \A j \in VisibleAt(chain, s) : l <= j
    BY <1>3, <1>4, LeastExists
  <2> HIDE DEF l
  <2>2. l \in 1..n
    BY <1>4, <2>1 DEF VisibleAt
  <2>3. VisibleAt(new, s) \subseteq VisibleAt(chain, s) /\ l \in VisibleAt(new, s)
    BY <1>2, <2>1, <2>2 DEF VisibleAt
  <2>4. Least(VisibleAt(new, s)) = l
    BY <1>3, <2>1, <2>3, LeastIsUnique
  <2>5. GetVisibleVersion(new, s) = chain[l]
    BY <1>2, <2>2, <2>3, <2>4 DEF GetVisibleVersion
  <2>6. GetVisibleVersion(chain, s) = chain[l]
    BY <1>4 DEF GetVisibleVersion, l
  <2>7. QED
    BY <1>1, <2>5, <2>6 DEF new
<1>5. CASE ~\E k \in 1..n : k \in VisibleAt(chain, s)
  <2>1. VisibleAt(new, s) = {}
    BY <1>2, <1>5 DEF VisibleAt
  <2>2. GetVisibleVersion(new, s) = Absent
    BY <2>1 DEF GetVisibleVersion
  <2>3. 1 \in 1..n /\ 1 \in DOMAIN chain
    OBVIOUS
  <2>4. ~(chain[1].created <= s)
    BY <1>5, <2>3 DEF VisibleAt, IsVisible
  <2>5. QED
    BY <1>1, <2>2, <2>3, <2>4 DEF new
<1>6. QED
  BY <1>4, <1>5

-----------------------------------------------------------------------------
(* From a change of one handle's place to an abstract action. *)

Abstract == [Isolation!Next]_(Isolation!vars)

\* Nothing changes.
LEMMA Stutters ==
    ASSUME \A t \in Txs : UNCHANGED Place(t), UNCHANGED committed
    PROVE  Abstract
BY DEF Abstract, Isolation!vars, Place

\* A handle takes its snapshot.
LEMMA Begins ==
    ASSUME NEW t \in Txs, \A q \in Txs \ {t} : UNCHANGED Place(q), UNCHANGED committed,
           StatusOf(t) = "idle", StatusOf(t)' = "starting", BaseOf(t)' = committed,
           UNCHANGED <<SeenOf(t), WritesOf(t)>>
    PROVE  Abstract
BY DEF Abstract, Isolation!Next, Isolation!Begin, Place

\* A handle takes a snapshot that overlaps a commit.
LEMMA BeginsLoosely ==
    ASSUME NEW t \in Txs, \A q \in Txs \ {t} : UNCHANGED Place(q), UNCHANGED committed,
           StatusOf(t) = "idle", StatusOf(t)' = "loose",
           UNCHANGED <<BaseOf(t), SeenOf(t), WritesOf(t)>>
    PROVE  Abstract
BY DEF Abstract, Isolation!Next, Isolation!BeginLoosely, Place

\* A handle is registered.
LEMMA Registers ==
    ASSUME NEW t \in Txs, \A q \in Txs \ {t} : UNCHANGED Place(q), UNCHANGED committed,
           StatusOf(t) = "starting", StatusOf(t)' = "open",
           UNCHANGED <<BaseOf(t), SeenOf(t), WritesOf(t)>>
    PROVE  Abstract
BY DEF Abstract, Isolation!Next, Isolation!Register, Place

\* A handle finds an ID.
LEMMA Finds ==
    ASSUME NEW t \in Txs, \A q \in Txs \ {t} : UNCHANGED Place(q), UNCHANGED committed,
           NEW i \in PlainIds, StatusOf(t) = "open", BaseOf(t)[i] # {},
           SeenOf(t)' = [SeenOf(t) EXCEPT ![i] = BaseOf(t)[i]],
           UNCHANGED <<StatusOf(t), BaseOf(t), WritesOf(t)>>
    PROVE  Abstract
<1>1. Isolation!Read(t, i)
  BY DEF Isolation!Read, Place
<1>2. QED
  BY <1>1 DEF Abstract, Isolation!Next

\* A handle passes its log write.
LEMMA Prepares ==
    ASSUME NEW t \in Txs, \A q \in Txs \ {t} : UNCHANGED Place(q), UNCHANGED committed,
           NEW W \in SUBSET PlainIds, StatusOf(t) \in {"open", "loose"},
           \A q \in Txs : StatusOf(q) # "committing",
           StatusOf(t) = "open" =>
              /\ \A i \in W : committed[i] = BaseOf(t)[i]
              /\ \A i \in PlainIds : SeenOf(t)[i] # {} => committed[i] = SeenOf(t)[i],
           StatusOf(t)' = "committing", WritesOf(t)' = W,
           BaseOf(t)' = [i \in PlainIds |-> {}], SeenOf(t)' = [i \in PlainIds |-> {}]
    PROVE  Abstract
<1>1. Isolation!Prepare(t, W)
  BY DEF Isolation!Prepare, Isolation!Nothing, Place
<1>2. QED
  BY <1>1 DEF Abstract, Isolation!Next

\* A handle's commit takes place.
LEMMA Commits ==
    ASSUME NEW t \in Txs, \A q \in Txs \ {t} : UNCHANGED Place(q),
           committed' = [i \in PlainIds |-> IF i \in WritesOf(t) THEN {t} ELSE committed[i]],
           StatusOf(t) = "committing", StatusOf(t)' = "committed", WritesOf(t)' = {},
           UNCHANGED <<BaseOf(t), SeenOf(t)>>
    PROVE  Abstract
<1>1. Isolation!Commit(t)
  BY DEF Isolation!Commit, Place
<1>2. QED
  BY <1>1 DEF Abstract, Isolation!Next

\* A handle gives up.
LEMMA Aborts ==
    ASSUME NEW t \in Txs, \A q \in Txs \ {t} : UNCHANGED Place(q), UNCHANGED committed,
           StatusOf(t) \in {"open", "loose"}, StatusOf(t)' = "aborted",
           BaseOf(t)' = [i \in PlainIds |-> {}], SeenOf(t)' = [i \in PlainIds |-> {}],
           UNCHANGED WritesOf(t)
    PROVE  Abstract
<1>1. Isolation!Abort(t)
  BY DEF Isolation!Abort, Isolation!Nothing, Place
<1>2. QED
  BY <1>1 DEF Abstract, Isolation!Next

-----------------------------------------------------------------------------
(* The steps. *)

\* A collection, which may take IDs from handles that are not registered yet.
LEMMA CollectionMaps ==
    ASSUME HistoryInv, GarbageCollect, HistoryNext
    PROVE  Abstract
<1>0. /\ [Next]_vars /\ IInv /\ IInvCommit /\ LinkInv /\ TypeOK /\ Numbers /\ HandleStages
      /\ Chains /\ Owned /\ Linked /\ CommittedType /\ Reads
      /\ UNCHANGED <<pc, id, snap, early, readSet, writeSet, txIDCounter>>
  BY DEF HistoryInv, HistoryNext, IInv, IInvFCW, LinkInv, GarbageCollect, begunVars, txVars
<1>1. \A t \in Txs : ~TakesPlace(t)
  BY <1>0 DEF TakesPlace
<1>2. committed' = committed
  BY <1>0, <1>1, CommittedKept
<1>3. ASSUME NEW t \in Txs
      PROVE  /\ StatusOf(t)' = StatusOf(t) /\ WritesOf(t)' = WritesOf(t)
             /\ SeenOf(t)' = SeenOf(t)
  <2>1. StatusOf(t)' = StatusOf(t)
    BY <1>0 DEF StatusOf, Quiet
  <2>2. WritesOf(t)' = WritesOf(t)
    BY <1>0, <2>1 DEF WritesOf, Written
  <2>3. SeenOf(t)' = SeenOf(t)
    BY <1>0, <2>1 DEF SeenOf, Writer
  <2>4. QED
    BY <2>1, <2>2, <2>3
<1>4. ASSUME NEW t \in Txs, NEW i \in PlainIds, BaseOf(t)'[i] # BaseOf(t)[i]
      PROVE  /\ BaseOf(t)'[i] = {} /\ StatusOf(t) = "starting"
             /\ \/ BaseOf(t)[i] # committed[i]
                \/ \E q \in Txs : StatusOf(q) = "committing" /\ i \in WritesOf(q)
  <2> DEFINE c == versionChains[i]
  <2>0. /\ t \in Procs /\ i \in Ids /\ i \in Ids \ RemovableIds
        /\ c \in Seq(Versions) /\ snap[t] \in Nat
        /\ \A n : NewVersion(n).ver = n /\ NewVersion(n).created = n
        /\ Absent.ver = 0
    BY <1>0 DEF TypeOK, PlainIds, Procs, NewVersion, Absent
  <2>1. StatusOf(t) \in {"starting", "open"} /\ View(t, i)' # View(t, i)
    BY <1>0, <1>3, <1>4 DEF BaseOf, Writer
  <2>2. Quiet(t) /\ HasSnapshot(t)
    BY <1>0, <2>1, Statuses DEF HasSnapshot, HasID
  <2>3. StatusOf(t) = "starting"
    <3>1. ASSUME StatusOf(t) = "open"
          PROVE  FALSE
      <4>1. pc[t] \in {"active", "committing", "validated"}
        BY <1>0, <3>1, Statuses
      <4>2. t \in OpenTxs
        BY <1>0, <4>1 DEF IInvCommit, Registered, OpenTxs
      <4>3. GetVisibleVersion(versionChains'[i], snap[t]) = View(t, i)
        BY <1>0, <2>0, <2>2, <4>2, ViewKept
      <4>4. QED
        BY <1>0, <2>1, <4>3 DEF View
    <3>2. QED
      BY <2>1, <3>1
  <2>4. View(t, i)' = Absent /\ c # <<>> /\ ~(c[1].created <= snap[t])
    <3>1. versionChains'[i] = GcVersionChain(c, MinSnapshot) /\ MinSnapshot \in Nat
      BY <1>0, <2>0, MinSnapshotIsLow DEF GarbageCollect
    <3>2. \A k \in DOMAIN c : c[k].deleted = 0
      BY <1>0, <2>0, PlainVersions
    <3>3. GetVisibleVersion(GcVersionChain(c, MinSnapshot), snap[t]) # GetVisibleVersion(c, snap[t])
      BY <1>0, <2>1, <3>1 DEF View
    <3>4. GetVisibleVersion(GcVersionChain(c, MinSnapshot), snap[t]) = Absent
          /\ c # <<>> /\ ~(c[1].created <= snap[t])
      BY <2>0, <3>1, <3>2, <3>3, GcLoses
    <3>5. QED
      BY <1>0, <3>1, <3>4 DEF View
  <2>5. BaseOf(t)'[i] = {}
    BY <2>0, <2>4 DEF BaseOf, Writer
  <2>6. PICK q \in Txs : Installed(q, i) /\ c[1] = NewVersion(id[q])
    BY <1>0, <2>0, <2>4 DEF Owned
  <2>7. CASE InFlight(q)
    <3>1. StatusOf(q) = "committing" /\ i \in WritesOf(q)
      BY <1>0, <2>6, <2>7, Statuses DEF WritesOf, Installed
    <3>2. QED
      BY <2>3, <2>5, <3>1
  <2>8. CASE ~InFlight(q)
    <3>1. committed[i] = {q}
      BY <1>0, <2>0, <2>4, <2>6, <2>8 DEF Linked
    <3>2. ASSUME BaseOf(t)[i] = {q}
          PROVE  FALSE
      <4>1. Writer(View(t, i).ver) = {q}
        BY <2>1, <3>2 DEF BaseOf
      <4>2. View(t, i).ver = id[q] /\ View(t, i).ver # 0
        BY <4>1 DEF Writer
      <4>3. PICK k \in DOMAIN c : View(t, i) = c[k] /\ IsVisible(c[k], snap[t])
        BY <2>0, <4>2, VisibleIsInChain DEF View
      <4>4. c[k].created = id[q] /\ c[k].created <= snap[t]
        BY <1>0, <2>0, <4>2, <4>3, PlainVersions DEF IsVisible
      <4>5. QED
        BY <2>0, <2>4, <2>6, <4>4
    <3>3. QED
      BY <2>3, <2>5, <3>1, <3>2
  <2>9. QED
    BY <2>7, <2>8
<1>5. \A t \in Txs : BaseOf(t)' \in [PlainIds -> SUBSET Txs]
  BY DEF BaseOf, Writer
<1>6. Isolation!Lose
  BY <1>2, <1>3, <1>4, <1>5 DEF Isolation!Lose, Isolation!Replaced
<1>7. QED
  BY <1>6 DEF Abstract, Isolation!Next

\* The snapshot of a handle: the committed state, or a loose one.
LEMMA LoadSnapshotMaps ==
    ASSUME HistoryInv, HandleStages', TypeOK', [Next]_vars, NEW t \in Txs, LoadSnapshot(t),
           \A q \in Txs \ {t} : UNCHANGED Place(q), UNCHANGED committed
    PROVE  Abstract
<1>0. /\ TypeOK /\ TypeOK' /\ HandleStages /\ IInv /\ LinkInv /\ t \in Procs
      /\ PublishedCovered /\ Covered /\ CommittedType
      /\ pc[t] = "numbered" /\ pc'[t] = "snapped"
      /\ snap'[t] = lastCommittedTx
      /\ early'[t] = {q \in Procs : id[q] \in 1..lastCommittedTx /\ Unfinished(q)}
      /\ UNCHANGED <<id, versionChains>>
  BY DEF HistoryInv, IInv, IInvCommit, IInvFCW, LinkInv, Procs, LoadSnapshot, Goto, TypeOK
<1>1. /\ StatusOf(t) = "idle"
      /\ StatusOf(t)' = IF Quiet(t)' THEN "starting" ELSE "loose"
  BY <1>0, Statuses, StatusesAfter
<1>2. UNCHANGED <<SeenOf(t), WritesOf(t)>>
  BY <1>1 DEF SeenOf, WritesOf
<1>3. CASE Quiet(t)'
  <2>1. \A q \in Procs : id[q] \in 1..lastCommittedTx => ~Unfinished(q)
    BY <1>0, <1>3 DEF Quiet
  <2>2. ASSUME NEW i \in PlainIds
        PROVE  Writer(View(t, i).ver)' = committed[i]
    <3>1. View(t, i)' = GetVisibleVersion(versionChains[i], lastCommittedTx)
      BY <1>0 DEF View
    <3>2. Writer(GetVisibleVersion(versionChains[i], lastCommittedTx).ver) = committed[i]
      BY <1>0, <2>1, FreshSnapshot
    <3>3. QED
      BY <1>0, <3>1, <3>2 DEF Writer
  <2>3. BaseOf(t)' = committed
    <3>1. BaseOf(t)' = [i \in PlainIds |-> committed[i]]
      BY <1>1, <1>3, <2>2 DEF BaseOf
    <3>2. QED
      BY <1>0, <3>1 DEF CommittedType
  <2>4. QED
    BY <1>1, <1>2, <1>3, <2>3, Begins
<1>4. CASE ~Quiet(t)'
  <2>1. UNCHANGED BaseOf(t)
    BY <1>1, <1>4 DEF BaseOf
  <2>2. QED
    BY <1>1, <1>2, <1>4, <2>1, BeginsLoosely
<1>5. QED
  BY <1>3, <1>4

\* Registration opens a handle.
LEMMA RegisterMaps ==
    ASSUME HistoryInv, HandleStages', TypeOK', [Next]_vars, ~GarbageCollect, NEW t \in Txs,
           Register(t), \A q \in Txs \ {t} : UNCHANGED Place(q), UNCHANGED committed
    PROVE  Abstract
<1>0. /\ TypeOK /\ TypeOK' /\ HandleStages /\ IInv /\ LinkInv /\ t \in Procs /\ Reads
      /\ pc[t] = "snapped" /\ pc'[t] = "active"
      /\ UNCHANGED <<early, readSet, writeSet>> /\ \A i \in Ids : readSet[t][i] = 0
  <2>1. /\ TypeOK /\ HandleStages /\ IInv /\ LinkInv /\ t \in Procs /\ Reads
        /\ t \notin Storers /\ IInvCommit
    BY ConstantsAssumption DEF HistoryInv, IInv, IInvFCW, LinkInv, Procs
  <2>2. pc[t] = "snapped" /\ Goto(t, "active") /\ UNCHANGED <<early, readSet, writeSet>>
    BY <2>1 DEF Register, begunVars
  <2>3. \A i \in Ids : readSet[t][i] = 0
    BY <2>1, <2>2 DEF IInvCommit, Registered
  <2>4. QED
    BY <2>1, <2>2, <2>3 DEF Goto, TypeOK
<1>1. Quiet(t)' <=> Quiet(t)
  BY <1>0 DEF Quiet
<1>2. CASE Quiet(t)
  <2>1. StatusOf(t) = "starting" /\ StatusOf(t)' = "open"
    BY <1>0, <1>1, <1>2, Statuses, StatusesAfter
  <2>2. UNCHANGED BaseOf(t)
    BY <1>0, <2>1, BaseKept
  <2>3. UNCHANGED SeenOf(t)
    BY <1>0, <2>1, SeenKept DEF PlainIds
  <2>4. UNCHANGED WritesOf(t)
    BY <2>1 DEF WritesOf
  <2>5. QED
    BY <2>1, <2>2, <2>3, <2>4, Registers
<1>3. CASE ~Quiet(t)
  <2>1. StatusOf(t) = "loose" /\ StatusOf(t)' = "loose"
    BY <1>0, <1>1, <1>3, Statuses, StatusesAfter
  <2>2. UNCHANGED Place(t)
    BY <1>0, <2>1, PlaceKept
  <2>3. QED
    BY <2>2, Stutters
<1>4. QED
  BY <1>2, <1>3

\* A read of a quiet handle is one of its base.
LEMMA GetMaps ==
    ASSUME HistoryInv, HandleStages', TypeOK', [Next]_vars, ~GarbageCollect, NEW t \in Txs,
           NEW i \in Ids, Get(t, i), \A q \in Txs \ {t} : UNCHANGED Place(q), UNCHANGED committed
    PROVE  Abstract
<1>0. /\ TypeOK /\ TypeOK' /\ Numbers /\ HandleStages /\ IInv /\ LinkInv /\ Owned
      /\ t \in Procs /\ Reads
      /\ pc[t] = "active" /\ UNCHANGED <<pc, early, writeSet>>
      /\ readSet' = [readSet EXCEPT ![t][i] = View(t, i).ver]
      /\ View(t, i) # Absent
  BY DEF HistoryInv, IInv, IInvFCW, LinkInv, Procs, Get, SharedVars, begunVars, View
<1>1. StatusOf(t)' = StatusOf(t)
  BY <1>0 DEF StatusOf, Quiet
<1>2. CASE StatusOf(t) = "open" /\ i \in PlainIds
  <2>1. UNCHANGED BaseOf(t)
    BY <1>0, <1>1, <1>2, BaseKept
  <2>2. UNCHANGED WritesOf(t)
    BY <1>1, <1>2 DEF WritesOf
  <2>3. PICK n \in Nat : n = View(t, i).ver /\ n <= txIDCounter /\ Writer(n) # {}
    BY <1>0, <1>2, ViewOwner
  <2>4. BaseOf(t)[i] = Writer(n) /\ BaseOf(t)[i] # {}
    BY <1>2, <2>3 DEF BaseOf
  <2>5. \A j \in PlainIds : readSet'[t][j] = IF j = i THEN n ELSE readSet[t][j]
    BY <1>0, <2>3 DEF TypeOK, PlainIds
  <2>6. \A j \in PlainIds : WriterAfter(readSet[t][j]) = Writer(readSet[t][j])
    <3>1. ASSUME NEW j \in PlainIds
          PROVE  WriterAfter(readSet[t][j]) = Writer(readSet[t][j])
      <4>1. PICK m \in Nat : m = readSet[t][j]
        BY <1>0 DEF TypeOK, PlainIds
      <4>2. /\ m <= snap[t] /\ snap[t] <= lastCommittedTx /\ lastCommittedTx <= txIDCounter
            /\ snap[t] \in Nat /\ lastCommittedTx \in Nat /\ txIDCounter \in Nat
        BY <1>0, <4>1 DEF Reads, Numbers, TypeOK
      <4>3. m <= txIDCounter
        BY <4>2
      <4>4. QED
        BY <1>0, <4>1, <4>3, WritersKept
    <3>2. QED
      BY <3>1
  <2>7. WriterAfter(n) = Writer(n)
    BY <1>0, <2>3, WritersKept
  <2>8. \A j \in PlainIds :
           Writer(readSet[t][j])' = IF j = i THEN Writer(n) ELSE Writer(readSet[t][j])
    BY <2>5, <2>6, <2>7 DEF Writer, WriterAfter
  <2>9. SeenOf(t)' = [SeenOf(t) EXCEPT ![i] = BaseOf(t)[i]]
    BY <1>1, <1>2, <2>4, <2>8 DEF SeenOf
  <2>10. QED
    BY <1>1, <1>2, <2>1, <2>2, <2>4, <2>9, Finds
<1>3. CASE ~(StatusOf(t) = "open" /\ i \in PlainIds)
  <2>1. StatusOf(t) = "open" => \A j \in PlainIds : readSet'[t][j] = readSet[t][j]
    BY <1>0, <1>3 DEF TypeOK
  <2>2. UNCHANGED Place(t)
    BY <1>0, <1>1, <2>1, PlaceKept
  <2>3. QED
    BY <2>2, Stutters
<1>4. QED
  BY <1>2, <1>3

\* The log write prepares what validation has checked.
LEMMA WriteWALMaps ==
    ASSUME HistoryInv, HandleStages', TypeOK', [Next]_vars, NEW t \in Txs,
           WriteWAL(t), Goto(t, "installing"),
           \A q \in Txs \ {t} : UNCHANGED Place(q), UNCHANGED committed
    PROVE  Abstract
<1>0. /\ TypeOK /\ TypeOK' /\ Numbers /\ HandleStages /\ IInv /\ LinkInv /\ IInvCommit
      /\ CommitExclusion /\ Validated /\ Certified /\ t \in Procs
      /\ pc[t] = "validated" /\ pc'[t] = "installing"
  BY DEF HistoryInv, IInv, IInvFCW, LinkInv, Procs, WriteWAL, Goto, TypeOK
<1>1. writeSet' = writeSet
  <2>1. ~Abort(t)
    BY <1>0 DEF Abort, Goto, TypeOK
  <2>2. QED
    BY <2>1 DEF WriteWAL, txVars
<1>2. /\ StatusOf(t) \in {"open", "loose"} /\ StatusOf(t)' = "committing"
      /\ StatusOf(t) = "open" => Quiet(t)
  BY <1>0, Statuses, StatusesAfter DEF InFlight
<1>3. \A q \in Txs : StatusOf(q) # "committing"
  <2>1. ASSUME NEW q \in Txs, StatusOf(q) = "committing"
        PROVE  FALSE
    <3>1. InFlight(q)
      BY <1>0, <2>1, Statuses
    <3>2. q = t
      BY <1>0, <3>1, FlightIsExclusive DEF CommitStages
    <3>3. QED
      BY <1>0, <3>1, <3>2 DEF InFlight
  <2>2. QED
    BY <2>1
<1> DEFINE W == Written(t) \cap PlainIds
<1>4. /\ WritesOf(t)' = W
      /\ BaseOf(t)' = [i \in PlainIds |-> {}] /\ SeenOf(t)' = [i \in PlainIds |-> {}]
  BY <1>1, <1>2 DEF WritesOf, BaseOf, SeenOf, Written
<1>5. ASSUME StatusOf(t) = "open"
      PROVE  /\ \A i \in W : committed[i] = BaseOf(t)[i]
             /\ \A i \in PlainIds : SeenOf(t)[i] # {} => committed[i] = SeenOf(t)[i]
  <2>1. Quiet(t) /\ HasSnapshot(t) /\ t \in OpenTxs
    BY <1>0, <1>2, <1>5 DEF HasSnapshot, HasID, IInvCommit, Registered, OpenTxs
  <2>2. ASSUME NEW i \in W
        PROVE  committed[i] = BaseOf(t)[i]
    <3>1. versionChains[i] # <<>> => versionChains[i][1].created <= snap[t]
      BY <1>0 DEF Validated
    <3>2. committed[i] = Writer(View(t, i).ver)
      BY <1>0, <2>1, <3>1, NotCovered
    <3>3. QED
      BY <1>5, <3>2 DEF BaseOf
  <2>3. ASSUME NEW i \in PlainIds, SeenOf(t)[i] # {}
        PROVE  committed[i] = SeenOf(t)[i]
    <3>1. SeenOf(t)[i] = Writer(readSet[t][i]) /\ readSet[t][i] # 0
      BY <1>5, <2>3 DEF SeenOf, Writer
    <3>2. View(t, i).ver = readSet[t][i]
      BY <1>0, <2>1, <3>1 DEF IInvCommit, ReadsSeen, PlainIds
    <3>3. versionChains[i] # <<>> => versionChains[i][1].created <= snap[t]
      BY <1>0, <3>1 DEF Certified
    <3>4. committed[i] = Writer(View(t, i).ver)
      BY <1>0, <2>1, <3>3, NotCovered
    <3>5. QED
      BY <3>1, <3>2, <3>4
  <2>4. QED
    BY <2>2, <2>3
<1>6. W \in SUBSET PlainIds
  OBVIOUS
<1> HIDE DEF W
<1>7. QED
  BY <1>2, <1>3, <1>4, <1>5, <1>6, Prepares

\* The commit takes place when the last committed ID has been raised.
LEMMA TakesPlaceMaps ==
    ASSUME HistoryInv, HandleStages', TypeOK', HistoryNext, NEW t \in Txs, Own(t), TakesPlace(t),
           \A q \in Txs \ {t} : UNCHANGED Place(q)
    PROVE  Abstract
<1>0. /\ TypeOK /\ HandleStages /\ CommitExclusion /\ CommittedType
      /\ pc[t] \in {"publishing", "swapping"} /\ pc'[t] = "closing"
  BY DEF HistoryInv, IInv, IInvFCW, LinkInv, TakesPlace
<1>1. StatusOf(t) = "committing" /\ StatusOf(t)' = "committed"
  BY <1>0, Statuses, StatusesAfter DEF InFlight
<1>2. WritesOf(t)' = {} /\ UNCHANGED <<BaseOf(t), SeenOf(t)>>
  BY <1>1 DEF WritesOf, BaseOf, SeenOf
<1>3. \A i \in PlainIds : committed'[i] = IF i \in WritesOf(t) THEN {t} ELSE committed[i]
  BY <1>0, <1>1, CommittedStep DEF WritesOf
<1>4. committed' = [i \in PlainIds |-> IF i \in WritesOf(t) THEN {t} ELSE committed[i]]
  BY <1>3 DEF HistoryNext
<1>5. QED
  BY <1>1, <1>2, <1>4, Commits

\* Giving up empties base and reads.
LEMMA AbortMaps ==
    ASSUME HistoryInv, HandleStages', TypeOK', NEW t \in Txs,
           pc[t] \in {"active", "committing", "validated"}, Abort(t),
           \A q \in Txs \ {t} : UNCHANGED Place(q), UNCHANGED committed
    PROVE  Abstract
<1>0. TypeOK /\ HandleStages /\ pc'[t] = "aborted"
  BY DEF HistoryInv, IInv, LinkInv, Abort, Goto, TypeOK, Procs
<1>1. StatusOf(t) \in {"open", "loose"} /\ StatusOf(t)' = "aborted"
  BY <1>0, Statuses, StatusesAfter
<1>2. /\ UNCHANGED WritesOf(t)
      /\ BaseOf(t)' = [i \in PlainIds |-> {}] /\ SeenOf(t)' = [i \in PlainIds |-> {}]
  BY <1>1 DEF WritesOf, BaseOf, SeenOf
<1>3. QED
  BY <1>1, <1>2, Aborts

\* The other steps of a handle leave its place alone.
LEMMA InnerSteps ==
    ASSUME HistoryInv, HandleStages', TypeOK', [Next]_vars, ~GarbageCollect, NEW t \in Txs,
           ~TakesPlace(t),
           \/ AllocateID(t)
           \/ Commit(t) /\ pc[t] = "active"
           \/ \E i \in Ids : Store(t, i) \/ Remove(t, i)
           \/ Validate(t) /\ Goto(t, "validated")
           \/ \E i \in Ids : Install(t, i) /\ UNCHANGED <<pc, writeSet, id, readSet, snap, early>>
           \/ UpdateIndex(t) /\ Goto(t, "publishing")
           \/ LoadLastCommitted(t) \/ CompareAndSwap(t) \/ Close(t)
    PROVE  UNCHANGED Place(t)
<1>0. TypeOK /\ HandleStages /\ IInv /\ LinkInv /\ Reads /\ t \in Procs
  BY DEF HistoryInv, IInv, IInvFCW, LinkInv, Procs
<1>1. ASSUME Validate(t), Goto(t, "validated")
      PROVE  UNCHANGED <<early, readSet, writeSet>> /\ pc[t] = "committing"
  <2>1. ~Abort(t)
    BY <1>0, <1>1 DEF Abort, Goto, TypeOK
  <2>2. QED
    BY <1>1, <2>1 DEF Validate, begunVars, txVars
<1>2. /\ UNCHANGED <<early, readSet>>
      /\ UNCHANGED writeSet \/ pc[t] = "active"
      /\ \/ UNCHANGED pc
         \/ pc[t] = "begin" /\ Goto(t, "numbered")
         \/ pc[t] = "active" /\ Goto(t, "committing")
         \/ pc[t] = "committing" /\ Goto(t, "validated")
         \/ pc[t] = "installing" /\ Goto(t, "publishing")
         \/ pc[t] = "publishing" /\ (Goto(t, "swapping") \/ Goto(t, "closing"))
         \/ pc[t] = "swapping" /\ (Goto(t, "publishing") \/ Goto(t, "closing"))
         \/ pc[t] = "closing" /\ Goto(t, "done")
  BY <1>0, <1>1
     DEF AllocateID, Commit, Store, Remove, SharedVars, UpdateIndex, LoadLastCommitted,
         CompareAndSwap, Close, begunVars, txVars
<1>3. StatusOf(t)' = StatusOf(t)
  <2>1. CASE UNCHANGED pc
    BY <1>2, <2>1 DEF StatusOf, Quiet
  <2>2. CASE ~UNCHANGED pc /\ pc'[t] = "closing"
    <3>1. pc[t] \in {"publishing", "swapping"}
      BY <1>0, <1>2, <2>2 DEF Goto, TypeOK
    <3>2. QED
      BY <2>2, <3>1 DEF TakesPlace
  <2>3. CASE ~UNCHANGED pc /\ pc'[t] # "closing"
    <3>1. /\ Quiet(t)' <=> Quiet(t)
          /\ \/ pc[t] = "begin" /\ pc'[t] = "numbered"
             \/ pc[t] \in {"active", "committing"} /\ pc'[t] \in {"committing", "validated"}
             \/ InFlight(t) /\ InFlight(t)'
             \/ pc[t] = "closing" /\ pc'[t] = "done"
      BY <1>0, <1>2, <2>3 DEF Goto, TypeOK, Quiet, InFlight
    <3>2. QED
      BY <1>0, <3>1, Statuses, StatusesAfter
  <2>4. QED
    BY <2>1, <2>2, <2>3
<1>4. StatusOf(t) = "committing" => writeSet'[t] = writeSet[t]
  BY <1>0, <1>2, Statuses DEF InFlight
<1>5. QED
  BY <1>0, <1>2, <1>3, <1>4, PlaceKept

\* Every step of a handle.
LEMMA HandleMaps ==
    ASSUME HistoryInv, HandleStages', TypeOK', HistoryNext, ~GarbageCollect, NEW t \in Txs, Own(t)
    PROVE  Abstract
<1>0. /\ [Next]_vars /\ TypeOK /\ HandleStages /\ IInv /\ LinkInv /\ CommittedType /\ Reads
      /\ t \in Procs
  BY DEF HistoryInv, HistoryNext, IInv, IInvFCW, LinkInv, Procs
<1>1. \A q \in Txs \ {t} : UNCHANGED Place(q) /\ ~TakesPlace(q)
  BY <1>0, OthersStay
<1>2. CASE TakesPlace(t)
  BY <1>1, <1>2, TakesPlaceMaps
<1>3. CASE ~TakesPlace(t)
  <2>1. UNCHANGED committed
    BY <1>0, <1>1, <1>3, CommittedKept
  <2>2. CASE LoadSnapshot(t)
    BY <1>0, <1>1, <2>1, <2>2, LoadSnapshotMaps
  <2>3. CASE Register(t)
    BY <1>0, <1>1, <2>1, <2>3, RegisterMaps
  <2>4. ASSUME NEW i \in Ids, Get(t, i)
        PROVE  Abstract
    BY <1>0, <1>1, <2>1, <2>4, GetMaps
  <2>5. CASE WriteWAL(t) /\ Goto(t, "installing")
    BY <1>0, <1>1, <2>1, <2>5, WriteWALMaps
  <2>6. CASE pc[t] \in {"active", "committing", "validated"} /\ Abort(t)
    BY <1>1, <2>1, <2>6, AbortMaps
  <2>7. ASSUME UNCHANGED Place(t)
        PROVE  Abstract
    BY <1>1, <2>1, <2>7, Stutters
  <2>8. ASSUME \/ AllocateID(t)
               \/ Commit(t) /\ pc[t] = "active"
               \/ \E i \in Ids : Store(t, i) \/ Remove(t, i)
               \/ Validate(t) /\ Goto(t, "validated")
               \/ \E i \in Ids : /\ Install(t, i)
                                 /\ UNCHANGED <<pc, writeSet, id, readSet, snap, early>>
               \/ UpdateIndex(t) /\ Goto(t, "publishing")
               \/ LoadLastCommitted(t) \/ CompareAndSwap(t) \/ Close(t)
        PROVE  Abstract
    <3>1. UNCHANGED Place(t)
      BY <1>0, <1>3, <2>8, InnerSteps
    <3>2. QED
      BY <2>7, <3>1
  <2>9. QED
    BY <1>0, <2>2, <2>3, <2>4, <2>5, <2>6, <2>8, TxSteps
<1>4. QED
  BY <1>2, <1>3

\* Every step is one of the abstract specification.
LEMMA StepMaps ==
    HistoryInv /\ HistoryInv' /\ [HistoryNext]_historyVars => Abstract
<1> SUFFICES ASSUME HistoryInv, HistoryInv', [HistoryNext]_historyVars
             PROVE  Abstract
  OBVIOUS
<1>1. CASE UNCHANGED historyVars
  <2>1. \A t \in Txs : UNCHANGED Place(t)
    BY <1>1 DEF historyVars, vars, Place, StatusOf, Quiet, BaseOf, SeenOf, WritesOf, Writer, View,
                Written
  <2>2. QED
    BY <1>1, <2>1, Stutters DEF historyVars
<1>2. CASE HistoryNext
  <2>0. /\ [Next]_vars /\ TypeOK /\ IInv /\ LinkInv /\ CommittedType /\ Reads
        /\ HandleStages' /\ TypeOK'
    BY <1>2 DEF HistoryInv, HistoryNext, IInv, IInvFCW, LinkInv
  <2>1. CASE GarbageCollect
    BY <1>2, <2>1, CollectionMaps
  <2>2. ASSUME ~GarbageCollect, NEW t \in Txs, Own(t)
        PROVE  Abstract
    BY <1>2, <2>0, <2>2, HandleMaps
  <2>3. ASSUME ~GarbageCollect, NEW s \in Storers, Own(s)
        PROVE  Abstract
    <3>1. s \in Procs /\ Txs \ {s} = Txs
      BY ConstantsAssumption DEF Procs
    <3>2. \A t \in Txs : UNCHANGED Place(t) /\ ~TakesPlace(t)
      BY <2>0, <2>3, <3>1, OthersStay
    <3>3. QED
      BY <1>2, <2>0, <3>2, CommittedKept, Stutters
  <2>4. CASE UNCHANGED vars
    <3>1. \A t \in Txs : UNCHANGED Place(t) /\ ~TakesPlace(t)
      BY <2>4 DEF vars, Place, StatusOf, Quiet, BaseOf, SeenOf, WritesOf, Writer, View, Written,
                  TakesPlace
    <3>2. QED
      BY <1>2, <2>0, <3>1, CommittedKept, Stutters
  <2>5. QED
    BY <2>0, <2>1, <2>2, <2>3, <2>4, Actors DEF Procs
<1>3. QED
  BY <1>1, <1>2

\* Before anything happens every handle is idle.
LEMMA InitMaps == HistoryInit => Isolation!Init
<1> SUFFICES ASSUME HistoryInit
             PROVE  Isolation!Init
  OBVIOUS
<1>1. \A t \in Txs : pc[t] = "begin"
  BY DEF HistoryInit, Init, Procs
<1>2. \A t \in Txs : StatusOf(t) = "idle"
  BY <1>1 DEF StatusOf
<1>3. \A t \in Txs : /\ BaseOf(t) = [i \in PlainIds |-> {}] /\ SeenOf(t) = [i \in PlainIds |-> {}]
                     /\ WritesOf(t) = {}
  BY <1>2 DEF BaseOf, SeenOf, WritesOf
<1>4. QED
  BY <1>2, <1>3 DEF HistoryInit, Isolation!Init, Isolation!Nothing

\* The invariant of the chains together with the committed state.
THEOREM HistoryInvariant == HistorySpec => []HistoryInv
<1>1. HistorySpec => Spec
  <2>1. HistoryInit => Init
    BY DEF HistoryInit
  <2>2. [HistoryNext]_historyVars => [Next]_vars
    BY DEF HistoryNext, historyVars
  <2>3. QED
    BY <2>1, <2>2, PTL DEF HistorySpec, Spec
<1>2. HistoryInit => LinkInv
  BY LinkInit
<1>3. IInv /\ IInvFCW /\ LinkInv /\ [HistoryNext]_historyVars => LinkInv'
  BY LinkStep
<1>4. HistorySpec => []LinkInv
  BY <1>1, <1>2, <1>3, CommitInvariant, OrderInvariant, PTL DEF HistorySpec
<1>5. IInv /\ IInvCommit /\ IInvFCW /\ LinkInv => HistoryInv
  BY DEF HistoryInv
<1>6. QED
  BY <1>1, <1>4, <1>5, CommitInvariant, OrderInvariant, PTL

\* Version chains, the three steps of BeginTx, validation, the commit lock and the
\* publication loop implement atomic transactions on their snapshots.
THEOREM IsolationImplemented == HistorySpec => ImplementsIsolation
<1>1. HistoryInit => Isolation!Init
  BY InitMaps
<1>2. HistoryInv /\ HistoryInv' /\ [HistoryNext]_historyVars =>
        [Isolation!Next]_(Isolation!vars)
  BY StepMaps DEF Abstract
<1>3. QED
  BY <1>1, <1>2, HistoryInvariant, PTL DEF HistorySpec, ImplementsIsolation, Isolation!Spec
=============================================================================
