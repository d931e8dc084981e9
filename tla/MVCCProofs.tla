----------------------------- MODULE MVCCProofs -----------------------------
(***************************************************************************)
(* Theorems about MVCC, for every value of its constants.                  *)
(***************************************************************************)
EXTENDS MVCC, WellFoundedInduction, FiniteSetTheorems, TLAPS

-----------------------------------------------------------------------------
(* Choosing the least of a set of numbers. *)

\* The recurring use of the library: every nonempty set of naturals has a least
\* element, and Least picks it.
LEMMA LeastExists ==
    ASSUME NEW S \in SUBSET Nat, S # {}
    PROVE  Least(S) \in S /\ \A j \in S : Least(S) <= j
<1> DEFINE Smaller == {ss \in Nat \X Nat : ss[1] < ss[2]}
<1>1. IsWellFoundedOn(Smaller, Nat)
  BY NatLessThanWellFounded DEF OpToRel
<1>2. PICK k \in S : \A j \in S : ~ (<<j, k>> \in Smaller)
  <2> HIDE DEF Smaller
  <2> QED
    BY <1>1, WFMin
<1>3. ASSUME NEW j \in S
      PROVE  k <= j
  <2>1. j \in Nat /\ k \in Nat
    OBVIOUS
  <2>2. j < k => <<j, k>> \in Smaller
    BY <2>1
  <2>3. QED
    BY <1>2, <2>1, <2>2
<1>4. QED
  BY <1>3 DEF Least

-----------------------------------------------------------------------------
(* The inductive invariant, in layers. *)

HasID(p) == pc[p] \notin {"store", "begin", "failed"}
HasSnapshot(p) == HasID(p) /\ pc[p] # "numbered"

\* IDs are distinct and below the counter; snapshots and the last committed ID never
\* run ahead; only transactions that have their snapshot are registered.
Numbers ==
    /\ lastCommittedTx <= txIDCounter
    /\ \A p \in Procs :
          /\ id[p] <= txIDCounter
          /\ id[p] # 0 <=> HasID(p)
          /\ snap[p] <= lastCommittedTx
          /\ pc[p] = "swapping" => current[p] < id[p]
          /\ p \in activeTxs => HasSnapshot(p) /\ pc[p] # "snapped"
    /\ \A p, q \in Procs : id[p] = id[q] /\ id[p] # 0 => p = q

\* Nobody whose ID a quiet snapshot covers is still at work.
Settled ==
    \A p, q \in Procs :
        HasSnapshot(p) /\ Quiet(p) /\ id[q] # 0 /\ id[q] <= snap[p] => ~Unfinished(q)

\* Away from the removable IDs a write is a plain new version of its writer, and so
\* is every version in a chain.
Writes ==
    \A p \in Procs :
        /\ \A i \in Ids \ RemovableIds : writeSet[p][i] \in {Absent, NewVersion(id[p])}
        /\ ~HasSnapshot(p) => \A i \in Ids : writeSet[p][i] = Absent
        /\ pc[p] = "installing" => pending[p] \subseteq Written(p)
        /\ p \in Storers => pending[p] \subseteq DirectIds /\ \A i, j \in pending[p] : i = j

Chains ==
    \A i \in Ids \ RemovableIds : \A k \in DOMAIN versionChains[i] :
        \E p \in Procs : HasSnapshot(p) /\ versionChains[i][k] = NewVersion(id[p])

IInv == TypeOK /\ Numbers /\ Settled /\ Writes /\ Chains

-----------------------------------------------------------------------------
(* What first committer wins needs beyond that. *)

CommitStages == {"validated", "installing", "publishing", "swapping", "closing"}

CommitExclusion ==
    \A t \in Txs : pc[t] \in CommitStages => commitLock = {t}

\* What was read lies in the snapshot.
Reads ==
    \A t \in Txs, i \in PlainIds : readSet[t][i] <= snap[t]

\* What is about to be covered lies in the snapshot.
Validated ==
    \A t \in Txs, i \in PlainIds :
        /\ \/ pc[t] = "validated" /\ i \in Written(t)
           \/ pc[t] = "installing" /\ i \in pending[t]
        /\ versionChains[i] # <<>>
        => versionChains[i][1].created <= snap[t]

\* Beneath the newest version there are only published ones.
Covered ==
    \A i \in PlainIds : \A l \in DOMAIN versionChains[i] :
        l > 1 => versionChains[i][l].created <= lastCommittedTx

\* Seen from a quiet snapshot, the versions outside it lie on top.
NewestFirst ==
    \A p \in Procs, i \in PlainIds : HasSnapshot(p) /\ Quiet(p) =>
        \A k, l \in DOMAIN versionChains[i] :
            k < l /\ versionChains[i][k].created <= snap[p]
                => versionChains[i][l].created <= snap[p]

IInvFCW ==
    /\ CommitExclusion
    /\ Reads
    /\ Validated
    /\ Covered
    /\ NewestFirst
    /\ FirstCommitterWins

-----------------------------------------------------------------------------
(* Chains: what a reader finds and what a collection leaves. *)

\* A reader finds nothing, or a version of the chain it may see.
LEMMA VisibleIsInChain ==
    ASSUME NEW chain \in Seq(Versions), NEW s \in Nat
    PROVE  \/ GetVisibleVersion(chain, s) = Absent
           \/ \E k \in DOMAIN chain :
                 /\ GetVisibleVersion(chain, s) = chain[k]
                 /\ IsVisible(chain[k], s)
<1>1. CASE VisibleAt(chain, s) = {}
  BY <1>1 DEF GetVisibleVersion
<1>2. CASE VisibleAt(chain, s) # {}
  <2>1. VisibleAt(chain, s) \in SUBSET Nat
    BY DEF VisibleAt
  <2>2. Least(VisibleAt(chain, s)) \in VisibleAt(chain, s)
    BY <1>2, <2>1, LeastExists
  <2>3. QED
    BY <1>2, <2>2 DEF GetVisibleVersion, VisibleAt
<1>3. QED
  BY <1>1, <1>2

\* Where something is visible, a reader finds a version of the chain.
LEMMA VisibleIsFound ==
    ASSUME NEW chain \in Seq(Versions), NEW s \in Nat, NEW k \in VisibleAt(chain, s)
    PROVE  \E l \in DOMAIN chain : GetVisibleVersion(chain, s) = chain[l]
<1>1. VisibleAt(chain, s) \in SUBSET Nat
  BY DEF VisibleAt
<1>2. Least(VisibleAt(chain, s)) \in VisibleAt(chain, s)
  BY <1>1, LeastExists
<1>3. GetVisibleVersion(chain, s) = chain[Least(VisibleAt(chain, s))]
  BY DEF GetVisibleVersion
<1>4. QED
  BY <1>2, <1>3 DEF VisibleAt

\* What a reader finds is a version or the absent one.
LEMMA VisibleType ==
    ASSUME NEW chain \in Seq(Versions), NEW s \in Nat
    PROVE  GetVisibleVersion(chain, s) \in Versions
<1>1. Absent \in Versions
  BY DEF Absent, Versions
<1>2. \A k \in DOMAIN chain : chain[k] \in Versions
  OBVIOUS
<1>3. QED
  BY <1>1, <1>2, VisibleIsInChain

\* A collection cuts a chain after some position at or after the first collected
\* one, or leaves it alone.
LEMMA GcIsPrefix ==
    ASSUME NEW chain \in Seq(Versions), NEW m \in Nat
    PROVE  /\ GcVersionChain(chain, m) \in Seq(Versions)
           /\ \/ GcVersionChain(chain, m) = chain
              \/ \E n \in 1..Len(chain) :
                    /\ GcVersionChain(chain, m) = SubSeq(chain, 1, n)
                    /\ chain[n].created <= m
                    /\ \A k \in 1..(n - 1) : chain[k].created > m
<1>1. CASE CollectedAt(chain, m) = {}
  BY <1>1 DEF GcVersionChain
<1>2. CASE CollectedAt(chain, m) # {}
  <2> DEFINE n == Least(CollectedAt(chain, m))
  <2>1. CollectedAt(chain, m) \in SUBSET Nat
    BY DEF CollectedAt
  <2>2. n \in CollectedAt(chain, m) /\ \A j \in CollectedAt(chain, m) : n <= j
    BY <1>2, <2>1, LeastExists
  <2>3. GcVersionChain(chain, m) = SubSeq(chain, 1, n)
    BY <1>2 DEF GcVersionChain
  <2> HIDE DEF n
  <2>4. n \in 1..Len(chain) /\ chain[n].created <= m
    BY <2>2 DEF CollectedAt
  <2>5. ASSUME NEW k \in 1..(n - 1)
        PROVE  chain[k].created > m
    <3>1. k \in DOMAIN chain /\ k < n /\ chain[k] \in Versions
      BY <2>4
    <3>2. k \notin CollectedAt(chain, m)
      BY <2>2, <2>4, <3>1
    <3>3. QED
      BY <3>1, <3>2 DEF CollectedAt, Versions
  <2>6. SubSeq(chain, 1, n) \in Seq(Versions)
    BY <2>4
  <2>7. QED
    BY <2>3, <2>4, <2>5, <2>6
<1>3. QED
  BY <1>1, <1>2

\* A collection moves no version: what is left stands where it stood.
LEMMA GcKeepsPositions ==
    ASSUME NEW chain \in Seq(Versions), NEW m \in Nat, NEW k \in DOMAIN GcVersionChain(chain, m)
    PROVE  k \in DOMAIN chain /\ GcVersionChain(chain, m)[k] = chain[k]
<1>1. CASE GcVersionChain(chain, m) = chain
  BY <1>1
<1>2. ASSUME NEW n \in 1..Len(chain), GcVersionChain(chain, m) = SubSeq(chain, 1, n)
      PROVE  k \in DOMAIN chain /\ GcVersionChain(chain, m)[k] = chain[k]
  BY <1>2
<1>3. QED
  BY <1>1, <1>2, GcIsPrefix

\* Open transactions hold the collector back.
LEMMA MinSnapshotIsLow ==
    ASSUME TypeOK
    PROVE  /\ MinSnapshot \in Nat
           /\ MinSnapshot <= lastCommittedTx
           /\ \A p \in activeTxs : MinSnapshot <= snap[p]
<1> DEFINE S == {lastCommittedTx} \cup {snap[p] : p \in activeTxs}
<1>1. S \in SUBSET Nat /\ S # {}
  BY DEF TypeOK
<1>2. MinSnapshot = Least(S)
  BY DEF MinSnapshot
<1>3. lastCommittedTx \in S /\ \A p \in activeTxs : snap[p] \in S
  OBVIOUS
<1> HIDE DEF S
<1>4. QED
  BY <1>1, <1>2, <1>3, LeastExists

-----------------------------------------------------------------------------
(* Types. *)

\* Every count an index update may leave is an integer.
LEMMA CountIsNumber ==
    ASSUME TypeOK, NEW t \in Txs, NEW S \in SUBSET Ids
    PROVE  CountAfter(t, S) \subseteq Int
BY DEF CountAfter

\* An index update leaves at most one vector per ID.
LEMMA IndexType ==
    ASSUME TypeOK, NEW t \in Txs, NEW S \in SUBSET Ids
    PROVE  IndexAfter(t, S) \in [Ids -> SUBSET Procs]
BY DEF TypeOK, IndexAfter, Procs

\* What an abort changes keeps its type.
LEMMA AbortType ==
    ASSUME TypeOK, NEW t \in Procs, Abort(t)
    PROVE  /\ pc' \in [Procs -> Stages]
           /\ activeTxs' \subseteq Procs
           /\ writeSet' \in [Procs -> [Ids -> Versions]]
           /\ readSet' \in [Procs -> [Ids -> Nat]]
           /\ UNCHANGED <<begunVars, lastCommittedTx, current, nestLock, indexVars>>
<1>1. Absent \in Versions /\ "aborted" \in Stages
  BY DEF Absent, Versions, Stages
<1>2. QED
  BY <1>1 DEF Abort, Goto, TypeOK

\* The freshly opened database has its types.
LEMMA InitType == Init => TypeOK
<1>1. Absent \in Versions
  BY DEF Absent, Versions
<1>2. QED
  BY <1>1 DEF Init, TypeOK, Stages

\* Every step keeps the types.
LEMMA TypeStep == TypeOK /\ [Next]_vars => TypeOK'
<1> SUFFICES ASSUME TypeOK, [Next]_vars
             PROVE  TypeOK'
  OBVIOUS
<1> USE DEF begunVars, txVars, indexVars
<1>0. Txs \subseteq Procs /\ Storers \subseteq Procs
  BY DEF Procs
<1>1. ASSUME NEW p \in Procs, AllocateID(p)
      PROVE  TypeOK'
  BY <1>1 DEF TypeOK, AllocateID, Goto, Stages
<1>2. ASSUME NEW p \in Procs, LoadSnapshot(p)
      PROVE  TypeOK'
  BY <1>2 DEF TypeOK, LoadSnapshot, Goto, Stages
<1>3. ASSUME NEW p \in Procs, Register(p)
      PROVE  TypeOK'
  <2>1. NewVersion(id[p]) \in Versions /\ Absent \in Versions
    BY DEF TypeOK, NewVersion, Absent, Versions
  <2>2. writeSet' \in [Procs -> [Ids -> Versions]]
    <3> DEFINE new == [i \in Ids |-> IF i \in pending[p] THEN NewVersion(id[p]) ELSE Absent]
    <3>1. new \in [Ids -> Versions]
      BY <2>1
    <3>2. writeSet' = writeSet \/ writeSet' = [writeSet EXCEPT ![p] = new]
      BY <1>3 DEF Register
    <3>3. QED
      BY <3>1, <3>2 DEF TypeOK
  <2>3. pc' \in [Procs -> Stages]
    BY <1>3 DEF TypeOK, Register, Goto, Stages
  <2>4. QED
    BY <1>3, <2>2, <2>3 DEF TypeOK, Register
<1>4. ASSUME NEW p \in Procs, WriteWAL(p)
      PROVE  TypeOK'
  <2>1. CASE Goto(p, "installing") /\ pending' = [pending EXCEPT ![p] = Written(p)]
                /\ UNCHANGED <<begunVars, lastCommittedTx, activeTxs, txVars, current,
                               commitLock, nestLock, indexVars>>
    BY <1>4, <2>1 DEF TypeOK, WriteWAL, Goto, Stages, Written
  <2>2. CASE Abort(p) /\ commitLock' = {} /\ UNCHANGED pending
    BY <1>4, <2>2, AbortType DEF TypeOK, WriteWAL
  <2>3. QED
    BY <1>4, <2>1, <2>2 DEF WriteWAL
<1>5. ASSUME NEW p \in Procs, NEW i \in Ids, Install(p, i)
      PROVE  TypeOK'
  <2>1. versionChains' \in [Ids -> Seq(Versions)]
    <3>1. writeSet[p][i] \in Versions
      BY DEF TypeOK
    <3>2. <<writeSet[p][i]>> \o versionChains[i] \in Seq(Versions)
      BY <3>1 DEF TypeOK
    <3>3. QED
      BY <1>5, <3>2 DEF TypeOK, Install, Push
  <2>2. CASE /\ pending' = [pending EXCEPT ![p] = @ \ {i}]
             /\ IF p \in Storers THEN Goto(p, "publishing") ELSE UNCHANGED pc
             /\ UNCHANGED <<begunVars, lastCommittedTx, activeTxs, txVars, current,
                            commitLock, nestLock, indexVars>>
    <3>1. pc' \in [Procs -> Stages]
      BY <2>2 DEF TypeOK, Goto, Stages
    <3>2. pending' \in [Procs -> SUBSET Ids]
      BY <2>2 DEF TypeOK
    <3>3. QED
      BY <2>1, <2>2, <3>1, <3>2 DEF TypeOK
  <2>3. CASE /\ Abort(p)
             /\ pending' = [pending EXCEPT ![p] = {}]
             /\ commitLock' = {}
    BY <2>1, <2>3, AbortType DEF TypeOK
  <2>4. QED
    BY <1>5, <2>2, <2>3 DEF Install
<1>6. ASSUME NEW p \in Procs, LoadLastCommitted(p)
      PROVE  TypeOK'
  BY <1>6 DEF TypeOK, LoadLastCommitted, Goto, Stages
<1>7. ASSUME NEW p \in Procs, CompareAndSwap(p)
      PROVE  TypeOK'
  <2>1. pc' \in [Procs -> Stages]
    BY <1>7 DEF TypeOK, CompareAndSwap, Goto, Stages
  <2>2. lastCommittedTx' \in Nat
    BY <1>7 DEF TypeOK, CompareAndSwap
  <2>3. QED
    BY <1>7, <2>1, <2>2 DEF TypeOK, CompareAndSwap
<1>8. ASSUME NEW p \in Procs, Close(p)
      PROVE  TypeOK'
  BY <1>8 DEF TypeOK, Close, Goto, Stages
<1>9. ASSUME NEW t \in Txs, NEW i \in Ids, Get(t, i)
      PROVE  TypeOK'
  <2>1. GetVisibleVersion(versionChains[i], snap[t]) \in Versions
    BY <1>0, VisibleType DEF TypeOK
  <2>2. GetVisibleVersion(versionChains[i], snap[t]).ver \in Nat
    BY <2>1 DEF Versions
  <2>3. QED
    BY <1>0, <1>9, <2>2 DEF TypeOK, Get, SharedVars
<1>10. ASSUME NEW t \in Txs, NEW i \in Ids, Store(t, i)
       PROVE  TypeOK'
  <2>1. NewVersion(id[t]) \in Versions
    BY <1>0 DEF TypeOK, NewVersion, Versions
  <2>2. QED
    BY <1>0, <1>10, <2>1 DEF TypeOK, Store, SharedVars
<1>11. ASSUME NEW t \in Txs, NEW i \in Ids, Remove(t, i)
       PROVE  TypeOK'
  <2>0. writeSet[t][i] \in Versions /\ id[t] \in Nat
    BY <1>0 DEF TypeOK
  <2>1. [writeSet[t][i] EXCEPT !.deleted = id[t]] \in Versions
    BY <2>0 DEF Versions
  <2>2. GetVisibleVersion(versionChains[i], snap[t]) \in Versions
    BY <1>0, VisibleType DEF TypeOK
  <2>3. DeleteMarker(id[t], GetVisibleVersion(versionChains[i], snap[t]).created) \in Versions
    BY <2>0, <2>2 DEF DeleteMarker, Versions
  <2>4. writeSet' \in [Procs -> [Ids -> Versions]]
    <3>1. CASE writeSet' = [writeSet EXCEPT ![t][i].deleted = id[t]]
      BY <1>0, <2>1, <3>1 DEF TypeOK
    <3>2. CASE writeSet' = [writeSet EXCEPT ![t][i] =
                 DeleteMarker(id[t], GetVisibleVersion(versionChains[i], snap[t]).created)]
      BY <1>0, <2>3, <3>2 DEF TypeOK
    <3>3. QED
      BY <1>11, <3>1, <3>2 DEF Remove
  <2>5. QED
    BY <1>11, <2>4 DEF TypeOK, Remove, SharedVars
<1>12. ASSUME NEW t \in Txs, Rollback(t)
       PROVE  TypeOK'
  BY <1>0, <1>12, AbortType DEF TypeOK, Rollback
<1>13. ASSUME NEW t \in Txs, Commit(t)
       PROVE  TypeOK'
  BY <1>0, <1>13 DEF TypeOK, Commit, Goto, Stages
<1>14. ASSUME NEW t \in Txs, Validate(t)
       PROVE  TypeOK'
  <2>1. CASE Abort(t) /\ UNCHANGED commitLock
    BY <1>0, <1>14, <2>1, AbortType DEF TypeOK, Validate
  <2>2. CASE /\ commitLock' = {t}
             /\ Goto(t, "validated")
             /\ UNCHANGED <<begunVars, lastCommittedTx, activeTxs, txVars, current,
                            nestLock, indexVars>>
    BY <1>0, <1>14, <2>2 DEF TypeOK, Validate, Goto, Stages
  <2>3. QED
    BY <1>14, <2>1, <2>2 DEF Validate
<1>15. ASSUME NEW t \in Txs, UpdateIndex(t)
       PROVE  TypeOK'
  <2>1. Written(t) \subseteq Ids
    BY DEF Written
  <2>2. index' \in [Ids -> SUBSET Procs]
    BY <1>15, <2>1, IndexType DEF UpdateIndex
  <2>3. vectorCount' \in Int
    BY <1>15, <2>1, CountIsNumber DEF UpdateIndex
  <2>4. QED
    BY <1>0, <1>15, <2>2, <2>3 DEF TypeOK, UpdateIndex, Goto, Stages
<1>16. ASSUME NEW s \in Storers, NEW i \in DirectIds, DirectStore(s, i)
       PROVE  TypeOK'
  <2>1. i \in Ids
    BY ConstantsAssumption
  <2>2. pc' \in [Procs -> Stages] /\ nestLock' \subseteq Storers
    BY <1>0, <1>16 DEF TypeOK, DirectStore, Goto, Stages
  <2>3. /\ pending' = pending \/ pending' = [pending EXCEPT ![s] = {i}]
        /\ \/ index' = [index EXCEPT ![i] = {s}]
           \/ index' = [index EXCEPT ![i] = {}]
        /\ vectorCount' \in {vectorCount, vectorCount + 1, vectorCount - 1}
    BY <1>16 DEF DirectStore
  <2>4. pending' \in [Procs -> SUBSET Ids]
    <3>1. {i} \in SUBSET Ids
      BY <2>1
    <3>2. QED
      BY <1>0, <2>3, <3>1, ZenonT(40) DEF TypeOK
  <2>5. index' \in [Ids -> SUBSET Procs] /\ vectorCount' \in Int
    <3>1. {s} \in SUBSET Procs /\ {} \in SUBSET Procs
      BY <1>0
    <3>2. index' \in [Ids -> SUBSET Procs]
      <4>1. CASE index' = [index EXCEPT ![i] = {s}]
        BY <2>1, <3>1, <4>1 DEF TypeOK
      <4>2. CASE index' = [index EXCEPT ![i] = {}]
        BY <2>1, <3>1, <4>2 DEF TypeOK
      <4>3. QED
        BY <2>3, <4>1, <4>2
    <3>3. vectorCount' \in Int
      BY <2>3 DEF TypeOK
    <3>4. QED
      BY <3>2, <3>3
  <2>6. QED
    BY <1>16, <2>2, <2>4, <2>5 DEF TypeOK, DirectStore
<1>17. ASSUME GarbageCollect
       PROVE  TypeOK'
  <2>1. \A i \in Ids : GcVersionChain(versionChains[i], MinSnapshot) \in Seq(Versions)
    BY MinSnapshotIsLow, GcIsPrefix DEF TypeOK
  <2>2. QED
    BY <1>17, <2>1 DEF TypeOK, GarbageCollect
<1>18. CASE UNCHANGED vars
  BY <1>18 DEF TypeOK, vars
<1>19. QED
  BY <1>0, <1>1, <1>2, <1>3, <1>4, <1>5, <1>6, <1>7, <1>8, <1>9, <1>10, <1>11, <1>12, <1>13,
     <1>14, <1>15, <1>16, <1>17, <1>18, ConstantsAssumption
     DEF Next, System, Client

\* Every variable keeps a value of its kind: no marker or version is ever half
\* written, and snapshots are never negative.
THEOREM TypeCorrect == Spec => []TypeOK
<1>1. Init => TypeOK
  BY InitType
<1>2. TypeOK /\ [Next]_vars => TypeOK'
  BY TypeStep
<1>3. QED
  BY <1>1, <1>2, PTL DEF Spec

-----------------------------------------------------------------------------
(* Numbers and settled snapshots. *)

Working == Stages \ {"store", "begin", "numbered", "snapped", "failed"}

\* What the steps between BeginTx and the end of a call have in common.
Progress(p) ==
    /\ UNCHANGED <<begunVars, lastCommittedTx>>
    /\ pc[p] \in Working /\ Unfinished(p)
    /\ pc'[p] \in Working
    /\ \A q \in Procs \ {p} : pc'[q] = pc[q] /\ current'[q] = current[q]
    /\ pc'[p] = "swapping" => current'[p] < id[p]
    /\ activeTxs' \subseteq activeTxs

\* The steps of an open transaction, of validation and of the index update are progress.
LEMMA ClientProgress ==
    ASSUME TypeOK, Numbers, NEW t \in Txs, Client(t) \/ Validate(t) \/ UpdateIndex(t)
    PROVE  Progress(t)
<1> USE DEF begunVars, Progress, Working, Stages, Unfinished
<1>0. t \in Procs
  BY DEF Procs
<1>1. ASSUME NEW i \in Ids, Get(t, i) \/ Store(t, i) \/ Remove(t, i)
      PROVE  Progress(t)
  BY <1>0, <1>1 DEF Get, Store, Remove, SharedVars
<1>2. ASSUME Rollback(t) PROVE Progress(t)
  BY <1>0, <1>2 DEF Rollback, Abort, Goto, TypeOK
<1>3. ASSUME Commit(t) PROVE Progress(t)
  BY <1>0, <1>3 DEF Commit, Goto, TypeOK
<1>4. ASSUME Validate(t) PROVE Progress(t)
  <2>1. CASE Abort(t)
    BY <1>0, <1>4, <2>1 DEF Validate, Abort, Goto, TypeOK
  <2>2. CASE ~Abort(t)
    BY <1>0, <1>4, <2>2 DEF Validate, Goto, TypeOK
  <2>3. QED
    BY <2>1, <2>2
<1>5. ASSUME UpdateIndex(t) PROVE Progress(t)
  BY <1>0, <1>5 DEF UpdateIndex, Goto, TypeOK
<1>6. QED
  BY <1>1, <1>2, <1>3, <1>4, <1>5, ConstantsAssumption DEF Client

\* So are the steps of a call between BeginTx and its end.
LEMMA SystemProgress ==
    ASSUME TypeOK, Numbers, NEW p \in Procs,
           \/ WriteWAL(p) \/ LoadLastCommitted(p) \/ Close(p)
           \/ \E i \in Ids : Install(p, i)
    PROVE  Progress(p)
<1> USE DEF begunVars, Progress, Working, Stages, Unfinished
<1>1. ASSUME WriteWAL(p) PROVE Progress(p)
  <2>1. CASE Abort(p)
    BY <1>1, <2>1 DEF WriteWAL, Abort, Goto, TypeOK
  <2>2. CASE ~Abort(p)
    BY <1>1, <2>2 DEF WriteWAL, Goto, TypeOK
  <2>3. QED
    BY <2>1, <2>2
<1>2. ASSUME NEW i \in Ids, Install(p, i) PROVE Progress(p)
  <2>1. CASE Abort(p)
    BY <1>2, <2>1 DEF Install, Abort, Goto, TypeOK
  <2>2. CASE ~Abort(p)
    BY <1>2, <2>2 DEF Install, Goto, TypeOK
  <2>3. QED
    BY <2>1, <2>2
<1>3. ASSUME LoadLastCommitted(p) PROVE Progress(p)
  BY <1>3 DEF LoadLastCommitted, Goto, TypeOK
<1>4. ASSUME Close(p) PROVE Progress(p)
  BY <1>4 DEF Close, Goto, TypeOK
<1>5. QED
  BY <1>1, <1>2, <1>3, <1>4

\* A step of the system seen through its numbers.
LEMMA StepKinds ==
    ASSUME TypeOK, Numbers, [Next]_vars
    PROVE  \/ \E p \in Procs : \/ AllocateID(p) \/ LoadSnapshot(p) \/ Register(p)
                               \/ CompareAndSwap(p) \/ Progress(p)
           \/ \E s \in Storers, i \in DirectIds : DirectStore(s, i)
           \/ UNCHANGED <<begunVars, lastCommittedTx, pc, current, activeTxs>>
<1>0. Txs \subseteq Procs
  BY DEF Procs
<1>1. CASE \E p \in Procs : AllocateID(p) \/ System(p)
  BY <1>1, SystemProgress DEF System
<1>2. CASE \E t \in Txs : Client(t) \/ Validate(t) \/ UpdateIndex(t)
  BY <1>0, <1>2, ClientProgress
<1>3. CASE \E s \in Storers, i \in DirectIds : DirectStore(s, i)
  BY <1>3
<1>4. CASE GarbageCollect
  BY <1>4 DEF GarbageCollect, begunVars
<1>5. CASE UNCHANGED vars
  BY <1>5 DEF vars, begunVars
<1>6. QED
  BY <1>1, <1>2, <1>3, <1>4, <1>5 DEF Next

\* IDs and snapshots stay in order.
LEMMA NumbersStep == TypeOK /\ Numbers /\ [Next]_vars => Numbers'
<1> SUFFICES ASSUME TypeOK, Numbers, [Next]_vars
             PROVE  Numbers'
  OBVIOUS
<1> USE DEF begunVars, HasID, HasSnapshot
<1>1. ASSUME NEW p \in Procs, AllocateID(p)
      PROVE  Numbers'
  BY <1>1 DEF AllocateID, Goto, Numbers, TypeOK
<1>2. ASSUME NEW p \in Procs, LoadSnapshot(p)
      PROVE  Numbers'
  BY <1>2 DEF LoadSnapshot, Goto, Numbers, TypeOK
<1>3. ASSUME NEW p \in Procs, Register(p)
      PROVE  Numbers'
  <2>1. /\ pc[p] = "snapped" /\ pc'[p] \in {"active", "installing"}
        /\ \A q \in Procs \ {p} : pc'[q] = pc[q]
    BY <1>3 DEF Register, Goto, TypeOK
  <2>2. /\ UNCHANGED <<begunVars, lastCommittedTx, current>>
        /\ activeTxs' = activeTxs \cup {p}
    BY <1>3 DEF Register
  <2>3. QED
    BY <2>1, <2>2 DEF Numbers, TypeOK
<1>4. ASSUME NEW p \in Procs, CompareAndSwap(p)
      PROVE  Numbers'
  <2>1. /\ pc[p] = "swapping" /\ pc'[p] \in {"closing", "publishing"}
        /\ \A q \in Procs \ {p} : pc'[q] = pc[q]
        /\ UNCHANGED <<begunVars, activeTxs, current>>
    BY <1>4 DEF CompareAndSwap, Goto, TypeOK
  <2>2. lastCommittedTx' >= lastCommittedTx /\ lastCommittedTx' <= txIDCounter
    BY <1>4 DEF CompareAndSwap, Numbers, TypeOK
  <2>3. lastCommittedTx' \in Nat
    BY <1>4 DEF CompareAndSwap, TypeOK
  <2>4. QED
    BY <2>1, <2>2, <2>3 DEF Numbers, TypeOK
<1>5. ASSUME NEW p \in Procs, Progress(p)
      PROVE  Numbers'
  <2>1. HasSnapshot(p) /\ HasSnapshot(p)' /\ pc[p] # "snapped" /\ pc'[p] # "snapped"
    BY <1>5 DEF Progress, Working, Stages
  <2>2. QED
    BY <1>5, <2>1 DEF Progress, Numbers, TypeOK
<1>6. ASSUME NEW s \in Storers, NEW i \in DirectIds, DirectStore(s, i)
      PROVE  Numbers'
  <2>1. /\ pc[s] = "store" /\ pc'[s] \in {"begin", "failed"}
        /\ \A q \in Procs \ {s} : pc'[q] = pc[q]
        /\ s \in Procs
    BY <1>6 DEF DirectStore, Goto, TypeOK, Procs
  <2>2. UNCHANGED <<begunVars, lastCommittedTx, activeTxs, current>>
    BY <1>6 DEF DirectStore
  <2>3. QED
    BY <2>1, <2>2 DEF Numbers, TypeOK
<1>7. CASE UNCHANGED <<begunVars, lastCommittedTx, pc, current, activeTxs>>
  BY <1>7 DEF Numbers
<1>8. QED
  BY <1>1, <1>2, <1>3, <1>4, <1>5, <1>6, <1>7, StepKinds

\* A quiet snapshot covers no unfinished transaction, and never comes to.
LEMMA SettledStep == TypeOK /\ Numbers /\ Settled /\ [Next]_vars => Settled'
<1> SUFFICES ASSUME TypeOK, Numbers, Settled, [Next]_vars,
                    NEW p \in Procs, NEW q \in Procs,
                    HasSnapshot(p)', Quiet(p)', id'[q] # 0, id'[q] <= snap'[p]
             PROVE  ~Unfinished(q)'
  BY DEF Settled
<1> USE DEF begunVars, HasID, HasSnapshot, Quiet, Unfinished
<1>0. /\ snap[p] <= lastCommittedTx /\ lastCommittedTx <= txIDCounter
      /\ id[q] \in Nat /\ snap[p] \in Nat
      /\ lastCommittedTx \in Nat /\ txIDCounter \in Nat
      /\ id[q] # 0 <=> HasID(q)
  BY DEF Numbers, TypeOK
<1>1. ASSUME NEW r \in Procs, AllocateID(r)
      PROVE  ~Unfinished(q)'
  BY <1>0, <1>1 DEF AllocateID, Goto, Settled, TypeOK
<1>2. ASSUME NEW r \in Procs, LoadSnapshot(r)
      PROVE  ~Unfinished(q)'
  <2>1. /\ pc[r] = "numbered" /\ pc'[r] = "snapped"
        /\ \A w \in Procs \ {r} : /\ pc'[w] = pc[w] /\ snap'[w] = snap[w]
                                  /\ early'[w] = early[w]
        /\ snap'[r] = lastCommittedTx
        /\ early'[r] = {w \in Procs : id[w] \in 1..lastCommittedTx /\ Unfinished(w)}
        /\ id' = id
    BY <1>2 DEF LoadSnapshot, Goto, TypeOK
  <2>2. CASE p = r
    BY <1>0, <2>1, <2>2
  <2>3. CASE p # r
    <3>1. ~Unfinished(q)
      BY <2>1, <2>3 DEF Settled
    <3>2. QED
      BY <2>1, <3>1
  <2>4. QED
    BY <2>2, <2>3
<1>3. ASSUME NEW r \in Procs, Register(r)
      PROVE  ~Unfinished(q)'
  BY <1>0, <1>3 DEF Register, Goto, Settled, TypeOK
<1>4. ASSUME NEW r \in Procs, CompareAndSwap(r)
      PROVE  ~Unfinished(q)'
  BY <1>0, <1>4 DEF CompareAndSwap, Goto, Settled, TypeOK
<1>5. ASSUME NEW r \in Procs, Progress(r)
      PROVE  ~Unfinished(q)'
  <2>1. HasSnapshot(p) /\ (Unfinished(q)' => Unfinished(q))
    BY <1>5 DEF Progress, Working, Stages
  <2>2. QED
    BY <1>0, <1>5, <2>1 DEF Progress, Settled
<1>6. ASSUME NEW s \in Storers, NEW i \in DirectIds, DirectStore(s, i)
      PROVE  ~Unfinished(q)'
  <2>1. /\ pc[s] = "store" /\ pc'[s] \in {"begin", "failed"} /\ s \in Procs
        /\ \A w \in Procs \ {s} : pc'[w] = pc[w]
        /\ UNCHANGED <<id, snap, early>>
    BY <1>6 DEF DirectStore, Goto, TypeOK, Procs
  <2>2. QED
    BY <1>0, <2>1 DEF Settled
<1>7. CASE UNCHANGED <<begunVars, lastCommittedTx, pc, current, activeTxs>>
  BY <1>7 DEF Settled
<1>8. QED
  BY <1>1, <1>2, <1>3, <1>4, <1>5, <1>6, <1>7, StepKinds

-----------------------------------------------------------------------------
(* Write sets and chains hold versions of their writers. *)

\* An abort empties the write set and touches nobody else's.
LEMMA AbortWrites ==
    ASSUME TypeOK, Numbers, Writes, NEW t \in Procs, Abort(t), HasSnapshot(t),
           pending' = pending \/ pending' = [pending EXCEPT ![t] = {}]
    PROVE  Writes'
<1>1. /\ pc' = [pc EXCEPT ![t] = "aborted"]
      /\ writeSet' = [writeSet EXCEPT ![t] = [i \in Ids |-> Absent]]
      /\ id' = id
  BY DEF Abort, Goto, begunVars
<1>2. QED
  BY <1>1 DEF Writes, Written, HasSnapshot, HasID, TypeOK

\* A step that leaves the write sets alone and starts no installing.
LEMMA WritesKept ==
    ASSUME TypeOK, Writes, UNCHANGED <<writeSet, id>>,
           \A p \in Procs : /\ HasSnapshot(p) => HasSnapshot(p)'
                            /\ pc'[p] = "installing" => pc[p] = "installing"
                            /\ pending'[p] \subseteq pending[p]
    PROVE  Writes'
BY DEF Writes, Written

\* Write sets keep holding plain versions of their owner.
LEMMA WritesStep == TypeOK /\ Numbers /\ Writes /\ [Next]_vars => Writes'
<1> SUFFICES ASSUME TypeOK, Numbers, Writes, [Next]_vars
             PROVE  Writes'
  OBVIOUS
<1> USE DEF begunVars, txVars, HasID, HasSnapshot
<1>0. Txs \subseteq Procs
  BY DEF Procs
<1>1. ASSUME NEW p \in Procs, AllocateID(p)
      PROVE  Writes'
  <2>1. /\ pc[p] = "begin" /\ pc'[p] = "numbered"
        /\ \A q \in Procs \ {p} : pc'[q] = pc[q] /\ id'[q] = id[q]
        /\ writeSet' = writeSet /\ pending' = pending
    BY <1>1 DEF AllocateID, Goto, TypeOK
  <2>2. QED
    BY <2>1 DEF Writes, Written
<1>2. ASSUME NEW p \in Procs, LoadSnapshot(p)
      PROVE  Writes'
  BY <1>2, WritesKept DEF LoadSnapshot, Goto, TypeOK
<1>3. ASSUME NEW p \in Procs, Register(p)
      PROVE  Writes'
  <2>1. /\ pc[p] = "snapped" /\ pc'[p] \in {"active", "installing"}
        /\ \A q \in Procs \ {p} : pc'[q] = pc[q]
        /\ UNCHANGED <<id, pending>>
    BY <1>3 DEF Register, Goto, TypeOK
  <2>2. CASE p \in Txs /\ Goto(p, "active") /\ UNCHANGED writeSet
    BY <2>1, <2>2, WritesKept DEF Goto, TypeOK
  <2>3. CASE /\ p \in Storers
             /\ writeSet' = [writeSet EXCEPT ![p] =
                    [i \in Ids |-> IF i \in pending[p] THEN NewVersion(id[p]) ELSE Absent]]
    <3>1. /\ \A q \in Procs \ {p} : writeSet'[q] = writeSet[q]
          /\ \A i \in Ids : writeSet'[p][i] = IF i \in pending[p] THEN NewVersion(id[p])
                                              ELSE Absent
      BY <2>3 DEF TypeOK
    <3>2. NewVersion(id[p]) # Absent
      BY DEF NewVersion, Absent
    <3>3. pending[p] \subseteq Ids
      BY DEF TypeOK
    <3>4. QED
      BY <2>1, <3>1, <3>2, <3>3 DEF Writes, Written
  <2>4. QED
    BY <1>3, <2>2, <2>3 DEF Register
<1>4. ASSUME NEW p \in Txs, WriteWAL(p)
      PROVE  Writes'
  <2>1. CASE Abort(p)
    <3>1. pending' = pending
      BY <1>0, <1>4, <2>1 DEF WriteWAL, Abort, Goto, TypeOK
    <3>2. QED
      BY <1>0, <1>4, <2>1, <3>1, AbortWrites DEF WriteWAL
  <2>2. CASE ~Abort(p)
    <3>1. /\ pc[p] = "validated" /\ pc'[p] = "installing"
          /\ \A q \in Procs \ {p} : pc'[q] = pc[q] /\ pending'[q] = pending[q]
          /\ pending'[p] = Written(p)
          /\ UNCHANGED <<id, writeSet>>
      BY <1>0, <1>4, <2>2 DEF WriteWAL, Goto, TypeOK, Numbers
    <3>2. QED
      BY <1>0, <3>1, ConstantsAssumption DEF Writes, Written, Procs
  <2>3. QED
    BY <2>1, <2>2
<1>5. ASSUME NEW p \in Procs, NEW i \in Ids, Install(p, i)
      PROVE  Writes'
  <2>1. CASE Abort(p)
    <3>1. pending' = [pending EXCEPT ![p] = {}]
      BY <1>5, <2>1 DEF Install, Abort, Goto, TypeOK
    <3>2. QED
      BY <1>5, <2>1, <3>1, AbortWrites DEF Install
  <2>2. CASE ~Abort(p)
    <3>1. /\ UNCHANGED <<id, writeSet>>
          /\ pending' = [pending EXCEPT ![p] = @ \ {i}]
          /\ pc[p] = "installing"
          /\ pc' = pc \/ pc' = [pc EXCEPT ![p] = "publishing"]
      BY <1>5, <2>2 DEF Install, Goto
    <3>2. QED
      BY <3>1, WritesKept DEF TypeOK
  <2>3. QED
    BY <2>1, <2>2
<1>6. ASSUME NEW p \in Procs, LoadLastCommitted(p) \/ CompareAndSwap(p) \/ Close(p)
      PROVE  Writes'
  <2>1. /\ pc[p] \in {"publishing", "swapping", "closing"}
        /\ pc'[p] \in {"publishing", "swapping", "closing", "done"}
        /\ \A q \in Procs \ {p} : pc'[q] = pc[q]
        /\ UNCHANGED <<id, writeSet, pending>>
    BY <1>6 DEF LoadLastCommitted, CompareAndSwap, Close, Goto, TypeOK
  <2>2. QED
    BY <2>1, WritesKept
<1>7. ASSUME NEW t \in Txs, NEW i \in Ids, Get(t, i)
      PROVE  Writes'
  BY <1>7, WritesKept DEF Get, SharedVars
<1>8. ASSUME NEW t \in Txs, NEW i \in Ids, Store(t, i)
      PROVE  Writes'
  <2>1. /\ pc[t] = "active" /\ UNCHANGED <<pc, id, pending>>
        /\ writeSet' = [writeSet EXCEPT ![t][i] = NewVersion(id[t])]
    BY <1>8 DEF Store, SharedVars
  <2>2. \A j \in Ids : writeSet'[t][j] = IF j = i THEN NewVersion(id[t]) ELSE writeSet[t][j]
    BY <1>0, <2>1 DEF TypeOK
  <2>3. \A q \in Procs \ {t} : writeSet'[q] = writeSet[q]
    BY <2>1 DEF TypeOK
  <2>4. QED
    BY <1>0, <2>1, <2>2, <2>3 DEF Writes, Written
<1>9. ASSUME NEW t \in Txs, NEW i \in RemovableIds, Remove(t, i)
      PROVE  Writes'
  <2>1. /\ pc[t] = "active" /\ UNCHANGED <<pc, id, pending>>
        /\ \A q \in Procs \ {t} : writeSet'[q] = writeSet[q]
        /\ \A j \in Ids \ {i} : writeSet'[t][j] = writeSet[t][j]
    BY <1>0, <1>9 DEF Remove, SharedVars, TypeOK
  <2>2. QED
    BY <1>0, <2>1 DEF Writes, Written
<1>10. ASSUME NEW t \in Txs, Rollback(t)
       PROVE  Writes'
  BY <1>0, <1>10, AbortWrites DEF Rollback
<1>11. ASSUME NEW t \in Txs, Commit(t)
       PROVE  Writes'
  BY <1>0, <1>11, WritesKept DEF Commit, Goto, TypeOK
<1>12. ASSUME NEW t \in Txs, Validate(t)
       PROVE  Writes'
  <2>1. CASE Abort(t)
    BY <1>0, <1>12, <2>1, AbortWrites DEF Validate
  <2>2. CASE ~Abort(t)
    BY <1>0, <1>12, <2>2, WritesKept DEF Validate, Goto, TypeOK
  <2>3. QED
    BY <2>1, <2>2
<1>13. ASSUME NEW t \in Txs, UpdateIndex(t)
       PROVE  Writes'
  BY <1>0, <1>13, WritesKept DEF UpdateIndex, Goto, TypeOK
<1>14. ASSUME NEW s \in Storers, NEW i \in DirectIds, DirectStore(s, i)
       PROVE  Writes'
  <2>1. /\ pc[s] = "store" /\ pc'[s] \in {"begin", "failed"} /\ s \in Procs
        /\ \A q \in Procs \ {s} : pc'[q] = pc[q] /\ pending'[q] = pending[q]
        /\ pending'[s] = pending[s] \/ pending'[s] = {i}
        /\ UNCHANGED <<id, writeSet>>
    BY <1>14 DEF DirectStore, Goto, TypeOK, Procs
  <2>2. QED
    BY <2>1 DEF Writes, Written
<1>15. CASE GarbageCollect
  BY <1>15, WritesKept DEF GarbageCollect
<1>16. CASE UNCHANGED vars
  BY <1>16, WritesKept DEF vars
<1>17. QED
  BY <1>0, <1>1, <1>2, <1>3, <1>4, <1>5, <1>6, <1>7, <1>8, <1>9, <1>10, <1>11, <1>12, <1>13,
     <1>14, <1>15, <1>16, ConstantsAssumption DEF Next, System, Client

\* Away from the removable IDs nothing in a chain is deleted.
LEMMA PlainVersions ==
    ASSUME TypeOK, Chains, NEW i \in Ids \ RemovableIds, NEW k \in DOMAIN versionChains[i]
    PROVE  /\ versionChains[i][k] \in Versions
           /\ versionChains[i][k].deleted = 0
           /\ versionChains[i][k].ver = versionChains[i][k].created
           /\ versionChains[i][k] # Absent
<1>1. PICK p \in Procs : versionChains[i][k] = NewVersion(id[p])
  BY DEF Chains
<1>2. versionChains[i][k] \in Versions
  BY DEF TypeOK
<1>3. QED
  BY <1>1, <1>2 DEF NewVersion, Absent

\* A transaction keeps its ID and its snapshot.
LEMMA SnapshotsKept ==
    ASSUME TypeOK, Numbers, [Next]_vars, NEW p \in Procs, HasSnapshot(p)
    PROVE  /\ HasSnapshot(p)'
           /\ id'[p] = id[p] /\ snap'[p] = snap[p] /\ early'[p] = early[p]
<1> USE DEF HasSnapshot, HasID, begunVars
<1>1. ASSUME NEW r \in Procs, AllocateID(r) \/ LoadSnapshot(r) \/ Register(r) \/ CompareAndSwap(r)
      PROVE  /\ HasSnapshot(p)'
             /\ id'[p] = id[p] /\ snap'[p] = snap[p] /\ early'[p] = early[p]
  BY <1>1 DEF AllocateID, LoadSnapshot, Register, CompareAndSwap, Goto, TypeOK
<1>2. ASSUME NEW r \in Procs, Progress(r)
      PROVE  /\ HasSnapshot(p)'
             /\ id'[p] = id[p] /\ snap'[p] = snap[p] /\ early'[p] = early[p]
  BY <1>2 DEF Progress, Working, Stages
<1>3. ASSUME NEW s \in Storers, NEW i \in DirectIds, DirectStore(s, i)
      PROVE  /\ HasSnapshot(p)'
             /\ id'[p] = id[p] /\ snap'[p] = snap[p] /\ early'[p] = early[p]
  BY <1>3 DEF DirectStore, Goto, TypeOK, Procs
<1>4. QED
  BY <1>1, <1>2, <1>3, StepKinds

\* Chains change by an installed version or by a collection.
LEMMA ChainSteps ==
    ASSUME TypeOK, [Next]_vars
    PROVE  \/ UNCHANGED versionChains
           \/ \E p \in Procs, i \in Ids : Install(p, i)
           \/ GarbageCollect
<1>0. Txs \subseteq Procs
  BY DEF Procs
<1>1. ASSUME NEW p \in Procs, AllocateID(p) \/ System(p)
      PROVE  UNCHANGED versionChains \/ \E i \in Ids : Install(p, i)
  BY <1>1 DEF AllocateID, System, LoadSnapshot, Register, WriteWAL, LoadLastCommitted,
              CompareAndSwap, Close
<1>2. ASSUME NEW t \in Txs, Client(t) \/ Validate(t) \/ UpdateIndex(t)
      PROVE  UNCHANGED versionChains
  BY <1>2 DEF Client, Get, Store, Remove, SharedVars, Rollback, Commit, Validate, UpdateIndex
<1>3. ASSUME NEW s \in Storers, NEW i \in DirectIds, DirectStore(s, i)
      PROVE  UNCHANGED versionChains
  BY <1>3 DEF DirectStore
<1>4. QED
  BY <1>0, <1>1, <1>2, <1>3 DEF Next, vars

\* What Install puts on top of a chain it does not remove from.
LEMMA InstalledVersion ==
    ASSUME TypeOK, Numbers, Writes, NEW p \in Procs, NEW i \in Ids \ RemovableIds, Install(p, i)
    PROVE  /\ HasSnapshot(p) /\ Unfinished(p)
           /\ id[p] \in Nat \ {0}
           /\ versionChains'[i] = <<NewVersion(id[p])>> \o versionChains[i]
           /\ \A j \in Ids \ {i} : versionChains'[j] = versionChains[j]
<1>1. pc[p] = "installing" /\ i \in pending[p]
  BY DEF Install
<1>2. HasSnapshot(p) /\ HasID(p) /\ Unfinished(p)
  BY <1>1 DEF HasSnapshot, HasID, Unfinished
<1>3. writeSet[p][i] = NewVersion(id[p])
  BY <1>1 DEF Writes, Written
<1>4. QED
  BY <1>2, <1>3 DEF Install, Push, Numbers, TypeOK

\* Chains keep holding plain versions of transactions that have a snapshot.
LEMMA ChainsStep == TypeOK /\ Numbers /\ Writes /\ Chains /\ [Next]_vars => Chains'
<1> SUFFICES ASSUME TypeOK, Numbers, Writes, Chains, [Next]_vars,
                    NEW i \in Ids \ RemovableIds, NEW k \in DOMAIN versionChains'[i]
             PROVE  \E p \in Procs : HasSnapshot(p)' /\ versionChains'[i][k] = NewVersion(id'[p])
  BY DEF Chains
<1>0. versionChains[i] \in Seq(Versions)
  BY DEF TypeOK
<1>1. SUFFICES \E p \in Procs : HasSnapshot(p) /\ versionChains'[i][k] = NewVersion(id[p])
  BY SnapshotsKept
<1>2. CASE UNCHANGED versionChains
  BY <1>2 DEF Chains
<1>3. ASSUME NEW p \in Procs, NEW j \in Ids, Install(p, j)
      PROVE  \E q \in Procs : HasSnapshot(q) /\ versionChains'[i][k] = NewVersion(id[q])
  <2>1. CASE i # j
    <3>1. versionChains'[i] = versionChains[i]
      BY <1>3, <2>1 DEF Install, Push, TypeOK
    <3>2. QED
      BY <3>1 DEF Chains
  <2>2. CASE i = j
    <3>1. HasSnapshot(p) /\ versionChains'[i] = <<NewVersion(id[p])>> \o versionChains[i]
      BY <1>3, <2>2, InstalledVersion
    <3>2. CASE k = 1
      BY <1>0, <3>1, <3>2
    <3>3. CASE k # 1
      <4>1. k - 1 \in DOMAIN versionChains[i] /\ versionChains'[i][k] = versionChains[i][k - 1]
        BY <1>0, <3>1, <3>3
      <4>2. QED
        BY <4>1 DEF Chains
    <3>4. QED
      BY <3>2, <3>3
  <2>3. QED
    BY <2>1, <2>2
<1>4. CASE GarbageCollect
  <2>1. versionChains'[i] = GcVersionChain(versionChains[i], MinSnapshot)
    BY <1>4 DEF GarbageCollect
  <2>2. k \in DOMAIN versionChains[i] /\ versionChains'[i][k] = versionChains[i][k]
    BY <1>0, <2>1, GcKeepsPositions, MinSnapshotIsLow
  <2>3. QED
    BY <2>2 DEF Chains
<1>5. QED
  BY <1>2, <1>3, <1>4, ChainSteps

\* The invariant the readers' theorems rest on.
THEOREM Invariant == Spec => []IInv
<1>1. Init => IInv
  <2> SUFFICES ASSUME Init PROVE IInv
    OBVIOUS
  <2>1. \A p \in Procs : /\ pc[p] \in {"store", "begin"} /\ ~HasID(p) /\ ~HasSnapshot(p)
                         /\ id[p] = 0 /\ snap[p] = 0 /\ current[p] = 0 /\ pending[p] = {}
                         /\ \A i \in Ids : writeSet[p][i] = Absent
    BY DEF Init, HasID, HasSnapshot
  <2>2. Numbers
    BY <2>1 DEF Init, Numbers
  <2>3. Settled /\ Writes
    BY <2>1 DEF Settled, Writes
  <2>4. Chains
    BY DEF Init, Chains
  <2>5. QED
    BY <2>2, <2>3, <2>4, InitType DEF IInv
<1>2. IInv /\ [Next]_vars => IInv'
  BY TypeStep, NumbersStep, SettledStep, WritesStep, ChainsStep DEF IInv
<1>3. QED
  BY <1>1, <1>2, PTL DEF Spec

-----------------------------------------------------------------------------
(* What readers see. *)

\* A least element is the only one.
LEMMA LeastIsUnique ==
    ASSUME NEW S \in SUBSET Nat, NEW k \in S, \A j \in S : k <= j
    PROVE  Least(S) = k
<1>1. Least(S) \in S /\ Least(S) <= k
  BY LeastExists
<1>2. k <= Least(S) /\ k \in Nat /\ Least(S) \in Nat
  BY <1>1
<1>3. QED
  BY <1>1, <1>2

\* A version on top that a reader may not see makes no difference to it.
LEMMA HiddenOnTop ==
    ASSUME NEW chain \in Seq(Versions), NEW v \in Versions, NEW s \in Nat, ~IsVisible(v, s)
    PROVE  GetVisibleVersion(<<v>> \o chain, s) = GetVisibleVersion(chain, s)
<1> DEFINE new == <<v>> \o chain
<1>1. /\ new \in Seq(Versions)
      /\ \A k \in DOMAIN chain : k + 1 \in DOMAIN new /\ new[k + 1] = chain[k]
      /\ \A k \in DOMAIN new : k = 1 \/ k - 1 \in DOMAIN chain
      /\ new[1] = v
  OBVIOUS
<1> HIDE DEF new
<1>2. /\ \A k \in VisibleAt(chain, s) : k + 1 \in VisibleAt(new, s)
      /\ \A k \in VisibleAt(new, s) : k - 1 \in VisibleAt(chain, s)
  <2>1. ASSUME NEW k \in VisibleAt(chain, s)
        PROVE  k + 1 \in VisibleAt(new, s)
    BY <1>1 DEF VisibleAt
  <2>2. ASSUME NEW k \in VisibleAt(new, s)
        PROVE  k - 1 \in VisibleAt(chain, s)
    <3>1. k \in DOMAIN new /\ IsVisible(new[k], s) /\ k # 1
      BY <1>1 DEF VisibleAt
    <3>2. k - 1 \in DOMAIN chain /\ k \in Nat
      BY <1>1, <3>1
    <3>3. new[k] = chain[k - 1]
      BY <1>1, <3>2
    <3>4. QED
      BY <3>1, <3>2, <3>3 DEF VisibleAt
  <2>3. QED
    BY <2>1, <2>2
<1>3. VisibleAt(chain, s) \in SUBSET Nat /\ VisibleAt(new, s) \in SUBSET Nat
  BY <1>1 DEF VisibleAt
<1>4. CASE VisibleAt(chain, s) = {}
  BY <1>2, <1>4 DEF GetVisibleVersion, new
<1>5. CASE VisibleAt(chain, s) # {}
  <2> DEFINE l == Least(VisibleAt(chain, s))
  <2>1. l \in VisibleAt(chain, s) /\ \A j \in VisibleAt(chain, s) : l <= j
    BY <1>3, <1>5, LeastExists
  <2> HIDE DEF l
  <2>2. l + 1 \in VisibleAt(new, s) /\ \A j \in VisibleAt(new, s) : l + 1 <= j
    BY <1>2, <1>3, <2>1
  <2>3. Least(VisibleAt(new, s)) = l + 1
    BY <1>3, <2>2, LeastIsUnique
  <2>4. new[l + 1] = chain[l]
    BY <1>1, <2>1 DEF VisibleAt
  <2>5. GetVisibleVersion(new, s) = chain[l]
    BY <2>2, <2>3, <2>4 DEF GetVisibleVersion
  <2>6. GetVisibleVersion(chain, s) = chain[l]
    BY <1>5 DEF GetVisibleVersion, l
  <2>7. QED
    BY <2>5, <2>6 DEF new
<1>6. QED
  BY <1>4, <1>5

\* A collection below a reader's snapshot makes no difference to it either.
LEMMA GcBelowSnapshot ==
    ASSUME NEW chain \in Seq(Versions), NEW m \in Nat, NEW s \in Nat, m <= s,
           \A k \in DOMAIN chain : chain[k].deleted = 0
    PROVE  GetVisibleVersion(GcVersionChain(chain, m), s) = GetVisibleVersion(chain, s)
<1>1. CASE GcVersionChain(chain, m) = chain
  BY <1>1
<1>2. ASSUME NEW n \in 1..Len(chain),
             GcVersionChain(chain, m) = SubSeq(chain, 1, n),
             chain[n].created <= m
      PROVE  GetVisibleVersion(GcVersionChain(chain, m), s) = GetVisibleVersion(chain, s)
  <2> DEFINE new == SubSeq(chain, 1, n)
  <2>1. DOMAIN new = 1..n /\ \A k \in 1..n : new[k] = chain[k]
    OBVIOUS
  <2> HIDE DEF new
  <2>2. n \in VisibleAt(chain, s)
    <3>1. chain[n] \in Versions /\ chain[n].deleted = 0
      OBVIOUS
    <3>2. chain[n].created <= s
      BY <1>2, <3>1 DEF Versions
    <3>3. QED
      BY <3>1, <3>2 DEF VisibleAt, IsVisible
  <2> DEFINE l == Least(VisibleAt(chain, s))
  <2>3. VisibleAt(chain, s) \in SUBSET Nat
    BY DEF VisibleAt
  <2>4. l \in VisibleAt(chain, s) /\ \A j \in VisibleAt(chain, s) : l <= j
    BY <2>2, <2>3, LeastExists
  <2> HIDE DEF l
  <2>5. l \in 1..n
    BY <2>2, <2>4 DEF VisibleAt
  <2>6. VisibleAt(new, s) \subseteq VisibleAt(chain, s) /\ l \in VisibleAt(new, s)
    BY <2>1, <2>4, <2>5 DEF VisibleAt
  <2>7. Least(VisibleAt(new, s)) = l
    BY <2>3, <2>4, <2>6, LeastIsUnique
  <2>8. GetVisibleVersion(new, s) = chain[l]
    BY <2>1, <2>5, <2>6, <2>7 DEF GetVisibleVersion
  <2>9. GetVisibleVersion(chain, s) = chain[l]
    BY <2>2 DEF GetVisibleVersion, l
  <2>10. QED
    BY <1>2, <2>8, <2>9 DEF new
<1>3. QED
  BY <1>1, <1>2, GcIsPrefix

\* Only a collection can take anything from a quiet snapshot, registered or not.
LEMMA ViewKeptUnlessCollected ==
    ASSUME IInv, [Next]_vars, ~GarbageCollect,
           NEW t \in Procs, HasSnapshot(t), NEW i \in Ids \ RemovableIds, Quiet(t)
    PROVE  GetVisibleVersion(versionChains'[i], snap[t]) = View(t, i)
<1>0. /\ TypeOK /\ Numbers /\ Settled /\ Writes /\ Chains
      /\ snap[t] \in Nat /\ versionChains[i] \in Seq(Versions)
  BY DEF IInv, Numbers, TypeOK
<1>1. CASE UNCHANGED versionChains
  BY <1>1 DEF View
<1>2. ASSUME NEW p \in Procs, NEW j \in Ids, Install(p, j)
      PROVE  GetVisibleVersion(versionChains'[i], snap[t]) = View(t, i)
  <2>1. CASE i # j
    <3>1. versionChains'[i] = versionChains[i]
      BY <1>0, <1>2, <2>1 DEF Install, Push, TypeOK
    <3>2. QED
      BY <3>1 DEF View
  <2>2. CASE i = j
    <3>1. /\ HasSnapshot(p) /\ Unfinished(p) /\ id[p] \in Nat \ {0}
          /\ versionChains'[i] = <<NewVersion(id[p])>> \o versionChains[i]
      BY <1>0, <1>2, <2>2, InstalledVersion
    <3>2. ~(id[p] <= snap[t])
      BY <1>0, <3>1 DEF Settled
    <3>3. NewVersion(id[p]) \in Versions /\ ~IsVisible(NewVersion(id[p]), snap[t])
      BY <3>1, <3>2 DEF NewVersion, Versions, IsVisible
    <3>4. QED
      BY <1>0, <3>1, <3>3, HiddenOnTop DEF View
  <2>3. QED
    BY <2>1, <2>2
<1>3. QED
  BY <1>0, <1>1, <1>2, ChainSteps

\* An open transaction with a quiet snapshot keeps its view in every step.
LEMMA ViewKept ==
    ASSUME IInv, [Next]_vars, NEW t \in OpenTxs, NEW i \in Ids \ RemovableIds, Quiet(t)
    PROVE  GetVisibleVersion(versionChains'[i], snap[t]) = View(t, i)
<1>0. /\ TypeOK /\ Numbers /\ Chains
      /\ t \in Procs /\ t \in activeTxs /\ HasSnapshot(t)
      /\ snap[t] \in Nat /\ versionChains[i] \in Seq(Versions)
  BY DEF IInv, Numbers, TypeOK, OpenTxs, Procs
<1>1. CASE ~GarbageCollect
  BY <1>0, <1>1, ViewKeptUnlessCollected
<1>2. CASE GarbageCollect
  <2>1. versionChains'[i] = GcVersionChain(versionChains[i], MinSnapshot)
    BY <1>2 DEF GarbageCollect
  <2>2. MinSnapshot \in Nat /\ MinSnapshot <= snap[t]
    BY <1>0, MinSnapshotIsLow
  <2>3. \A k \in DOMAIN versionChains[i] : versionChains[i][k].deleted = 0
    <3>1. \A n : NewVersion(n).deleted = 0
      BY DEF NewVersion
    <3>2. QED
      BY <1>0, <3>1 DEF Chains
  <2>4. QED
    BY <1>0, <2>1, <2>2, <2>3, GcBelowSnapshot DEF View
<1>3. QED
  BY <1>1, <1>2

\* A transaction with a quiet snapshot reads the same version of an ID from its
\* registration to its end, whatever commits, half installs or is collected.
THEOREM ReadsAreStable == Spec => StableReads
<1>1. ASSUME IInv, [Next]_vars, NEW t \in Txs, NEW i \in Ids \ RemovableIds,
             t \in OpenTxs, Quiet(t)
      PROVE  View(t, i)' = View(t, i)
  <2>1. t \in Procs /\ HasSnapshot(t) /\ TypeOK /\ Numbers
    BY <1>1 DEF IInv, Numbers, OpenTxs, Procs
  <2>2. snap'[t] = snap[t]
    BY <1>1, <2>1, SnapshotsKept
  <2>3. QED
    BY <1>1, <2>2, ViewKept DEF View
<1>2. IInv /\ [Next]_vars =>
        [\A t \in Txs, i \in Ids \ RemovableIds :
            t \in OpenTxs /\ t \in OpenTxs' /\ Quiet(t) => View(t, i)' = View(t, i)]_vars
  BY <1>1
<1>3. QED
  BY <1>2, Invariant, PTL DEF Spec, StableReads

\* Under a quiet snapshot a read only finds versions whose writer finished its
\* commit: no dirty read, no half of a write set.
THEOREM ReadsAreClean == Spec => []NoDirtyReads
<1>1. IInv => NoDirtyReads
  <2> SUFFICES ASSUME IInv, NEW t \in OpenTxs, NEW i \in Ids \ RemovableIds, NEW p \in Procs,
                      Quiet(t), id[p] # 0, View(t, i).ver = id[p]
               PROVE  ~Unfinished(p)
    BY DEF NoDirtyReads
  <2>1. /\ TypeOK /\ Numbers /\ Settled /\ Chains
        /\ t \in Procs /\ HasSnapshot(t)
        /\ snap[t] \in Nat /\ versionChains[i] \in Seq(Versions)
    BY DEF IInv, Numbers, TypeOK, OpenTxs, Procs
  <2>2. View(t, i) # Absent
    BY DEF Absent
  <2>3. PICK k \in DOMAIN versionChains[i] :
           View(t, i) = versionChains[i][k] /\ IsVisible(versionChains[i][k], snap[t])
    BY <2>1, <2>2, VisibleIsInChain DEF View
  <2>4. PICK q \in Procs : versionChains[i][k] = NewVersion(id[q])
    BY <2>1 DEF Chains
  <2>5. id[p] <= snap[t]
    BY <2>3, <2>4 DEF NewVersion, IsVisible
  <2>6. QED
    BY <2>1, <2>5 DEF Settled
<1>2. QED
  BY <1>1, Invariant, PTL

-----------------------------------------------------------------------------
(* What validation and publication need beyond IInv. *)

\* A transaction reads nothing before it is registered, and stays registered while
\* it is in a client's hands or committing.
Registered ==
    /\ \A p \in Procs : ~HasSnapshot(p) \/ pc[p] = "snapped" => \A i \in Ids : readSet[p][i] = 0
    /\ \A t \in Txs :
          pc[t] \in {"active", "committing", "validated", "installing", "indexFailed"}
              => t \in activeTxs

\* What a quiet snapshot read is what it still shows.
ReadsSeen ==
    \A t \in OpenTxs, i \in Ids \ RemovableIds :
        Quiet(t) /\ readSet[t][i] # 0 => View(t, i).ver = readSet[t][i]

\* An installed version stays in its chain until a published one covers it.
Kept ==
    \A i \in Ids \ RemovableIds, p \in Procs :
        /\ i \in Written(p)
        /\ \/ pc[p] = "installing" /\ i \notin pending[p]
           \/ pc[p] \in {"publishing", "swapping", "closing", "done"}
        => \E k \in DOMAIN versionChains[i] :
               versionChains[i][k].created = id[p] \/ versionChains[i][k].created <= lastCommittedTx

IInvCommit == Registered /\ ReadsSeen /\ Kept /\ PublishedCovered

\* A step by somebody: p's own.
Own(p) ==
    \/ AllocateID(p) \/ System(p)
    \/ p \in Txs /\ (Client(p) \/ Validate(p) \/ UpdateIndex(p))
    \/ p \in Storers /\ \E i \in DirectIds : DirectStore(p, i)

Local(p) == <<pc[p], id[p], snap[p], early[p], readSet[p], writeSet[p], pending[p],
              current[p], activeTxs \cap {p}>>

\* A step of somebody else leaves alone what belongs to p.
LEMMA OwnTouchesOwn ==
    ASSUME TypeOK, NEW p \in Procs, NEW r \in Procs, r # p, Own(r)
    PROVE  UNCHANGED Local(p)
<1> USE DEF Local, begunVars, txVars
<1>0. Txs \subseteq Procs /\ Storers \subseteq Procs
  BY DEF Procs
<1>1. ASSUME NEW q \in Procs, q # p, AllocateID(q) \/ LoadSnapshot(q) \/ Register(q)
      PROVE  UNCHANGED Local(p)
  BY <1>1 DEF AllocateID, LoadSnapshot, Register, Goto, TypeOK
<1>2. ASSUME NEW q \in Procs, q # p, WriteWAL(q)
      PROVE  UNCHANGED Local(p)
  BY <1>2 DEF WriteWAL, Abort, Goto, TypeOK
<1>3. ASSUME NEW q \in Procs, NEW i \in Ids, q # p, Install(q, i)
      PROVE  UNCHANGED Local(p)
  <2>1. CASE Abort(q) /\ pending' = [pending EXCEPT ![q] = {}]
    BY <1>3, <2>1 DEF Abort, Goto, TypeOK
  <2>2. CASE /\ pending' = [pending EXCEPT ![q] = @ \ {i}]
             /\ IF q \in Storers THEN Goto(q, "publishing") ELSE UNCHANGED pc
             /\ UNCHANGED <<begunVars, lastCommittedTx, activeTxs, txVars, current,
                            commitLock, nestLock, indexVars>>
    BY <1>3, <2>2 DEF Goto, TypeOK
  <2>3. QED
    BY <1>3, <2>1, <2>2 DEF Install
<1>4. ASSUME NEW q \in Procs, q # p, LoadLastCommitted(q) \/ CompareAndSwap(q) \/ Close(q)
      PROVE  UNCHANGED Local(p)
  BY <1>4 DEF LoadLastCommitted, CompareAndSwap, Close, Goto, TypeOK
<1>5. ASSUME NEW t \in Txs, t # p, NEW i \in Ids, Get(t, i) \/ Store(t, i) \/ Remove(t, i)
      PROVE  UNCHANGED Local(p)
  BY <1>0, <1>5 DEF Get, Store, Remove, SharedVars, TypeOK
<1>6. ASSUME NEW t \in Txs, t # p, Rollback(t) \/ Commit(t) \/ UpdateIndex(t)
      PROVE  UNCHANGED Local(p)
  BY <1>0, <1>6 DEF Rollback, Abort, Commit, UpdateIndex, Goto, TypeOK
<1>7. ASSUME NEW t \in Txs, t # p, Validate(t)
      PROVE  UNCHANGED Local(p)
  BY <1>0, <1>7 DEF Validate, Abort, Goto, TypeOK
<1>8. ASSUME NEW s \in Storers, s # p, NEW i \in DirectIds, DirectStore(s, i)
      PROVE  UNCHANGED Local(p)
  BY <1>0, <1>8 DEF DirectStore, Goto, TypeOK
<1>9. QED
  BY <1>0, <1>1, <1>2, <1>3, <1>4, <1>5, <1>6, <1>7, <1>8, ConstantsAssumption
     DEF Own, System, Client

\* Every step is somebody's, unless it is a collection.
LEMMA Actors ==
    ASSUME [Next]_vars
    PROVE  (\E p \in Procs : Own(p)) \/ GarbageCollect \/ UNCHANGED vars
<1>1. Txs \subseteq Procs /\ Storers \subseteq Procs
  BY DEF Procs
<1>2. QED
  BY <1>1 DEF Next, Own

\* What belongs to p changes only in p's own steps.
LEMMA OthersUntouched ==
    ASSUME TypeOK, [Next]_vars, NEW p \in Procs, ~Own(p)
    PROVE  UNCHANGED Local(p)
<1>1. CASE \E r \in Procs : Own(r)
  BY <1>1, OwnTouchesOwn
<1>2. CASE GarbageCollect
  BY <1>2 DEF GarbageCollect, Local, begunVars, txVars
<1>3. CASE UNCHANGED vars
  BY <1>3 DEF vars, Local
<1>4. QED
  BY <1>1, <1>2, <1>3, Actors

\* The last committed ID never goes back.
LEMMA LastCommittedGrows ==
    ASSUME TypeOK, Numbers, [Next]_vars
    PROVE  lastCommittedTx <= lastCommittedTx' /\ lastCommittedTx' \in Nat
<1>1. ASSUME NEW p \in Procs, CompareAndSwap(p)
      PROVE  lastCommittedTx <= lastCommittedTx' /\ lastCommittedTx' \in Nat
  BY <1>1 DEF CompareAndSwap, Numbers, TypeOK
<1>2. ASSUME NEW p \in Procs, AllocateID(p) \/ LoadSnapshot(p) \/ Register(p) \/ Progress(p)
      PROVE  lastCommittedTx <= lastCommittedTx' /\ lastCommittedTx' \in Nat
  BY <1>2 DEF AllocateID, LoadSnapshot, Register, Progress, TypeOK
<1>3. ASSUME NEW s \in Storers, NEW i \in DirectIds, DirectStore(s, i)
      PROVE  lastCommittedTx <= lastCommittedTx' /\ lastCommittedTx' \in Nat
  BY <1>3 DEF DirectStore, TypeOK
<1>4. CASE UNCHANGED <<begunVars, lastCommittedTx, pc, current, activeTxs>>
  BY <1>4 DEF TypeOK
<1>5. QED
  BY <1>1, <1>2, <1>3, <1>4, StepKinds

\* Nobody leaves the compare-and-swap loop uncovered.
LEMMA PublishedStep == TypeOK /\ Numbers /\ PublishedCovered /\ [Next]_vars => PublishedCovered'
<1> SUFFICES ASSUME TypeOK, Numbers, PublishedCovered, [Next]_vars,
                    NEW p \in Procs, pc'[p] \in {"closing", "done"}
             PROVE  id'[p] <= lastCommittedTx'
  BY DEF PublishedCovered
<1> USE DEF begunVars, Goto
<1>0. lastCommittedTx <= lastCommittedTx' /\ id[p] \in Nat /\ lastCommittedTx \in Nat
      /\ lastCommittedTx' \in Nat
  BY LastCommittedGrows DEF TypeOK
<1>1. CASE pc[p] \in {"closing", "done"}
  <2>1. id'[p] = id[p]
    BY <1>1, SnapshotsKept DEF HasSnapshot, HasID
  <2>2. QED
    BY <1>0, <1>1, <2>1 DEF PublishedCovered
<1>2. CASE pc[p] \notin {"closing", "done"}
  <2>1. Own(p)
    BY <1>2, OthersUntouched DEF Local
  <2>2. CASE LoadLastCommitted(p)
    BY <1>0, <2>2 DEF LoadLastCommitted, TypeOK
  <2>3. CASE CompareAndSwap(p)
    BY <1>0, <2>3 DEF CompareAndSwap, TypeOK
  <2>4. CASE AllocateID(p) \/ LoadSnapshot(p) \/ Register(p) \/ Close(p)
    BY <1>2, <2>4 DEF AllocateID, LoadSnapshot, Register, Close, TypeOK
  <2>5. CASE WriteWAL(p) \/ \E i \in Ids : p \in Txs /\ Install(p, i)
    BY <1>2, <2>5, ConstantsAssumption DEF WriteWAL, Install, Abort, TypeOK
  <2>6. CASE \E i \in Ids : p \in Storers /\ Install(p, i)
    BY <1>2, <2>6, ConstantsAssumption DEF Install, TypeOK
  <2>7. CASE p \in Txs /\ (Client(p) \/ Validate(p) \/ UpdateIndex(p))
    BY <1>2, <2>7 DEF Client, Get, Store, Remove, SharedVars, Rollback, Commit, Validate,
                      UpdateIndex, Abort, TypeOK
  <2>8. CASE p \in Storers /\ \E i \in DirectIds : DirectStore(p, i)
    BY <1>2, <2>8 DEF DirectStore, TypeOK
  <2>9. QED
    BY <2>1, <2>2, <2>3, <2>4, <2>5, <2>6, <2>7, <2>8 DEF Own, System, Procs
<1>3. QED
  BY <1>1, <1>2

\* Registration precedes reads and lasts until the commit is over.
LEMMA RegisteredStep == TypeOK /\ Numbers /\ Registered /\ [Next]_vars => Registered'
<1> SUFFICES ASSUME TypeOK, Numbers, Registered, [Next]_vars, NEW p \in Procs
             PROVE  /\ ~HasSnapshot(p)' \/ pc'[p] = "snapped" => \A i \in Ids : readSet'[p][i] = 0
                    /\ /\ p \in Txs
                       /\ pc'[p] \in {"active", "committing", "validated", "installing",
                                      "indexFailed"}
                       => p \in activeTxs'
  BY DEF Registered, Procs
<1> USE DEF begunVars, txVars, Goto, HasSnapshot, HasID
<1>1. CASE ~Own(p)
  <2>1. UNCHANGED Local(p)
    BY <1>1, OthersUntouched
  <2>2. QED
    BY <2>1 DEF Local, Registered
<1>2. CASE AllocateID(p) \/ LoadSnapshot(p) \/ Register(p)
  BY <1>2 DEF AllocateID, LoadSnapshot, Register, Registered, TypeOK
<1>3. CASE LoadLastCommitted(p) \/ CompareAndSwap(p) \/ Close(p)
  BY <1>3 DEF LoadLastCommitted, CompareAndSwap, Close, TypeOK
<1>4. CASE p \in Txs /\ WriteWAL(p)
  BY <1>4 DEF WriteWAL, Abort, Registered, TypeOK
<1>5. ASSUME NEW i \in Ids, Install(p, i)
      PROVE  /\ ~HasSnapshot(p)' \/ pc'[p] = "snapped" => \A j \in Ids : readSet'[p][j] = 0
             /\ /\ p \in Txs
                /\ pc'[p] \in {"active", "committing", "validated", "installing", "indexFailed"}
                => p \in activeTxs'
  BY <1>5, SMTT(30) DEF Install, Abort, Registered, TypeOK
<1>6. ASSUME NEW i \in Ids, p \in Txs, Get(p, i) \/ Store(p, i) \/ Remove(p, i)
      PROVE  /\ ~HasSnapshot(p)' \/ pc'[p] = "snapped" => \A j \in Ids : readSet'[p][j] = 0
             /\ p \in activeTxs'
  BY <1>6 DEF Get, Store, Remove, SharedVars, Registered, TypeOK
<1>7. CASE p \in Txs /\ (Rollback(p) \/ Commit(p) \/ Validate(p) \/ UpdateIndex(p))
  BY <1>7 DEF Rollback, Commit, Validate, UpdateIndex, Abort, Registered, TypeOK
<1>8. ASSUME p \in Storers, NEW i \in DirectIds, DirectStore(p, i)
      PROVE  /\ \A j \in Ids : readSet'[p][j] = 0
             /\ p \notin Txs
  BY <1>8, ConstantsAssumption DEF DirectStore, Registered, TypeOK
<1>9. QED
  BY <1>1, <1>2, <1>3, <1>4, <1>5, <1>6, <1>7, <1>8, ConstantsAssumption DEF Own, System, Client

\* A read set entry stays what the snapshot shows.
LEMMA ReadsSeenStep == IInv /\ Registered /\ ReadsSeen /\ [Next]_vars => ReadsSeen'
<1> SUFFICES ASSUME IInv, Registered, ReadsSeen, [Next]_vars,
                    NEW t \in Txs, t \in activeTxs', NEW i \in Ids \ RemovableIds,
                    Quiet(t)', readSet'[t][i] # 0
             PROVE  View(t, i)'.ver = readSet'[t][i]
  BY DEF ReadsSeen, OpenTxs
<1> USE DEF begunVars, txVars, Goto
<1>0. t \in Procs /\ TypeOK /\ Numbers /\ Numbers' /\ TypeOK'
  BY TypeStep, NumbersStep DEF IInv, Procs
<1>1. CASE t \notin activeTxs
  <2>1. Own(t)
    BY <1>0, <1>1, OthersUntouched DEF Local
  <2>2. Register(t)
    BY <1>0, <1>1, <2>1, ConstantsAssumption
       DEF Own, System, Client, AllocateID, LoadSnapshot, WriteWAL, Install, LoadLastCommitted,
           CompareAndSwap, Close, Get, Store, Remove, SharedVars, Rollback, Commit, Validate,
           UpdateIndex, Abort, DirectStore
  <2>3. readSet'[t][i] = 0
    BY <1>0, <2>2 DEF Register, Registered
  <2>4. QED
    BY <2>3
<1>2. CASE t \in activeTxs
  <2>1. HasSnapshot(t) /\ t \in OpenTxs
    BY <1>0, <1>2 DEF Numbers, OpenTxs
  <2>2. snap'[t] = snap[t] /\ Quiet(t)
    BY <1>0, <2>1, SnapshotsKept DEF Quiet
  <2>3. View(t, i)' = View(t, i)
    BY <2>1, <2>2, ViewKept DEF View
  <2>4. CASE readSet'[t][i] = readSet[t][i]
    BY <2>1, <2>2, <2>3, <2>4 DEF ReadsSeen
  <2>5. CASE readSet'[t][i] # readSet[t][i]
    <3>1. Own(t)
      BY <1>0, <2>5, OthersUntouched DEF Local
    <3>2. ~Abort(t)
      BY <1>0 DEF Abort, TypeOK
    <3>3. PICK j \in Ids : Get(t, j)
      BY <1>0, <2>5, <3>1, <3>2, ConstantsAssumption
         DEF Own, System, Client, AllocateID, LoadSnapshot, Register, WriteWAL, Install,
             LoadLastCommitted, CompareAndSwap, Close, Store, Remove, SharedVars, Rollback, Commit,
             Validate, UpdateIndex, DirectStore
    <3>4. readSet'[t][i] = View(t, i).ver
      BY <1>0, <2>5, <3>3 DEF Get, View, TypeOK
    <3>5. QED
      BY <2>3, <3>4
  <2>6. QED
    BY <2>4, <2>5
<1>3. QED
  BY <1>1, <1>2

\* A collection that drops a version leaves one below it that is published.
LEMMA GcKeepsCover ==
    ASSUME NEW chain \in Seq(Versions), NEW m \in Nat, NEW last \in Nat, m <= last,
           NEW k \in DOMAIN chain
    PROVE  \E j \in DOMAIN GcVersionChain(chain, m) :
              \/ GcVersionChain(chain, m)[j] = chain[k]
              \/ GcVersionChain(chain, m)[j].created <= last
<1>1. CASE GcVersionChain(chain, m) = chain
  BY <1>1
<1>2. ASSUME NEW n \in 1..Len(chain),
             GcVersionChain(chain, m) = SubSeq(chain, 1, n), chain[n].created <= m
      PROVE  \E j \in DOMAIN GcVersionChain(chain, m) :
                GcVersionChain(chain, m)[j].created <= last
  <2>1. /\ n \in DOMAIN GcVersionChain(chain, m)
        /\ GcVersionChain(chain, m)[n] = chain[n]
    BY <1>2
  <2>2. chain[n] \in Versions
    OBVIOUS
  <2>3. chain[n].created <= last
    BY <1>2, <2>2, SMTT(30) DEF Versions
  <2>4. QED
    BY <2>1, <2>3
<1>3. QED
  BY <1>1, <1>2, GcIsPrefix

\* A collection takes no ID's last version that readers of today need.
LEMMA CollectionKeepsCover ==
    ASSUME TypeOK, GarbageCollect, NEW i \in Ids, NEW n, NEW k \in DOMAIN versionChains[i],
           versionChains[i][k].created = n \/ versionChains[i][k].created <= lastCommittedTx
    PROVE  \E j \in DOMAIN versionChains'[i] :
              versionChains'[i][j].created = n \/ versionChains'[i][j].created <= lastCommittedTx
<1>1. PICK m \in Nat : m = MinSnapshot /\ m <= lastCommittedTx
  BY MinSnapshotIsLow
<1>2. PICK chain \in Seq(Versions) : chain = versionChains[i]
  BY DEF TypeOK
<1>3. versionChains'[i] = GcVersionChain(chain, m)
  BY <1>1, <1>2 DEF GarbageCollect
<1>4. PICK last \in Nat : last = lastCommittedTx
  BY DEF TypeOK
<1>5. k \in DOMAIN chain /\ m <= last
  BY <1>1, <1>2, <1>4
<1>6. \E j \in DOMAIN GcVersionChain(chain, m) :
         \/ GcVersionChain(chain, m)[j] = chain[k]
         \/ GcVersionChain(chain, m)[j].created <= last
  BY <1>5, GcKeepsCover, SMTT(30)
<1>7. chain[k].created = n \/ chain[k].created <= last
  BY <1>2, <1>4
<1>8. QED
  BY <1>3, <1>4, <1>6, <1>7

\* An installed version stays, or a published one lies in its chain.
LEMMA KeptStep == IInv /\ Kept /\ [Next]_vars => Kept'
<1> DEFINE Covers(chain, n, last) ==
               \E k \in DOMAIN chain : chain[k].created = n \/ chain[k].created <= last
<1> DEFINE Installed(p, i) ==
               /\ i \in Written(p)
               /\ \/ pc[p] = "installing" /\ i \notin pending[p]
                  \/ pc[p] \in {"publishing", "swapping", "closing", "done"}
<1> SUFFICES ASSUME IInv, Kept, [Next]_vars,
                    NEW i \in Ids \ RemovableIds, NEW p \in Procs, Installed(p, i)'
             PROVE  Covers(versionChains'[i], id'[p], lastCommittedTx')
  BY DEF Kept
<1> USE DEF begunVars, txVars, indexVars, Goto
<1>0. /\ TypeOK /\ Numbers /\ Writes /\ TypeOK'
      /\ versionChains[i] \in Seq(Versions) /\ versionChains'[i] \in Seq(Versions)
      /\ lastCommittedTx <= lastCommittedTx' /\ lastCommittedTx \in Nat /\ lastCommittedTx' \in Nat
  BY TypeStep, LastCommittedGrows DEF IInv, TypeOK
<1>1. CASE Installed(p, i)
  <2>1. HasSnapshot(p)
    BY <1>1 DEF HasSnapshot, HasID
  <2>2. id'[p] = id[p]
    BY <1>0, <2>1, SnapshotsKept
  <2>3. PICK k \in DOMAIN versionChains[i] :
           versionChains[i][k].created = id[p] \/ versionChains[i][k].created <= lastCommittedTx
    BY <1>1 DEF Kept
  <2>4. versionChains[i][k] \in Versions
    BY <1>0
  <2>5. versionChains[i][k].created = id'[p] \/ versionChains[i][k].created <= lastCommittedTx'
    BY <1>0, <2>2, <2>3, <2>4 DEF Versions
  <2>6. CASE UNCHANGED versionChains
    BY <2>5, <2>6
  <2>7. ASSUME NEW q \in Procs, NEW j \in Ids, Install(q, j)
        PROVE  Covers(versionChains'[i], id'[p], lastCommittedTx')
    <3>1. CASE i # j
      <4>1. versionChains'[i] = versionChains[i]
        BY <1>0, <2>7, <3>1 DEF Install, Push, TypeOK
      <4>2. QED
        BY <2>5, <4>1
    <3>2. CASE i = j
      <4>1. versionChains'[i] = <<NewVersion(id[q])>> \o versionChains[i]
        BY <1>0, <2>7, <3>2, InstalledVersion
      <4>2. k + 1 \in DOMAIN versionChains'[i] /\ versionChains'[i][k + 1] = versionChains[i][k]
        BY <1>0, <4>1
      <4>3. QED
        BY <2>5, <4>2
    <3>3. QED
      BY <3>1, <3>2
  <2>8. CASE GarbageCollect
    <3>1. UNCHANGED lastCommittedTx
      BY <2>8 DEF GarbageCollect
    <3>2. QED
      BY <1>0, <2>3, <2>5, <2>8, <3>1, CollectionKeepsCover
  <2>9. QED
    BY <1>0, <2>6, <2>7, <2>8, ChainSteps
<1>2. CASE ~Installed(p, i)
  <2>1. Own(p)
    BY <1>0, <1>2, OthersUntouched DEF Local, Written
  <2>2. Install(p, i)
    <3>1. CASE AllocateID(p) \/ LoadSnapshot(p) \/ LoadLastCommitted(p) \/ CompareAndSwap(p)
                 \/ Close(p)
      BY <1>0, <1>2, <3>1
         DEF AllocateID, LoadSnapshot, LoadLastCommitted, CompareAndSwap, Close, Written, TypeOK
    <3>2. CASE Register(p)
      <4>1. \A j \in Ids : writeSet'[p][j] # Absent => j \in pending'[p]
        BY <1>0, <1>2, <3>2 DEF Register, Writes, HasSnapshot, Written, TypeOK
      <4>2. pc'[p] \in {"active", "installing"}
        BY <1>0, <3>2 DEF Register, TypeOK
      <4>3. QED
        BY <4>1, <4>2 DEF Written
    <3>3. CASE p \in Txs /\ WriteWAL(p)
      BY <1>0, <1>2, <3>3 DEF WriteWAL, Abort, Written, TypeOK
    <3>4. CASE \E j \in Ids : Install(p, j) /\ j # i
      <4>1. PICK j \in Ids : Install(p, j) /\ j # i
        BY <3>4
      <4>2. pc[p] = "installing" /\ j \in pending[p]
        BY <4>1 DEF Install
      <4>3. CASE Abort(p)
        BY <1>0, <4>3 DEF Abort, Written, TypeOK
      <4>4. CASE ~Abort(p)
        <5>1. /\ writeSet' = writeSet /\ pending'[p] = pending[p] \ {j}
              /\ p \notin Storers => pc'[p] = "installing"
          BY <1>0, <4>1, <4>2, <4>4 DEF Install, TypeOK
        <5>2. i \in pending[p]
          BY <1>2, <4>2, <5>1 DEF Written
        <5>3. p \notin Storers
          BY <1>0, <4>1, <4>2, <5>2 DEF Writes
        <5>4. QED
          BY <1>2, <4>1, <4>2, <5>1, <5>2, <5>3 DEF Written
      <4>5. QED
        BY <4>3, <4>4
    <3>5. CASE p \in Txs /\ (Client(p) \/ Validate(p))
      <4>1. pc'[p] \in {"active", "committing", "validated", "aborted"}
        BY <1>0, <3>5 DEF Client, Get, Store, Remove, SharedVars, Rollback, Commit, Validate,
                          Abort, TypeOK
      <4>2. QED
        BY <4>1
    <3>6. CASE p \in Txs /\ UpdateIndex(p)
      BY <1>0, <1>2, <3>6 DEF UpdateIndex, Written, TypeOK
    <3>7. CASE p \in Storers /\ \E j \in DirectIds : DirectStore(p, j)
      BY <1>0, <1>2, <3>7 DEF DirectStore, Procs, TypeOK
    <3>8. QED
      BY <2>1, <3>1, <3>2, <3>3, <3>4, <3>5, <3>6, <3>7 DEF Own, System
  <2>3. /\ versionChains'[i] = <<NewVersion(id[p])>> \o versionChains[i]
        /\ HasSnapshot(p)
    BY <1>0, <2>2, InstalledVersion
  <2>4. id'[p] = id[p]
    BY <1>0, <2>3, SnapshotsKept
  <2>5. 1 \in DOMAIN versionChains'[i] /\ versionChains'[i][1].created = id'[p]
    BY <1>0, <2>3, <2>4 DEF NewVersion
  <2>6. QED
    BY <2>5
<1>3. QED
  BY <1>1, <1>2

\* Nothing is read or committed at first.
LEMMA InitCommit == Init => IInvCommit
<1> SUFFICES ASSUME Init PROVE IInvCommit
  OBVIOUS
<1>1. \A p \in Procs : /\ pc[p] \in {"store", "begin"}
                       /\ \A i \in Ids : readSet[p][i] = 0
  BY DEF Init
<1>2. Registered /\ PublishedCovered /\ Kept
  BY <1>1 DEF Registered, PublishedCovered, Kept, Procs
<1>3. ReadsSeen
  BY DEF Init, ReadsSeen, OpenTxs
<1>4. QED
  BY <1>2, <1>3 DEF IInvCommit

\* The invariant the theorems about commits rest on.
THEOREM CommitInvariant == Spec => [](IInv /\ IInvCommit)
<1>1. IInv /\ IInvCommit /\ [Next]_vars => IInvCommit'
  BY RegisteredStep, ReadsSeenStep, KeptStep, PublishedStep DEF IInvCommit, IInv
<1>2. QED
  BY <1>1, InitCommit, Invariant, PTL DEF Spec

\* A commit that returned is covered by every later snapshot.
THEOREM PublicationHolds == Spec => []PublishedCovered
<1>1. IInvCommit => PublishedCovered
  BY DEF IInvCommit
<1>2. QED
  BY <1>1, CommitInvariant, PTL

\* An ID with a committed write is readable by every transaction that begins now.
THEOREM CommittedStaysReadable == Spec => []CommittedReadable
<1>1. IInv /\ IInvCommit => CommittedReadable
  <2> SUFFICES ASSUME IInv, IInvCommit, NEW i \in Ids \ RemovableIds, NEW p \in Procs,
                      pc[p] = "done", i \in Written(p)
               PROVE  GetVisibleVersion(versionChains[i], lastCommittedTx) # Absent
    BY DEF CommittedReadable
  <2>1. /\ TypeOK /\ Chains /\ Numbers /\ PublishedCovered
        /\ versionChains[i] \in Seq(Versions) /\ lastCommittedTx \in Nat
    BY DEF IInv, IInvCommit, TypeOK
  <2>2. PICK k \in DOMAIN versionChains[i] : versionChains[i][k].created <= lastCommittedTx
    BY <2>1 DEF IInvCommit, Kept, PublishedCovered
  <2>3. k \in VisibleAt(versionChains[i], lastCommittedTx)
    <3>1. versionChains[i][k].deleted = 0
      BY <2>1, PlainVersions
    <3>2. QED
      BY <2>2, <3>1 DEF VisibleAt, IsVisible
  <2>4. \E l \in DOMAIN versionChains[i] :
           GetVisibleVersion(versionChains[i], lastCommittedTx) = versionChains[i][l]
    BY <2>1, <2>3, VisibleIsFound
  <2>5. QED
    BY <2>1, <2>4, PlainVersions
<1>2. QED
  BY <1>1, CommitInvariant, PTL

\* When validation lets a transaction with a quiet snapshot through, everything it
\* read is still the latest version.
THEOREM ReadsAreCertified == Spec => CertifiedReads
<1>1. ASSUME IInv, IInvCommit, [Next]_vars, NEW t \in Txs, NEW i \in Ids \ RemovableIds,
             pc[t] = "committing", pc'[t] = "validated", Quiet(t), readSet[t][i] # 0
      PROVE  GetLatestVersion(versionChains[i]).ver = readSet[t][i]
  <2>1. /\ TypeOK /\ Numbers /\ Chains /\ t \in Procs /\ t \in OpenTxs
        /\ versionChains[i] \in Seq(Versions) /\ snap[t] \in Nat
        /\ View(t, i).ver = readSet[t][i]
    BY <1>1 DEF IInv, IInvCommit, Registered, ReadsSeen, OpenTxs, TypeOK, Procs
  <2>2. Own(t)
    BY <1>1, <2>1, OthersUntouched DEF Local
  <2>3. ~Conflict(t, i)
    BY <1>1, <2>1, <2>2, ConstantsAssumption
       DEF Own, System, Client, AllocateID, LoadSnapshot, Register, WriteWAL, Install,
           LoadLastCommitted, CompareAndSwap, Close, Get, Store, Remove, SharedVars, Rollback,
           Commit, Validate, UpdateIndex, Abort, DirectStore, Goto, TypeOK
  <2> DEFINE chain == versionChains[i]
  <2>4. PICK k \in DOMAIN chain : View(t, i) = chain[k] /\ IsVisible(chain[k], snap[t])
    <3>1. View(t, i) # Absent
      BY <1>1, <2>1 DEF Absent
    <3>2. QED
      BY <2>1, <3>1, VisibleIsInChain DEF View
  <2>5. 1 \in DOMAIN chain /\ GetLatestVersion(chain) = chain[1] /\ chain[1] \in Versions
    BY <2>1, <2>4 DEF GetLatestVersion
  <2>6. CASE chain[1].created > snap[t]
    BY <1>1, <2>3, <2>5, <2>6 DEF Conflict
  <2>7. CASE ~(chain[1].created > snap[t])
    <3>1. chain[1].deleted = 0
      BY <2>1, <2>5, PlainVersions
    <3>2. 1 \in VisibleAt(chain, snap[t])
      BY <2>1, <2>5, <2>7, <3>1 DEF VisibleAt, IsVisible, Versions
    <3>3. Least(VisibleAt(chain, snap[t])) = 1
      <4>1. VisibleAt(chain, snap[t]) \in SUBSET Nat
            /\ \A j \in VisibleAt(chain, snap[t]) : 1 <= j
        BY <2>1 DEF VisibleAt
      <4>2. QED
        BY <3>2, <4>1, LeastIsUnique
    <3>4. View(t, i) = chain[1]
      BY <3>2, <3>3 DEF View, GetVisibleVersion
    <3>5. QED
      BY <2>1, <2>5, <3>4
  <2>8. QED
    BY <2>6, <2>7
<1>2. IInv /\ IInvCommit /\ [Next]_vars =>
        [\A t \in Txs : pc[t] = "committing" /\ pc'[t] = "validated" /\ Quiet(t) =>
            \A i \in Ids \ RemovableIds : readSet[t][i] # 0 =>
                GetLatestVersion(versionChains[i]).ver = readSet[t][i]]_vars
  BY <1>1
<1>3. QED
  BY <1>2, CommitInvariant, PTL DEF Spec, CertifiedReads

-----------------------------------------------------------------------------
(* First committer wins. *)

\* How a transaction comes to be in its commit.
LEMMA CommitEntry ==
    ASSUME TypeOK, [Next]_vars, NEW t \in Txs, pc'[t] \in CommitStages
    PROVE  \/ /\ pc[t] = "committing" /\ Validate(t)
              /\ pc'[t] = "validated" /\ commitLock = {} /\ commitLock' = {t}
              /\ \A i \in Ids : ~Conflict(t, i)
              /\ UNCHANGED <<versionChains, writeSet, readSet, snap>>
           \/ /\ pc[t] \in CommitStages
              /\ writeSet'[t] = writeSet[t]
              /\ \/ UNCHANGED <<pc[t], pending[t]>>
                 \/ pc[t] = "validated" /\ pc'[t] = "installing" /\ pending'[t] = Written(t)
                 \/ /\ pc[t] = "installing"
                    /\ pc'[t] = "installing"
                    /\ \E i \in Ids : Install(t, i) /\ pending'[t] = pending[t] \ {i}
                 \/ pc'[t] \in {"publishing", "swapping", "closing"}
<1> USE DEF begunVars, txVars, indexVars, Goto, CommitStages
<1>0. t \in Procs
  BY DEF Procs
<1>1. CASE ~Own(t)
  <2>1. UNCHANGED Local(t)
    BY <1>0, <1>1, OthersUntouched
  <2>2. QED
    BY <2>1 DEF Local
<1>2. CASE Validate(t)
  <2>1. ~Abort(t)
    BY <1>0 DEF Abort, TypeOK
  <2>2. QED
    BY <1>0, <1>2, <2>1 DEF Validate, TypeOK
<1>3. CASE WriteWAL(t)
  <2>1. ~Abort(t)
    BY <1>0 DEF Abort, TypeOK
  <2>2. QED
    BY <1>0, <1>3, <2>1 DEF WriteWAL, TypeOK
<1>4. ASSUME NEW i \in Ids, Install(t, i)
      PROVE  /\ pc[t] = "installing" /\ pc'[t] = "installing"
             /\ writeSet'[t] = writeSet[t] /\ pending'[t] = pending[t] \ {i}
  <2>1. ~Abort(t)
    BY <1>0 DEF Abort, TypeOK
  <2>2. QED
    BY <1>0, <1>4, <2>1, ConstantsAssumption DEF Install, TypeOK
<1>5. CASE LoadLastCommitted(t) \/ CompareAndSwap(t) \/ Close(t) \/ UpdateIndex(t)
  BY <1>0, <1>5 DEF LoadLastCommitted, CompareAndSwap, Close, UpdateIndex, TypeOK
<1>6. CASE AllocateID(t) \/ LoadSnapshot(t) \/ Register(t) \/ Client(t)
  <2>1. pc'[t] \in {"numbered", "snapped", "active", "committing", "aborted"}
    BY <1>0, <1>6, ConstantsAssumption
       DEF AllocateID, LoadSnapshot, Register, Client, Get, Store, Remove, SharedVars, Rollback,
           Commit, Abort, TypeOK
  <2>2. QED
    BY <2>1
<1>7. CASE t \in Storers
  BY <1>7, ConstantsAssumption
<1>8. QED
  BY <1>1, <1>2, <1>3, <1>4, <1>5, <1>6, <1>7 DEF Own, System

\* The commit lock is taken by validation and given back by its holder.
LEMMA LockKept ==
    ASSUME TypeOK, CommitExclusion, [Next]_vars, NEW t \in Txs, commitLock = {t},
           pc'[t] \in CommitStages, pc[t] \in CommitStages
    PROVE  commitLock' = {t}
<1> USE DEF begunVars, txVars, indexVars, Goto, CommitStages
<1>0. t \in Procs /\ Txs \subseteq Procs
  BY DEF Procs
<1>1. ASSUME NEW u \in Txs, WriteWAL(u) \/ UpdateIndex(u) \/ Close(u) \/ Validate(u)
             \/ \E i \in Ids : Install(u, i)
      PROVE  commitLock' = {t}
  <2>1. CASE u = t
    <3>1. ~Abort(t)
      BY <1>0 DEF Abort, TypeOK
    <3>2. pc'[t] \notin {"indexFailed", "done"}
      OBVIOUS
    <3>3. QED
      BY <1>0, <1>1, <2>1, <3>1, <3>2 DEF WriteWAL, UpdateIndex, Close, Validate, Install, TypeOK
  <2>2. CASE u # t
    <3>1. pc[u] \notin CommitStages
      BY <2>2 DEF CommitExclusion
    <3>2. QED
      BY <1>1, <3>1 DEF WriteWAL, UpdateIndex, Close, Validate, Install
  <2>3. QED
    BY <2>1, <2>2
<1>2. ASSUME NEW s \in Storers, Close(s) \/ \E i \in Ids : Install(s, i)
      PROVE  commitLock' = {t}
  BY <1>2, ConstantsAssumption DEF Close, Install, Abort
<1>3. ASSUME NEW p \in Procs, AllocateID(p) \/ LoadSnapshot(p) \/ Register(p)
             \/ LoadLastCommitted(p) \/ CompareAndSwap(p)
      PROVE  commitLock' = {t}
  BY <1>3 DEF AllocateID, LoadSnapshot, Register, LoadLastCommitted, CompareAndSwap
<1>4. ASSUME NEW u \in Txs, Client(u)
      PROVE  commitLock' = {t}
  BY <1>4 DEF Client, Get, Store, Remove, SharedVars, Rollback, Commit
<1>5. ASSUME NEW s \in Storers, NEW i \in DirectIds, DirectStore(s, i)
      PROVE  commitLock' = {t}
  BY <1>5 DEF DirectStore
<1>6. CASE GarbageCollect \/ UNCHANGED vars
  BY <1>6 DEF GarbageCollect, vars
<1>7. QED
  BY <1>1, <1>2, <1>3, <1>4, <1>5, <1>6 DEF Next, System, Procs

\* One transaction at a time is in its commit.
LEMMA CommitExclusionStep == TypeOK /\ CommitExclusion /\ [Next]_vars => CommitExclusion'
<1> SUFFICES ASSUME TypeOK, CommitExclusion, [Next]_vars, NEW t \in Txs, pc'[t] \in CommitStages
             PROVE  commitLock' = {t}
  BY DEF CommitExclusion
<1>1. CASE pc[t] \in CommitStages
  BY <1>1, LockKept DEF CommitExclusion
<1>2. CASE pc[t] \notin CommitStages
  BY <1>2, CommitEntry
<1>3. QED
  BY <1>1, <1>2

\* A chain of an ID that only transactions write grows by one installed version, or
\* keeps a part of its positions.
LEMMA PlainChainSteps ==
    ASSUME IInv, [Next]_vars, NEW i \in PlainIds
    PROVE  \/ \A k \in DOMAIN versionChains'[i] :
                 k \in DOMAIN versionChains[i] /\ versionChains'[i][k] = versionChains[i][k]
           \/ \E t \in Txs : /\ Install(t, i)
                             /\ versionChains'[i] = <<NewVersion(id[t])>> \o versionChains[i]
<1>0. /\ TypeOK /\ Numbers /\ Writes /\ i \in Ids \ RemovableIds /\ i \notin DirectIds
      /\ versionChains[i] \in Seq(Versions)
  BY DEF IInv, TypeOK, PlainIds
<1>1. ASSUME NEW p \in Procs, NEW j \in Ids, j # i, Install(p, j)
      PROVE  versionChains'[i] = versionChains[i]
  BY <1>0, <1>1 DEF Install, Push, TypeOK
<1>2. ASSUME NEW p \in Procs, Install(p, i)
      PROVE  p \in Txs /\ versionChains'[i] = <<NewVersion(id[p])>> \o versionChains[i]
  <2>1. i \in pending[p]
    BY <1>2 DEF Install
  <2>2. p \in Txs
    BY <1>0, <2>1 DEF Writes, Procs
  <2>3. QED
    BY <1>0, <1>2, <2>2, InstalledVersion
<1>3. CASE GarbageCollect
  <2>1. PICK m \in Nat : m = MinSnapshot
    BY <1>0, MinSnapshotIsLow
  <2>2. versionChains'[i] = GcVersionChain(versionChains[i], m)
    BY <1>0, <1>3, <2>1 DEF GarbageCollect
  <2>3. QED
    BY <1>0, <2>2, GcKeepsPositions
<1>4. QED
  BY <1>0, <1>1, <1>2, <1>3, ChainSteps

\* No read set entry is newer than its snapshot.
LEMMA ReadsStep == IInv /\ Registered /\ Reads /\ [Next]_vars => Reads'
<1> SUFFICES ASSUME IInv, Registered, Reads, [Next]_vars, NEW t \in Txs, NEW i \in PlainIds
             PROVE  readSet'[t][i] <= snap'[t]
  BY DEF Reads
<1> USE DEF begunVars, txVars, Goto
<1>a. TypeOK /\ TypeOK'
  BY TypeStep DEF IInv
<1>0. /\ TypeOK /\ Numbers /\ Chains /\ t \in Procs /\ i \in Ids \ RemovableIds
      /\ snap[t] \in Nat /\ snap'[t] \in Nat /\ readSet[t][i] \in Nat
      /\ versionChains[i] \in Seq(Versions)
  BY <1>a, SMTT(30) DEF IInv, TypeOK, PlainIds, Procs
<1>1. CASE readSet'[t][i] = 0
  BY <1>0, <1>1
<1>2. CASE readSet'[t][i] = readSet[t][i] /\ readSet[t][i] # 0
  <2>1. HasSnapshot(t)
    BY <1>0, <1>2 DEF Registered
  <2>2. snap'[t] = snap[t]
    BY <1>0, <2>1, SnapshotsKept
  <2>3. QED
    BY <1>2, <2>2 DEF Reads
<1>3. CASE readSet'[t][i] # readSet[t][i] /\ readSet'[t][i] # 0
  <2>1. Own(t)
    BY <1>0, <1>3, OthersUntouched DEF Local
  <2>2. ~Abort(t)
    BY <1>0, <1>3 DEF Abort, TypeOK
  <2>3. PICK j \in Ids : Get(t, j)
    BY <1>0, <1>3, <2>1, <2>2, ConstantsAssumption
       DEF Own, System, Client, AllocateID, LoadSnapshot, Register, WriteWAL, Install,
           LoadLastCommitted, CompareAndSwap, Close, Store, Remove, SharedVars, Rollback, Commit,
           Validate, UpdateIndex, DirectStore
  <2>4. /\ readSet'[t][i] = GetVisibleVersion(versionChains[i], snap[t]).ver
        /\ GetVisibleVersion(versionChains[i], snap[t]) # Absent
        /\ snap' = snap
    BY <1>0, <1>3, <2>3 DEF Get, SharedVars, TypeOK
  <2>5. PICK k \in DOMAIN versionChains[i] :
           /\ GetVisibleVersion(versionChains[i], snap[t]) = versionChains[i][k]
           /\ IsVisible(versionChains[i][k], snap[t])
    BY <1>0, <2>4, VisibleIsInChain
  <2>6. QED
    BY <1>0, <2>4, <2>5, PlainVersions DEF IsVisible
<1>4. QED
  BY <1>1, <1>2, <1>3

\* Between validation and installation nobody else reaches the chain: the version a
\* commit is about to cover stays inside its snapshot.
LEMMA ValidatedStep ==
    IInv /\ Reads /\ Validated /\ CommitExclusion /\ [Next]_vars => Validated'
<1> DEFINE About(t, i) == \/ pc[t] = "validated" /\ i \in Written(t)
                          \/ pc[t] = "installing" /\ i \in pending[t]
<1> SUFFICES ASSUME IInv, Reads, Validated, CommitExclusion, [Next]_vars,
                    NEW t \in Txs, NEW i \in PlainIds, About(t, i)', versionChains'[i] # <<>>
             PROVE  versionChains'[i][1].created <= snap'[t]
  BY DEF Validated
<1>0. /\ TypeOK /\ TypeOK' /\ Numbers /\ Writes /\ Chains
      /\ t \in Procs /\ i \in Ids \ RemovableIds /\ i \notin DirectIds
      /\ snap[t] \in Nat /\ versionChains[i] \in Seq(Versions)
      /\ versionChains'[i] \in Seq(Versions)
  BY TypeStep DEF IInv, TypeOK, PlainIds, Procs
<1>1. 1 \in DOMAIN versionChains'[i] /\ pc'[t] \in CommitStages
  BY <1>0 DEF CommitStages
<1>2. CASE /\ pc[t] = "committing" /\ Validate(t)
           /\ pc'[t] = "validated" /\ commitLock = {} /\ commitLock' = {t}
           /\ \A j \in Ids : ~Conflict(t, j)
           /\ UNCHANGED <<versionChains, writeSet, readSet, snap>>
  <2>1. ~Conflict(t, i) /\ i \in Written(t)
    BY <1>0, <1>2 DEF Written
  <2>2. GetLatestVersion(versionChains[i]) = versionChains[i][1]
    BY <1>0, <1>1, <1>2 DEF GetLatestVersion
  <2>3. readSet[t][i] <= snap[t]
    BY DEF Reads
  <2>4. /\ versionChains[i][1].ver = versionChains[i][1].created
        /\ versionChains[i][1].created \in Nat
    BY <1>0, <1>1, <1>2, PlainVersions DEF Versions
  <2>5. QED
    BY <1>0, <1>2, <2>1, <2>2, <2>3, <2>4 DEF Conflict
<1>3. CASE /\ pc[t] \in CommitStages
           /\ writeSet'[t] = writeSet[t]
           /\ \/ UNCHANGED <<pc[t], pending[t]>>
              \/ pc[t] = "validated" /\ pc'[t] = "installing" /\ pending'[t] = Written(t)
              \/ /\ pc[t] = "installing"
                 /\ pc'[t] = "installing"
                 /\ \E j \in Ids : Install(t, j) /\ pending'[t] = pending[t] \ {j}
              \/ pc'[t] \in {"publishing", "swapping", "closing"}
  <2>1. About(t, i)
    BY <1>0, <1>3 DEF Written
  <2>2. HasSnapshot(t) /\ commitLock = {t}
    BY <1>3 DEF HasSnapshot, HasID, CommitStages, CommitExclusion
  <2>3. snap'[t] = snap[t]
    BY <1>0, <2>2, SnapshotsKept
  <2>4. CASE \A k \in DOMAIN versionChains'[i] :
                k \in DOMAIN versionChains[i] /\ versionChains'[i][k] = versionChains[i][k]
    BY <1>0, <1>1, <2>1, <2>3, <2>4 DEF Validated
  <2>5. ASSUME NEW u \in Txs, Install(u, i)
        PROVE  FALSE
    <3>1. u = t
      BY <2>2, <2>5 DEF Install, CommitExclusion, CommitStages
    <3>2. pc'[t] = "installing" \/ pc'[t] = "validated"
      OBVIOUS
    <3>3. ~Abort(t)
      BY <1>0, <3>2 DEF Abort, Goto, TypeOK
    <3>4. pc[t] = "installing" /\ pending'[t] = pending[t] \ {i} /\ pc'[t] = pc[t]
      BY <1>0, <2>5, <3>1, <3>3, ConstantsAssumption DEF Install, TypeOK
    <3>5. QED
      BY <3>4
  <2>6. QED
    BY <2>4, <2>5, PlainChainSteps
<1>4. QED
  BY <1>0, <1>1, <1>2, <1>3, CommitEntry

\* Only published versions are covered.
LEMMA CoveredStep ==
    IInv /\ Validated /\ Covered /\ [Next]_vars => Covered'
<1> SUFFICES ASSUME IInv, Validated, Covered, [Next]_vars,
                    NEW i \in PlainIds, NEW l \in DOMAIN versionChains'[i], l > 1
             PROVE  versionChains'[i][l].created <= lastCommittedTx'
  BY DEF Covered
<1>0. /\ TypeOK /\ Numbers /\ i \in Ids \ RemovableIds
      /\ versionChains[i] \in Seq(Versions)
      /\ lastCommittedTx <= lastCommittedTx' /\ lastCommittedTx \in Nat /\ lastCommittedTx' \in Nat
      /\ \A k \in DOMAIN versionChains[i] : versionChains[i][k].created \in Nat
  BY LastCommittedGrows, PlainVersions DEF IInv, TypeOK, PlainIds, Versions
<1>1. CASE \A k \in DOMAIN versionChains'[i] :
              k \in DOMAIN versionChains[i] /\ versionChains'[i][k] = versionChains[i][k]
  BY <1>0, <1>1 DEF Covered
<1>2. ASSUME NEW t \in Txs, Install(t, i),
             versionChains'[i] = <<NewVersion(id[t])>> \o versionChains[i]
      PROVE  versionChains'[i][l].created <= lastCommittedTx'
  <2>1. l - 1 \in DOMAIN versionChains[i] /\ versionChains'[i][l] = versionChains[i][l - 1]
    BY <1>0, <1>2
  <2>2. CASE l = 2
    <3>1. versionChains[i] # <<>> /\ pc[t] = "installing" /\ i \in pending[t]
      BY <1>2, <2>1 DEF Install
    <3>2. versionChains[i][1].created <= snap[t]
      BY <3>1 DEF Validated
    <3>3. snap[t] <= lastCommittedTx /\ snap[t] \in Nat
      BY <1>0 DEF Numbers, TypeOK, Procs
    <3>4. /\ versionChains'[i][l] = versionChains[i][1]
          /\ versionChains[i][1].created \in Nat
      BY <1>0, <2>1, <2>2
    <3>5. QED
      BY <1>0, <3>2, <3>3, <3>4
  <2>3. CASE l # 2
    <3>1. l \in Nat /\ l - 1 > 1
      BY <1>0, <1>2, <2>3
    <3>2. versionChains[i][l - 1].created <= lastCommittedTx
      BY <2>1, <3>1 DEF Covered
    <3>3. QED
      BY <1>0, <2>1, <3>2
  <2>4. QED
    BY <2>2, <2>3
<1>3. QED
  BY <1>1, <1>2, PlainChainSteps

\* Seen from a quiet snapshot, what lies outside it stays on top.
LEMMA NewestFirstStep ==
    IInv /\ Covered /\ NewestFirst /\ [Next]_vars => NewestFirst'
<1> SUFFICES ASSUME IInv, Covered, NewestFirst, [Next]_vars,
                    NEW p \in Procs, NEW i \in PlainIds, HasSnapshot(p)', Quiet(p)',
                    NEW k \in DOMAIN versionChains'[i], NEW l \in DOMAIN versionChains'[i],
                    k < l, versionChains'[i][k].created <= snap'[p]
             PROVE  versionChains'[i][l].created <= snap'[p]
  BY DEF NewestFirst
<1>0. /\ TypeOK /\ Numbers /\ Writes /\ Settled /\ i \in Ids \ RemovableIds
      /\ versionChains[i] \in Seq(Versions)
      /\ k \in Nat \ {0} /\ l \in Nat \ {0}
  <2>1. TypeOK /\ TypeOK' /\ i \in Ids \ RemovableIds
    BY TypeStep DEF IInv, PlainIds
  <2>2. versionChains[i] \in Seq(Versions) /\ versionChains'[i] \in Seq(Versions)
    BY <2>1 DEF TypeOK
  <2>3. QED
    BY <2>1, <2>2 DEF IInv
<1>1. CASE HasSnapshot(p)
  <2>1. snap'[p] = snap[p] /\ Quiet(p)
    BY <1>0, <1>1, SnapshotsKept DEF Quiet
  <2>2. CASE \A j \in DOMAIN versionChains'[i] :
                j \in DOMAIN versionChains[i] /\ versionChains'[i][j] = versionChains[i][j]
    BY <1>1, <2>1, <2>2 DEF NewestFirst
  <2>3. ASSUME NEW t \in Txs, Install(t, i),
               versionChains'[i] = <<NewVersion(id[t])>> \o versionChains[i]
        PROVE  versionChains'[i][l].created <= snap'[p]
    <3>1. Unfinished(t) /\ id[t] # 0 /\ t \in Procs
      BY <1>0, <2>3, InstalledVersion DEF Procs
    <3>2. CASE k = 1
      <4>1. versionChains'[i][k].created = id[t]
        BY <1>0, <2>3, <3>2 DEF NewVersion
      <4>2. QED
        BY <1>0, <1>1, <2>1, <3>1, <4>1 DEF Settled
    <3>3. CASE k # 1
      <4>1. /\ k - 1 \in DOMAIN versionChains[i] /\ versionChains'[i][k] = versionChains[i][k - 1]
            /\ l - 1 \in DOMAIN versionChains[i] /\ versionChains'[i][l] = versionChains[i][l - 1]
            /\ k - 1 < l - 1
        BY <1>0, <2>3, <3>3
      <4>2. QED
        BY <1>1, <2>1, <4>1 DEF NewestFirst
    <3>4. QED
      BY <3>2, <3>3
  <2>4. QED
    BY <2>2, <2>3, PlainChainSteps
<1>2. CASE ~HasSnapshot(p)
  <2>1. Own(p)
    BY <1>0, <1>2, OthersUntouched DEF Local, HasSnapshot, HasID
  <2>2. LoadSnapshot(p)
    BY <1>0, <1>2, <2>1
       DEF HasSnapshot, HasID, Own, System, Client, AllocateID, Register, WriteWAL, Install,
           LoadLastCommitted, CompareAndSwap, Close, Get, Store, Remove, Rollback,
           Commit, Validate, UpdateIndex, DirectStore, Goto, TypeOK
  <2>3. UNCHANGED versionChains /\ snap'[p] = lastCommittedTx
    BY <1>0, <2>2 DEF LoadSnapshot, TypeOK
  <2>4. l > 1
    BY <1>0
  <2>5. QED
    BY <2>3, <2>4 DEF Covered
<1>3. QED
  BY <1>1, <1>2

\* No step overwrites a version outside a quiet snapshot.
LEMMA FirstCommitterWinsStep ==
    IInv /\ Validated /\ NewestFirst /\ FirstCommitterWins /\ [Next]_vars => FirstCommitterWins'
<1> SUFFICES ASSUME IInv, Validated, NewestFirst, FirstCommitterWins, [Next]_vars,
                    NEW i \in PlainIds, NEW t \in Txs,
                    NEW k \in DOMAIN versionChains'[i], NEW l \in DOMAIN versionChains'[i],
                    k < l, versionChains'[i][k].ver = id'[t], Quiet(t)'
             PROVE  versionChains'[i][l].created <= snap'[t]
  BY DEF FirstCommitterWins
<1>0. /\ TypeOK /\ Numbers /\ Numbers' /\ Chains /\ Writes
      /\ t \in Procs /\ i \in Ids \ RemovableIds
      /\ k \in Nat \ {0} /\ l \in Nat \ {0}
  <2>1. TypeOK /\ TypeOK'
    BY TypeStep DEF IInv
  <2>2. Numbers /\ Numbers' /\ Chains /\ Writes
    BY <2>1, NumbersStep DEF IInv
  <2>3. i \in Ids \ RemovableIds /\ t \in Procs
    BY DEF PlainIds, Procs
  <2>4. versionChains'[i] \in Seq(Versions)
    BY <2>1, <2>3 DEF TypeOK
  <2>5. QED
    BY <2>1, <2>2, <2>3, <2>4
<1>1. /\ versionChains[i] \in Seq(Versions)
      /\ \A n : NewVersion(n).ver = n /\ NewVersion(n).created = n
  BY <1>0 DEF TypeOK, NewVersion
<1>2. HasSnapshot(t)
  <2>1. \E q \in Procs : HasSnapshot(q) /\ versionChains'[i][k] = NewVersion(id[q])
    <3>1. CASE \A j \in DOMAIN versionChains'[i] :
                  j \in DOMAIN versionChains[i] /\ versionChains'[i][j] = versionChains[i][j]
      BY <1>0, <3>1 DEF Chains
    <3>2. ASSUME NEW u \in Txs, Install(u, i),
                 versionChains'[i] = <<NewVersion(id[u])>> \o versionChains[i]
          PROVE  \E q \in Procs : HasSnapshot(q) /\ versionChains'[i][k] = NewVersion(id[q])
      <4>1. u \in Procs /\ HasSnapshot(u)
        BY <1>0, <3>2, InstalledVersion DEF Procs
      <4>2. CASE k = 1
        BY <1>1, <3>2, <4>1, <4>2
      <4>3. CASE k # 1
        <5>1. k - 1 \in DOMAIN versionChains[i] /\ versionChains'[i][k] = versionChains[i][k - 1]
          BY <1>0, <1>1, <3>2, <4>3
        <5>2. QED
          BY <1>0, <5>1 DEF Chains
      <4>4. QED
        BY <4>2, <4>3
    <3>3. QED
      BY <3>1, <3>2, PlainChainSteps
  <2>2. PICK q \in Procs : HasSnapshot(q) /\ versionChains'[i][k] = NewVersion(id[q])
    BY <2>1
  <2>3. id'[q] = id[q] /\ HasID(q)'
    BY <1>0, <2>2, SnapshotsKept DEF HasSnapshot
  <2>4. id'[q] = id'[t] /\ id'[q] # 0
    BY <1>0, <1>1, <2>2, <2>3 DEF Numbers
  <2>5. q = t
    BY <1>0, <2>4 DEF Numbers
  <2>6. QED
    BY <2>2, <2>5
<1>3. id'[t] = id[t] /\ snap'[t] = snap[t] /\ Quiet(t)
  BY <1>0, <1>2, SnapshotsKept DEF Quiet
<1>4. CASE \A j \in DOMAIN versionChains'[i] :
              j \in DOMAIN versionChains[i] /\ versionChains'[i][j] = versionChains[i][j]
  BY <1>3, <1>4 DEF FirstCommitterWins
<1>5. ASSUME NEW u \in Txs, Install(u, i),
             versionChains'[i] = <<NewVersion(id[u])>> \o versionChains[i]
      PROVE  versionChains'[i][l].created <= snap'[t]
  <2>1. l - 1 \in DOMAIN versionChains[i] /\ versionChains'[i][l] = versionChains[i][l - 1]
    BY <1>0, <1>1, <1>5
  <2>2. CASE k = 1
    <3>1. u = t
      BY <1>0, <1>1, <1>2, <1>3, <1>5, <2>2 DEF Numbers, HasSnapshot, Procs
    <3>2. versionChains[i] # <<>> /\ versionChains[i][1].created <= snap[t]
      BY <1>5, <2>1, <3>1 DEF Install, Validated
    <3>3. 1 \in DOMAIN versionChains[i] /\ (l - 1 = 1 \/ 1 < l - 1)
      BY <1>0, <1>1, <2>1
    <3>4. versionChains[i][l - 1].created <= snap[t]
      BY <1>0, <1>2, <1>3, <2>1, <3>2, <3>3 DEF NewestFirst
    <3>5. QED
      BY <1>3, <2>1, <3>4
  <2>3. CASE k # 1
    <3>1. /\ k - 1 \in DOMAIN versionChains[i] /\ versionChains'[i][k] = versionChains[i][k - 1]
          /\ k - 1 < l - 1
      BY <1>0, <1>1, <1>5, <2>3
    <3>2. QED
      BY <1>3, <2>1, <3>1 DEF FirstCommitterWins
  <2>4. QED
    BY <2>2, <2>3
<1>6. QED
  BY <1>4, <1>5, PlainChainSteps

\* The third layer of the invariant.
THEOREM OrderInvariant == Spec => []IInvFCW
<1>1. Init => IInvFCW
  <2> SUFFICES ASSUME Init PROVE IInvFCW
    OBVIOUS
  <2>1. \A i \in PlainIds : versionChains[i] = <<>> /\ DOMAIN versionChains[i] = {}
    BY DEF Init, PlainIds
  <2>2. Validated /\ Covered /\ NewestFirst /\ FirstCommitterWins
    BY <2>1 DEF Validated, Covered, NewestFirst, FirstCommitterWins
  <2>3. CommitExclusion /\ Reads
    BY DEF Init, CommitExclusion, CommitStages, Reads, Procs, PlainIds
  <2>4. QED
    BY <2>2, <2>3 DEF IInvFCW
<1>2. IInv /\ IInvCommit /\ IInvFCW /\ [Next]_vars => IInvFCW'
  BY CommitExclusionStep, ReadsStep, ValidatedStep, CoveredStep, NewestFirstStep,
     FirstCommitterWinsStep DEF IInvFCW, IInvCommit, IInv
<1>3. QED
  BY <1>1, <1>2, CommitInvariant, PTL DEF Spec

\* First committer wins: no transaction with a quiet snapshot overwrites a version of
\* an ID that was committed, or is being committed, outside that snapshot.
THEOREM FirstCommitterAlwaysWins == Spec => []FirstCommitterWins
<1>1. IInvFCW => FirstCommitterWins
  BY DEF IInvFCW
<1>2. QED
  BY <1>1, OrderInvariant, PTL

-----------------------------------------------------------------------------
(* The index and its count. *)

Indexed == {i \in Ids : index[i] # {}}

\* The index changes in an update and in Nest.Store.
LEMMA IndexSteps ==
    ASSUME [Next]_vars
    PROVE  \/ UNCHANGED indexVars
           \/ \E t \in Txs : UpdateIndex(t)
           \/ \E s \in Storers, i \in DirectIds : DirectStore(s, i)
<1> USE DEF indexVars
<1>1. ASSUME NEW p \in Procs, AllocateID(p) \/ System(p) PROVE UNCHANGED indexVars
  BY <1>1 DEF AllocateID, System, LoadSnapshot, Register, WriteWAL, Install, Abort,
              LoadLastCommitted, CompareAndSwap, Close
<1>2. ASSUME NEW t \in Txs, Client(t) \/ Validate(t) PROVE UNCHANGED indexVars
  BY <1>2 DEF Client, Get, Store, Remove, SharedVars, Rollback, Commit, Validate, Abort
<1>3. CASE GarbageCollect \/ UNCHANGED vars
  BY <1>3 DEF GarbageCollect, vars
<1>4. QED
  BY <1>1, <1>2, <1>3 DEF Next

\* Where nothing is removed, what is written is a vector.
LEMMA NoMarkers ==
    ASSUME Writes, RemovableIds = {}, NEW t \in Txs, NEW i \in Written(t)
    PROVE  ~IsMarker(writeSet[t][i])
<1>1. writeSet[t][i] = NewVersion(id[t])
  BY DEF Writes, Written, Procs
<1>2. QED
  BY <1>1 DEF IsMarker, NewVersion

\* The count follows the index.
LEMMA CountStep == TypeOK /\ Writes /\ CountMatchesIndex /\ [Next]_vars => CountMatchesIndex'
<1> SUFFICES ASSUME TypeOK, Writes, CountMatchesIndex, [Next]_vars, RemovableIds = {}
             PROVE  vectorCount' = Cardinality(Indexed')
  BY DEF CountMatchesIndex, Indexed
<1>1. /\ vectorCount = Cardinality(Indexed) /\ IsFiniteSet(Indexed) /\ vectorCount \in Nat
      /\ index \in [Ids -> SUBSET Procs]
  <2>1. Indexed \subseteq Ids
    BY DEF Indexed
  <2>2. IsFiniteSet(Indexed)
    BY <2>1, ConstantsAssumption, FS_Subset
  <2>3. vectorCount = Cardinality(Indexed)
    BY DEF CountMatchesIndex, Indexed
  <2>4. QED
    BY <2>2, <2>3, FS_CardinalityType DEF TypeOK
<1>2. CASE UNCHANGED indexVars
  BY <1>1, <1>2 DEF indexVars, Indexed
<1>3. ASSUME NEW t \in Txs, UpdateIndex(t)
      PROVE  vectorCount' = Cardinality(Indexed')
  <2>1. PICK S \in SUBSET Written(t) : index' = IndexAfter(t, S) /\ vectorCount' \in CountAfter(t, S)
    BY <1>3 DEF UpdateIndex
  <2> DEFINE new == {i \in S : index[i] = {}}
  <2>2. S \subseteq Ids /\ \A i \in S : ~IsMarker(writeSet[t][i])
    BY NoMarkers DEF Written
  <2>3. \A i \in Ids : index'[i] = IF i \in S THEN {t} ELSE index[i]
    BY <2>1, <2>2 DEF IndexAfter
  <2>4. Indexed' = Indexed \cup new /\ Indexed \cap new = {}
    BY <2>2, <2>3 DEF Indexed
  <2>5. IsFiniteSet(new) /\ Cardinality(new) \in Nat
    <3>1. new \subseteq Ids
      BY <2>2
    <3>2. QED
      BY <3>1, ConstantsAssumption, FS_Subset, FS_CardinalityType
  <2>6. Cardinality(Indexed') = Cardinality(Indexed) + Cardinality(new)
    <3>1. Cardinality(Indexed \cup new) = Cardinality(Indexed) + Cardinality(new) - Cardinality(Indexed \cap new)
      BY <1>1, <2>5, FS_Union
    <3>2. Cardinality(Indexed \cap new) = 0
      BY <2>4, FS_EmptySet
    <3>3. QED
      BY <1>1, <2>4, <2>5, <3>1, <3>2
  <2>7. vectorCount' = vectorCount + Cardinality(new)
    <3>1. {i \in S : IsMarker(writeSet[t][i])} = {}
      BY <2>2
    <3>2. S \ {} = S
      OBVIOUS
    <3>3. CountAfter(t, S) = Monus(vectorCount + Cardinality(new), Cardinality({}))
                             .. (Monus(vectorCount, Cardinality({})) + Cardinality(new))
      BY <3>1, <3>2 DEF CountAfter
    <3>4. Cardinality({}) = 0
      BY FS_EmptySet
    <3> HIDE DEF new
    <3>5. CountAfter(t, S) = (vectorCount + Cardinality(new)) .. (vectorCount + Cardinality(new))
      BY <1>1, <2>5, <3>3, <3>4 DEF Monus
    <3>6. QED
      BY <1>1, <2>1, <2>5, <3>5
  <2>8. QED
    BY <1>1, <2>6, <2>7
<1>4. ASSUME NEW s \in Storers, NEW i \in DirectIds, DirectStore(s, i)
      PROVE  vectorCount' = Cardinality(Indexed')
  <2>1. i \in Ids
    BY ConstantsAssumption
  <2>2. CASE /\ index' = [index EXCEPT ![i] = {s}]
             /\ vectorCount' = IF index[i] = {} THEN vectorCount + 1 ELSE vectorCount
    <3>1. Indexed' = Indexed \cup {i}
      BY <1>1, <2>1, <2>2 DEF Indexed
    <3>2. i \in Indexed <=> index[i] # {}
      BY <2>1 DEF Indexed
    <3>3. QED
      BY <1>1, <2>2, <3>1, <3>2, FS_AddElement
  <2>3. CASE /\ index' = [index EXCEPT ![i] = {}]
             /\ vectorCount' = IF index[i] = {} THEN vectorCount ELSE vectorCount - 1
    <3>1. Indexed' = Indexed \ {i}
      BY <1>1, <2>1, <2>3 DEF Indexed
    <3>2. i \in Indexed <=> index[i] # {}
      BY <2>1 DEF Indexed
    <3>3. QED
      BY <1>1, <2>3, <3>1, <3>2, FS_RemoveElement
  <2>4. QED
    BY <1>4, <2>2, <2>3 DEF DirectStore
<1>5. QED
  BY <1>2, <1>3, <1>4, IndexSteps

\* CountMatchesIndex: where nothing is removed, the header counts the indexed vectors,
\* also after writes that failed half-way.
THEOREM CountIsRight == Spec => []CountMatchesIndex
<1>1. Init => CountMatchesIndex
  <2> SUFFICES ASSUME Init PROVE vectorCount = Cardinality(Indexed)
    BY DEF CountMatchesIndex, Indexed
  <2>1. Indexed = {} /\ vectorCount = 0
    BY DEF Init, Indexed
  <2>2. QED
    BY <2>1, FS_EmptySet
<1>2. IInv /\ CountMatchesIndex /\ [Next]_vars => CountMatchesIndex'
  BY CountStep DEF IInv
<1>3. QED
  BY <1>1, <1>2, Invariant, PTL DEF Spec

\* Every version, also where transactions remove, names the transaction it is from.
Signed ==
    /\ \A p \in Procs, i \in Ids :
          writeSet[p][i] = Absent \/ (HasSnapshot(p) /\ writeSet[p][i].ver = id[p])
    /\ \A i \in Ids : \A k \in DOMAIN versionChains[i] :
          \E p \in Procs : HasSnapshot(p) /\ versionChains[i][k].ver = id[p]

\* t has put its version of i on the chain and not yet into the index.
Ahead(t, i) == pc[t] = "installing" /\ i \in Written(t) \ pending[t]

\* What the index should hold for an ID.
Latest(i) == GetLatestVersion(versionChains[i])
IndexedAs(v) == IF v = Absent \/ IsMarker(v) THEN {} ELSE {p \in Procs : id[p] = v.ver}

\* The index holds the newest version, but for those the committing transaction has
\* put on their chains.
Tracks ==
    \A i \in Ids \ DirectIds :
        /\ \A t \in Txs : Ahead(t, i) => Latest(i) = writeSet[t][i]
        /\ (\A t \in Txs : ~Ahead(t, i)) => index[i] = IndexedAs(Latest(i))

\* What a write set gets is signed by its owner.
LEMMA WritesSigned ==
    ASSUME TypeOK, Signed, NEW p \in Procs, Own(p), NEW i \in Ids
    PROVE  \/ writeSet'[p][i] \in {Absent, writeSet[p][i]}
           \/ HasSnapshot(p) /\ writeSet'[p][i].ver = id[p]
<1> USE DEF begunVars, txVars, HasSnapshot, HasID
<1>0. writeSet \in [Procs -> [Ids -> Versions]] /\ id \in [Procs -> Nat] /\ pc \in [Procs -> Stages]
  BY DEF TypeOK
<1>1. CASE AllocateID(p) \/ LoadSnapshot(p) \/ LoadLastCommitted(p) \/ CompareAndSwap(p) \/ Close(p)
  BY <1>1 DEF AllocateID, LoadSnapshot, LoadLastCommitted, CompareAndSwap, Close
<1>2. CASE Register(p)
  <2>1. NewVersion(id[p]).ver = id[p] /\ pc[p] = "snapped"
    BY <1>2 DEF NewVersion, Register
  <2>2. writeSet' = writeSet \/ writeSet'[p] = [j \in Ids |-> IF j \in pending[p] THEN NewVersion(id[p]) ELSE Absent]
    BY <1>0, <1>2 DEF Register
  <2>3. QED
    BY <2>1, <2>2
<1>3. CASE Abort(p)
  BY <1>0, <1>3 DEF Abort
<1>4. ASSUME ~Abort(p), WriteWAL(p) \/ \E j \in Ids : Install(p, j)
      PROVE  writeSet' = writeSet
  BY <1>4 DEF WriteWAL, Install
<1>5. ASSUME ~Abort(p), p \in Txs, Rollback(p) \/ Commit(p) \/ Validate(p) \/ UpdateIndex(p)
      PROVE  writeSet' = writeSet
  BY <1>5 DEF Rollback, Commit, Validate, UpdateIndex
<1>6. ASSUME NEW j \in Ids, Get(p, j) PROVE writeSet' = writeSet
  BY <1>6 DEF Get
<1>7. ASSUME NEW j \in Ids, Store(p, j)
      PROVE  HasSnapshot(p) /\ (j # i => writeSet'[p][i] = writeSet[p][i])
             /\ (j = i => writeSet'[p][i].ver = id[p])
  BY <1>0, <1>7 DEF Store, NewVersion
<1>8. ASSUME NEW j \in Ids, Remove(p, j)
      PROVE  HasSnapshot(p) /\ (j # i => writeSet'[p][i] = writeSet[p][i])
             /\ (j = i => writeSet'[p][i].ver = id[p])
  <2>1. HasSnapshot(p)
    BY <1>8 DEF Remove
  <2>2. CASE writeSet[p][j] # Absent /\ writeSet' = [writeSet EXCEPT ![p][j].deleted = id[p]]
    <3>1. j = i => writeSet'[p][i].ver = writeSet[p][i].ver
      BY <1>0, <2>2 DEF Versions
    <3>2. j # i => writeSet'[p][i] = writeSet[p][i]
      BY <1>0, <2>2
    <3>3. j = i => writeSet[p][i].ver = id[p]
      BY <2>2 DEF Signed
    <3>4. QED
      BY <2>1, <3>1, <3>2, <3>3
  <2>3. CASE writeSet' = [writeSet EXCEPT ![p][j] =
                 DeleteMarker(id[p], GetVisibleVersion(versionChains[j], snap[p]).created)]
    BY <1>0, <2>1, <2>3 DEF DeleteMarker
  <2>4. QED
    BY <1>8, <2>2, <2>3 DEF Remove
<1>9. CASE p \in Storers /\ \E j \in DirectIds : DirectStore(p, j)
  BY <1>9 DEF DirectStore
<1>10. QED
  BY <1>1, <1>2, <1>3, <1>4, <1>5, <1>6, <1>7, <1>8, <1>9, ConstantsAssumption DEF Own, System, Client

\* Signatures stay.
LEMMA SignedStep == TypeOK /\ Numbers /\ Writes /\ Signed /\ [Next]_vars => Signed'
<1> SUFFICES ASSUME TypeOK, Numbers, Writes, Signed, [Next]_vars PROVE Signed'
  OBVIOUS
<1>1. ASSUME NEW p \in Procs, NEW i \in Ids
      PROVE  writeSet'[p][i] = Absent \/ (HasSnapshot(p)' /\ writeSet'[p][i].ver = id'[p])
  <2>1. CASE writeSet'[p][i] \in {Absent, writeSet[p][i]}
    BY <2>1, SnapshotsKept DEF Signed
  <2>2. CASE HasSnapshot(p) /\ writeSet'[p][i].ver = id[p]
    BY <2>2, SnapshotsKept
  <2>3. CASE ~Own(p)
    BY <2>1, <2>3, OthersUntouched DEF Local
  <2>4. QED
    BY <2>1, <2>2, <2>3, WritesSigned
<1>2. ASSUME NEW i \in Ids, NEW k \in DOMAIN versionChains'[i]
      PROVE  \E p \in Procs : HasSnapshot(p)' /\ versionChains'[i][k].ver = id'[p]
  <2>0. versionChains[i] \in Seq(Versions)
    BY DEF TypeOK
  <2>1. SUFFICES \E p \in Procs : HasSnapshot(p) /\ versionChains'[i][k].ver = id[p]
    BY SnapshotsKept
  <2>2. CASE UNCHANGED versionChains
    BY <2>2 DEF Signed
  <2>3. ASSUME NEW p \in Procs, NEW j \in Ids, Install(p, j)
        PROVE  \E q \in Procs : HasSnapshot(q) /\ versionChains'[i][k].ver = id[q]
    <3>1. CASE i # j
      <4>1. versionChains'[i] = versionChains[i]
        BY <2>3, <3>1 DEF Install, Push, TypeOK
      <4>2. QED
        BY <4>1 DEF Signed
    <3>2. CASE i = j
      <4>1. versionChains'[i] = <<writeSet[p][i]>> \o versionChains[i]
        BY <2>3, <3>2 DEF Install, Push, TypeOK
      <4>2. HasSnapshot(p) /\ writeSet[p][i].ver = id[p]
        <5>1. pc[p] = "installing" /\ i \in pending[p]
          BY <2>3, <3>2 DEF Install
        <5>2. i \in Written(p)
          BY <5>1 DEF Writes
        <5>3. QED
          BY <5>2 DEF Signed, Written
      <4>3. CASE k = 1
        BY <2>0, <4>1, <4>2, <4>3
      <4>4. CASE k # 1
        <5>1. k - 1 \in DOMAIN versionChains[i] /\ versionChains'[i][k] = versionChains[i][k - 1]
          BY <2>0, <4>1, <4>4
        <5>2. QED
          BY <5>1 DEF Signed
      <4>5. QED
        BY <4>3, <4>4
    <3>3. QED
      BY <3>1, <3>2
  <2>4. CASE GarbageCollect
    <3>1. versionChains'[i] = GcVersionChain(versionChains[i], MinSnapshot)
      BY <2>4 DEF GarbageCollect
    <3>2. k \in DOMAIN versionChains[i] /\ versionChains'[i][k] = versionChains[i][k]
      BY <2>0, <3>1, GcKeepsPositions, MinSnapshotIsLow
    <3>3. QED
      BY <3>2 DEF Signed
  <2>5. QED
    BY <2>2, <2>3, <2>4, ChainSteps
<1>3. QED
  BY <1>1, <1>2 DEF Signed

\* What is installed is the newest version.
LEMMA InstalledHead ==
    ASSUME TypeOK, NEW p \in Procs, NEW i \in Ids, Install(p, i)
    PROVE  Latest(i)' = writeSet[p][i]
<1>1. versionChains[i] \in Seq(Versions) /\ writeSet[p][i] \in Versions
      /\ versionChains'[i] = <<writeSet[p][i]>> \o versionChains[i]
  BY DEF Install, Push, TypeOK
<1>2. versionChains'[i] # <<>> /\ Head(versionChains'[i]) = writeSet[p][i]
  BY <1>1
<1>3. QED
  BY <1>2 DEF Latest, GetLatestVersion

\* Where Nest.Store does not write, a chain gets a new head from the holder of the
\* commit lock, and from nobody else.
LEMMA HeadSteps ==
    ASSUME TypeOK, Writes, [Next]_vars, NEW i \in Ids \ DirectIds
    PROVE  Latest(i)' = Latest(i) \/ \E t \in Txs : Install(t, i) /\ Latest(i)' = writeSet[t][i]
<1>0. versionChains[i] \in Seq(Versions)
  BY DEF TypeOK
<1>1. ASSUME NEW p \in Procs, NEW j \in Ids, Install(p, j)
      PROVE  Latest(i)' = Latest(i) \/ \E t \in Txs : Install(t, i) /\ Latest(i)' = writeSet[t][i]
  <2>1. CASE j # i
    <3>1. versionChains'[i] = versionChains[i]
      BY <1>1, <2>1 DEF Install, Push, TypeOK
    <3>2. QED
      BY <3>1 DEF Latest
  <2>2. CASE j = i
    <3>1. pc[p] = "installing" /\ i \in pending[p]
      BY <1>1, <2>2 DEF Install
    <3>2. p \in Txs
      BY <3>1 DEF Writes, Procs
    <3>3. QED
      BY <1>1, <2>2, <3>2, InstalledHead
  <2>3. QED
    BY <2>1, <2>2
<1>2. CASE GarbageCollect
  <2>1. PICK m \in Nat : m = MinSnapshot
    BY MinSnapshotIsLow
  <2>2. versionChains'[i] = GcVersionChain(versionChains[i], m)
    BY <1>2, <2>1 DEF GarbageCollect
  <2>3. CASE versionChains'[i] = versionChains[i]
    BY <2>3 DEF Latest
  <2>4. ASSUME NEW n \in 1..Len(versionChains[i]), versionChains'[i] = SubSeq(versionChains[i], 1, n)
        PROVE  Latest(i)' = Latest(i)
    <3>1. versionChains[i] # <<>> /\ versionChains'[i] # <<>> /\ Head(versionChains'[i]) = Head(versionChains[i])
      BY <1>0, <2>4
    <3>2. QED
      BY <3>1 DEF Latest, GetLatestVersion
  <2>5. QED
    BY <1>0, <2>2, <2>3, <2>4, GcIsPrefix
<1>3. CASE UNCHANGED versionChains
  BY <1>3 DEF Latest
<1>4. QED
  BY <1>1, <1>2, <1>3, ChainSteps

\* Somebody comes to be ahead by installing, and keeps the write set until then.
LEMMA AheadSteps ==
    ASSUME TypeOK, [Next]_vars, NEW t \in Txs, NEW i \in Ids, Ahead(t, i)'
    PROVE  (Ahead(t, i) \/ Install(t, i)) /\ writeSet'[t] = writeSet[t]
<1>1. pc'[t] = "installing" /\ i \in Written(t)' /\ i \notin pending'[t]
  BY DEF Ahead
<1>2. writeSet'[t] = writeSet[t] => Written(t)' = Written(t)
  BY DEF Written
<1>3. QED
  BY <1>1, <1>2, CommitEntry DEF Ahead, CommitStages

\* Who has installed a version is ahead.
LEMMA InstallPutsAhead ==
    ASSUME Faults \cap {"version", "index"} = {}, TypeOK, Writes,
           NEW t \in Txs, NEW i \in Ids, Install(t, i)
    PROVE  Ahead(t, i)'
<1>0. t \in Procs /\ t \notin Storers
  BY ConstantsAssumption DEF Procs
<1>1. pc[t] = "installing" /\ i \in Written(t)
  BY <1>0 DEF Install, Writes
<1>2. pending' = [pending EXCEPT ![t] = @ \ {i}] /\ UNCHANGED <<pc, writeSet>>
  BY <1>0 DEF Install, txVars
<1>3. pending'[t] = pending[t] \ {i}
  BY <1>0, <1>2 DEF TypeOK
<1>4. QED
  BY <1>1, <1>2, <1>3 DEF Ahead, Written

\* Nobody else installs while somebody is ahead.
LEMMA AheadAlone ==
    ASSUME CommitExclusion, NEW t \in Txs, NEW i \in Ids, Ahead(t, i), NEW u \in Txs
    PROVE  ~Install(u, i) /\ (UpdateIndex(u) => u = t)
<1>1. pc[u] = "installing" => u = t
  BY DEF CommitExclusion, CommitStages, Ahead
<1>2. QED
  BY <1>1 DEF Install, UpdateIndex, Ahead

\* Where neither the version nor the index write fails, being ahead ends with the
\* update of the index.
LEMMA AheadEnds ==
    ASSUME Faults \cap {"version", "index"} = {}, TypeOK, [Next]_vars,
           NEW t \in Txs, NEW i \in Ids, Ahead(t, i), ~Ahead(t, i)'
    PROVE  UpdateIndex(t) /\ index' = IndexAfter(t, Written(t))
<1> USE DEF begunVars, txVars, indexVars, Goto, Ahead, Written
<1>0. t \in Procs /\ t \notin Storers /\ pc[t] = "installing"
  BY ConstantsAssumption DEF Procs
<1>1. Own(t)
  <2>1. SUFFICES ASSUME ~Own(t) PROVE FALSE
    OBVIOUS
  <2>2. UNCHANGED Local(t)
    BY <1>0, <2>1, OthersUntouched
  <2>3. QED
    BY <2>2 DEF Local
<1>2. ASSUME NEW j \in Ids, Install(t, j) PROVE FALSE
  <2>1. pending' = [pending EXCEPT ![t] = @ \ {j}] /\ UNCHANGED <<pc, writeSet>>
    BY <1>0, <1>2 DEF Install
  <2>2. pending'[t] = pending[t] \ {j}
    BY <1>0, <2>1 DEF TypeOK
  <2>3. QED
    BY <2>1, <2>2
<1>3. ~AllocateID(t) /\ ~LoadSnapshot(t) /\ ~Register(t) /\ ~WriteWAL(t)
      /\ ~LoadLastCommitted(t) /\ ~CompareAndSwap(t) /\ ~Close(t)
  BY <1>0 DEF AllocateID, LoadSnapshot, Register, WriteWAL, LoadLastCommitted, CompareAndSwap, Close
<1>4. ~Client(t) /\ ~Validate(t)
  BY <1>0 DEF Client, Get, Store, Remove, Rollback, Commit, Validate
<1>5. UpdateIndex(t)
  BY <1>0, <1>1, <1>2, <1>3, <1>4 DEF Own, System
<1>6. QED
  BY <1>5 DEF UpdateIndex

\* What an ID should be indexed as does not change while its newest version stays.
LEMMA IndexedAsKept ==
    ASSUME TypeOK, Numbers, Numbers', Signed, [Next]_vars, NEW i \in Ids, Latest(i)' = Latest(i)
    PROVE  IndexedAs(Latest(i))' = IndexedAs(Latest(i))
<1>1. CASE Latest(i) = Absent
  BY <1>1 DEF IndexedAs
<1>2. CASE Latest(i) # Absent
  <2>1. versionChains[i] # <<>> /\ Latest(i) = versionChains[i][1] /\ 1 \in DOMAIN versionChains[i]
    BY <1>2 DEF Latest, GetLatestVersion, TypeOK
  <2>2. PICK q \in Procs : HasSnapshot(q) /\ Latest(i).ver = id[q]
    BY <2>1 DEF Signed
  <2>3. id'[q] = id[q] /\ id[q] # 0
    BY <2>2, SnapshotsKept DEF Numbers, HasSnapshot
  <2>4. \A p \in Procs : (id[p] = id[q] <=> p = q) /\ (id'[p] = id[q] <=> p = q)
    BY <2>3 DEF Numbers
  <2>5. {p \in Procs : id[p] = id[q]} = {p \in Procs : id'[p] = id[q]}
    BY <2>4
  <2>6. QED
    BY <2>2, <2>5 DEF IndexedAs
<1>3. QED
  BY <1>1, <1>2

\* The update of the index catches up with the chains.
LEMMA CaughtUp ==
    ASSUME TypeOK, Numbers, Signed, NEW t \in Txs, NEW i \in Ids, Ahead(t, i),
           Latest(i) = writeSet[t][i], UpdateIndex(t), index' = IndexAfter(t, Written(t))
    PROVE  index'[i] = IndexedAs(Latest(i))'
<1>0. t \in Procs
  BY DEF Procs
<1>1. UNCHANGED <<id, versionChains>>
  BY DEF UpdateIndex, begunVars
<1>2. i \in Written(t)
  BY DEF Ahead
<1>3. index'[i] = IF IsMarker(writeSet[t][i]) THEN {} ELSE {t}
  BY <1>2 DEF IndexAfter
<1>4. Latest(i)' = Latest(i)
  BY <1>1 DEF Latest
<1>5. writeSet[t][i] # Absent /\ writeSet[t][i].ver = id[t] /\ HasSnapshot(t)
  BY <1>0, <1>2 DEF Written, Signed
<1>6. {p \in Procs : id[p] = id[t]} = {t}
  <2>1. id[t] # 0
    BY <1>0, <1>5 DEF Numbers, HasSnapshot
  <2>2. \A p \in Procs : id[p] = id[t] <=> p = t
    BY <1>0, <2>1 DEF Numbers
  <2>3. QED
    BY <1>0, <2>2
<1>7. QED
  BY <1>1, <1>3, <1>4, <1>5, <1>6 DEF IndexedAs

\* The index of an ID changes only when somebody who was ahead catches up.
LEMMA IndexKept ==
    ASSUME TypeOK, Writes, [Next]_vars, NEW i \in Ids \ DirectIds,
           \A t \in Txs : ~Ahead(t, i)
    PROVE  index'[i] = index[i]
<1>1. CASE UNCHANGED indexVars
  BY <1>1 DEF indexVars
<1>2. ASSUME NEW t \in Txs, UpdateIndex(t) PROVE index'[i] = index[i]
  <2>1. PICK S \in SUBSET Written(t) : index' = IndexAfter(t, S)
    BY <1>2 DEF UpdateIndex
  <2>2. i \notin Written(t)
    BY <1>2 DEF Ahead, UpdateIndex
  <2>3. QED
    BY <2>1, <2>2 DEF IndexAfter
<1>3. ASSUME NEW s \in Storers, NEW j \in DirectIds, DirectStore(s, j) PROVE index'[i] = index[i]
  BY <1>3 DEF DirectStore, TypeOK
<1>4. QED
  BY <1>1, <1>2, <1>3, IndexSteps

\* The index stays behind by what the committing transaction has installed, no more.
LEMMA TracksStep ==
    Faults \cap {"version", "index"} = {} =>
        (TypeOK /\ Numbers /\ Writes /\ Signed /\ CommitExclusion /\ Tracks /\ [Next]_vars => Tracks')
<1> SUFFICES ASSUME Faults \cap {"version", "index"} = {}, TypeOK, Numbers, Writes, Signed,
                    CommitExclusion, Tracks, [Next]_vars, NEW i \in Ids \ DirectIds
             PROVE  /\ \A t \in Txs : Ahead(t, i)' => Latest(i)' = writeSet'[t][i]
                    /\ (\A t \in Txs : ~Ahead(t, i)') => index'[i] = IndexedAs(Latest(i))'
  BY DEF Tracks
<1>0. Txs \subseteq Procs
  BY DEF Procs
<1>1. ASSUME NEW t \in Txs, Ahead(t, i)' PROVE Latest(i)' = writeSet'[t][i]
  <2>1. CASE Install(t, i)
    BY <1>0, <1>1, <2>1, AheadSteps, InstalledHead
  <2>2. CASE Ahead(t, i)
    <3>1. Latest(i) = writeSet[t][i] /\ \A u \in Txs : ~Install(u, i)
      BY <2>2, AheadAlone DEF Tracks
    <3>2. Latest(i)' = Latest(i)
      BY <3>1, HeadSteps
    <3>3. QED
      BY <1>1, <3>1, <3>2, AheadSteps
  <2>3. QED
    BY <1>1, <2>1, <2>2, AheadSteps
<1>2. ASSUME \A t \in Txs : ~Ahead(t, i)' PROVE index'[i] = IndexedAs(Latest(i))'
  <2>1. ASSUME NEW t \in Txs, Ahead(t, i) PROVE index'[i] = IndexedAs(Latest(i))'
    <3>1. UpdateIndex(t) /\ index' = IndexAfter(t, Written(t))
      BY <1>2, <2>1, AheadEnds
    <3>2. Latest(i) = writeSet[t][i]
      BY <2>1 DEF Tracks
    <3>3. QED
      BY <2>1, <3>1, <3>2, CaughtUp
  <2>2. CASE \A t \in Txs : ~Ahead(t, i)
    <3>1. Latest(i)' = Latest(i)
      <4>1. SUFFICES ASSUME NEW t \in Txs, Install(t, i), Latest(i)' = writeSet[t][i]
                     PROVE  FALSE
        BY HeadSteps
      <4>2. Ahead(t, i)'
        BY <4>1, InstallPutsAhead
      <4>3. QED
        BY <1>2, <4>2
    <3>2. index'[i] = index[i] /\ index[i] = IndexedAs(Latest(i))
      BY <2>2, IndexKept DEF Tracks
    <3>3. Numbers'
      BY NumbersStep
    <3>4. QED
      BY <3>1, <3>2, <3>3, IndexedAsKept
  <2>3. QED
    BY <2>1, <2>2
<1>3. QED
  BY <1>1, <1>2

\* IndexFollowsChains: where neither the write of a version nor that of the index
\* fails, the index holds the newest version of every ID that transactions write.
\* (Where one fails, the program leaves the two apart.)
THEOREM IndexIsNewest ==
    ASSUME Faults \cap {"version", "index"} = {}
    PROVE  Spec => []IndexFollowsChains
<1>1. Init => Signed /\ Tracks
  <2> SUFFICES ASSUME Init PROVE Signed /\ Tracks
    OBVIOUS
  <2>1. Signed
    BY DEF Init, Signed
  <2>2. \A i \in Ids : Latest(i) = Absent /\ index[i] = {}
    BY DEF Init, Latest, GetLatestVersion
  <2>3. \A t \in Txs, i \in Ids : ~Ahead(t, i)
    BY DEF Init, Ahead, Procs
  <2>4. QED
    BY <2>1, <2>2, <2>3 DEF Tracks, IndexedAs
<1>2. IInv /\ IInvFCW /\ Signed /\ Tracks /\ [Next]_vars => Signed' /\ Tracks'
  BY SignedStep, TracksStep DEF IInv, IInvFCW
<1>3. IInvFCW /\ Tracks => IndexFollowsChains
  <2> SUFFICES ASSUME IInvFCW, Tracks, commitLock = {}, NEW i \in Ids \ DirectIds
               PROVE  index[i] = IndexedAs(Latest(i))
    BY DEF IndexFollowsChains, IndexedAs, Latest
  <2>1. \A t \in Txs : ~Ahead(t, i)
    BY DEF IInvFCW, CommitExclusion, CommitStages, Ahead
  <2>2. QED
    BY <2>1 DEF Tracks
<1>4. QED
  BY <1>1, <1>2, <1>3, Invariant, OrderInvariant, PTL DEF Spec

=============================================================================
