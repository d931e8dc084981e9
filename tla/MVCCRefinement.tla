--------------------------- MODULE MVCCRefinement ---------------------------
(***************************************************************************)
(* MVCC implements SnapshotIsolation on the IDs that only transactions      *)
(* write and never remove.  A history variable keeps the committed state:   *)
(* a commit takes place when CommitTx has raised lastCommittedTx.           *)
(***************************************************************************)
EXTENDS MVCC

\* A commit that fails later than its log leaves some of its versions in their
\* chains and implements nothing of the kind.
ASSUME FaultsAssumption == Faults \subseteq {"wal"}

VARIABLE committed   \* history: who wrote an ID last, among the commits that took place

historyVars == <<vars, committed>>

HistoryInit ==
    /\ Init
    /\ committed = [i \in PlainIds |-> {}]

TakesPlace(t) == pc[t] \in {"publishing", "swapping"} /\ pc'[t] = "closing"

HistoryNext ==
    /\ Next
    /\ committed' = [i \in PlainIds |->
          IF \E t \in Txs : TakesPlace(t) /\ i \in Written(t)
            THEN {t \in Txs : TakesPlace(t) /\ i \in Written(t)}
            ELSE committed[i]]

HistorySpec == HistoryInit /\ [][HistoryNext]_historyVars

-----------------------------------------------------------------------------
(* The refinement mapping. *)

\* Where a handle stands.  A quiet one is starting until it is registered.
StatusOf(t) ==
    CASE pc[t] \in {"begin", "numbered"} -> "idle"
      [] pc[t] \in {"installing", "publishing", "swapping"} -> "committing"
      [] pc[t] \in {"closing", "done"} -> "committed"
      [] pc[t] = "aborted" -> "aborted"
      [] pc[t] \in {"snapped", "active", "committing", "validated"} /\ ~Quiet(t) -> "loose"
      [] pc[t] = "snapped" /\ Quiet(t) -> "starting"
      [] OTHER -> "open"

Writer(n) == {t \in Txs : n # 0 /\ id[t] = n}

\* The writers of what a handle finds in the chains, and of what it has read.
BaseOf(t) ==
    [i \in PlainIds |->
        IF StatusOf(t) \in {"starting", "open"} THEN Writer(View(t, i).ver) ELSE {}]
SeenOf(t) ==
    [i \in PlainIds |-> IF StatusOf(t) = "open" THEN Writer(readSet[t][i]) ELSE {}]
WritesOf(t) ==
    IF StatusOf(t) = "committing" THEN Written(t) \cap PlainIds ELSE {}

Isolation == INSTANCE SnapshotIsolation WITH
    Ids <- PlainIds,
    current <- committed,
    status <- [t \in Txs |-> StatusOf(t)],
    base <- [t \in Txs |-> BaseOf(t)],
    seen <- [t \in Txs |-> SeenOf(t)],
    writes <- [t \in Txs |-> WritesOf(t)]

\* Every behaviour of the chains, the three steps of BeginTx, the validation and the
\* publication loop is one of atomic transactions on their snapshots.
ImplementsIsolation == Isolation!Spec
=============================================================================
