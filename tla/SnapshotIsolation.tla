-------------------------- MODULE SnapshotIsolation --------------------------
(***************************************************************************)
(* What a transaction is promised, without versions, IDs or locks: it reads *)
(* the state that was committed when it began, and it commits only if       *)
(* nobody has committed a write of what it read or writes since then.       *)
(*                                                                         *)
(* Two exceptions are part of the promise, because the store makes them.    *)
(* A transaction whose snapshot overlaps an unfinished commit is loose: its *)
(* reads and its commit are unconstrained.  And until a new transaction is  *)
(* registered, an ID whose value has been replaced, or is being replaced,   *)
(* may be lost from its snapshot; the ID is then absent, never wrong.       *)
(***************************************************************************)
EXTENDS Naturals

CONSTANTS Txs, Ids

VARIABLES
    current,   \* the transaction that wrote an ID last, as a set: empty if none
    status,    \* where each transaction stands
    base,      \* the snapshot of an open transaction
    seen,      \* what it has read of the snapshot
    writes     \* the IDs a committing transaction writes

vars == <<current, status, base, seen, writes>>

Nothing == [i \in Ids |-> {}]

Init ==
    /\ current = Nothing
    /\ status = [t \in Txs |-> "idle"]
    /\ base = [t \in Txs |-> Nothing]
    /\ seen = [t \in Txs |-> Nothing]
    /\ writes = [t \in Txs |-> {}]

\* The snapshot is the committed state.
Begin(t) ==
    /\ status[t] = "idle"
    /\ status' = [status EXCEPT ![t] = "starting"]
    /\ base' = [base EXCEPT ![t] = current]
    /\ UNCHANGED <<current, seen, writes>>

BeginLoosely(t) ==
    /\ status[t] = "idle"
    /\ status' = [status EXCEPT ![t] = "loose"]
    /\ UNCHANGED <<current, base, seen, writes>>

Replaced(t, i) ==
    \/ base[t][i] # current[i]
    \/ \E q \in Txs : status[q] = "committing" /\ i \in writes[q]

\* A collection before the transactions it concerns are registered.
Lose ==
    /\ UNCHANGED <<status, current, seen, writes>>
    /\ base' \in [Txs -> [Ids -> SUBSET Txs]]
    /\ \A t \in Txs, i \in Ids :
          base'[t][i] # base[t][i] =>
              base'[t][i] = {} /\ status[t] = "starting" /\ Replaced(t, i)

Register(t) ==
    /\ status[t] = "starting"
    /\ status' = [status EXCEPT ![t] = "open"]
    /\ UNCHANGED <<current, base, seen, writes>>

\* A read that finds the ID is remembered.
Read(t, i) ==
    /\ status[t] = "open"
    /\ base[t][i] # {}
    /\ seen' = [seen EXCEPT ![t][i] = base[t][i]]
    /\ UNCHANGED <<current, status, base, writes>>

\* One transaction commits at a time.  What it read and what it writes is as its
\* snapshot has it.
Prepare(t, W) ==
    /\ status[t] \in {"open", "loose"}
    /\ status' = [status EXCEPT ![t] = "committing"]
    /\ \A q \in Txs : status[q] # "committing"
    /\ status[t] = "open" =>
          /\ \A i \in W : current[i] = base[t][i]
          /\ \A i \in Ids : seen[t][i] # {} => current[i] = seen[t][i]
    /\ writes' = [writes EXCEPT ![t] = W]
    /\ base' = [base EXCEPT ![t] = Nothing]
    /\ seen' = [seen EXCEPT ![t] = Nothing]
    /\ UNCHANGED current

\* All its writes become the committed state at once.
Commit(t) ==
    /\ status[t] = "committing"
    /\ status' = [status EXCEPT ![t] = "committed"]
    /\ current' = [i \in Ids |-> IF i \in writes[t] THEN {t} ELSE current[i]]
    /\ writes' = [writes EXCEPT ![t] = {}]
    /\ UNCHANGED <<base, seen>>

Abort(t) ==
    /\ status[t] \in {"open", "loose"}
    /\ status' = [status EXCEPT ![t] = "aborted"]
    /\ base' = [base EXCEPT ![t] = Nothing]
    /\ seen' = [seen EXCEPT ![t] = Nothing]
    /\ UNCHANGED <<current, writes>>

Next ==
    \/ Lose
    \/ \E t \in Txs :
          \/ Begin(t) \/ BeginLoosely(t) \/ Register(t)
          \/ \E i \in Ids : Read(t, i)
          \/ \E W \in SUBSET Ids : Prepare(t, W)
          \/ Commit(t) \/ Abort(t)

Spec == Init /\ [][Next]_vars
=============================================================================
