------------------------------- MODULE MCMVCC -------------------------------
(* Instances of MVCC for TLC. *)
EXTENDS MVCC, TLC

CONSTANTS t1, t2, s1, x, y

TwoTxs == {t1, t2}
OneStorer == {s1}
None == {}
X == {x}
Y == {y}
XY == {x, y}

\* Handles and calls of one kind are interchangeable.
Symmetric == Permutations(Txs) \cup Permutations(Storers)
=============================================================================
