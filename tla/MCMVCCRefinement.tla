-------------------------- MODULE MCMVCCRefinement --------------------------
(* Instances of MVCCRefinement for TLC. *)
EXTENDS MVCCRefinement, TLC

CONSTANTS t1, t2, t3, x, y

ThreeTxs == {t1, t2, t3}
None == {}
XY == {x, y}

\* Handles are interchangeable, and so are IDs nobody stores directly or removes.
Symmetric == Permutations(Txs) \cup Permutations(Ids)
=============================================================================
