----------------------------- MODULE MCQueryCache -----------------------------
(* An instance of QueryCache for TLC. *)
EXTENDS QueryCache, TLC

CONSTANTS f1, f2, w1, w2, k1, k2, k3, e1, e2, e3

TwoFinders == {f1, f2}
TwoWriters == {w1, w2}
ThreeKeys == {k1, k2, k3}
ThreeElements == {e1, e2, e3}

\* Elements are chosen by CHOOSE and so are not interchangeable.
Symmetric == Permutations(TwoFinders) \cup Permutations(TwoWriters) \cup Permutations(ThreeKeys)
=============================================================================
