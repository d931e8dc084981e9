---------------------------- MODULE MCCompaction ----------------------------
(* Instances of Compaction and Packing for TLC. *)
EXTENDS Compaction, Packing

CONSTANTS x, y

XY == {x, y}

Symmetric == Permutations(Ids)

\* Packing is evaluated for the lengths at its boundaries.
ASSUME PackingHolds ==
    \A d \in {1, 128, 384, 493, 494, 768, 987, 988, 1536}, n \in 1..30 :
        /\ \A i \in 0..(n - 1) : \E p \in 0..(NumPages(n, d) - 1) : OnPage(i, n, p, d)
        /\ (\A m \in 1..VectorsPerPage(d) : PageFits(m, d)) <=> d <= LongestPacked
=============================================================================
