-------------------------------- MODULE MCHNSW --------------------------------
(* An instance of HNSW for TLC: IDs are points on a line. *)
EXTENDS HNSW

\* No two points are equally far from a third.
Points == {0, 1, 4, 9}

OnALine == [q \in Ids |-> [i \in Ids |-> IF q > i THEN q - i ELSE i - q]]
=============================================================================
