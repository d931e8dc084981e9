---------------------------- MODULE MCDurability ----------------------------
(* Instances of Durability for TLC. *)
EXTENDS Durability

CONSTANTS x, y, u, v, huge

None == {}
X == {x}
XY == {x, y}
U == {u}
UVHuge == {u, v, huge}
Huge == {huge}

Inserts == {(i :> w) : i \in Ids, w \in Vectors}
Removals == {(i :> Empty) : i \in Ids}
Pairs == {(x :> u) @@ (y :> u)}
Given == {TRUE}
GivenOrNot == BOOLEAN

PairsAndHuge == Pairs \cup {(i :> huge) : i \in Ids}
InsertsAndRemovals == Inserts \cup Removals

\* IDs are interchangeable where every ID has the same role.
Symmetric == Permutations(Ids)
=============================================================================
