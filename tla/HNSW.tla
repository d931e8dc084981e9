--------------------------------- MODULE HNSW ---------------------------------
(***************************************************************************)
(* The in-memory index: HSNWIndex (index.go) and the search and insertion   *)
(* of its layered graph (hnsw.go).                                         *)
(*                                                                         *)
(* Every operation runs under the index's own lock, so an operation is one  *)
(* step.  An ID stands for its vector: only distances count, and no two     *)
(* vectors are equally far from a third, so the order in which the heaps    *)
(* break ties does not matter.  An update is a Remove and an Add.           *)
(***************************************************************************)
EXTENDS Integers, Sequences, FiniteSets, SequencesExt

CONSTANTS
    Ids,          \* vector IDs; queries are taken from them too
    Distance,     \* the distance between two of them
    M,            \* links a node keeps on an upper layer; twice as many on layer 0
    EfConstruct,  \* how many candidates a search keeps
    TopLevel      \* bound: the highest level a node is given, 16 in the code

Layers == 0..TopLevel

ASSUME ConstantsAssumption ==
    /\ IsFiniteSet(Ids)
    /\ Distance \in [Ids -> [Ids -> Nat]]
    /\ \A q, i, j \in Ids : i # j => Distance[q][i] # Distance[q][j]
    /\ M \in Nat \ {0} /\ EfConstruct \in Nat \ {0} /\ TopLevel \in Nat

VARIABLES
    level,       \* HSNWNode.Level, -1 for an ID that is not stored
    neighbors,   \* HSNWNode.Neighbors, layer by layer
    entryPoint,  \* the entry point, or nobody
    maxLevel,    \* HSNWIndex.maxLevel
    peak         \* history: the most nodes there have been since the index was last empty

vars == <<level, neighbors, entryPoint, maxLevel, peak>>

Nodes == {i \in Ids : level[i] >= 0}

Larger(a, b) == IF a > b THEN a ELSE b
FirstOf(s, n) == SubSeq(s, 1, IF n < Len(s) THEN n ELSE Len(s))

-----------------------------------------------------------------------------
(* searchLayer. *)

Nearest(q, S) == CHOOSE i \in S : \A j \in S : Distance[q][i] <= Distance[q][j]
Farthest(q, S) == CHOOSE i \in S : \A j \in S : Distance[q][i] >= Distance[q][j]
Rank(q, S, i) == Cardinality({j \in S : Distance[q][j] < Distance[q][i]})
Best(q, S, n) == {i \in S : Rank(q, S, i) < n}
Sorted(q, S) == [k \in 1..Cardinality(S) |-> CHOOSE i \in S : Rank(q, S, i) = k - 1]

\* A node found joins the results while there is room, or if it beats the worst.
Wanted(q, results, ef, n) ==
    \/ Cardinality(results) < ef
    \/ Distance[q][n] < Distance[q][Farthest(q, results)]

\* Mutant of Accept: the node is a result, its own neighbours are not looked at.
AcceptAsResult(s, q, ef, n) == [s EXCEPT !.results = Best(q, @ \cup {n}, ef)]
Accept(s, q, ef, n) ==
    [s EXCEPT !.candidates = @ \cup {n}, !.results = Best(q, @ \cup {n}, ef)]

\* A neighbour is looked at once; what is not stored is passed over.
Look(q, s, ef, n) ==
    LET seen == [s EXCEPT !.visited = @ \cup {n}]
    IN  IF n \in s.visited \/ n \notin Nodes \/ ~Wanted(q, s.results, ef, n) THEN seen
        ELSE Accept(seen, q, ef, n)

\* The state of the search after each of a node's neighbours.
Looks(q, s, ef, list) ==
    LET After[k \in 0..Len(list)] ==
            IF k = 0 THEN s ELSE Look(q, After[k - 1], ef, list[k])
    IN  After

Expand(q, s, ef, list) == Looks(q, s, ef, list)[Len(list)]

\* One turn of the loop takes the nearest candidate.  The search is over when there is
\* none, or when it is over a tenth farther than the worst of a full set of results; it
\* then stays as it is.
Turn(q, s, ef, layer) ==
    LET this == Nearest(q, s.candidates)
        worst == Distance[q][Farthest(q, s.results)]
        full == Cardinality(s.results) >= ef
        rest == [s EXCEPT !.candidates = @ \ {this}]
    IN  IF s.candidates = {} \/ (full /\ 10 * Distance[q][this] > 11 * worst) THEN s
        ELSE IF full /\ Distance[q][this] > worst THEN rest
        ELSE Expand(q, rest, ef, neighbors[this][layer])

\* The state of the search after each turn: the visit budget allows 3 * ef.
Turns(q, entries, ef, layer) ==
    LET After[k \in 0..(3 * ef)] ==
            IF k = 0 THEN [visited |-> entries, candidates |-> entries,
                           results |-> Best(q, entries, ef)]
            ELSE Turn(q, After[k - 1], ef, layer)
    IN  After

SearchLayer(q, entries, ef, layer) == Turns(q, entries, ef, layer)[3 * ef].results

\* The results of the layers from the top down, each search starting from those of
\* the layer above; ef[l] is how many layer l keeps.
Descent(q, ef) ==
    LET Found[l \in 0..(TopLevel + 1)] ==
            IF l > TopLevel THEN entryPoint ELSE SearchLayer(q, Found[l + 1], ef[l], l)
    IN  Found

Search(q, k) ==
    IF entryPoint = {} THEN <<>>
    ELSE FirstOf(Sorted(q, Descent(q, [l \in Layers |-> IF l = 0 THEN Larger(EfConstruct, k)
                                                        ELSE 1])[0]), k)

-----------------------------------------------------------------------------
Init ==
    /\ level = [i \in Ids |-> -1]
    /\ neighbors = [i \in Ids |-> [l \in Layers |-> <<>>]]
    /\ entryPoint = {}
    /\ maxLevel = 0
    /\ peak = 0

\* Mutant of MaxConn: layer 0 keeps no more links than the others.
MaxConnSame(l) == M
MaxConn(l) == IF l = 0 THEN 2 * M ELSE M

\* insertNode's links of a new node i of level lev: the nearest found on each layer.
Chosen(i, lev) ==
    LET found == Descent(i, [l \in Layers |-> IF l > lev THEN 1 ELSE EfConstruct])
    IN  [l \in Layers |-> IF l > lev \/ entryPoint = {} THEN <<>>
                          ELSE FirstOf(Sorted(i, found[l]), MaxConn(l))]

\* The link back; a list that grows too long keeps its nearest stored nodes.
LinkBack(n, i, l) ==
    LET longer == Append(neighbors[n][l], i)
    IN  IF Len(longer) <= MaxConn(l) THEN longer
        ELSE FirstOf(Sorted(n, ToSet(longer) \cap (Nodes \cup {i})), MaxConn(l))

\* Mutant of NewTop: the entry point moves, the level does not.
NewTopKeepingLevel(i, lev) ==
    /\ entryPoint' = IF entryPoint = {} \/ lev > maxLevel THEN {i} ELSE entryPoint
    /\ maxLevel' = IF entryPoint = {} THEN lev ELSE maxLevel
NewTop(i, lev) ==
    IF entryPoint = {} \/ lev > maxLevel
    THEN entryPoint' = {i} /\ maxLevel' = lev
    ELSE UNCHANGED <<entryPoint, maxLevel>>

Add(i, lev) ==
    /\ i \notin Nodes
    /\ level' = [level EXCEPT ![i] = lev]
    /\ LET chosen == Chosen(i, lev) IN
       neighbors' = [n \in Ids |-> [l \in Layers |->
           IF n = i THEN chosen[l]
           ELSE IF l <= level[n] /\ Contains(chosen[l], n) THEN LinkBack(n, i, l)
           ELSE neighbors[n][l]]]
    /\ NewTop(i, lev)
    /\ peak' = Larger(peak, Cardinality(Nodes) + 1)

-----------------------------------------------------------------------------
(* Remove, OptimizeIndex and Clear. *)

\* What a list has of S, in its order.
Only(list, S) ==
    LET From[k \in 0..Len(list)] ==
            IF k = 0 THEN <<>>
            ELSE IF list[k] \in S THEN Append(From[k - 1], list[k])
            ELSE From[k - 1]
    IN  From[Len(list)]

\* Mutant of Unlinked: only the nodes the removed one links to forget it.
UnlinkedByNeighbors(n, i, l) ==
    IF Contains(neighbors[i][l], n) THEN Only(neighbors[n][l], Ids \ {i}) ELSE neighbors[n][l]
Unlinked(n, i, l) == Only(neighbors[n][l], Ids \ {i})

\* A node of layer l takes x into its list, unless there are 2M links in it, on any layer.
Relinked(list, n, x, l) ==
    IF x = n \/ x \notin Nodes \/ l > level[x] \/ Contains(list, x) \/ Len(list) >= 2 * M
    THEN list
    ELSE Append(list, x)

\* reconnectNeighbors: the neighbours of the removed node are linked with each other,
\* in their order, while they have room.
Reconnected(n, i, l) ==
    LET others == neighbors[i][l]
        After[k \in 0..Len(others)] ==
            IF k = 0 THEN Unlinked(n, i, l) ELSE Relinked(After[k - 1], n, others[k], l)
    IN  IF Contains(others, n) /\ l <= level[n] THEN After[Len(others)] ELSE Unlinked(n, i, l)

\* selectNewEntryPoint: a node of the highest level, in the map's order.
Highest(S) == {{n} : n \in {m \in S : \A o \in S : level[o] <= level[m]}}

LevelOf(entry) == IF entry = {} THEN 0 ELSE level[CHOOSE n \in entry : TRUE]

RemoveNode(i) ==
    /\ i \in Nodes
    /\ level' = [level EXCEPT ![i] = -1]
    /\ neighbors' = [n \in Ids |-> [l \in Layers |->
           IF n = i THEN <<>> ELSE Reconnected(n, i, l)]]
    /\ IF i \in entryPoint
         THEN /\ entryPoint' \in IF Nodes = {i} THEN {{}} ELSE Highest(Nodes \ {i})
              /\ maxLevel' = LevelOf(entryPoint')
         ELSE UNCHANGED <<entryPoint, maxLevel>>
    /\ peak' = IF Nodes = {i} THEN 0 ELSE peak

OptimizeIndex ==
    /\ Nodes # {}
    /\ entryPoint' \in Highest(Nodes)
    /\ maxLevel' = LevelOf(entryPoint')
    /\ neighbors' = [n \in Ids |-> [l \in Layers |-> Only(neighbors[n][l], Nodes)]]
    /\ UNCHANGED <<level, peak>>

Clear ==
    /\ level' = [i \in Ids |-> -1]
    /\ neighbors' = [i \in Ids |-> [l \in Layers |-> <<>>]]
    /\ entryPoint' = {} /\ maxLevel' = 0 /\ peak' = 0

Next ==
    \/ \E i \in Ids, lev \in Layers : Add(i, lev)
    \/ \E i \in Ids : RemoveNode(i)
    \/ OptimizeIndex \/ Clear

Spec == Init /\ [][Next]_vars

-----------------------------------------------------------------------------
(* Properties. *)

\* docs/GRAPH_TOPOLOGY.md:70 "Entry Point Invariants": there is an entry point exactly
\* when there are nodes, it is stored, no node is higher, and its level is maxLevel,
\* whichever node Remove or OptimizeIndex picked (a search starts there).
EntryIsTop ==
    /\ (entryPoint = {}) = (Nodes = {})
    /\ entryPoint \subseteq Nodes
    /\ \A n \in Nodes : level[n] <= maxLevel
    /\ maxLevel = LevelOf(entryPoint)

\* docs/GRAPH_TOPOLOGY.md:65 "No Dangling References", although links may go one way:
\* every link leads to another stored node, no list names a node twice, and none is
\* longer than 2M.
LinksSound ==
    \A n \in Ids, l \in Layers :
        /\ ToSet(neighbors[n][l]) \subseteq Nodes \ {n}
        /\ IsInjective(neighbors[n][l])
        /\ Len(neighbors[n][l]) <= 2 * M
        /\ l > level[n] => neighbors[n][l] = <<>>

\* The nodes a walk on layer 0 reaches from S: no set that has S and all it links to
\* is without them.
ClosedOnLayer0(R) == \A n \in R : ToSet(neighbors[n][0]) \subseteq R
Reach(S) == {i \in Ids : \A R \in SUBSET Ids : S \subseteq R /\ ClosedOnLayer0(R) => i \in R}

Start(q) == Descent(q, [l \in Layers |-> 1])[1]

\* While ef covers the index, the shortcuts of searchLayer (the visit budget, the 10%
\* rule, the skipping of far candidates) lose nothing: a search returns the k nearest
\* of all the nodes a walk on layer 0 reaches from where the upper layers led it.
SearchFindsReachable ==
    entryPoint # {} =>
        \A q \in Ids, k \in 1..Cardinality(Ids) :
            Cardinality(Nodes) <= Larger(EfConstruct, k) =>
                Search(q, k) = FirstOf(Sorted(q, Reach(Start(q))), k)

\* An index that has held at most 2M + 1 nodes, and EfConstruct + 1, since it was empty
\* answers exactly: the k nearest of all its nodes, whatever was added and removed.
\* (Beyond that pruning may cut a node off, which no search then finds.)
SmallIndexExact ==
    peak <= 2 * M + 1 /\ peak <= EfConstruct + 1 =>
        \A q \in Ids, k \in 1..Cardinality(Ids) :
            Search(q, k) = FirstOf(Sorted(q, Nodes), k)
=============================================================================
