------------------------------ MODULE HNSWProofs ------------------------------
(***************************************************************************)
(* The entry point, the links and the answers of the index, for any set of  *)
(* IDs, any distances, any M and EfConstruct and any number of layers.      *)
(*                                                                         *)
(* A search is right because its results are, turn by turn, the best of     *)
(* what it has visited (Searches): a node is turned away only when it would *)
(* not be among them, and then never will be.  What is left is what it      *)
(* visits.  If it keeps as many nodes as there are, it expands every        *)
(* candidate, one more with each turn, and the budget outlasts the nodes    *)
(* (TurnProgress); if every node of layer 0 links to every other, the first *)
(* turn visits them all.  The loops of the code are functions of the number *)
(* of their turns, and facts about them go by counting the turns.           *)
(***************************************************************************)
EXTENDS HNSW, FiniteSetTheorems, SequenceTheorems, WellFoundedInduction, TLAPS

Levels == -1..TopLevel

\* Levels are levels, and the entry point is one node or none.
Shape ==
    /\ level \in [Ids -> Levels]
    /\ entryPoint = {} \/ \E n \in Ids : entryPoint = {n}

IInv == Shape /\ EntryIsTop

-----------------------------------------------------------------------------
(* The entry point. *)

\* Layers are levels, and levels are integers.
LEMMA LayerFact == /\ Layers \subseteq Levels
                   /\ \A l \in Levels : l \in Int
                   /\ \A l \in Layers : l >= 0
                   /\ -1 \in Levels
<1>1. TopLevel \in Nat
    BY ConstantsAssumption DEF ConstantsAssumption
<1> QED BY <1>1 DEF Levels, Layers

\* A node Highest offers is stored, and no node of the set is above it.
LEMMA HighestFact ==
    ASSUME NEW S \in SUBSET Ids, NEW e \in Highest(S)
    PROVE  \E n \in S : e = {n} /\ \A o \in S : level[o] <= level[n]
BY DEF Highest

\* The level of an entry point is that of its node.
LEMMA LevelOfFact == ASSUME NEW n PROVE LevelOf({n}) = level[n]
BY DEF LevelOf

\* The empty index.
LEMMA InitIsTop == Init => IInv
BY LayerFact DEF Init, IInv, Shape, EntryIsTop, Nodes, LevelOf

\* Add raises the entry point only to a higher node; RemoveNode and OptimizeIndex pick
\* a highest node of those that stay, and a removal elsewhere leaves the top alone.
LEMMA NextKeepsTop == IInv /\ [Next]_vars => IInv'
<1> SUFFICES ASSUME IInv, [Next]_vars PROVE IInv'
    OBVIOUS
<1> USE DEF IInv, Shape
<1>1. ASSUME NEW i \in Ids, NEW lev \in Layers, Add(i, lev) PROVE IInv'
    <2>1. level' = [level EXCEPT ![i] = lev] /\ NewTop(i, lev) /\ i \notin Nodes
        BY <1>1 DEF Add
    <2>2. lev \in Levels /\ lev \in Int /\ lev >= 0
        BY LayerFact
    <2>3. level' \in [Ids -> Levels] /\ level'[i] = lev
        BY <2>1, <2>2
    <2>4. \A n \in Ids \ {i} : level'[n] = level[n]
        BY <2>1
    <2>5. Nodes' = Nodes \cup {i}
        BY <2>2, <2>3, <2>4 DEF Nodes
    <2>6. \A n \in Ids : level[n] \in Int
        BY LayerFact
    <2>7. CASE entryPoint = {}
        <3>1. Nodes = {} /\ entryPoint' = {i} /\ maxLevel' = lev
            BY <2>1, <2>7 DEF NewTop, EntryIsTop
        <3>2. LevelOf(entryPoint)' = lev
            BY <2>3, <3>1 DEF LevelOf
        <3> QED BY <2>2, <2>3, <2>5, <3>1, <3>2 DEF EntryIsTop
    <2>8. CASE entryPoint # {}
        <3>1. PICK e \in Ids : entryPoint = {e}
            BY <2>8
        <3>2. e \in Nodes /\ maxLevel = level[e] /\ \A n \in Nodes : level[n] <= maxLevel
            BY <3>1, LevelOfFact DEF EntryIsTop
        <3>3. CASE lev > maxLevel
            <4>1. entryPoint' = {i} /\ maxLevel' = lev
                BY <2>1, <3>3 DEF NewTop
            <4>2. LevelOf(entryPoint)' = lev
                BY <2>3, <4>1 DEF LevelOf
            <4>3. \A n \in Nodes' : level'[n] <= lev
                BY <2>2, <2>3, <2>4, <2>5, <2>6, <3>2, <3>3 DEF Nodes
            <4> QED BY <2>3, <2>5, <4>1, <4>2, <4>3 DEF EntryIsTop
        <3>4. CASE ~(lev > maxLevel)
            <4>1. entryPoint' = {e} /\ maxLevel' = maxLevel
                BY <2>1, <2>8, <3>1, <3>4 DEF NewTop
            <4>2. e # i
                BY <2>1, <3>2
            <4>3. LevelOf(entryPoint)' = maxLevel'
                BY <2>4, <3>2, <4>1, <4>2 DEF LevelOf
            <4>4. \A n \in Nodes' : level'[n] <= maxLevel'
                BY <2>2, <2>3, <2>4, <2>5, <2>6, <3>2, <3>4, <4>1 DEF Nodes
            <4> QED BY <2>3, <2>5, <3>2, <4>1, <4>3, <4>4 DEF EntryIsTop
        <3> QED BY <3>3, <3>4
    <2> QED BY <2>7, <2>8
<1>2. ASSUME NEW i \in Ids, RemoveNode(i) PROVE IInv'
    <2>1. level' = [level EXCEPT ![i] = -1] /\ i \in Nodes
        BY <1>2 DEF RemoveNode
    <2>2. level' \in [Ids -> Levels] /\ level'[i] = -1
        BY <2>1, LayerFact
    <2>3. \A n \in Ids \ {i} : level'[n] = level[n]
        BY <2>1
    <2>4. Nodes' = Nodes \ {i}
        BY <2>2, <2>3 DEF Nodes
    <2>5. CASE i \in entryPoint
        <3>1. entryPoint = {i}
            BY <2>5
        <3>2. CASE Nodes = {i}
            <4>1. entryPoint' = {} /\ maxLevel' = LevelOf(entryPoint')
                BY <1>2, <2>5, <3>2 DEF RemoveNode
            <4>2. LevelOf(entryPoint') = 0 /\ LevelOf(entryPoint)' = 0
                BY <4>1 DEF LevelOf
            <4> QED BY <2>2, <2>4, <3>2, <4>1, <4>2 DEF EntryIsTop
        <3>3. CASE Nodes # {i}
            <4>1. entryPoint' \in Highest(Nodes \ {i}) /\ maxLevel' = LevelOf(entryPoint')
                BY <1>2, <2>5, <3>3 DEF RemoveNode
            <4>2. PICK n \in Nodes \ {i} : /\ entryPoint' = {n}
                                          /\ \A o \in Nodes \ {i} : level[o] <= level[n]
                BY <4>1, HighestFact DEF Nodes
            <4>3. maxLevel' = level[n] /\ LevelOf(entryPoint)' = level'[n]
                BY <4>1, <4>2, LevelOfFact DEF LevelOf
            <4>4. n \in Ids \ {i}
                BY <4>2 DEF Nodes
            <4>5. \A o \in Nodes \ {i} : level'[o] = level[o]
                BY <2>3 DEF Nodes
            <4> QED BY <2>2, <2>3, <2>4, <4>2, <4>3, <4>4, <4>5 DEF EntryIsTop
        <3> QED BY <3>2, <3>3
    <2>6. CASE i \notin entryPoint
        <3>1. UNCHANGED <<entryPoint, maxLevel>>
            BY <1>2, <2>6 DEF RemoveNode
        <3>2. PICK e \in Ids : entryPoint = {e}
            BY <2>1 DEF EntryIsTop
        <3>3. e # i /\ e \in Nodes /\ maxLevel = level[e]
            BY <2>6, <3>2, LevelOfFact DEF EntryIsTop
        <3>4. LevelOf(entryPoint)' = maxLevel'
            BY <2>3, <3>1, <3>2, <3>3 DEF LevelOf
        <3>5. \A o \in Nodes \ {i} : level'[o] = level[o]
            BY <2>3 DEF Nodes
        <3> QED BY <2>2, <2>4, <3>1, <3>2, <3>3, <3>4, <3>5 DEF EntryIsTop
    <2> QED BY <2>5, <2>6
<1>3. ASSUME OptimizeIndex PROVE IInv'
    <2>1. level' = level /\ Nodes' = Nodes /\ Nodes # {}
        BY <1>3 DEF OptimizeIndex, Nodes
    <2>2. PICK n \in Nodes : entryPoint' = {n} /\ \A o \in Nodes : level[o] <= level[n]
        BY <1>3, HighestFact DEF OptimizeIndex, Nodes
    <2>3. maxLevel' = level[n] /\ LevelOf(entryPoint)' = level[n]
        BY <1>3, <2>1, <2>2, LevelOfFact DEF OptimizeIndex, LevelOf
    <2> QED BY <2>1, <2>2, <2>3 DEF EntryIsTop, Nodes
<1>4. ASSUME Clear PROVE IInv'
    BY <1>4, LayerFact DEF Clear, EntryIsTop, Nodes, LevelOf
<1>5. ASSUME UNCHANGED vars PROVE IInv'
    BY <1>5 DEF vars, EntryIsTop, Nodes, LevelOf
<1> QED BY <1>1, <1>2, <1>3, <1>4, <1>5 DEF Next

-----------------------------------------------------------------------------
(* Numbers and iterations. *)

\* A set of numbers that has 0 and with every number the next one has them all.
LEMMA Counting ==
    ASSUME NEW N \in Nat, NEW P, 0 \in P, \A k \in 1..N : k - 1 \in P => k \in P
    PROVE  \A k \in 0..N : k \in P
<1> DEFINE Smaller == {ss \in Nat \X Nat : ss[1] < ss[2]}
<1> DEFINE Missing == (0..N) \ P
<1>1. SUFFICES ASSUME Missing # {} PROVE FALSE
    OBVIOUS
<1>2. IsWellFoundedOn(Smaller, Nat)
    BY NatLessThanWellFounded DEF OpToRel
<1>3. PICK k \in Missing : \A j \in Missing : ~ (<<j, k>> \in Smaller)
    <2> Missing \subseteq Nat
        OBVIOUS
    <2> HIDE DEF Smaller, Missing
    <2> QED BY <1>1, <1>2, WFMin
<1>4. k \in 1..N /\ k - 1 \in 0..N /\ k \notin P
    OBVIOUS
<1>5. k - 1 \notin P
    BY <1>4
<1>6. <<k - 1, k>> \in Smaller
    BY <1>4
<1> QED BY <1>3, <1>4, <1>5, <1>6

\* The turns of a loop whose states are in S, and its states turn by turn.
Steps(N, S) == [1..N -> [S -> S]]
IsLoop(f, N, S, base, step) ==
    f \in [0..N -> S] /\ f[0] = base /\ \A k \in 1..N : f[k] = step[k][f[k - 1]]

\* A loop whose turns stay in S has a state after each of them.
LEMMA Iteration ==
    ASSUME NEW N \in Nat, NEW S, NEW base \in S, NEW step \in Steps(N, S)
    PROVE  \E f : IsLoop(f, N, S, base, step)
<1> USE DEF Steps
<1> DEFINE P == {n \in 0..N : \E f \in [0..n -> S] :
                     /\ f[0] = base
                     /\ \A k \in 1..n : f[k] = step[k][f[k - 1]]}
<1>1. 0 \in P
    <2> DEFINE f == [k \in 0..0 |-> base]
    <2>1. f \in [0..0 -> S] /\ f[0] = base /\ \A k \in 1..0 : f[k] = step[k][f[k - 1]]
        OBVIOUS
    <2> HIDE DEF f
    <2> QED BY <2>1
<1>2. ASSUME NEW n \in 1..N, n - 1 \in P PROVE n \in P
    <2>1. PICK f \in [0..(n - 1) -> S] : /\ f[0] = base
                                        /\ \A k \in 1..(n - 1) : f[k] = step[k][f[k - 1]]
        BY <1>2
    <2> DEFINE g == [k \in 0..n |-> IF k = n THEN step[n][f[n - 1]] ELSE f[k]]
    <2>2. step[n][f[n - 1]] \in S
        <3>1. f[n - 1] \in S
            BY <2>1
        <3> QED BY <3>1
    <2>3. g \in [0..n -> S]
        BY <2>1, <2>2
    <2>4. g[0] = base
        BY <2>1
    <2>5. ASSUME NEW k \in 1..n PROVE g[k] = step[k][g[k - 1]]
        <3>1. CASE k = n
            BY <3>1
        <3>2. CASE k # n
            BY <2>1, <3>2
        <3> QED BY <3>1, <3>2
    <2>6. n \in 0..N
        OBVIOUS
    <2>7. \E h \in [0..n -> S] : h[0] = base /\ \A k \in 1..n : h[k] = step[k][h[k - 1]]
        <3> HIDE DEF g
        <3> QED BY <2>3, <2>4, <2>5
    <2> QED BY <2>6, <2>7
<1>3. N \in P
    <2> HIDE DEF P
    <2>1. \A k \in 0..N : k \in P
        BY <1>1, <1>2, Counting
    <2> QED BY <2>1
<1>4. PICK f \in [0..N -> S] : f[0] = base /\ \A k \in 1..N : f[k] = step[k][f[k - 1]]
    BY <1>3
<1> QED BY <1>4 DEF IsLoop

-----------------------------------------------------------------------------
(* Distances and ranks. *)

\* What is nearer to q than i.
Nearer(q, S, i) == {j \in S : Distance[q][j] < Distance[q][i]}

\* Distances are numbers, and different for different IDs.
LEMMA DistanceFact ==
    ASSUME NEW q \in Ids
    PROVE  /\ \A i \in Ids : Distance[q][i] \in Nat
           /\ \A i, j \in Ids : i # j => Distance[q][i] # Distance[q][j]
BY ConstantsAssumption DEF ConstantsAssumption

\* Sets of IDs are finite.
LEMMA IdsFact ==
    ASSUME NEW S \in SUBSET Ids
    PROVE  IsFiniteSet(S) /\ Cardinality(S) \in Nat
BY ConstantsAssumption, FS_Subset, FS_CardinalityType DEF ConstantsAssumption

\* A larger set of IDs has more of them.
LEMMA SmallerFact ==
    ASSUME NEW S \in SUBSET Ids, NEW T \in SUBSET S
    PROVE  /\ Cardinality(T) <= Cardinality(S)
           /\ Cardinality(T) \in Nat /\ Cardinality(S) \in Nat
           /\ T # S => Cardinality(T) < Cardinality(S)
<1>1. IsFiniteSet(S) /\ Cardinality(S) \in Nat /\ Cardinality(T) \in Nat
    BY IdsFact
<1>2. Cardinality(T) <= Cardinality(S) /\ (Cardinality(S) = Cardinality(T) => S = T)
    BY <1>1, FS_Subset
<1> QED BY <1>1, <1>2

\* A rank is a number of nearer nodes.
LEMMA RankIs ==
    ASSUME NEW q \in Ids, NEW S \in SUBSET Ids, NEW i \in Ids
    PROVE  Rank(q, S, i) \in Nat /\ Rank(q, S, i) = Cardinality(Nearer(q, S, i))
<1>1. Nearer(q, S, i) \in SUBSET Ids
    BY DEF Nearer
<1>2. Rank(q, S, i) = Cardinality(Nearer(q, S, i))
    BY DEF Rank, Nearer
<1> QED BY <1>1, <1>2, IdsFact

\* It is below the size of the set, and grows with the distance.
LEMMA RankFact ==
    ASSUME NEW q \in Ids, NEW S \in SUBSET Ids
    PROVE  /\ \A i \in Ids : Rank(q, S, i) \in Nat /\ Rank(q, S, i) = Cardinality(Nearer(q, S, i))
           /\ \A i \in S : Rank(q, S, i) < Cardinality(S)
           /\ \A i \in S, j \in Ids : Distance[q][i] < Distance[q][j] =>
                                          Rank(q, S, i) < Rank(q, S, j)
           /\ \A i, j \in S : Rank(q, S, i) = Rank(q, S, j) => i = j
<1>1. ASSUME NEW i \in Ids
      PROVE  Rank(q, S, i) \in Nat /\ Rank(q, S, i) = Cardinality(Nearer(q, S, i))
    BY RankIs
<1>2. ASSUME NEW i \in S PROVE Rank(q, S, i) < Cardinality(S)
    <2>1. Nearer(q, S, i) \in SUBSET S /\ i \notin Nearer(q, S, i)
        BY DistanceFact DEF Nearer
    <2> QED BY <1>1, <2>1, SmallerFact
<1>3. ASSUME NEW i \in S, NEW j \in Ids, Distance[q][i] < Distance[q][j]
      PROVE  Rank(q, S, i) < Rank(q, S, j)
    <2>1. /\ Nearer(q, S, i) \in SUBSET Nearer(q, S, j)
          /\ i \in Nearer(q, S, j) /\ i \notin Nearer(q, S, i)
        BY <1>3, DistanceFact DEF Nearer
    <2>2. Nearer(q, S, j) \in SUBSET Ids
        BY DEF Nearer
    <2>3. Cardinality(Nearer(q, S, i)) < Cardinality(Nearer(q, S, j))
        BY <2>1, <2>2, SmallerFact
    <2> QED BY <1>1, <2>3
<1>4. ASSUME NEW i \in S, NEW j \in S, Rank(q, S, i) = Rank(q, S, j), i # j
      PROVE  FALSE
    <2>1. Distance[q][i] < Distance[q][j] \/ Distance[q][j] < Distance[q][i]
        BY <1>4, DistanceFact
    <2> QED BY <1>1, <1>3, <1>4, <2>1
<1> QED BY <1>1, <1>2, <1>3, <1>4

\* Every rank below the size of the set is one node's.
LEMMA RankOnto ==
    ASSUME NEW q \in Ids, NEW S \in SUBSET Ids, NEW k \in 0..(Cardinality(S) - 1)
    PROVE  \E i \in S : Rank(q, S, i) = k
<1> DEFINE n == Cardinality(S)
<1> DEFINE f == [i \in S |-> Rank(q, S, i)]
<1>1. n \in Nat /\ IsFiniteSet(S)
    BY IdsFact
<1>2. f \in [S -> 0..(n - 1)]
    BY <1>1, RankFact
<1>3. IsInjective(f)
    BY RankFact DEF IsInjective
<1>4. IsFiniteSet(0..(n - 1)) /\ Cardinality(0..(n - 1)) = n
    BY <1>1, FS_Interval
<1>5. f \in Injection(S, 0..(n - 1))
    BY <1>2, <1>3 DEF Injection
<1>6. f \in Surjection(S, 0..(n - 1))
    <2> HIDE DEF f
    <2> QED BY <1>4, <1>5, FS_Injection
<1>7. PICK i \in S : f[i] = k
    BY <1>6 DEF Surjection
<1> QED BY <1>7

\* Nearest and Farthest pick a node of the set, and no other is nearer or farther.
LEMMA NearestFact ==
    ASSUME NEW q \in Ids, NEW S \in SUBSET Ids, S # {}
    PROVE  /\ Nearest(q, S) \in S /\ \A j \in S : Distance[q][Nearest(q, S)] <= Distance[q][j]
           /\ Farthest(q, S) \in S /\ \A j \in S : Distance[q][Farthest(q, S)] >= Distance[q][j]
<1>1. Cardinality(S) \in Nat \ {0}
    BY IdsFact, FS_EmptySet
<1>2. PICK n \in S : Rank(q, S, n) = 0
    BY <1>1, RankOnto
<1>3. \A j \in S : Distance[q][n] <= Distance[q][j]
    <2> SUFFICES ASSUME NEW j \in S, ~(Distance[q][n] <= Distance[q][j]) PROVE FALSE
        OBVIOUS
    <2>1. Distance[q][j] < Distance[q][n]
        BY DistanceFact
    <2>2. Rank(q, S, j) < Rank(q, S, n) /\ Rank(q, S, j) \in Nat
        BY <2>1, RankFact
    <2> QED BY <1>2, <2>2
<1>4. PICK f \in S : Rank(q, S, f) = Cardinality(S) - 1
    <2>1. Cardinality(S) - 1 \in 0..(Cardinality(S) - 1)
        BY <1>1
    <2> QED BY <2>1, RankOnto
<1>5. \A j \in S : Distance[q][f] >= Distance[q][j]
    <2> SUFFICES ASSUME NEW j \in S, ~(Distance[q][f] >= Distance[q][j]) PROVE FALSE
        OBVIOUS
    <2>1. Distance[q][f] < Distance[q][j]
        BY DistanceFact
    <2>2. Rank(q, S, f) < Rank(q, S, j) /\ Rank(q, S, j) < Cardinality(S)
        BY <2>1, RankFact
    <2>3. Rank(q, S, j) \in Nat
        BY RankFact
    <2> QED BY <1>1, <1>4, <2>2, <2>3
<1>6. Nearest(q, S) \in S /\ \A j \in S : Distance[q][Nearest(q, S)] <= Distance[q][j]
    BY <1>3 DEF Nearest
<1>7. Farthest(q, S) \in S /\ \A j \in S : Distance[q][Farthest(q, S)] >= Distance[q][j]
    BY <1>5 DEF Farthest
<1> QED BY <1>6, <1>7

\* Sorted lists a set of IDs in the order of its ranks, each node once.
LEMMA SortedFact ==
    ASSUME NEW q \in Ids, NEW S \in SUBSET Ids
    PROVE  /\ Sorted(q, S) \in Seq(S) /\ Len(Sorted(q, S)) = Cardinality(S)
           /\ \A k \in 1..Cardinality(S) : /\ Sorted(q, S)[k] \in S
                                          /\ Rank(q, S, Sorted(q, S)[k]) = k - 1
           /\ IsInjective(Sorted(q, S)) /\ ToSet(Sorted(q, S)) = S
<1> DEFINE n == Cardinality(S)
<1> DEFINE s == Sorted(q, S)
<1>1. n \in Nat
    BY IdsFact
<1>2. s = [k \in 1..n |-> CHOOSE i \in S : Rank(q, S, i) = k - 1]
    BY DEF Sorted
<1>3. ASSUME NEW k \in 1..n PROVE s[k] \in S /\ Rank(q, S, s[k]) = k - 1
    <2>1. k - 1 \in 0..(n - 1)
        BY <1>1
    <2>2. \E i \in S : Rank(q, S, i) = k - 1
        BY <2>1, RankOnto
    <2>3. s[k] = CHOOSE i \in S : Rank(q, S, i) = k - 1
        BY <1>2
    <2> QED BY <2>2, <2>3
<1> HIDE DEF s, n
<1>4. s \in [1..n -> S]
    BY <1>2, <1>3
<1>5. s \in Seq(S) /\ Len(s) = n /\ DOMAIN s = 1..n
    BY <1>1, <1>4
<1>6. IsInjective(s)
    BY <1>1, <1>3, <1>5 DEF IsInjective
<1>7. ToSet(s) = S
    <2>1. ToSet(s) \subseteq S
        BY <1>3, <1>5 DEF ToSet
    <2>2. ASSUME NEW i \in S PROVE i \in ToSet(s)
        <3> DEFINE k == Rank(q, S, i) + 1
        <3>1. k \in 1..n
            <4>1. Rank(q, S, i) \in Nat /\ Rank(q, S, i) < n
                BY RankFact DEF n
            <4> QED BY <1>1, <4>1
        <3>2. s[k] \in S /\ Rank(q, S, s[k]) = Rank(q, S, i)
            <4>1. Rank(q, S, i) \in Nat
                BY RankFact
            <4>2. s[k] \in S /\ Rank(q, S, s[k]) = k - 1
                <5> HIDE DEF k
                <5> QED BY <1>3, <3>1
            <4> QED BY <4>1, <4>2
        <3>3. s[k] = i
            BY <3>2, RankFact
        <3> QED BY <1>5, <3>1, <3>3 DEF ToSet
    <2> QED BY <2>1, <2>2
<1> QED BY <1>3, <1>5, <1>6, <1>7 DEF s, n

\* Best keeps n nodes of the set, or all of them if they are no more.
LEMMA BestFact ==
    ASSUME NEW q \in Ids, NEW S \in SUBSET Ids, NEW n \in Nat
    PROVE  /\ Best(q, S, n) \in SUBSET S
           /\ Cardinality(S) <= n => Best(q, S, n) = S
           /\ Cardinality(S) >= n => Cardinality(Best(q, S, n)) = n
<1> DEFINE B == Best(q, S, n)
<1>1. B \in SUBSET S /\ \A i \in S : i \in B <=> Rank(q, S, i) < n
    BY DEF Best
<1>2. IsFiniteSet(S) /\ Cardinality(S) \in Nat
    BY IdsFact
<1>3. ASSUME Cardinality(S) <= n PROVE B = S
    <2>1. ASSUME NEW i \in S PROVE Rank(q, S, i) < n
        <3>1. Rank(q, S, i) \in Nat /\ Rank(q, S, i) < Cardinality(S)
            BY RankFact
        <3> QED BY <1>2, <1>3, <3>1
    <2> QED BY <1>1, <2>1
<1>4. ASSUME Cardinality(S) >= n PROVE Cardinality(B) = n
    <2> DEFINE f == [i \in B |-> Rank(q, S, i)]
    <2> HIDE DEF B
    <2>1. ASSUME NEW i \in B PROVE Rank(q, S, i) \in 0..(n - 1)
        <3>1. Rank(q, S, i) < n /\ i \in S
            BY <1>1
        <3>2. Rank(q, S, i) \in Nat
            BY <3>1, RankIs
        <3> QED BY <3>1, <3>2
    <2>2. f \in [B -> 0..(n - 1)] /\ IsInjective(f)
        <3>1. \A i, j \in S : Rank(q, S, i) = Rank(q, S, j) => i = j
            BY RankFact
        <3> QED BY <1>1, <2>1, <3>1 DEF IsInjective
    <2>3. ASSUME NEW k \in 0..(n - 1) PROVE \E i \in B : f[i] = k
        <3>1. k \in 0..(Cardinality(S) - 1)
            BY <1>2, <1>4
        <3>2. PICK i \in S : Rank(q, S, i) = k
            BY <3>1, RankOnto
        <3> QED BY <1>1, <3>2
    <2>4. f \in Bijection(B, 0..(n - 1))
        <3> HIDE DEF f
        <3> QED BY <2>2, <2>3 DEF Bijection, Injection, Surjection
    <2>5. ExistsBijection(B, 0..(n - 1))
        <3> HIDE DEF f
        <3> QED BY <2>4 DEF ExistsBijection
    <2>6. IsFiniteSet(B)
        BY <1>1, IdsFact
    <2>7. Cardinality(0..(n - 1)) = n
        BY FS_Interval
    <2> QED BY <2>5, <2>6, <2>7, FS_Bijection
<1> QED BY <1>1, <1>3, <1>4

\* More nodes, higher ranks.
LEMMA RankGrows ==
    ASSUME NEW q \in Ids, NEW S \in SUBSET Ids, NEW T \in SUBSET S, NEW i \in Ids
    PROVE  Rank(q, T, i) <= Rank(q, S, i)
<1>1. Nearer(q, T, i) \in SUBSET Nearer(q, S, i) /\ Nearer(q, S, i) \in SUBSET Ids
    BY DEF Nearer
<1>2. Cardinality(Nearer(q, T, i)) <= Cardinality(Nearer(q, S, i))
    BY <1>1, SmallerFact
<1>3. T \in SUBSET Ids
    OBVIOUS
<1> QED BY <1>2, <1>3, RankIs

\* The best n are nearer than the others, and there are n of them if there are others.
LEMMA BestNearer ==
    ASSUME NEW q \in Ids, NEW S \in SUBSET Ids, NEW n \in Nat,
           NEW r \in Best(q, S, n), NEW j \in S \ Best(q, S, n)
    PROVE  /\ Distance[q][r] < Distance[q][j]
           /\ Cardinality(Best(q, S, n)) = n
<1>1. r \in S /\ Rank(q, S, r) < n /\ ~(Rank(q, S, j) < n)
    BY DEF Best
<1>2. Rank(q, S, r) \in Nat /\ Rank(q, S, j) \in Nat /\ Rank(q, S, j) < Cardinality(S)
    BY <1>1, RankFact
<1>3. ~(Distance[q][j] < Distance[q][r])
    <2>1. Distance[q][j] < Distance[q][r] => Rank(q, S, j) < Rank(q, S, r)
        BY <1>1, RankFact
    <2> QED BY <1>1, <1>2, <2>1
<1>4. r # j
    BY <1>1
<1>5. Distance[q][r] < Distance[q][j]
    BY <1>1, <1>3, <1>4, DistanceFact
<1>6. Cardinality(S) >= n
    BY <1>1, <1>2, IdsFact
<1> QED BY <1>5, <1>6, BestFact

\* Keeping the best while nodes come one by one is keeping the best of them all.
LEMMA BestGrows ==
    ASSUME NEW q \in Ids, NEW S \in SUBSET Ids, NEW n \in Nat, NEW x \in Ids
    PROVE  Best(q, Best(q, S, n) \cup {x}, n) = Best(q, S \cup {x}, n)
<1> DEFINE R == Best(q, S, n)
<1> DEFINE T == R \cup {x}
<1> DEFINE U == S \cup {x}
<1>1. /\ R \in SUBSET S /\ T \in SUBSET U /\ T \in SUBSET Ids /\ U \in SUBSET Ids
      /\ S \in SUBSET U
    BY BestFact
<1>2. ASSUME NEW i \in Best(q, U, n) PROVE i \in Best(q, T, n)
    <2>1. i \in U /\ Rank(q, U, i) < n /\ i \in Ids
        BY <1>1 DEF Best
    <2>2. Rank(q, U, i) \in Nat /\ Rank(q, T, i) \in Nat /\ Rank(q, S, i) \in Nat
        BY <1>1, <2>1, RankFact
    <2>3. Rank(q, T, i) <= Rank(q, U, i) /\ Rank(q, S, i) <= Rank(q, U, i)
        BY <1>1, <2>1, RankGrows
    <2>4. Rank(q, T, i) < n /\ Rank(q, S, i) < n
        BY <2>1, <2>2, <2>3
    <2>5. i \in T
        BY <2>1, <2>4 DEF Best
    <2> QED BY <2>4, <2>5 DEF Best
<1>3. ASSUME NEW i \in Best(q, T, n), i \notin Best(q, U, n) PROVE FALSE
    <2>1. i \in T /\ i \in U /\ i \in Ids /\ Rank(q, T, i) < n /\ ~(Rank(q, U, i) < n)
        BY <1>1, <1>3 DEF Best
    <2>2. Nearer(q, T, i) # Nearer(q, U, i)
        BY <1>1, <2>1, RankFact
    <2>3. PICK j \in Nearer(q, U, i) : j \notin Nearer(q, T, i)
        BY <1>1, <2>2 DEF Nearer
    <2>4. j \in S \ R /\ j \in U /\ Distance[q][j] < Distance[q][i]
        BY <2>3 DEF Nearer
    <2>5. \A r \in R : Distance[q][r] < Distance[q][j]
        BY <2>4, BestNearer
    <2>6. R \in SUBSET Nearer(q, T, i)
        <3> SUFFICES ASSUME NEW r \in R PROVE Distance[q][r] < Distance[q][i]
            BY DEF Nearer
        <3>1. Distance[q][r] < Distance[q][j]
            BY <2>5
        <3>2. r \in Ids /\ j \in Ids
            BY <1>1, <2>4
        <3>3. Distance[q][r] \in Nat /\ Distance[q][j] \in Nat /\ Distance[q][i] \in Nat
            BY <2>1, <3>2, DistanceFact
        <3> QED BY <2>4, <3>1, <3>3
    <2>7. Cardinality(S) >= n
        <3>1. Cardinality(S) \in Nat
            BY IdsFact
        <3>2. ~(Cardinality(S) <= n)
            BY <2>4, BestFact
        <3> QED BY <3>1, <3>2
    <2>8. Cardinality(R) = n
        BY <2>7, BestFact
    <2>9. Nearer(q, T, i) \in SUBSET Ids
        BY <1>1 DEF Nearer
    <2>10. Cardinality(R) <= Cardinality(Nearer(q, T, i))
        BY <2>6, <2>9, SmallerFact
    <2>11. Rank(q, T, i) = Cardinality(Nearer(q, T, i)) /\ Rank(q, T, i) \in Nat
        BY <1>1, <2>1, RankIs
    <2> HIDE DEF R, T
    <2> QED BY <2>1, <2>8, <2>10, <2>11
<1>4. Best(q, T, n) \subseteq U /\ Best(q, U, n) \subseteq U
    BY <1>1 DEF Best
<1> QED BY <1>2, <1>3, <1>4

\* A node that is not wanted would not be among the best.
LEMMA UnwantedFact ==
    ASSUME NEW q \in Ids, NEW S \in SUBSET Ids, NEW n \in Nat \ {0}, NEW x \in Ids,
           ~Wanted(q, Best(q, S, n), n, x)
    PROVE  Best(q, S \cup {x}, n) = Best(q, S, n)
<1> DEFINE R == Best(q, S, n)
<1> DEFINE T == R \cup {x}
<1>1. R \in SUBSET S /\ R \in SUBSET Ids /\ T \in SUBSET Ids
    BY BestFact
<1>2. Cardinality(R) \in Nat /\ Cardinality(R) >= n
    BY <1>1, IdsFact DEF Wanted
<1>3. R # {}
    BY <1>2, FS_EmptySet
<1>4. /\ Farthest(q, R) \in R /\ \A r \in R : Distance[q][Farthest(q, R)] >= Distance[q][r]
      /\ Distance[q][x] >= Distance[q][Farthest(q, R)]
    <2>1. Farthest(q, R) \in R /\ \A r \in R : Distance[q][Farthest(q, R)] >= Distance[q][r]
        BY <1>1, <1>3, NearestFact
    <2>2. ~(Distance[q][x] < Distance[q][Farthest(q, R)])
        BY DEF Wanted
    <2>3. Distance[q][x] \in Nat /\ Distance[q][Farthest(q, R)] \in Nat
        BY <1>1, <2>1, DistanceFact
    <2> QED BY <2>1, <2>2, <2>3
<1>5. CASE x \in R
    BY <1>1, <1>5
<1>6. CASE x \notin R
    <2>1. \A r \in R : Distance[q][r] < Distance[q][x]
        <3> SUFFICES ASSUME NEW r \in R PROVE Distance[q][r] < Distance[q][x]
            OBVIOUS
        <3>1. r \in Ids /\ r # x
            BY <1>1, <1>6
        <3>2. Distance[q][r] \in Nat /\ Distance[q][x] \in Nat /\ Distance[q][r] # Distance[q][x]
            BY <3>1, DistanceFact
        <3>3. Farthest(q, R) \in Ids
            BY <1>1, <1>4
        <3>4. Distance[q][Farthest(q, R)] \in Nat
            BY <3>3, DistanceFact
        <3>5. Distance[q][Farthest(q, R)] >= Distance[q][r]
            BY <1>4
        <3> HIDE DEF R
        <3> QED BY <1>4, <3>2, <3>4, <3>5
    <2>2. \A r \in R : Nearer(q, T, r) = Nearer(q, R, r)
        <3> SUFFICES ASSUME NEW r \in R PROVE ~(Distance[q][x] < Distance[q][r])
            BY DEF Nearer
        <3>1. r \in Ids
            BY <1>1
        <3>2. Distance[q][r] \in Nat /\ Distance[q][x] \in Nat
            BY <3>1, DistanceFact
        <3> QED BY <2>1, <3>2
    <2>3. \A r \in R : Rank(q, T, r) < n
        <3> SUFFICES ASSUME NEW r \in R PROVE Rank(q, T, r) < n
            OBVIOUS
        <3>1. r \in Ids
            BY <1>1
        <3>2. Rank(q, T, r) = Rank(q, R, r)
            <4>1. Rank(q, T, r) = Cardinality(Nearer(q, T, r))
                BY <1>1, <3>1, RankIs
            <4>2. Rank(q, R, r) = Cardinality(Nearer(q, R, r))
                BY <1>1, <3>1, RankIs
            <4> QED BY <2>2, <4>1, <4>2
        <3>3. Rank(q, R, r) <= Rank(q, S, r)
            BY <1>1, <3>1, RankGrows
        <3>4. Rank(q, S, r) < n
            BY DEF Best
        <3>5. Rank(q, S, r) \in Nat /\ Rank(q, R, r) \in Nat
            BY <1>1, <3>1, RankFact
        <3> QED BY <3>2, <3>3, <3>4, <3>5
    <2>4. ~(Rank(q, T, x) < n)
        <3>1. R \in SUBSET Nearer(q, T, x) /\ Nearer(q, T, x) \in SUBSET Ids
            BY <1>1, <2>1 DEF Nearer
        <3>2. Cardinality(R) <= Cardinality(Nearer(q, T, x))
            BY <3>1, SmallerFact
        <3>3. Rank(q, T, x) = Cardinality(Nearer(q, T, x)) /\ Rank(q, T, x) \in Nat
            BY <1>1, RankIs
        <3> HIDE DEF R, T
        <3> QED BY <1>2, <3>2, <3>3
    <2>5. Best(q, T, n) = R
        <3>1. \A i \in T : i \in Best(q, T, n) <=> Rank(q, T, i) < n
            BY DEF Best
        <3>2. Best(q, T, n) \subseteq T
            BY DEF Best
        <3> HIDE DEF R
        <3> QED BY <2>3, <2>4, <3>1, <3>2
    <2> QED BY <2>5, BestGrows
<1> QED BY <1>5, <1>6

-----------------------------------------------------------------------------
(* The search of a layer. *)

\* The states of a search: the results are the best of what has been visited.
Searches(q, ef) ==
    {s \in [visited : SUBSET Nodes, candidates : SUBSET Nodes, results : SUBSET Nodes] :
        s.candidates \subseteq s.visited /\ s.results = Best(q, s.visited, ef)}

\* What has been visited and is no candidate any more.
Passed(s) == s.visited \ s.candidates

LinksTyped == neighbors \in [Ids -> [Layers -> Seq(Ids)]]

\* Sound links lead to nodes.
LEMMA LinksLead ==
    ASSUME LinksTyped, LinksSound, NEW n \in Ids, NEW l \in Layers
    PROVE  neighbors[n][l] \in Seq(Nodes) /\ ToSet(neighbors[n][l]) \subseteq Nodes \ {n}
<1>1. neighbors[n][l] \in Seq(Ids) /\ ToSet(neighbors[n][l]) \subseteq Nodes \ {n}
    BY DEF LinksTyped, LinksSound
<1>2. \A k \in 1..Len(neighbors[n][l]) : neighbors[n][l][k] \in Nodes
    BY <1>1 DEF ToSet
<1> QED BY <1>1, <1>2

\* A node that is looked at is visited, and it is a candidate if the search keeps as
\* many as there are.
LEMMA LookFact ==
    ASSUME NEW q \in Ids, NEW ef \in Nat \ {0}, NEW s \in Searches(q, ef), NEW n \in Nodes
    PROVE  /\ Look(q, s, ef, n) \in Searches(q, ef)
           /\ Look(q, s, ef, n).visited = s.visited \cup {n}
           /\ Cardinality(Nodes) <= ef => Passed(Look(q, s, ef, n)) = Passed(s)
<1> DEFINE seen == [s EXCEPT !.visited = @ \cup {n}]
<1> DEFINE r == Look(q, s, ef, n)
<1>1. /\ s = [visited |-> s.visited, candidates |-> s.candidates, results |-> s.results]
      /\ s.visited \in SUBSET Nodes /\ s.candidates \in SUBSET s.visited
      /\ s.results = Best(q, s.visited, ef) /\ s.results \in SUBSET Nodes
    BY DEF Searches
<1>2. Nodes \subseteq Ids
    BY DEF Nodes
<1>3. s.visited \in SUBSET Ids /\ s.results \in SUBSET Ids
    BY <1>1, <1>2
<1>4. seen = [visited |-> s.visited \cup {n}, candidates |-> s.candidates, results |-> s.results]
    BY <1>1
<1>5. CASE n \in s.visited
    <2>1. r = seen /\ seen = s
        BY <1>1, <1>4, <1>5 DEF Look
    <2> HIDE DEF r, seen
    <2> QED BY <1>5, <2>1 DEF r
<1>6. CASE n \notin s.visited /\ ~Wanted(q, s.results, ef, n)
    <2>1. r = seen
        BY <1>6 DEF Look
    <2>2. Best(q, s.visited \cup {n}, ef) = s.results
        BY <1>1, <1>2, <1>3, <1>6, UnwantedFact
    <2>3. seen \in Searches(q, ef) /\ seen.visited = s.visited \cup {n}
        BY <1>1, <1>4, <2>2 DEF Searches
    <2>4. ~(Cardinality(Nodes) <= ef)
        <3> SUFFICES ASSUME Cardinality(Nodes) <= ef PROVE FALSE
            OBVIOUS
        <3>1. /\ Cardinality(s.visited) < Cardinality(Nodes)
              /\ Cardinality(s.visited) \in Nat /\ Cardinality(Nodes) \in Nat
            BY <1>1, <1>2, <1>6, SmallerFact
        <3>2. Cardinality(s.visited) <= ef /\ Cardinality(s.visited) < ef
            BY <3>1
        <3>3. s.results = s.visited
            BY <1>1, <1>3, <3>2, BestFact
        <3> QED BY <1>6, <3>2, <3>3 DEF Wanted
    <2> HIDE DEF r, seen
    <2> QED BY <2>1, <2>3, <2>4 DEF r
<1>7. CASE n \notin s.visited /\ Wanted(q, s.results, ef, n)
    <2>1. r = Accept(seen, q, ef, n)
        BY <1>7 DEF Look
    <2>2. Best(q, s.results \cup {n}, ef) = Best(q, s.visited \cup {n}, ef)
        BY <1>1, <1>2, <1>3, BestGrows
    <2>3. r = [visited |-> s.visited \cup {n}, candidates |-> s.candidates \cup {n},
               results |-> Best(q, s.visited \cup {n}, ef)]
        <3> HIDE DEF seen, r
        <3> QED BY <1>4, <2>1, <2>2 DEF Accept
    <2>4. Best(q, s.visited \cup {n}, ef) \in SUBSET Nodes
        <3>1. s.visited \cup {n} \in SUBSET Ids
            BY <1>2, <1>3
        <3>2. Best(q, s.visited \cup {n}, ef) \in SUBSET (s.visited \cup {n})
            BY <3>1, BestFact
        <3> QED BY <1>1, <3>2
    <2> HIDE DEF r, seen
    <2>5. r \in Searches(q, ef) /\ r.visited = s.visited \cup {n}
        BY <1>1, <2>3, <2>4 DEF Searches
    <2>6. Passed(r) = Passed(s)
        BY <1>7, <2>3 DEF Passed
    <2> QED BY <2>5, <2>6 DEF r
<1> QED BY <1>5, <1>6, <1>7

\* Expand visits the nodes of the list, and passes none.
LEMMA ExpandFact ==
    ASSUME NEW q \in Ids, NEW ef \in Nat \ {0}, NEW s \in Searches(q, ef), NEW list \in Seq(Nodes)
    PROVE  /\ Expand(q, s, ef, list) \in Searches(q, ef)
           /\ Expand(q, s, ef, list).visited = s.visited \cup ToSet(list)
           /\ Cardinality(Nodes) <= ef => Passed(Expand(q, s, ef, list)) = Passed(s)
<1> DEFINE S == Searches(q, ef)
<1> DEFINE N == Len(list)
<1> DEFINE step == [k \in 1..N |-> [r \in S |-> Look(q, r, ef, list[k])]]
<1> DEFINE F == Looks(q, s, ef, list)
<1>1. N \in Nat /\ \A k \in 1..N : list[k] \in Nodes
    OBVIOUS
<1>2. ASSUME NEW k \in 1..N, NEW r \in S
      PROVE  /\ Look(q, r, ef, list[k]) \in S
             /\ Look(q, r, ef, list[k]).visited = r.visited \cup {list[k]}
             /\ Cardinality(Nodes) <= ef => Passed(Look(q, r, ef, list[k])) = Passed(r)
    BY <1>1, LookFact
<1>3. step \in Steps(N, S)
    <2> HIDE DEF S
    <2> QED BY <1>2 DEF Steps
<1>4. PICK f : IsLoop(f, N, S, s, step)
    <2> HIDE DEF step, S, N
    <2>1. s \in S /\ N \in Nat
        BY <1>1 DEF S
    <2> QED BY <1>3, <2>1, Iteration
<1>5. f = [k \in 0..N |-> IF k = 0 THEN s ELSE Look(q, f[k - 1], ef, list[k])]
    <2> HIDE DEF S
    <2>1. ASSUME NEW k \in 1..N PROVE f[k] = Look(q, f[k - 1], ef, list[k])
        <3>1. f[k - 1] \in S /\ f[k] = step[k][f[k - 1]]
            <4>1. k - 1 \in 0..N
                BY <1>1
            <4> HIDE DEF step, N
            <4> QED BY <1>4, <4>1 DEF IsLoop
        <3> QED BY <3>1
    <2>2. f \in [0..N -> S] /\ f[0] = s
        BY <1>4 DEF IsLoop
    <2>3. \A k \in 0..N : f[k] = IF k = 0 THEN s ELSE Look(q, f[k - 1], ef, list[k])
        <3> HIDE DEF step, N
        <3> QED BY <1>1, <2>1, <2>2
    <2> HIDE DEF step, N
    <2> QED BY <2>2, <2>3
<1>6. F = [k \in 0..N |-> IF k = 0 THEN s ELSE Look(q, F[k - 1], ef, list[k])]
    BY <1>5 DEF Looks
<1>7. F[0] = s /\ \A k \in 1..N : F[k] = Look(q, F[k - 1], ef, list[k])
    <2> HIDE DEF F, N
    <2>1. 0 \in 0..N /\ \A k \in 1..N : k \in 0..N /\ k # 0
        BY <1>1
    <2> QED BY <1>6, <2>1
<1> DEFINE Seen(k) == {list[j] : j \in 1..k}
<1> DEFINE Holds(k) == /\ F[k] \in S
                       /\ F[k].visited = s.visited \cup Seen(k)
                       /\ Cardinality(Nodes) <= ef => Passed(F[k]) = Passed(s)
<1> DEFINE P == {k \in 0..N : Holds(k)}
<1>8. 0 \in P
    BY <1>1, <1>7
<1>9. ASSUME NEW k \in 1..N, k - 1 \in P PROVE k \in P
    <2>1. /\ F[k - 1] \in S /\ F[k - 1].visited = s.visited \cup Seen(k - 1)
          /\ Cardinality(Nodes) <= ef => Passed(F[k - 1]) = Passed(s)
        <3> Holds(k - 1)
            <4> HIDE DEF Holds, N
            <4> QED BY <1>9
        <3> QED OBVIOUS
    <2>2. Seen(k) = Seen(k - 1) \cup {list[k]} /\ k \in 0..N
        <3>1. 1..k = (1..(k - 1)) \cup {k}
            BY <1>1
        <3> QED BY <1>1, <3>1
    <2>3. F[k] = Look(q, F[k - 1], ef, list[k])
        BY <1>7
    <2> HIDE DEF F, S, Seen, N
    <2>4. /\ F[k] \in S
          /\ F[k].visited = F[k - 1].visited \cup {list[k]}
          /\ Cardinality(Nodes) <= ef => Passed(F[k]) = Passed(F[k - 1])
        BY <1>2, <2>1, <2>3
    <2>5. F[k].visited = s.visited \cup Seen(k)
        BY <2>1, <2>2, <2>4
    <2> QED BY <2>1, <2>2, <2>4, <2>5
<1>10. N \in P
    <2> HIDE DEF P, N
    <2>1. \A k \in 0..N : k \in P
        BY <1>1, <1>8, <1>9, Counting
    <2> QED BY <1>1, <2>1
<1>11. Seen(N) = ToSet(list)
    BY <1>1 DEF ToSet
<1>12. Expand(q, s, ef, list) = F[N]
    BY DEF Expand
<1>13. /\ F[N] \in S /\ F[N].visited = s.visited \cup Seen(N)
       /\ Cardinality(Nodes) <= ef => Passed(F[N]) = Passed(s)
    <2> Holds(N)
        <3> HIDE DEF Holds, N
        <3> QED BY <1>10
    <2> QED OBVIOUS
<1> QED BY <1>11, <1>12, <1>13

\* The links of what has been passed lead to what has been visited.
Followed(s) == \A v \in Passed(s) : ToSet(neighbors[v][0]) \subseteq s.visited

\* What one turn does: nothing, or it drops the nearest candidate, or expands it.
LEMMA TurnCases ==
    ASSUME LinksTyped, LinksSound, NEW q \in Ids, NEW ef \in Nat \ {0}, NEW layer \in Layers,
           NEW s \in Searches(q, ef)
    PROVE  LET this == Nearest(q, s.candidates)
               rest == [s EXCEPT !.candidates = @ \ {this}]
               t == Turn(q, s, ef, layer)
               full == Cardinality(s.results) >= ef
           IN  \/ t = s /\ (s.candidates = {} \/ full)
               \/ /\ s.candidates # {} /\ this \in s.candidates
                  /\ rest \in Searches(q, ef) /\ rest.visited = s.visited
                  /\ Passed(rest) = Passed(s) \cup {this} /\ this \notin Passed(s)
                  /\ \/ t = rest /\ full
                     \/ t = Expand(q, rest, ef, neighbors[this][layer])
<1> DEFINE this == Nearest(q, s.candidates)
<1> DEFINE rest == [s EXCEPT !.candidates = @ \ {this}]
<1> DEFINE t == Turn(q, s, ef, layer)
<1> DEFINE full == Cardinality(s.results) >= ef
<1> DEFINE worst == Distance[q][Farthest(q, s.results)]
<1>1. /\ s = [visited |-> s.visited, candidates |-> s.candidates, results |-> s.results]
      /\ s.visited \in SUBSET Nodes /\ s.candidates \in SUBSET s.visited
      /\ s.results = Best(q, s.visited, ef) /\ s.results \in SUBSET Nodes
    BY DEF Searches
<1>2. t = IF s.candidates = {} \/ (full /\ 10 * Distance[q][this] > 11 * worst) THEN s
          ELSE IF full /\ Distance[q][this] > worst THEN rest
          ELSE Expand(q, rest, ef, neighbors[this][layer])
    BY DEF Turn
<1>3. ASSUME s.candidates # {}
      PROVE  /\ this \in s.candidates
             /\ rest \in Searches(q, ef) /\ rest.visited = s.visited
             /\ Passed(rest) = Passed(s) \cup {this} /\ this \notin Passed(s)
    <2>1. s.candidates \in SUBSET Ids
        BY <1>1 DEF Nodes
    <2>2. this \in s.candidates
        BY <1>3, <2>1, NearestFact
    <2>3. rest = [visited |-> s.visited, candidates |-> s.candidates \ {this}, results |-> s.results]
        BY <1>1
    <2> HIDE DEF rest, this
    <2>4. rest \in Searches(q, ef)
        BY <1>1, <2>3 DEF Searches
    <2>5. Passed(rest) = Passed(s) \cup {this} /\ this \notin Passed(s)
        BY <1>1, <2>2, <2>3 DEF Passed
    <2> QED BY <2>2, <2>3, <2>4, <2>5
<1> HIDE DEF this, rest, t, full, worst
<1>4. \/ t = s /\ (s.candidates = {} \/ full)
      \/ /\ s.candidates # {}
         /\ \/ t = rest /\ full
            \/ t = Expand(q, rest, ef, neighbors[this][layer])
    BY <1>2
<1> QED BY <1>3, <1>4 DEF this, rest, t, full

\* A full search that keeps as many as there are has visited them all.
LEMMA FullFact ==
    ASSUME NEW q \in Ids, NEW ef \in Nat \ {0}, NEW s \in Searches(q, ef),
           Cardinality(Nodes) <= ef, Cardinality(s.results) >= ef
    PROVE  s.visited = Nodes
<1>1. s.visited \in SUBSET Nodes /\ s.results = Best(q, s.visited, ef)
    BY DEF Searches
<1>2. Nodes \in SUBSET Ids /\ s.visited \in SUBSET Ids
    BY <1>1 DEF Nodes
<1>3. s.results \in SUBSET s.visited
    BY <1>1 DEF Best
<1>4. /\ Cardinality(s.results) <= Cardinality(s.visited) /\ Cardinality(s.results) \in Nat
      /\ Cardinality(s.visited) \in Nat
    BY <1>2, <1>3, SmallerFact
<1>5. /\ s.visited # Nodes => Cardinality(s.visited) < Cardinality(Nodes)
      /\ Cardinality(Nodes) \in Nat
    BY <1>1, <1>2, SmallerFact
<1> QED BY <1>4, <1>5

\* A turn visits more, and nothing that a walk does not reach.
LEMMA TurnFact ==
    ASSUME LinksTyped, LinksSound, NEW q \in Ids, NEW ef \in Nat \ {0}, NEW layer \in Layers,
           NEW s \in Searches(q, ef)
    PROVE  LET t == Turn(q, s, ef, layer)
           IN  /\ t \in Searches(q, ef) /\ s.visited \subseteq t.visited
               /\ \A R : layer = 0 /\ s.visited \subseteq R /\ ClosedOnLayer0(R) =>
                             t.visited \subseteq R
<1> DEFINE this == Nearest(q, s.candidates)
<1> DEFINE rest == [s EXCEPT !.candidates = @ \ {this}]
<1> DEFINE t == Turn(q, s, ef, layer)
<1>1. CASE t = s
    BY <1>1
<1>2. CASE /\ this \in s.candidates /\ rest \in Searches(q, ef) /\ rest.visited = s.visited
           /\ t = rest
    <2> HIDE DEF t, rest
    <2> QED BY <1>2 DEF t
<1>3. CASE /\ this \in s.candidates /\ rest \in Searches(q, ef) /\ rest.visited = s.visited
           /\ t = Expand(q, rest, ef, neighbors[this][layer])
    <2>1. this \in s.visited /\ this \in Ids
        BY <1>3 DEF Searches, Nodes
    <2> HIDE DEF t, rest, this
    <2>2. neighbors[this][layer] \in Seq(Nodes)
        BY <2>1, LinksLead
    <2>3. t \in Searches(q, ef) /\ t.visited = s.visited \cup ToSet(neighbors[this][layer])
        BY <1>3, <2>2, ExpandFact
    <2>4. ASSUME NEW R, layer = 0, s.visited \subseteq R, ClosedOnLayer0(R)
          PROVE  t.visited \subseteq R
        BY <2>1, <2>3, <2>4 DEF ClosedOnLayer0
    <2> QED BY <2>3, <2>4 DEF t
<1>4. \/ t = s
      \/ /\ this \in s.candidates /\ rest \in Searches(q, ef) /\ rest.visited = s.visited
         /\ t = rest \/ t = Expand(q, rest, ef, neighbors[this][layer])
    BY TurnCases
<1> HIDE DEF this, rest, t
<1> QED BY <1>1, <1>2, <1>3, <1>4 DEF t

\* All nodes are visited, or what is visited has been expanded.
Complete(s) == s.visited = Nodes \/ s.candidates = {}

\* A search that keeps as many nodes as there are follows the links of all it passes, and
\* passes one more with each turn until it is complete.
LEMMA TurnProgress ==
    ASSUME LinksTyped, LinksSound, NEW q \in Ids, NEW ef \in Nat \ {0}, NEW s \in Searches(q, ef),
           Cardinality(Nodes) <= ef, Followed(s)
    PROVE  LET t == Turn(q, s, ef, 0)
           IN  /\ Followed(t)
               /\ Complete(s) => Complete(t)
               /\ ~Complete(s) => Cardinality(Passed(t)) = Cardinality(Passed(s)) + 1
<1> DEFINE this == Nearest(q, s.candidates)
<1> DEFINE rest == [s EXCEPT !.candidates = @ \ {this}]
<1> DEFINE t == Turn(q, s, ef, 0)
<1> DEFINE full == Cardinality(s.results) >= ef
<1>1. 0 \in Layers
    BY ConstantsAssumption DEF ConstantsAssumption, Layers
<1>2. t \in Searches(q, ef) /\ s.visited \subseteq t.visited
    BY <1>1, TurnFact
<1>3. Nodes \subseteq Ids /\ s.visited \subseteq Nodes /\ t.visited \subseteq Nodes
    <2> HIDE DEF t
    <2> QED BY <1>2 DEF Searches, Nodes
<1>4. t.visited = Nodes => Followed(t)
    <2> HIDE DEF t
    <2>1. \A v \in Passed(t) : v \in Ids
        BY <1>3 DEF Passed
    <2> QED BY <1>1, <2>1, LinksLead DEF Followed
<1>5. full => s.visited = Nodes
    BY FullFact
<1>6. \/ t = s /\ (s.candidates = {} \/ full)
      \/ /\ s.candidates # {} /\ this \in s.candidates
         /\ rest \in Searches(q, ef) /\ rest.visited = s.visited
         /\ Passed(rest) = Passed(s) \cup {this} /\ this \notin Passed(s)
         /\ \/ t = rest /\ full
            \/ t = Expand(q, rest, ef, neighbors[this][0])
    BY <1>1, TurnCases
<1> HIDE DEF t, full, rest, this
<1>7. CASE s.visited = Nodes
    <2>1. t.visited = Nodes
        BY <1>2, <1>3, <1>7
    <2> QED BY <1>4, <1>7, <2>1 DEF Complete, t
<1>8. CASE s.visited # Nodes /\ s.candidates = {}
    <2>1. t = s
        BY <1>6, <1>8
    <2> QED BY <1>8, <2>1 DEF Complete, t
<1>9. CASE s.visited # Nodes /\ s.candidates # {}
    <2>1. /\ this \in s.candidates /\ rest \in Searches(q, ef) /\ rest.visited = s.visited
          /\ Passed(rest) = Passed(s) \cup {this} /\ this \notin Passed(s)
          /\ t = Expand(q, rest, ef, neighbors[this][0])
        BY <1>5, <1>6, <1>9
    <2>2. this \in Ids
        BY <1>3, <2>1 DEF Searches
    <2>3. neighbors[this][0] \in Seq(Nodes)
        BY <1>1, <2>2, LinksLead
    <2>4. t.visited = s.visited \cup ToSet(neighbors[this][0]) /\ Passed(t) = Passed(rest)
        BY <2>1, <2>3, ExpandFact
    <2>5. Followed(t)
        BY <2>1, <2>4 DEF Followed
    <2>6. Passed(s) \in SUBSET Ids
        BY <1>3 DEF Passed
    <2>7. Cardinality(Passed(t)) = Cardinality(Passed(s)) + 1
        BY <2>1, <2>4, <2>6, IdsFact, FS_AddElement
    <2> QED BY <1>9, <2>5, <2>7 DEF Complete, t
<1> QED BY <1>7, <1>8, <1>9

\* The state a search begins in.
Begin(q, entries, ef) ==
    [visited |-> entries, candidates |-> entries, results |-> Best(q, entries, ef)]

\* It is a state of a search, and nothing has been passed.
LEMMA BeginFact ==
    ASSUME NEW q \in Ids, NEW ef \in Nat \ {0}, NEW entries \in SUBSET Nodes
    PROVE  Begin(q, entries, ef) \in Searches(q, ef) /\ Passed(Begin(q, entries, ef)) = {}
<1>1. entries \in SUBSET Ids
    BY DEF Nodes
<1>2. Best(q, entries, ef) \in SUBSET Nodes
    BY DEF Best
<1> QED BY <1>2 DEF Begin, Searches, Passed

\* The states of a search, turn by turn.
LEMMA TurnsFact ==
    ASSUME LinksTyped, LinksSound, NEW q \in Ids, NEW ef \in Nat \ {0}, NEW layer \in Layers,
           NEW entries \in SUBSET Nodes
    PROVE  LET F == Turns(q, entries, ef, layer)
           IN  /\ F[0] = Begin(q, entries, ef)
               /\ \A k \in 1..(3 * ef) : F[k] = Turn(q, F[k - 1], ef, layer)
               /\ \A k \in 0..(3 * ef) : /\ F[k] \in Searches(q, ef)
                                         /\ \A j \in 0..k : F[j].visited \subseteq F[k].visited
<1> DEFINE S == Searches(q, ef)
<1> DEFINE N == 3 * ef
<1> DEFINE s == Begin(q, entries, ef)
<1> DEFINE step == [k \in 1..N |-> [r \in S |-> Turn(q, r, ef, layer)]]
<1> DEFINE F == Turns(q, entries, ef, layer)
<1>1. N \in Nat
    OBVIOUS
<1>2. ASSUME NEW r \in S
      PROVE  Turn(q, r, ef, layer) \in S /\ r.visited \subseteq Turn(q, r, ef, layer).visited
    BY TurnFact
<1>3. step \in Steps(N, S)
    <2> HIDE DEF S
    <2> QED BY <1>2 DEF Steps
<1>4. s \in S
    BY BeginFact
<1>5. PICK f : IsLoop(f, N, S, s, step)
    <2> HIDE DEF step, S, N, s
    <2> QED BY <1>1, <1>3, <1>4, Iteration
<1>6. f = [k \in 0..N |-> IF k = 0 THEN s ELSE Turn(q, f[k - 1], ef, layer)]
    <2> HIDE DEF S, s
    <2>1. ASSUME NEW k \in 1..N PROVE f[k] = Turn(q, f[k - 1], ef, layer)
        <3>1. f[k - 1] \in S /\ f[k] = step[k][f[k - 1]]
            <4>1. k - 1 \in 0..N
                BY <1>1
            <4> HIDE DEF step, N
            <4> QED BY <1>5, <4>1 DEF IsLoop
        <3> QED BY <3>1
    <2>2. f \in [0..N -> S] /\ f[0] = s
        BY <1>5 DEF IsLoop
    <2>3. \A k \in 0..N : f[k] = IF k = 0 THEN s ELSE Turn(q, f[k - 1], ef, layer)
        <3> HIDE DEF step, N
        <3> QED BY <1>1, <2>1, <2>2
    <2> HIDE DEF step, N
    <2> QED BY <2>2, <2>3
<1>7. F = [k \in 0..N |-> IF k = 0 THEN s ELSE Turn(q, F[k - 1], ef, layer)]
    BY <1>6 DEF Turns, Begin
<1>8. F[0] = s /\ \A k \in 1..N : F[k] = Turn(q, F[k - 1], ef, layer)
    <2> HIDE DEF F, N, s
    <2>1. 0 \in 0..N /\ \A k \in 1..N : k \in 0..N /\ k # 0
        BY <1>1
    <2> QED BY <1>7, <2>1
<1> DEFINE Holds(k) == F[k] \in S /\ \A j \in 0..k : F[j].visited \subseteq F[k].visited
<1> DEFINE P == {k \in 0..N : Holds(k)}
<1>9. 0 \in P
    BY <1>1, <1>4, <1>8
<1>10. ASSUME NEW k \in 1..N, k - 1 \in P PROVE k \in P
    <2>1. Holds(k - 1)
        <3> HIDE DEF Holds, N
        <3> QED BY <1>10
    <2>2. F[k] = Turn(q, F[k - 1], ef, layer) /\ k \in 0..N
        BY <1>8
    <2> HIDE DEF F, S, N
    <2>3. F[k] \in S /\ F[k - 1].visited \subseteq F[k].visited
        BY <1>2, <2>1, <2>2
    <2>4. \A j \in 0..k : j \in 0..(k - 1) \/ j = k
        BY <1>1 DEF N
    <2> QED BY <2>1, <2>2, <2>3, <2>4
<1>11. \A k \in 0..N : Holds(k)
    <2>1. \A k \in 0..N : k \in P
        <3> HIDE DEF P, N
        <3> QED BY <1>1, <1>9, <1>10, Counting
    <2> HIDE DEF Holds, N
    <2> QED BY <2>1
<1> HIDE DEF F, S, s
<1> QED BY <1>8, <1>11 DEF F, S, s

\* The best of some nodes are some of them.
LEMMA BestNonempty ==
    ASSUME NEW q \in Ids, NEW S \in SUBSET Ids, S # {}, NEW n \in Nat \ {0}
    PROVE  Best(q, S, n) # {}
<1>1. Cardinality(S) \in Nat
    BY IdsFact
<1>2. CASE Cardinality(S) <= n
    BY <1>2, BestFact
<1>3. CASE Cardinality(S) >= n
    <2>1. Cardinality(Best(q, S, n)) = n
        BY <1>3, BestFact
    <2> QED BY <2>1, FS_EmptySet
<1> QED BY <1>1, <1>2, <1>3

\* A search of a layer answers with the best of the nodes it has visited.
LEMMA SearchLayerFact ==
    ASSUME LinksTyped, LinksSound, NEW q \in Ids, NEW ef \in Nat \ {0}, NEW layer \in Layers,
           NEW entries \in SUBSET Nodes
    PROVE  /\ SearchLayer(q, entries, ef, layer) \in SUBSET Nodes
           /\ entries # {} => SearchLayer(q, entries, ef, layer) # {}
<1> DEFINE N == 3 * ef
<1> DEFINE F == Turns(q, entries, ef, layer)
<1>1. 0 \in 0..N /\ N \in 0..N
    OBVIOUS
<1>2. F[0] = Begin(q, entries, ef) /\ F[N] \in Searches(q, ef) /\ F[0].visited \subseteq F[N].visited
    BY <1>1, TurnsFact
<1>3. SearchLayer(q, entries, ef, layer) = F[N].results
    BY DEF SearchLayer
<1> HIDE DEF F, N
<1>4. /\ F[N].visited \in SUBSET Nodes /\ F[N].results \in SUBSET Nodes
      /\ F[N].results = Best(q, F[N].visited, ef) /\ entries \subseteq F[N].visited
    BY <1>2 DEF Searches, Begin
<1>5. F[N].visited \in SUBSET Ids
    BY <1>4 DEF Nodes
<1>6. F[N].visited # {} => Best(q, F[N].visited, ef) # {}
    BY <1>5, BestNonempty
<1> QED BY <1>3, <1>4, <1>6

\* A search that keeps as many nodes as there are finds what a walk reaches.
LEMMA SearchLayerReach ==
    ASSUME LinksTyped, LinksSound, NEW q \in Ids, NEW ef \in Nat \ {0}, NEW entries \in SUBSET Nodes,
           Cardinality(Nodes) <= ef
    PROVE  SearchLayer(q, entries, ef, 0) = Reach(entries)
<1> DEFINE N == 3 * ef
<1> DEFINE F == Turns(q, entries, ef, 0)
<1> DEFINE R == Reach(entries)
<1>1. 0 \in Layers /\ N \in Nat /\ Nodes \in SUBSET Ids /\ Cardinality(Nodes) \in Nat
    BY ConstantsAssumption, IdsFact DEF ConstantsAssumption, Layers, Nodes
<1>2. /\ F[0] = Begin(q, entries, ef)
      /\ \A k \in 1..N : F[k] = Turn(q, F[k - 1], ef, 0)
      /\ \A k \in 0..N : F[k] \in Searches(q, ef) /\ \A j \in 0..k : F[j].visited \subseteq F[k].visited
    BY <1>1, TurnsFact
<1>3. ClosedOnLayer0(R) /\ R \in SUBSET Ids
    <2>1. ASSUME NEW n \in R, NEW i \in ToSet(neighbors[n][0]) PROVE i \in R
        <3>1. n \in Ids
            BY DEF Reach
        <3>2. i \in Ids
            BY <1>1, <3>1, LinksLead
        <3>3. ASSUME NEW T \in SUBSET Ids, entries \subseteq T, ClosedOnLayer0(T) PROVE i \in T
            <4>1. n \in T
                BY <3>3 DEF Reach
            <4> QED BY <3>3, <4>1 DEF ClosedOnLayer0
        <3> QED BY <3>2, <3>3 DEF Reach
    <2> QED BY <2>1 DEF ClosedOnLayer0, Reach
<1> HIDE DEF F, R
<1> DEFINE Holds(k) ==
        /\ F[k].visited \subseteq R /\ Followed(F[k])
        /\ Complete(F[k]) \/ Cardinality(Passed(F[k])) = k
<1> DEFINE P == {k \in 0..N : Holds(k)}
<1>4. 0 \in P
    <2>1. F[0].visited = entries /\ Passed(F[0]) = {}
        BY <1>2, BeginFact DEF Begin
    <2>2. entries \subseteq R
        BY <1>1 DEF R, Reach
    <2>3. Followed(F[0]) /\ Cardinality(Passed(F[0])) = 0
        BY <2>1, FS_EmptySet DEF Followed
    <2> QED BY <1>1, <2>1, <2>2, <2>3
<1>5. ASSUME NEW k \in 1..N, k - 1 \in P PROVE k \in P
    <2>1. Holds(k - 1)
        <3> HIDE DEF Holds, N
        <3> QED BY <1>5
    <2>2. /\ F[k] = Turn(q, F[k - 1], ef, 0)
          /\ F[k - 1] \in Searches(q, ef) /\ k \in 0..N
        <3>1. k - 1 \in 0..N /\ k \in 0..N
            BY <1>1
        <3> HIDE DEF N
        <3> QED BY <1>2, <3>1
    <2>3. F[k].visited \subseteq R
        BY <1>1, <1>3, <2>1, <2>2, TurnFact
    <2>4. /\ Followed(F[k])
          /\ Complete(F[k - 1]) => Complete(F[k])
          /\ ~Complete(F[k - 1]) => Cardinality(Passed(F[k])) = Cardinality(Passed(F[k - 1])) + 1
        BY <2>1, <2>2, TurnProgress
    <2> HIDE DEF N
    <2> QED BY <2>1, <2>2, <2>3, <2>4
<1>6. Holds(N)
    <2>1. \A k \in 0..N : k \in P
        <3> HIDE DEF P, N
        <3> QED BY <1>1, <1>4, <1>5, Counting
    <2> HIDE DEF Holds, N
    <2> QED BY <1>1, <2>1
<1>7. /\ F[N] \in Searches(q, ef) /\ entries \subseteq F[N].visited
    <2>1. 0 \in 0..N /\ N \in 0..N
        BY <1>1
    <2> HIDE DEF N
    <2> QED BY <1>2, <2>1 DEF Begin
<1>8. F[N].visited \in SUBSET Nodes /\ F[N].visited \in SUBSET Ids
    BY <1>1, <1>7 DEF Searches
<1>9. Complete(F[N])
    <2>1. Passed(F[N]) \in SUBSET Nodes
        BY <1>8 DEF Passed
    <2>2. Cardinality(Passed(F[N])) <= Cardinality(Nodes)
        BY <1>1, <2>1, SmallerFact
    <2>3. N > Cardinality(Nodes)
        BY <1>1
    <2> QED BY <1>1, <1>6, <2>2, <2>3
<1>10. ClosedOnLayer0(F[N].visited)
    <2>1. CASE F[N].visited = Nodes
        BY <1>1, <2>1, LinksLead DEF ClosedOnLayer0
    <2>2. CASE F[N].candidates = {}
        BY <1>6, <2>2 DEF Followed, Passed, ClosedOnLayer0
    <2> QED BY <1>9, <2>1, <2>2 DEF Complete
<1>11. R \subseteq F[N].visited
    BY <1>7, <1>8, <1>10 DEF R, Reach
<1>12. Best(q, F[N].visited, ef) = F[N].visited
    <2>1. Cardinality(F[N].visited) <= Cardinality(Nodes) /\ Cardinality(F[N].visited) \in Nat
        BY <1>1, <1>8, SmallerFact
    <2>2. Cardinality(F[N].visited) <= ef
        BY <1>1, <2>1
    <2> QED BY <1>8, <2>2, BestFact
<1>13. F[N].results = R
    BY <1>6, <1>7, <1>11, <1>12 DEF Searches
<1> QED BY <1>13 DEF SearchLayer, F, R

\* Every node of layer 0 links to every other.
AllLinked == \A n \in Nodes : ToSet(neighbors[n][0]) = Nodes \ {n}

\* Where all are linked with all, the first turn visits every node.
LEMMA SearchLayerAll ==
    ASSUME LinksTyped, LinksSound, AllLinked, NEW q \in Ids, NEW ef \in Nat \ {0},
           NEW entries \in SUBSET Nodes, entries # {}
    PROVE  SearchLayer(q, entries, ef, 0) = Best(q, Nodes, ef)
<1> DEFINE N == 3 * ef
<1> DEFINE F == Turns(q, entries, ef, 0)
<1> DEFINE s == Begin(q, entries, ef)
<1> DEFINE this == Nearest(q, entries)
<1> DEFINE rest == [s EXCEPT !.candidates = @ \ {this}]
<1>1. /\ 0 \in Layers /\ N \in Nat /\ 1 \in 1..N /\ 1 \in 0..N /\ N \in 0..N
      /\ Nodes \in SUBSET Ids /\ entries \in SUBSET Ids
    BY ConstantsAssumption DEF ConstantsAssumption, Layers, Nodes
<1>2. /\ F[0] = s
      /\ \A k \in 1..N : F[k] = Turn(q, F[k - 1], ef, 0)
      /\ \A k \in 0..N : F[k] \in Searches(q, ef) /\ \A j \in 0..k : F[j].visited \subseteq F[k].visited
    BY <1>1, TurnsFact
<1>3. F[1] = Turn(q, s, ef, 0)
    <2> HIDE DEF F, N, s
    <2>1. F[1] = Turn(q, F[1 - 1], ef, 0)
        BY <1>1, <1>2
    <2> QED BY <1>2, <2>1
<1>4. s \in Searches(q, ef) /\ s.candidates = entries /\ s.visited = entries
    BY BeginFact DEF Begin
<1>5. this \in entries /\ \A i \in entries : Distance[q][this] <= Distance[q][i]
    BY <1>1, NearestFact
<1>6. s.results \in SUBSET entries /\ s.results # {}
    BY <1>1, BestNonempty DEF Begin, Best
<1>7. Turn(q, s, ef, 0) = Expand(q, rest, ef, neighbors[this][0])
    <2> DEFINE far == Farthest(q, s.results)
    <2>1. far \in entries
        <3> HIDE DEF s
        <3>1. s.results \in SUBSET Ids
            BY <1>1, <1>6
        <3> QED BY <1>6, <3>1, NearestFact
    <2>2. Distance[q][this] \in Nat /\ Distance[q][far] \in Nat /\ Distance[q][this] <= Distance[q][far]
        <3> HIDE DEF far, this
        <3>1. far \in Ids /\ this \in Ids
            BY <1>1, <1>5, <2>1
        <3> QED BY <1>5, <2>1, <3>1, DistanceFact
    <2>3. /\ ~(10 * Distance[q][this] > 11 * Distance[q][far])
          /\ ~(Distance[q][this] > Distance[q][far])
        <3> HIDE DEF far, this
        <3> QED BY <2>2
    <2>4. Turn(q, s, ef, 0) =
            IF \/ s.candidates = {}
               \/ Cardinality(s.results) >= ef /\ 10 * Distance[q][this] > 11 * Distance[q][far]
            THEN s
            ELSE IF Cardinality(s.results) >= ef /\ Distance[q][this] > Distance[q][far] THEN rest
            ELSE Expand(q, rest, ef, neighbors[this][0])
        <3>1. Nearest(q, s.candidates) = this
            BY <1>4
        <3> HIDE DEF s, this
        <3> QED BY <3>1 DEF Turn
    <2> HIDE DEF s, this, far, rest
    <2> QED BY <1>4, <2>3, <2>4
<1>8. rest \in Searches(q, ef) /\ rest.visited = entries
    <2> HIDE DEF this
    <2> QED BY <1>4 DEF Searches, Begin
<1>9. this \in Nodes /\ neighbors[this][0] \in Seq(Nodes)
    BY <1>1, <1>5, LinksLead
<1>10. F[1].visited = entries \cup ToSet(neighbors[this][0])
    <2> HIDE DEF F, s, rest, this
    <2> QED BY <1>3, <1>7, <1>8, <1>9, ExpandFact
<1>11. F[1].visited = Nodes
    <2> HIDE DEF F, this
    <2>1. ToSet(neighbors[this][0]) = Nodes \ {this}
        BY <1>9 DEF AllLinked
    <2> QED BY <1>5, <1>10, <2>1
<1>12. F[N] \in Searches(q, ef) /\ F[1].visited \subseteq F[N].visited
    <2>1. 1 \in 0..N /\ N \in 0..N
        BY <1>1
    <2> HIDE DEF F, N, s
    <2> QED BY <1>2, <2>1
<1> HIDE DEF F, s, N
<1>13. F[N].visited = Nodes /\ F[N].results = Best(q, Nodes, ef)
    <2>1. /\ F[N].visited \in SUBSET Nodes
          /\ F[N].results = Best(q, F[N].visited, ef)
        BY <1>12 DEF Searches
    <2> QED BY <1>11, <1>12, <2>1
<1> QED BY <1>13 DEF SearchLayer, F, N

-----------------------------------------------------------------------------
(* The descent through the layers. *)

\* How much each layer keeps.
Widths == [Layers -> Nat \ {0}]

\* Each layer's search starts from what the layer above it found, all of it nodes.
LEMMA DescentFact ==
    ASSUME LinksTyped, LinksSound, EntryIsTop, NEW q \in Ids, NEW ef \in Widths
    PROVE  LET F == Descent(q, ef)
           IN  /\ F[TopLevel + 1] = entryPoint
               /\ \A l \in Layers : F[l] = SearchLayer(q, F[l + 1], ef[l], l)
               /\ \A l \in 0..(TopLevel + 1) : /\ F[l] \in SUBSET Nodes
                                               /\ entryPoint # {} => F[l] # {}
<1> DEFINE S == SUBSET Nodes
<1> DEFINE N == TopLevel + 1
<1> DEFINE step == [k \in 1..N |-> [e \in S |-> SearchLayer(q, e, ef[N - k], N - k)]]
<1> DEFINE F == Descent(q, ef)
<1>1. TopLevel \in Nat /\ N \in Nat /\ Layers = 0..TopLevel
    BY ConstantsAssumption DEF ConstantsAssumption, Layers
<1>2. \A k \in 1..N : N - k \in Layers /\ ef[N - k] \in Nat \ {0}
    BY <1>1 DEF Widths
<1>3. ASSUME NEW l \in Layers, NEW e \in S
      PROVE  SearchLayer(q, e, ef[l], l) \in S /\ (e # {} => SearchLayer(q, e, ef[l], l) # {})
    <2>1. ef[l] \in Nat \ {0}
        BY DEF Widths
    <2> QED BY <2>1, SearchLayerFact
<1>4. step \in Steps(N, S)
    <2> HIDE DEF S, N
    <2> QED BY <1>2, <1>3 DEF Steps
<1>5. entryPoint \in S
    BY DEF EntryIsTop
<1>6. PICK g : IsLoop(g, N, S, entryPoint, step)
    <2> HIDE DEF step, S, N
    <2> QED BY <1>1, <1>4, <1>5, Iteration
<1> DEFINE f == [l \in 0..N |-> g[N - l]]
<1>7. f = [l \in 0..N |-> IF l > TopLevel THEN entryPoint ELSE SearchLayer(q, f[l + 1], ef[l], l)]
    <2> SUFFICES ASSUME NEW l \in 0..N
                 PROVE  f[l] = IF l > TopLevel THEN entryPoint ELSE SearchLayer(q, f[l + 1], ef[l], l)
        OBVIOUS
    <2>1. CASE l > TopLevel
        <3>1. l = N /\ f[l] = g[0]
            BY <1>1, <2>1
        <3> QED BY <1>6, <2>1, <3>1 DEF IsLoop
    <2>2. CASE ~(l > TopLevel)
        <3> DEFINE k == N - l
        <3>1. k \in 1..N /\ k - 1 \in 0..N /\ N - k = l /\ l + 1 \in 0..N /\ N - (l + 1) = k - 1
            BY <1>1, <2>2
        <3>2. f[l] = g[k] /\ f[l + 1] = g[k - 1]
            BY <3>1
        <3>3. g[k] = step[k][g[k - 1]] /\ g[k - 1] \in S
            <4> HIDE DEF step, S, N, k
            <4> QED BY <1>6, <3>1 DEF IsLoop
        <3>4. step[k][g[k - 1]] = SearchLayer(q, g[k - 1], ef[N - k], N - k)
            <4> HIDE DEF S, k
            <4> QED BY <3>1, <3>3
        <3> HIDE DEF step, f, k
        <3> QED BY <2>2, <3>1, <3>2, <3>3, <3>4
    <2> QED BY <2>1, <2>2
<1>8. F = [l \in 0..N |-> IF l > TopLevel THEN entryPoint ELSE SearchLayer(q, F[l + 1], ef[l], l)]
    <2> HIDE DEF f
    <2> QED BY <1>7 DEF Descent
<1>9. F[N] = entryPoint /\ \A l \in Layers : F[l] = SearchLayer(q, F[l + 1], ef[l], l)
    <2> HIDE DEF F
    <2>1. N \in 0..N /\ N > TopLevel
        BY <1>1
    <2>2. \A l \in Layers : l \in 0..N /\ ~(l > TopLevel)
        BY <1>1
    <2> HIDE DEF N
    <2> QED BY <1>8, <2>1, <2>2
<1> DEFINE Holds(l) == F[l] \in S /\ (entryPoint # {} => F[l] # {})
<1> DEFINE P == {k \in 0..N : Holds(N - k)}
<1>10. 0 \in P
    <2>1. Holds(N)
        <3> HIDE DEF F, S, N
        <3> QED BY <1>5, <1>9
    <2> HIDE DEF Holds
    <2> QED BY <1>1, <2>1
<1>11. ASSUME NEW k \in 1..N, k - 1 \in P PROVE k \in P
    <2> DEFINE l == N - k
    <2>1. l \in Layers /\ N - (k - 1) = l + 1 /\ k \in 0..N
        BY <1>1
    <2>2. Holds(N - (k - 1))
        <3> HIDE DEF Holds, N
        <3> QED BY <1>11
    <2>3. F[l] = SearchLayer(q, F[l + 1], ef[l], l)
        BY <1>9, <2>1
    <2>4. Holds(l)
        <3> HIDE DEF F, S, l, N
        <3> QED BY <1>3, <2>1, <2>2, <2>3
    <2> HIDE DEF Holds, N
    <2> QED BY <2>1, <2>4
<1>12. ASSUME NEW l \in 0..N PROVE Holds(l)
    <2>1. \A k \in 0..N : k \in P
        <3> HIDE DEF P, N
        <3> QED BY <1>1, <1>10, <1>11, Counting
    <2>2. N - l \in 0..N /\ N - (N - l) = l
        BY <1>1
    <2>3. Holds(N - (N - l))
        <3> HIDE DEF Holds
        <3> QED BY <2>1, <2>2
    <2> HIDE DEF Holds
    <2> QED BY <2>2, <2>3
<1> HIDE DEF F
<1> QED BY <1>9, <1>12 DEF F

-----------------------------------------------------------------------------
(* What a search answers. *)

\* FirstOf takes the first n of a sequence, or all of it.
LEMMA FirstOfFact ==
    ASSUME NEW T, NEW s \in Seq(T), NEW n \in Nat
    PROVE  /\ FirstOf(s, n) \in Seq(T)
           /\ Len(FirstOf(s, n)) = IF n < Len(s) THEN n ELSE Len(s)
           /\ \A k \in 1..Len(FirstOf(s, n)) : FirstOf(s, n)[k] = s[k]
<1> DEFINE m == IF n < Len(s) THEN n ELSE Len(s)
<1>1. m \in 0..Len(s)
    OBVIOUS
<1> HIDE DEF m
<1>2. SubSeq(s, 1, m) \in Seq(T) /\ Len(SubSeq(s, 1, m)) = m
    BY <1>1
<1>3. \A k \in 1..m : SubSeq(s, 1, m)[k] = s[k]
    BY <1>1
<1>4. FirstOf(s, n) = SubSeq(s, 1, m)
    BY DEF FirstOf, m
<1> QED BY <1>2, <1>3, <1>4 DEF m

\* What is best comes first: a search that keeps n or more loses none of the first k.
LEMMA BestFirst ==
    ASSUME NEW q \in Ids, NEW S \in SUBSET Ids, NEW n \in Nat, NEW k \in 0..n
    PROVE  FirstOf(Sorted(q, Best(q, S, n)), k) = FirstOf(Sorted(q, S), k)
<1> DEFINE B == Best(q, S, n)
<1>1. B \in SUBSET S /\ B \in SUBSET Ids /\ Cardinality(S) \in Nat
    BY IdsFact, BestFact
<1>2. CASE Cardinality(S) <= n
    BY <1>2, BestFact
<1>3. CASE Cardinality(S) > n
    <2>1. Cardinality(B) = n
        BY <1>1, <1>3, BestFact
    <2>2. ASSUME NEW i \in B PROVE Rank(q, B, i) = Rank(q, S, i)
        <3>1. Nearer(q, S, i) \subseteq B
            <4> SUFFICES ASSUME NEW j \in S \ B, Distance[q][j] < Distance[q][i] PROVE FALSE
                BY DEF Nearer
            <4>1. Distance[q][i] < Distance[q][j]
                BY BestNearer
            <4>2. Distance[q][i] \in Nat /\ Distance[q][j] \in Nat
                BY <1>1, DistanceFact
            <4> QED BY <4>1, <4>2
        <3>2. Nearer(q, B, i) = Nearer(q, S, i)
            BY <1>1, <3>1 DEF Nearer
        <3>3. i \in Ids
            BY <1>1
        <3> HIDE DEF B
        <3>4. Rank(q, B, i) = Cardinality(Nearer(q, B, i)) /\ Rank(q, S, i) = Cardinality(Nearer(q, S, i))
            BY <1>1, <3>3, RankIs
        <3> QED BY <3>2, <3>4
    <2>3. ASSUME NEW j \in 1..n PROVE Sorted(q, B)[j] = Sorted(q, S)[j]
        <3> HIDE DEF B
        <3>1. Sorted(q, B)[j] \in B /\ Rank(q, B, Sorted(q, B)[j]) = j - 1
            BY <1>1, <2>1, SortedFact
        <3>2. j \in 1..Cardinality(S)
            BY <1>1, <1>3
        <3>3. Sorted(q, S)[j] \in S /\ Rank(q, S, Sorted(q, S)[j]) = j - 1
            BY <3>2, SortedFact
        <3>4. Sorted(q, B)[j] \in S /\ Rank(q, S, Sorted(q, B)[j]) = j - 1
            BY <1>1, <2>2, <3>1
        <3>5. \A a, b \in S : Rank(q, S, a) = Rank(q, S, b) => a = b
            BY RankFact
        <3> QED BY <3>3, <3>4, <3>5
    <2> DEFINE b == Sorted(q, B)
    <2> DEFINE s == Sorted(q, S)
    <2>4. b \in Seq(Ids) /\ Len(b) = n /\ s \in Seq(Ids) /\ Len(s) = Cardinality(S)
        <3> HIDE DEF B
        <3>1. b \in Seq(B) /\ Len(b) = n /\ s \in Seq(S) /\ Len(s) = Cardinality(S)
            BY <1>1, <2>1, SortedFact
        <3> HIDE DEF b, s
        <3> QED BY <1>1, <3>1
    <2> HIDE DEF b, s, B
    <2>5. FirstOf(b, k) \in Seq(Ids) /\ Len(FirstOf(b, k)) = k /\ \A j \in 1..k : FirstOf(b, k)[j] = b[j]
        BY <2>4, FirstOfFact
    <2>6. FirstOf(s, k) \in Seq(Ids) /\ Len(FirstOf(s, k)) = k /\ \A j \in 1..k : FirstOf(s, k)[j] = s[j]
        <3>1. k < Len(s) /\ k \in Nat
            BY <1>1, <1>3, <2>4
        <3> QED BY <2>4, <3>1, FirstOfFact
    <2>7. \A j \in 1..k : FirstOf(b, k)[j] = FirstOf(s, k)[j]
        BY <2>3, <2>5, <2>6 DEF b, s
    <2>8. FirstOf(b, k) = FirstOf(s, k)
        BY <2>5, <2>6, <2>7, SeqEqual
    <2> QED BY <2>8 DEF b, s, B
<1> QED BY <1>1, <1>2, <1>3

\* Layers that are searched alike give the same start to the one below them.
LEMMA SameStart ==
    ASSUME LinksTyped, LinksSound, EntryIsTop, NEW q \in Ids, NEW v \in Widths, NEW w \in Widths,
           \A l \in Layers \ {0} : v[l] = w[l]
    PROVE  Descent(q, v)[1] = Descent(q, w)[1]
<1> DEFINE N == TopLevel + 1
<1> DEFINE F == Descent(q, v)
<1> DEFINE G == Descent(q, w)
<1>1. TopLevel \in Nat /\ N \in Nat /\ Layers = 0..TopLevel
    BY ConstantsAssumption DEF ConstantsAssumption, Layers
<1>2. /\ F[N] = entryPoint /\ G[N] = entryPoint
      /\ \A l \in Layers : F[l] = SearchLayer(q, F[l + 1], v[l], l)
      /\ \A l \in Layers : G[l] = SearchLayer(q, G[l + 1], w[l], l)
    BY DescentFact
<1> HIDE DEF F, G
<1> DEFINE P == {k \in 0..TopLevel : F[N - k] = G[N - k]}
<1>3. 0 \in P
    BY <1>1, <1>2
<1>4. ASSUME NEW k \in 1..TopLevel, k - 1 \in P PROVE k \in P
    <2> DEFINE l == N - k
    <2>1. l \in Layers \ {0} /\ N - (k - 1) = l + 1 /\ k \in 0..TopLevel
        BY <1>1
    <2>2. F[N - (k - 1)] = G[N - (k - 1)]
        <3> HIDE DEF N
        <3> QED BY <1>4
    <2>3. F[l] = G[l]
        <3> HIDE DEF l, N
        <3> QED BY <1>2, <2>1, <2>2
    <2> HIDE DEF N
    <2> QED BY <2>1, <2>3
<1>5. TopLevel \in P
    <2>1. \A k \in 0..TopLevel : k \in P
        <3> HIDE DEF P, N
        <3> QED BY <1>1, <1>3, <1>4, Counting
    <2> HIDE DEF P
    <2> QED BY <1>1, <2>1
<1>6. N - TopLevel = 1
    BY <1>1
<1>7. F[N - TopLevel] = G[N - TopLevel]
    <2> HIDE DEF N
    <2> QED BY <1>5
<1> HIDE DEF N
<1> QED BY <1>6, <1>7 DEF F, G

\* How much the layers keep in a search for k nodes.
Width(k) == [l \in Layers |-> IF l = 0 THEN Larger(EfConstruct, k) ELSE 1]

\* The answer of a search comes from layer 0, entered where the layers above it led.
LEMMA SearchFact ==
    ASSUME LinksTyped, LinksSound, EntryIsTop, entryPoint # {}, NEW q \in Ids, NEW k \in Nat \ {0}
    PROVE  LET ef == Larger(EfConstruct, k)
           IN  /\ ef \in Nat \ {0} /\ k <= ef
               /\ Start(q) \in SUBSET Nodes /\ Start(q) # {}
               /\ Search(q, k) = FirstOf(Sorted(q, SearchLayer(q, Start(q), ef, 0)), k)
<1> DEFINE ef == Larger(EfConstruct, k)
<1> DEFINE F == Descent(q, Width(k))
<1> DEFINE Ones == [l \in Layers |-> 1]
<1>1. EfConstruct \in Nat \ {0} /\ TopLevel \in Nat /\ Layers = 0..TopLevel
    BY ConstantsAssumption DEF ConstantsAssumption, Layers
<1>2. ef \in Nat \ {0} /\ k <= ef
    BY <1>1 DEF Larger
<1>3. /\ Width(k) \in Widths /\ Ones \in Widths /\ Width(k)[0] = ef
      /\ \A l \in Layers \ {0} : Width(k)[l] = Ones[l]
    <2> HIDE DEF ef
    <2>1. Larger(EfConstruct, k) \in Nat \ {0}
        BY <1>2 DEF ef
    <2> QED BY <1>1, <2>1 DEF Width, Widths, ef
<1>4. F[1] = Start(q)
    <2> HIDE DEF Ones
    <2>1. Descent(q, Width(k))[1] = Descent(q, Ones)[1]
        BY <1>3, SameStart
    <2> QED BY <2>1 DEF Start, Ones
<1>5. /\ F[0] = SearchLayer(q, F[0 + 1], Width(k)[0], 0)
      /\ F[1] \in SUBSET Nodes /\ F[1] # {}
    <2>1. 0 \in Layers /\ 1 \in 0..(TopLevel + 1)
        BY <1>1
    <2> QED BY <1>3, <2>1, DescentFact
<1>6. Search(q, k) = FirstOf(Sorted(q, F[0]), k)
    BY DEF Search, Width
<1>7. F[0 + 1] = F[1]
    OBVIOUS
<1> HIDE DEF F, ef
<1> QED BY <1>2, <1>3, <1>4, <1>5, <1>6, <1>7 DEF ef

\* Sound links and an entry point on top make every wide search find what a walk reaches.
LEMMA FindsReachable ==
    ASSUME LinksTyped, LinksSound, EntryIsTop
    PROVE  SearchFindsReachable
<1> SUFFICES ASSUME entryPoint # {}, NEW q \in Ids, NEW k \in 1..Cardinality(Ids),
                    Cardinality(Nodes) <= Larger(EfConstruct, k)
             PROVE  Search(q, k) = FirstOf(Sorted(q, Reach(Start(q))), k)
    BY DEF SearchFindsReachable
<1> DEFINE ef == Larger(EfConstruct, k)
<1>1. Cardinality(Ids) \in Nat
    BY IdsFact
<1>2. k \in Nat \ {0}
    BY <1>1
<1>3. /\ ef \in Nat \ {0} /\ Start(q) \in SUBSET Nodes
      /\ Search(q, k) = FirstOf(Sorted(q, SearchLayer(q, Start(q), ef, 0)), k)
    BY <1>2, SearchFact
<1>4. SearchLayer(q, Start(q), ef, 0) = Reach(Start(q))
    BY <1>3, SearchLayerReach
<1> QED BY <1>3, <1>4

\* A small index has every node of layer 0 linked to every other.
Small == peak <= 2 * M + 1 /\ peak <= EfConstruct + 1
SmallLinked == Small => AllLinked

\* Its searches are exact.
LEMMA FindsAll ==
    ASSUME LinksTyped, LinksSound, EntryIsTop, SmallLinked
    PROVE  SmallIndexExact
<1> SUFFICES ASSUME Small, NEW q \in Ids, NEW k \in 1..Cardinality(Ids)
             PROVE  Search(q, k) = FirstOf(Sorted(q, Nodes), k)
    BY DEF SmallIndexExact, Small
<1> DEFINE ef == Larger(EfConstruct, k)
<1>1. Cardinality(Ids) \in Nat
    BY IdsFact
<1>2. k \in Nat \ {0} /\ AllLinked /\ Nodes \in SUBSET Ids
    BY <1>1 DEF SmallLinked, Nodes
<1>3. CASE entryPoint = {}
    <2>1. Nodes = {} /\ Search(q, k) = <<>>
        BY <1>3 DEF EntryIsTop, Search
    <2>2. Sorted(q, {}) \in Seq({}) /\ Len(Sorted(q, {})) = 0
        <3>1. Cardinality({}) = 0 /\ {} \in SUBSET Ids
            BY FS_EmptySet
        <3> QED BY <3>1, SortedFact
    <2>3. FirstOf(Sorted(q, {}), k) \in Seq({}) /\ Len(FirstOf(Sorted(q, {}), k)) = 0
        BY <1>2, <2>2, FirstOfFact
    <2>4. FirstOf(Sorted(q, {}), k) = <<>>
        BY <2>3, EmptySeq
    <2> QED BY <2>1, <2>4
<1>4. CASE entryPoint # {}
    <2>1. /\ ef \in Nat \ {0} /\ k <= ef /\ Start(q) \in SUBSET Nodes /\ Start(q) # {}
          /\ Search(q, k) = FirstOf(Sorted(q, SearchLayer(q, Start(q), ef, 0)), k)
        BY <1>2, <1>4, SearchFact
    <2>2. SearchLayer(q, Start(q), ef, 0) = Best(q, Nodes, ef)
        BY <1>2, <2>1, SearchLayerAll
    <2> HIDE DEF ef
    <2>3. k \in 0..ef
        BY <1>2, <2>1
    <2>4. FirstOf(Sorted(q, Best(q, Nodes, ef)), k) = FirstOf(Sorted(q, Nodes), k)
        BY <1>2, <2>1, <2>3, BestFirst
    <2> QED BY <2>1, <2>2, <2>4
<1> QED BY <1>3, <1>4

-----------------------------------------------------------------------------
(* Lists of links. *)

\* A list of at most n different IDs, all of them in S.
Tidy(s, S, n) == s \in Seq(Ids) /\ ToSet(s) \subseteq S /\ IsInjective(s) /\ Len(s) <= n

\* A node appended to a list it is not in leaves it without repetitions.
LEMMA AppendFact ==
    ASSUME NEW s \in Seq(Ids), NEW x \in Ids
    PROVE  /\ Append(s, x) \in Seq(Ids) /\ Len(Append(s, x)) = Len(s) + 1
           /\ ToSet(Append(s, x)) = ToSet(s) \cup {x}
           /\ IsInjective(s) /\ x \notin ToSet(s) => IsInjective(Append(s, x))
<1> DEFINE t == Append(s, x)
<1>1. /\ t \in Seq(Ids) /\ Len(t) = Len(s) + 1 /\ Len(s) \in Nat
      /\ t[Len(s) + 1] = x /\ \A k \in 1..Len(s) : t[k] = s[k]
    OBVIOUS
<1>2. DOMAIN t = 1..(Len(s) + 1) /\ DOMAIN s = 1..Len(s)
    BY <1>1
<1> HIDE DEF t
<1>3. ToSet(t) = ToSet(s) \cup {x}
    <2>1. \A k \in 1..(Len(s) + 1) : k \in 1..Len(s) \/ k = Len(s) + 1
        BY <1>1
    <2>2. \A k \in 1..Len(s) : k \in 1..(Len(s) + 1)
        BY <1>1
    <2>3. Len(s) + 1 \in 1..(Len(s) + 1)
        BY <1>1
    <2> QED BY <1>1, <1>2, <2>1, <2>2, <2>3 DEF ToSet
<1>4. ASSUME IsInjective(s), x \notin ToSet(s) PROVE IsInjective(t)
    <2> SUFFICES ASSUME NEW a \in 1..(Len(s) + 1), NEW b \in 1..(Len(s) + 1), t[a] = t[b]
                 PROVE  a = b
        BY <1>2 DEF IsInjective
    <2>1. (a \in 1..Len(s) \/ a = Len(s) + 1) /\ (b \in 1..Len(s) \/ b = Len(s) + 1)
        BY <1>1
    <2>2. \A k \in 1..Len(s) : s[k] \in ToSet(s)
        BY <1>2 DEF ToSet
    <2> QED BY <1>1, <1>2, <1>4, <2>1, <2>2 DEF IsInjective
<1> QED BY <1>1, <1>3, <1>4 DEF t

\* A list without repetitions is as long as its set is large.
LEMMA InjectiveLen ==
    ASSUME NEW s \in Seq(Ids), IsInjective(s)
    PROVE  Len(s) = Cardinality(ToSet(s))
<1>1. Len(s) \in Nat /\ DOMAIN s = 1..Len(s) /\ s \in [1..Len(s) -> ToSet(s)]
    BY DEF ToSet
<1>2. s \in Bijection(1..Len(s), ToSet(s))
    BY <1>1 DEF Bijection, Injection, Surjection, ToSet
<1>3. ExistsBijection(1..Len(s), ToSet(s))
    BY <1>2 DEF ExistsBijection
<1> QED BY <1>1, <1>3, FS_CountingElements

\* The first n of a sorted set are in it, and are the whole set if that is no larger.
LEMMA FirstSorted ==
    ASSUME NEW q \in Ids, NEW S \in SUBSET Ids, NEW n \in Nat
    PROVE  /\ Tidy(FirstOf(Sorted(q, S), n), S, n)
           /\ Cardinality(S) <= n => ToSet(FirstOf(Sorted(q, S), n)) = S
<1> DEFINE s == Sorted(q, S)
<1> DEFINE f == FirstOf(s, n)
<1>1. /\ s \in Seq(S) /\ Len(s) = Cardinality(S) /\ IsInjective(s) /\ ToSet(s) = S
    BY SortedFact
<1> HIDE DEF s
<1>2. /\ f \in Seq(S) /\ Len(f) = IF n < Len(s) THEN n ELSE Len(s)
      /\ \A k \in 1..Len(f) : f[k] = s[k]
    BY <1>1, FirstOfFact
<1> HIDE DEF f
<1>3. Len(f) <= n /\ Len(f) <= Len(s) /\ DOMAIN f = 1..Len(f) /\ DOMAIN s = 1..Len(s)
    BY <1>1, <1>2
<1>4. \A k \in 1..Len(f) : k \in 1..Len(s) /\ f[k] = s[k] /\ f[k] \in S
    BY <1>1, <1>2, <1>3
<1>5. IsInjective(f) /\ ToSet(f) \subseteq S
    BY <1>1, <1>3, <1>4 DEF IsInjective, ToSet
<1>6. f \in Seq(Ids)
    BY <1>2
<1>7. ASSUME Cardinality(S) <= n PROVE ToSet(f) = S
    <2>1. Len(f) = Len(s)
        BY <1>1, <1>2, <1>7
    <2> QED BY <1>1, <1>3, <1>4, <2>1 DEF ToSet
<1> QED BY <1>3, <1>5, <1>6, <1>7 DEF Tidy, f, s

\* Only keeps what is in the set, in the list's order and without repetitions.
LEMMA OnlyFact ==
    ASSUME NEW list \in Seq(Ids), NEW S
    PROVE  /\ Only(list, S) \in Seq(Ids) /\ Len(Only(list, S)) <= Len(list)
           /\ ToSet(Only(list, S)) = ToSet(list) \cap S
           /\ IsInjective(list) => IsInjective(Only(list, S))
<1> DEFINE N == Len(list)
<1> DEFINE Q == Seq(Ids)
<1> DEFINE step == [k \in 1..N |-> [r \in Q |-> IF list[k] \in S THEN Append(r, list[k]) ELSE r]]
<1> DEFINE F == CHOOSE From : From = [k \in 0..N |-> IF k = 0 THEN <<>>
                                                     ELSE IF list[k] \in S THEN Append(From[k - 1], list[k])
                                                     ELSE From[k - 1]]
<1>1. N \in Nat /\ \A k \in 1..N : list[k] \in Ids
    OBVIOUS
<1>2. step \in Steps(N, Q)
    <2> SUFFICES ASSUME NEW k \in 1..N, NEW r \in Q PROVE Append(r, list[k]) \in Q
        BY DEF Steps
    <2> QED BY <1>1
<1>3. PICK f : IsLoop(f, N, Q, <<>>, step)
    <2>1. <<>> \in Q
        OBVIOUS
    <2> HIDE DEF step, Q, N
    <2> QED BY <1>1, <1>2, <2>1, Iteration
<1>4. f = [k \in 0..N |-> IF k = 0 THEN <<>>
                          ELSE IF list[k] \in S THEN Append(f[k - 1], list[k])
                          ELSE f[k - 1]]
    <2> HIDE DEF Q
    <2>1. ASSUME NEW k \in 1..N
          PROVE f[k] = IF list[k] \in S THEN Append(f[k - 1], list[k]) ELSE f[k - 1]
        <3>1. f[k - 1] \in Q /\ f[k] = step[k][f[k - 1]]
            <4>1. k - 1 \in 0..N
                BY <1>1
            <4> HIDE DEF step, N
            <4> QED BY <1>3, <4>1 DEF IsLoop
        <3> QED BY <3>1
    <2>2. f \in [0..N -> Q] /\ f[0] = <<>>
        BY <1>3 DEF IsLoop
    <2>3. \A k \in 0..N : f[k] = IF k = 0 THEN <<>>
                                 ELSE IF list[k] \in S THEN Append(f[k - 1], list[k])
                                 ELSE f[k - 1]
        <3> HIDE DEF step
        <3> SUFFICES ASSUME NEW k \in 0..N
                     PROVE  f[k] = IF k = 0 THEN <<>>
                                   ELSE IF list[k] \in S THEN Append(f[k - 1], list[k])
                                   ELSE f[k - 1]
            OBVIOUS
        <3>1. CASE k = 0
            BY <2>2, <3>1
        <3>2. CASE k # 0
            <4>1. k \in 1..N
                BY <1>1, <3>2
            <4> HIDE DEF N
            <4> QED BY <2>1, <3>2, <4>1
        <3> QED BY <3>1, <3>2
    <2> HIDE DEF step, N
    <2> QED BY <2>2, <2>3
<1>5. F = [k \in 0..N |-> IF k = 0 THEN <<>>
                          ELSE IF list[k] \in S THEN Append(F[k - 1], list[k])
                          ELSE F[k - 1]]
    BY <1>4
<1>6. Only(list, S) = F[N]
    BY DEF Only
<1> HIDE DEF F
<1>7. F[0] = <<>> /\ \A k \in 1..N : F[k] = IF list[k] \in S THEN Append(F[k - 1], list[k]) ELSE F[k - 1]
    <2> HIDE DEF N
    <2>1. 0 \in 0..N /\ \A k \in 1..N : k \in 0..N /\ k # 0
        BY <1>1
    <2> QED BY <1>5, <2>1
<1> DEFINE Seen(k) == {list[j] : j \in 1..k}
<1> DEFINE Holds(k) == /\ F[k] \in Q /\ Len(F[k]) <= k /\ ToSet(F[k]) = Seen(k) \cap S
                       /\ IsInjective(list) => IsInjective(F[k])
<1> DEFINE P == {k \in 0..N : Holds(k)}
<1>8. 0 \in P
    <2>1. <<>> \in Q /\ Len(<<>>) = 0 /\ ToSet(<<>>) = {} /\ IsInjective(<<>>)
        BY DEF ToSet, IsInjective
    <2>2. Seen(0) = {}
        OBVIOUS
    <2> HIDE DEF Q, Seen, N
    <2>3. Holds(0) /\ 0 \in 0..N
        BY <1>1, <1>7, <2>1, <2>2
    <2> QED BY <2>3
<1>9. ASSUME NEW k \in 1..N, k - 1 \in P PROVE k \in P
    <2>1. Holds(k - 1)
        <3> HIDE DEF Holds, N
        <3> QED BY <1>9
    <2>2. Seen(k) = Seen(k - 1) \cup {list[k]} /\ k \in 0..N /\ list[k] \in Ids
        <3>1. 1..k = (1..(k - 1)) \cup {k}
            BY <1>1
        <3> QED BY <1>1, <3>1
    <2>3. IsInjective(list) => list[k] \notin Seen(k - 1)
        <3>1. \A j \in 1..(k - 1) : j \in DOMAIN list /\ k \in DOMAIN list /\ j # k
            BY <1>1
        <3> QED BY <3>1 DEF IsInjective
    <2>4. F[k] = IF list[k] \in S THEN Append(F[k - 1], list[k]) ELSE F[k - 1]
        BY <1>7
    <2>5. Len(F[k - 1]) \in Nat
        BY <2>1
    <2> HIDE DEF F, Seen, N
    <2>6. CASE list[k] \in S
        <3>1. /\ F[k] \in Q /\ Len(F[k]) = Len(F[k - 1]) + 1
              /\ ToSet(F[k]) = ToSet(F[k - 1]) \cup {list[k]}
              /\ IsInjective(F[k - 1]) /\ list[k] \notin ToSet(F[k - 1]) => IsInjective(F[k])
            BY <2>1, <2>2, <2>4, <2>6, AppendFact
        <3>2. Len(F[k]) <= k
            BY <2>1, <2>5, <3>1
        <3>3. ToSet(F[k]) = Seen(k) \cap S
            BY <2>1, <2>2, <2>6, <3>1
        <3> HIDE DEF Q
        <3> QED BY <2>1, <2>2, <2>3, <3>1, <3>2, <3>3
    <2>7. CASE list[k] \notin S
        <3>1. F[k] = F[k - 1]
            BY <2>4, <2>7
        <3>2. Len(F[k]) <= k
            BY <2>1, <2>5, <3>1
        <3>3. ToSet(F[k]) = Seen(k) \cap S
            BY <2>1, <2>2, <2>7, <3>1
        <3> HIDE DEF Q
        <3> QED BY <2>1, <2>2, <3>1, <3>2, <3>3
    <2> QED BY <2>6, <2>7
<1>10. Holds(N)
    <2>1. \A k \in 0..N : k \in P
        <3> HIDE DEF P, N
        <3> QED BY <1>1, <1>8, <1>9, Counting
    <2> HIDE DEF Holds, N
    <2> QED BY <1>1, <2>1
<1>11. Seen(N) = ToSet(list)
    BY <1>1 DEF ToSet
<1> HIDE DEF Seen
<1> QED BY <1>6, <1>10, <1>11

-----------------------------------------------------------------------------
(* What the operations do to the links. *)

\* The lists of a new node: the nearest of the nodes found, as many as the layer takes.
LEMMA ChosenFact ==
    ASSUME LinksTyped, LinksSound, EntryIsTop, NEW i \in Ids, NEW lev \in Layers
    PROVE  /\ \A l \in Layers : /\ Tidy(Chosen(i, lev)[l], Nodes, 2 * M)
                                /\ l > lev => Chosen(i, lev)[l] = <<>>
           /\ AllLinked /\ Cardinality(Nodes) <= 2 * M /\ Cardinality(Nodes) <= EfConstruct =>
                  ToSet(Chosen(i, lev)[0]) = Nodes
<1> DEFINE ef == [l \in Layers |-> IF l > lev THEN 1 ELSE EfConstruct]
<1> DEFINE F == Descent(i, ef)
<1>1. /\ M \in Nat \ {0} /\ EfConstruct \in Nat \ {0} /\ TopLevel \in Nat /\ Layers = 0..TopLevel
      /\ Nodes \in SUBSET Ids /\ Cardinality(Nodes) \in Nat
    BY ConstantsAssumption, IdsFact DEF ConstantsAssumption, Layers, Nodes
<1>2. ef \in Widths
    BY <1>1 DEF Widths
<1>3. /\ \A l \in Layers : F[l] = SearchLayer(i, F[l + 1], ef[l], l)
      /\ \A l \in 0..(TopLevel + 1) : F[l] \in SUBSET Nodes /\ (entryPoint # {} => F[l] # {})
    <2> HIDE DEF ef
    <2> QED BY <1>2, DescentFact
<1>4. \A l \in Layers : Chosen(i, lev)[l] = IF l > lev \/ entryPoint = {} THEN <<>>
                                            ELSE FirstOf(Sorted(i, F[l]), MaxConn(l))
    BY DEF Chosen
<1>5. Tidy(<<>>, Nodes, 2 * M) /\ ToSet(<<>>) = {}
    BY <1>1 DEF Tidy, ToSet, IsInjective
<1> HIDE DEF F
<1>6. ASSUME NEW l \in Layers
      PROVE  Tidy(Chosen(i, lev)[l], Nodes, 2 * M) /\ (l > lev => Chosen(i, lev)[l] = <<>>)
    <2>1. F[l] \in SUBSET Nodes /\ F[l] \in SUBSET Ids
        BY <1>1, <1>3
    <2>2. MaxConn(l) \in Nat /\ MaxConn(l) <= 2 * M
        BY <1>1 DEF MaxConn
    <2>3. Tidy(FirstOf(Sorted(i, F[l]), MaxConn(l)), F[l], MaxConn(l))
        BY <2>1, <2>2, FirstSorted
    <2>4. Tidy(FirstOf(Sorted(i, F[l]), MaxConn(l)), Nodes, 2 * M)
        BY <1>1, <2>1, <2>2, <2>3 DEF Tidy
    <2> QED BY <1>4, <1>5, <2>4
<1>7. ASSUME AllLinked, Cardinality(Nodes) <= 2 * M, Cardinality(Nodes) <= EfConstruct
      PROVE  ToSet(Chosen(i, lev)[0]) = Nodes
    <2>1. 0 \in Layers /\ ~(0 > lev)
        BY <1>1
    <2>2. CASE entryPoint = {}
        BY <1>4, <1>5, <2>1, <2>2 DEF EntryIsTop
    <2>3. CASE entryPoint # {}
        <3>1. F[0] = SearchLayer(i, F[1], EfConstruct, 0) /\ F[1] \in SUBSET Nodes /\ F[1] # {}
            <4>1. 1 \in 0..(TopLevel + 1) /\ 0 + 1 = 1 /\ ef[0] = EfConstruct
                BY <1>1, <2>1
            <4> HIDE DEF ef
            <4>2. F[0] = SearchLayer(i, F[0 + 1], ef[0], 0)
                BY <1>3, <2>1
            <4> QED BY <1>3, <2>3, <4>1, <4>2
        <3>2. F[0] = Best(i, Nodes, EfConstruct)
            BY <1>1, <1>7, <3>1, SearchLayerAll
        <3>3. F[0] = Nodes
            BY <1>1, <1>7, <3>2, BestFact
        <3>4. MaxConn(0) = 2 * M
            BY DEF MaxConn
        <3>5. ToSet(FirstOf(Sorted(i, Nodes), 2 * M)) = Nodes
            BY <1>1, <1>7, FirstSorted
        <3> QED BY <1>4, <2>1, <2>3, <3>3, <3>4, <3>5
    <2> QED BY <2>2, <2>3
<1> QED BY <1>6, <1>7

\* A list with its link back: at most as many as before or as the layer takes.
LEMMA LinkBackFact ==
    ASSUME LinksTyped, LinksSound, NEW i \in Ids \ Nodes, NEW n \in Nodes, NEW l \in Layers
    PROVE  /\ Tidy(LinkBack(n, i, l), (Nodes \cup {i}) \ {n}, 2 * M)
           /\ Cardinality(ToSet(neighbors[n][l])) + 1 <= MaxConn(l) =>
                  ToSet(LinkBack(n, i, l)) = ToSet(neighbors[n][l]) \cup {i}
<1> DEFINE s == neighbors[n][l]
<1> DEFINE longer == Append(s, i)
<1> DEFINE S == ToSet(longer) \cap (Nodes \cup {i})
<1>1. M \in Nat \ {0} /\ MaxConn(l) \in Nat /\ MaxConn(l) <= 2 * M /\ n \in Ids
    BY ConstantsAssumption DEF ConstantsAssumption, MaxConn, Nodes
<1>2. s \in Seq(Ids) /\ ToSet(s) \subseteq Nodes \ {n} /\ IsInjective(s)
    BY <1>1 DEF LinksTyped, LinksSound
<1> HIDE DEF s
<1>3. /\ longer \in Seq(Ids) /\ Len(longer) = Len(s) + 1 /\ Len(s) \in Nat
      /\ ToSet(longer) = ToSet(s) \cup {i} /\ IsInjective(longer)
    BY <1>2, AppendFact
<1>4. LinkBack(n, i, l) = IF Len(longer) <= MaxConn(l) THEN longer
                          ELSE FirstOf(Sorted(n, S), MaxConn(l))
    BY DEF LinkBack, s
<1> HIDE DEF longer, S
<1>5. ToSet(longer) \subseteq (Nodes \cup {i}) \ {n}
    BY <1>2, <1>3
<1>6. CASE Len(longer) <= MaxConn(l)
    <2>1. LinkBack(n, i, l) = longer
        BY <1>4, <1>6
    <2>2. Len(longer) <= 2 * M
        BY <1>1, <1>3, <1>6
    <2> QED BY <1>3, <1>5, <2>1, <2>2 DEF Tidy, s
<1>7. CASE ~(Len(longer) <= MaxConn(l))
    <2>1. S \subseteq (Nodes \cup {i}) \ {n} /\ S \in SUBSET Ids
        BY <1>5 DEF S, Nodes
    <2>2. Tidy(FirstOf(Sorted(n, S), MaxConn(l)), S, MaxConn(l))
        BY <1>1, <2>1, FirstSorted
    <2>3. Tidy(LinkBack(n, i, l), (Nodes \cup {i}) \ {n}, 2 * M)
        <3>1. LinkBack(n, i, l) = FirstOf(Sorted(n, S), MaxConn(l))
            BY <1>4, <1>7
        <3> QED BY <1>1, <2>1, <2>2, <3>1 DEF Tidy
    <2>4. Len(s) = Cardinality(ToSet(s))
        BY <1>2, InjectiveLen
    <2> QED BY <1>3, <1>7, <2>3, <2>4 DEF s
<1> QED BY <1>6, <1>7

\* The repair of a list after a removal: it loses the removed node, and gains at most
\* other nodes that it has not.
LEMMA ReconnectedFact ==
    ASSUME Shape, LinksTyped, LinksSound, NEW i \in Nodes, NEW n \in Ids \ {i}, NEW l \in Layers
    PROVE  /\ Tidy(Reconnected(n, i, l), Nodes \ {i, n}, 2 * M)
           /\ ToSet(neighbors[n][l]) \ {i} \subseteq ToSet(Reconnected(n, i, l))
           /\ l > level[n] => Reconnected(n, i, l) = <<>>
<1> DEFINE others == neighbors[i][l]
<1> DEFINE base == Unlinked(n, i, l)
<1> DEFINE N == Len(others)
<1> DEFINE D == ToSet(neighbors[n][l]) \ {i}
<1> DEFINE Q == {r \in Seq(Ids) : Tidy(r, Nodes \ {i, n}, 2 * M) /\ D \subseteq ToSet(r)}
<1> DEFINE step == [k \in 1..N |-> [r \in Q |-> Relinked(r, n, others[k], l)]]
<1> DEFINE F == CHOOSE After : After = [k \in 0..N |-> IF k = 0 THEN base
                                                      ELSE Relinked(After[k - 1], n, others[k], l)]
<1>1. M \in Nat \ {0} /\ i \in Ids
    BY ConstantsAssumption DEF ConstantsAssumption, Nodes
<1>2. /\ neighbors[n][l] \in Seq(Ids) /\ ToSet(neighbors[n][l]) \subseteq Nodes \ {n}
      /\ IsInjective(neighbors[n][l]) /\ Len(neighbors[n][l]) <= 2 * M
      /\ l > level[n] => neighbors[n][l] = <<>>
    BY DEF LinksTyped, LinksSound
<1>3. others \in Seq(Nodes) /\ ToSet(others) \subseteq Nodes \ {i}
    BY <1>1, LinksLead
<1>4. N \in Nat /\ \A k \in 1..N : others[k] \in Nodes \ {i}
    BY <1>3 DEF ToSet
<1>5. base \in Q
    <2>1. /\ base \in Seq(Ids) /\ Len(base) <= Len(neighbors[n][l])
          /\ ToSet(base) = ToSet(neighbors[n][l]) \cap (Ids \ {i}) /\ IsInjective(base)
        BY <1>2, OnlyFact DEF Unlinked
    <2>2. Len(base) \in Nat /\ Len(neighbors[n][l]) \in Nat
        BY <1>2, <2>1
    <2>3. Len(base) <= 2 * M
        BY <1>1, <1>2, <2>1, <2>2
    <2>4. ToSet(base) = D
        BY <1>2, <2>1 DEF Nodes
    <2> HIDE DEF base
    <2> QED BY <1>2, <2>1, <2>3, <2>4 DEF Tidy
<1>6. ASSUME NEW r \in Q, NEW x \in Nodes \ {i} PROVE Relinked(r, n, x, l) \in Q
    <2>1. CASE Relinked(r, n, x, l) = r
        BY <2>1
    <2>2. CASE /\ Relinked(r, n, x, l) = Append(r, x)
               /\ x # n /\ ~Contains(r, x) /\ ~(Len(r) >= 2 * M)
        <3>1. r \in Seq(Ids) /\ x \in Ids /\ Len(r) \in Nat
            BY DEF Nodes
        <3>2. /\ Append(r, x) \in Seq(Ids) /\ Len(Append(r, x)) = Len(r) + 1
              /\ ToSet(Append(r, x)) = ToSet(r) \cup {x}
              /\ IsInjective(r) /\ x \notin ToSet(r) => IsInjective(Append(r, x))
            BY <3>1, AppendFact
        <3>3. x \notin ToSet(r)
            BY <2>2, <3>1 DEF ToSet, Contains
        <3>4. Len(Append(r, x)) <= 2 * M
            BY <1>1, <2>2, <3>1, <3>2
        <3> QED BY <2>2, <3>2, <3>3, <3>4 DEF Tidy
    <2> HIDE DEF Q
    <2> QED BY <2>1, <2>2 DEF Relinked
<1>7. step \in Steps(N, Q)
    <2> HIDE DEF Q
    <2> QED BY <1>4, <1>6 DEF Steps
<1>8. PICK f : IsLoop(f, N, Q, base, step)
    <2> HIDE DEF step, Q, N, base
    <2> QED BY <1>4, <1>5, <1>7, Iteration
<1>9. f \in [0..N -> Q] /\ f = [k \in 0..N |-> IF k = 0 THEN base ELSE Relinked(f[k - 1], n, others[k], l)]
    <2> HIDE DEF Q, base, others
    <2>1. ASSUME NEW k \in 1..N PROVE f[k] = Relinked(f[k - 1], n, others[k], l)
        <3>1. f[k - 1] \in Q /\ f[k] = step[k][f[k - 1]]
            <4>1. k - 1 \in 0..N
                BY <1>4
            <4> HIDE DEF step, N
            <4> QED BY <1>8, <4>1 DEF IsLoop
        <3> QED BY <3>1
    <2>2. f \in [0..N -> Q] /\ f[0] = base
        BY <1>8 DEF IsLoop
    <2>3. \A k \in 0..N : f[k] = IF k = 0 THEN base ELSE Relinked(f[k - 1], n, others[k], l)
        <3> HIDE DEF step, N
        <3> QED BY <1>4, <2>1, <2>2
    <2> HIDE DEF step, N
    <2> QED BY <2>2, <2>3
<1>10. F = [k \in 0..N |-> IF k = 0 THEN base ELSE Relinked(F[k - 1], n, others[k], l)]
    <2> HIDE DEF base, others
    <2> QED BY <1>9
<1>11. Reconnected(n, i, l) = IF Contains(others, n) /\ l <= level[n] THEN F[N] ELSE base
    BY DEF Reconnected
<1> HIDE DEF F, base
<1>12. F[0] = base /\ \A k \in 1..N : F[k] = Relinked(F[k - 1], n, others[k], l)
    <2> HIDE DEF N, others
    <2>1. 0 \in 0..N /\ \A k \in 1..N : k \in 0..N /\ k # 0
        BY <1>4 DEF N
    <2> QED BY <1>10, <2>1
<1> DEFINE P == {k \in 0..N : F[k] \in Q}
<1>13. 0 \in P
    <2> HIDE DEF Q, N
    <2> QED BY <1>4, <1>5, <1>12
<1>14. ASSUME NEW k \in 1..N, k - 1 \in P PROVE k \in P
    <2> HIDE DEF Q, N
    <2>1. k \in 0..N
        BY <1>4
    <2> QED BY <1>4, <1>6, <1>12, <1>14, <2>1
<1>15. F[N] \in Q
    <2>1. \A k \in 0..N : k \in P
        <3> HIDE DEF P, N
        <3> QED BY <1>4, <1>13, <1>14, Counting
    <2> HIDE DEF Q, N
    <2> QED BY <1>4, <2>1
<1>16. Reconnected(n, i, l) \in Q
    <2> HIDE DEF Q
    <2> QED BY <1>5, <1>11, <1>15
<1>17. ASSUME l > level[n] PROVE Reconnected(n, i, l) = <<>>
    <2>1. level[n] \in Int /\ l \in Int
        BY LayerFact DEF Shape
    <2>2. ~(l <= level[n])
        BY <1>17, <2>1
    <2>3. base = Only(<<>>, Ids \ {i})
        BY <1>2, <1>17 DEF Unlinked, base
    <2>4. base \in Seq(Ids) /\ Len(base) <= 0
        <3>1. <<>> \in Seq(Ids) /\ Len(<<>>) = 0
            OBVIOUS
        <3>2. Only(<<>>, Ids \ {i}) \in Seq(Ids) /\ Len(Only(<<>>, Ids \ {i})) <= Len(<<>>)
            BY <3>1, OnlyFact
        <3> QED BY <2>3, <3>1, <3>2
    <2>5. base = <<>>
        BY <2>4, EmptySeq
    <2> QED BY <1>11, <2>2, <2>5
<1> QED BY <1>16, <1>17

-----------------------------------------------------------------------------
(* The inductive invariant of the links. *)

\* The history counts the nodes.
Counted == peak \in Nat /\ Cardinality(Nodes) <= peak

Links == LinksTyped /\ LinksSound /\ Counted /\ SmallLinked

\* Links are sound when every list is tidy and no list is above its node's level.
LEMMA LinksFrom ==
    ASSUME \A n \in Ids, l \in Layers : /\ Tidy(neighbors[n][l], Nodes \ {n}, 2 * M)
                                        /\ l > level[n] => neighbors[n][l] = <<>>
    PROVE  LinksSound
BY DEF LinksSound, Tidy

\* The empty index has no links.
LEMMA InitLinks == Init => Links
<1> SUFFICES ASSUME Init PROVE Links
    OBVIOUS
<1>1. M \in Nat \ {0}
    BY ConstantsAssumption DEF ConstantsAssumption
<1>2. neighbors = [i \in Ids |-> [l \in Layers |-> <<>>]] /\ Nodes = {} /\ peak = 0
    BY DEF Init, Nodes
<1>3. Tidy(<<>>, {}, 2 * M)
    BY <1>1 DEF Tidy, ToSet, IsInjective
<1>4. LinksTyped
    BY <1>2 DEF LinksTyped
<1>5. LinksSound
    BY <1>2, <1>3, LinksFrom DEF Tidy
<1>6. Counted /\ SmallLinked
    BY <1>2, FS_EmptySet DEF Counted, SmallLinked, AllLinked
<1> QED BY <1>4, <1>5, <1>6 DEF Links

\* Add links the new node both ways, and cuts a list it makes too long.
LEMMA AddKeepsLinks ==
    ASSUME IInv, Links, NEW i \in Ids, NEW lev \in Layers, Add(i, lev)
    PROVE  Links'
<1> DEFINE chosen == Chosen(i, lev)
<1> USE DEF Links
<1>1. /\ i \notin Nodes /\ level' = [level EXCEPT ![i] = lev]
      /\ neighbors' = [n \in Ids |-> [l \in Layers |->
             IF n = i THEN chosen[l]
             ELSE IF l <= level[n] /\ Contains(chosen[l], n) THEN LinkBack(n, i, l)
             ELSE neighbors[n][l]]]
      /\ peak' = Larger(peak, Cardinality(Nodes) + 1)
    BY DEF Add
<1>2. /\ M \in Nat \ {0} /\ EfConstruct \in Nat \ {0} /\ 0 \in Layers
      /\ Nodes \in SUBSET Ids /\ Cardinality(Nodes) \in Nat
    BY ConstantsAssumption, IdsFact DEF ConstantsAssumption, Layers, Nodes
<1>3. /\ level \in [Ids -> Levels] /\ \A n \in Ids : level[n] \in Int
      /\ level'[i] = lev /\ \A n \in Ids \ {i} : level'[n] = level[n]
      /\ lev \in Int /\ lev >= 0 /\ \A l \in Layers : l \in Int /\ l >= 0
    BY <1>1, LayerFact DEF IInv, Shape
<1>4. Nodes' = Nodes \cup {i}
    BY <1>3 DEF Nodes
<1>5. /\ \A l \in Layers : Tidy(chosen[l], Nodes, 2 * M) /\ (l > lev => chosen[l] = <<>>)
      /\ AllLinked /\ Cardinality(Nodes) <= 2 * M /\ Cardinality(Nodes) <= EfConstruct =>
             ToSet(chosen[0]) = Nodes
    BY ChosenFact DEF IInv
<1> HIDE DEF chosen
<1>6. /\ \A l \in Layers : neighbors'[i][l] = chosen[l]
      /\ \A n \in Ids \ {i}, l \in Layers :
             neighbors'[n][l] = IF l <= level[n] /\ Contains(chosen[l], n) THEN LinkBack(n, i, l)
                                ELSE neighbors[n][l]
    BY <1>1
<1>7. ASSUME NEW n \in Ids, NEW l \in Layers
      PROVE  Tidy(neighbors'[n][l], Nodes' \ {n}, 2 * M) /\ (l > level'[n] => neighbors'[n][l] = <<>>)
    <2>1. CASE n = i
        <3>1. neighbors'[n][l] = chosen[l] /\ level'[n] = lev
            BY <1>3, <1>6, <2>1
        <3>2. Nodes \subseteq Nodes' \ {n}
            BY <1>1, <1>4, <2>1
        <3> QED BY <1>5, <3>1, <3>2 DEF Tidy
    <2>2. CASE n # i /\ l <= level[n] /\ Contains(chosen[l], n)
        <3>1. neighbors'[n][l] = LinkBack(n, i, l) /\ level'[n] = level[n]
            BY <1>3, <1>6, <2>2
        <3>2. n \in Nodes /\ i \in Ids \ Nodes
            <4>1. level[n] >= 0
                BY <1>3, <2>2
            <4> QED BY <1>1, <4>1 DEF Nodes
        <3>3. Tidy(LinkBack(n, i, l), (Nodes \cup {i}) \ {n}, 2 * M)
            BY <3>2, LinkBackFact
        <3>4. ~(l > level'[n])
            <4>1. level[n] \in Int /\ l \in Int
                BY <1>3
            <4> QED BY <2>2, <3>1, <4>1
        <3> QED BY <1>4, <3>1, <3>3, <3>4
    <2>3. CASE n # i /\ ~(l <= level[n] /\ Contains(chosen[l], n))
        <3>1. neighbors'[n][l] = neighbors[n][l] /\ level'[n] = level[n]
            BY <1>3, <1>6, <2>3
        <3>2. /\ neighbors[n][l] \in Seq(Ids) /\ ToSet(neighbors[n][l]) \subseteq Nodes \ {n}
              /\ IsInjective(neighbors[n][l]) /\ Len(neighbors[n][l]) <= 2 * M
              /\ l > level[n] => neighbors[n][l] = <<>>
            BY DEF LinksTyped, LinksSound
        <3>3. Tidy(neighbors[n][l], Nodes' \ {n}, 2 * M)
            BY <1>4, <3>2 DEF Tidy
        <3> QED BY <3>1, <3>2, <3>3
    <2> QED BY <2>1, <2>2, <2>3
<1>8. LinksSound'
    BY <1>7 DEF LinksSound, Tidy
<1>9. LinksTyped'
    <2>1. \A n \in Ids, l \in Layers : neighbors'[n][l] \in Seq(Ids)
        BY <1>7 DEF Tidy
    <2> QED BY <1>1, <2>1 DEF LinksTyped
<1>10. Counted' /\ (Small' => Small /\ Cardinality(Nodes) <= 2 * M /\ Cardinality(Nodes) <= EfConstruct)
    <2>1. Cardinality(Nodes') = Cardinality(Nodes) + 1
        BY <1>1, <1>2, <1>4, IdsFact, FS_AddElement
    <2>2. peak \in Nat /\ peak' \in Nat /\ peak <= peak' /\ Cardinality(Nodes) + 1 <= peak'
        BY <1>1, <1>2 DEF Counted, Larger
    <2> QED BY <1>2, <2>1, <2>2 DEF Counted, Small
<1>11. ASSUME Small' PROVE AllLinked'
    <2>1. AllLinked /\ Cardinality(Nodes) <= 2 * M /\ ToSet(chosen[0]) = Nodes
        BY <1>5, <1>10, <1>11 DEF SmallLinked
    <2> SUFFICES ASSUME NEW n \in Nodes' PROVE ToSet(neighbors'[n][0]) = Nodes' \ {n}
        BY DEF AllLinked
    <2>2. CASE n = i
        BY <1>1, <1>2, <1>4, <1>6, <2>1, <2>2
    <2>3. CASE n # i
        <3>1. n \in Nodes /\ n \in Ids \ {i} /\ i \in Ids \ Nodes /\ 0 <= level[n]
            BY <1>1, <1>2, <1>3, <1>4, <2>3 DEF Nodes
        <3>2. Contains(chosen[0], n)
            <4>1. chosen[0] \in Seq(Ids)
                BY <1>2, <1>5 DEF Tidy
            <4> QED BY <2>1, <3>1, <4>1 DEF ToSet, Contains
        <3>3. neighbors'[n][0] = LinkBack(n, i, 0)
            BY <1>2, <1>6, <3>1, <3>2
        <3>4. ToSet(neighbors[n][0]) = Nodes \ {n}
            BY <2>1, <3>1 DEF AllLinked
        <3>5. Cardinality(Nodes \ {n}) + 1 <= MaxConn(0)
            <4>1. Cardinality(Nodes \ {n}) = Cardinality(Nodes) - 1
                BY <1>2, <3>1, IdsFact, FS_RemoveElement
            <4> QED BY <1>2, <2>1, <4>1 DEF MaxConn
        <3>6. ToSet(LinkBack(n, i, 0)) = (Nodes \ {n}) \cup {i}
            BY <1>2, <3>1, <3>4, <3>5, LinkBackFact
        <3> QED BY <1>4, <2>3, <3>3, <3>6
    <2> QED BY <2>2, <2>3
<1> QED BY <1>8, <1>9, <1>10, <1>11 DEF SmallLinked

\* RemoveNode takes the node out of every list, and relinks only nodes that stay.
LEMMA RemoveKeepsLinks ==
    ASSUME IInv, Links, NEW i \in Ids, RemoveNode(i)
    PROVE  Links'
<1> USE DEF Links
<1>1. /\ i \in Nodes /\ level' = [level EXCEPT ![i] = -1]
      /\ neighbors' = [n \in Ids |-> [l \in Layers |-> IF n = i THEN <<>> ELSE Reconnected(n, i, l)]]
      /\ peak' = IF Nodes = {i} THEN 0 ELSE peak
    BY DEF RemoveNode
<1>2. /\ M \in Nat \ {0} /\ 0 \in Layers /\ Nodes \in SUBSET Ids /\ Cardinality(Nodes) \in Nat
    BY ConstantsAssumption, IdsFact DEF ConstantsAssumption, Layers, Nodes
<1>3. /\ level \in [Ids -> Levels] /\ level'[i] = -1 /\ \A n \in Ids \ {i} : level'[n] = level[n]
    BY <1>1, LayerFact DEF IInv, Shape
<1>4. Nodes' = Nodes \ {i}
    BY <1>3 DEF Nodes
<1>5. ASSUME NEW n \in Ids \ {i}, NEW l \in Layers
      PROVE  /\ neighbors'[n][l] = Reconnected(n, i, l)
             /\ Tidy(neighbors'[n][l], Nodes \ {i, n}, 2 * M)
             /\ ToSet(neighbors[n][l]) \ {i} \subseteq ToSet(neighbors'[n][l])
             /\ l > level[n] => neighbors'[n][l] = <<>>
    <2>1. neighbors'[n][l] = Reconnected(n, i, l)
        BY <1>1
    <2> QED BY <1>1, <2>1, ReconnectedFact DEF IInv
<1>6. ASSUME NEW n \in Ids, NEW l \in Layers
      PROVE  Tidy(neighbors'[n][l], Nodes' \ {n}, 2 * M) /\ (l > level'[n] => neighbors'[n][l] = <<>>)
    <2>1. CASE n = i
        <3>1. neighbors'[n][l] = <<>>
            BY <1>1, <2>1
        <3>2. Tidy(<<>>, Nodes' \ {n}, 2 * M)
            BY <1>2 DEF Tidy, ToSet, IsInjective
        <3> QED BY <3>1, <3>2
    <2>2. CASE n # i
        <3>1. Nodes \ {i, n} = Nodes' \ {n} /\ level'[n] = level[n]
            BY <1>3, <1>4, <2>2
        <3> QED BY <1>5, <2>2, <3>1
    <2> QED BY <2>1, <2>2
<1>7. LinksSound'
    BY <1>6 DEF LinksSound, Tidy
<1>8. LinksTyped'
    <2>1. \A n \in Ids, l \in Layers : neighbors'[n][l] \in Seq(Ids)
        BY <1>6 DEF Tidy
    <2> QED BY <1>1, <2>1 DEF LinksTyped
<1>9. CASE Nodes = {i}
    <2>1. Nodes' = {} /\ peak' = 0
        BY <1>1, <1>4, <1>9
    <2> QED BY <1>7, <1>8, <2>1, FS_EmptySet DEF Counted, SmallLinked, AllLinked
<1>10. CASE Nodes # {i}
    <2>1. peak' = peak /\ Cardinality(Nodes') <= Cardinality(Nodes) /\ Cardinality(Nodes') \in Nat
        BY <1>1, <1>2, <1>4, <1>10, SmallerFact
    <2>2. Counted'
        BY <1>2, <2>1 DEF Counted
    <2>3. ASSUME Small' PROVE AllLinked'
        <3>1. AllLinked
            BY <2>1, <2>3 DEF Small, SmallLinked
        <3> SUFFICES ASSUME NEW n \in Nodes' PROVE ToSet(neighbors'[n][0]) = Nodes' \ {n}
            BY DEF AllLinked
        <3>2. n \in Nodes /\ n \in Ids \ {i} /\ ToSet(neighbors[n][0]) = Nodes \ {n}
            BY <1>2, <1>4, <3>1 DEF AllLinked
        <3>3. /\ ToSet(neighbors'[n][0]) \subseteq Nodes \ {i, n}
              /\ ToSet(neighbors[n][0]) \ {i} \subseteq ToSet(neighbors'[n][0])
            BY <1>2, <1>5, <3>2 DEF Tidy
        <3> QED BY <1>4, <3>2, <3>3
    <2> QED BY <1>7, <1>8, <2>2, <2>3 DEF SmallLinked
<1> QED BY <1>9, <1>10

\* OptimizeIndex takes nothing from lists that lead to nodes only.
LEMMA OptimizeKeepsLinks ==
    ASSUME IInv, Links, OptimizeIndex
    PROVE  Links'
<1> USE DEF Links
<1>1. /\ neighbors' = [n \in Ids |-> [l \in Layers |-> Only(neighbors[n][l], Nodes)]]
      /\ level' = level /\ peak' = peak /\ Nodes' = Nodes
    BY DEF OptimizeIndex, Nodes
<1>2. M \in Nat \ {0} /\ 0 \in Layers
    BY ConstantsAssumption DEF ConstantsAssumption, Layers
<1>3. ASSUME NEW n \in Ids, NEW l \in Layers
      PROVE  /\ Tidy(neighbors'[n][l], Nodes \ {n}, 2 * M)
             /\ ToSet(neighbors'[n][l]) = ToSet(neighbors[n][l])
             /\ l > level[n] => neighbors'[n][l] = <<>>
    <2> DEFINE s == neighbors[n][l]
    <2>1. /\ s \in Seq(Ids) /\ ToSet(s) \subseteq Nodes \ {n}
          /\ IsInjective(s) /\ Len(s) <= 2 * M
          /\ l > level[n] => s = <<>>
        BY DEF LinksTyped, LinksSound
    <2>2. neighbors'[n][l] = Only(s, Nodes)
        BY <1>1
    <2> HIDE DEF s
    <2>3. /\ Only(s, Nodes) \in Seq(Ids) /\ Len(Only(s, Nodes)) <= Len(s)
          /\ ToSet(Only(s, Nodes)) = ToSet(s) /\ IsInjective(Only(s, Nodes))
        <3>1. /\ Only(s, Nodes) \in Seq(Ids) /\ Len(Only(s, Nodes)) <= Len(s)
              /\ ToSet(Only(s, Nodes)) = ToSet(s) \cap Nodes
              /\ IsInjective(s) => IsInjective(Only(s, Nodes))
            BY <2>1, OnlyFact
        <3> QED BY <2>1, <3>1
    <2>4. Len(s) \in Nat /\ Len(Only(s, Nodes)) \in Nat
        BY <2>1, <2>3
    <2>5. Len(Only(s, Nodes)) <= 2 * M
        BY <1>2, <2>1, <2>3, <2>4
    <2>6. s = <<>> => Only(s, Nodes) = <<>>
        <3> SUFFICES ASSUME s = <<>> PROVE Only(s, Nodes) = <<>>
            OBVIOUS
        <3>1. Len(Only(s, Nodes)) = 0
            BY <2>3, <2>4
        <3> QED BY <2>3, <3>1, EmptySeq
    <2> QED BY <2>1, <2>2, <2>3, <2>5, <2>6 DEF Tidy, s
<1>4. LinksSound'
    BY <1>1, <1>3 DEF LinksSound, Tidy
<1>5. LinksTyped'
    <2>1. \A n \in Ids, l \in Layers : neighbors'[n][l] \in Seq(Ids)
        BY <1>3 DEF Tidy
    <2>2. neighbors' = [n \in Ids |-> [l \in Layers |-> neighbors'[n][l]]]
        BY <1>1
    <2> QED BY <2>1, <2>2 DEF LinksTyped
<1>6. Counted'
    BY <1>1 DEF Counted
<1>7. SmallLinked'
    <2>1. Nodes \subseteq Ids
        BY DEF Nodes
    <2>2. \A n \in Nodes : ToSet(neighbors'[n][0]) = ToSet(neighbors[n][0])
        BY <1>2, <1>3, <2>1
    <2>3. Small' => Small
        BY <1>1 DEF Small
    <2>4. AllLinked => AllLinked'
        BY <1>1, <2>2 DEF AllLinked
    <2> QED BY <2>3, <2>4 DEF SmallLinked
<1> QED BY <1>4, <1>5, <1>6, <1>7

\* Every operation keeps the links.
LEMMA NextKeepsLinks == IInv /\ Links /\ [Next]_vars => Links'
<1> SUFFICES ASSUME IInv, Links, [Next]_vars PROVE Links'
    OBVIOUS
<1>1. ASSUME NEW i \in Ids, NEW lev \in Layers, Add(i, lev) PROVE Links'
    BY <1>1, AddKeepsLinks
<1>2. ASSUME NEW i \in Ids, RemoveNode(i) PROVE Links'
    BY <1>2, RemoveKeepsLinks
<1>3. ASSUME OptimizeIndex PROVE Links'
    BY <1>3, OptimizeKeepsLinks
<1>4. ASSUME Clear PROVE Links'
    <2>1. M \in Nat \ {0}
        BY ConstantsAssumption DEF ConstantsAssumption
    <2>2. neighbors' = [i \in Ids |-> [l \in Layers |-> <<>>]] /\ Nodes' = {} /\ peak' = 0
        BY <1>4 DEF Clear, Nodes
    <2>3. Tidy(<<>>, {}, 2 * M)
        BY <2>1 DEF Tidy, ToSet, IsInjective
    <2>4. LinksTyped' /\ LinksSound'
        BY <2>2, <2>3 DEF LinksTyped, LinksSound, Tidy
    <2>5. Counted' /\ SmallLinked'
        BY <2>2, FS_EmptySet DEF Counted, SmallLinked, AllLinked
    <2> QED BY <2>4, <2>5 DEF Links
<1>5. ASSUME UNCHANGED vars PROVE Links'
    BY <1>5 DEF vars, Links, LinksTyped, LinksSound, Counted, SmallLinked, Small, AllLinked, Nodes
<1> QED BY <1>1, <1>2, <1>3, <1>4, <1>5 DEF Next

-----------------------------------------------------------------------------
(* The theorems. *)

\* The entry point exists exactly when there are nodes, is one of them, is nowhere
\* below another, and maxLevel is its level: Add, Remove and OptimizeIndex keep the
\* place where every search begins.
THEOREM EntryStaysTop == Spec => []EntryIsTop
<1>1. IInv => EntryIsTop
    BY DEF IInv
<1> QED BY <1>1, InitIsTop, NextKeepsTop, PTL DEF Spec

\* Add, Remove, the repair after it and OptimizeIndex leave no link to a node that is
\* gone, none to itself or twice, no list longer than 2M and none above its level.
THEOREM LinksStaySound == Spec => []LinksSound
<1>1. Init => IInv /\ Links
    BY InitIsTop, InitLinks
<1>2. IInv /\ Links /\ [Next]_vars => (IInv /\ Links)'
    BY NextKeepsTop, NextKeepsLinks
<1>3. IInv /\ Links => LinksSound
    BY DEF Links
<1> QED BY <1>1, <1>2, <1>3, PTL DEF Spec

\* While ef covers the index, searchLayer's budget, its early end and its skipping of
\* far candidates lose nothing of what its links lead to.
THEOREM SearchesFindReachable == Spec => []SearchFindsReachable
<1>1. Init => IInv /\ Links
    BY InitIsTop, InitLinks
<1>2. IInv /\ Links /\ [Next]_vars => (IInv /\ Links)'
    BY NextKeepsTop, NextKeepsLinks
<1>3. IInv /\ Links => SearchFindsReachable
    BY FindsReachable DEF IInv, Links
<1> QED BY <1>1, <1>2, <1>3, PTL DEF Spec

\* An index that has never outgrown 2M + 1 and EfConstruct + 1 nodes since it was empty
\* answers every search exactly, whatever was added and removed.
THEOREM SmallIndexesAreExact == Spec => []SmallIndexExact
<1>1. Init => IInv /\ Links
    BY InitIsTop, InitLinks
<1>2. IInv /\ Links /\ [Next]_vars => (IInv /\ Links)'
    BY NextKeepsTop, NextKeepsLinks
<1>3. IInv /\ Links => SmallIndexExact
    BY FindsAll DEF IInv, Links
<1> QED BY <1>1, <1>2, <1>3, PTL DEF Spec
===============================================================================
