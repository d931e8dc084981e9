-------------------------- MODULE DurabilityProofs --------------------------
(***************************************************************************)
(* What the database keeps across crashes, for any IDs, vectors, calls and  *)
(* openings.                                                                *)
(*                                                                         *)
(* The argument is the kind of a page.  A page with acknowledged vectors is *)
(* of the kind "vectors" and lies below the pages the process has; what may *)
(* be allocated is a version page that was freed, or lies above them.  So   *)
(* no allocation ever touches such a page.                                  *)
(***************************************************************************)
EXTENDS Durability, FiniteSetTheorems, SequenceTheorems, WellFoundedInduction, TLAPS

Contents == Vectors \cup {Empty, Garbled}
Found == Contents \cup {Absent}
Entries == [id : Names, vec : Contents]
LogEntries == [id : Ids, vec : Vectors \cup {Empty}]
Pages ==
    {Blank} \cup [kind : {"index"}, snapshot : [Names -> Found]]
            \cup [kind : {"version"}, id : Ids, vec : Vectors \cup {Empty}, num : Nat, created : Nat,
                  deleted : BOOLEAN]
            \cup [kind : {"vectors"}, entries : Seq(Entries)]

IdsIn(log) == {log[k].id : k \in DOMAIN log}
Holds(page, e) == \E k \in DOMAIN EntriesOf(page) : EntriesOf(page)[k] = e
Running == status \in {"open", "replaying"}

-----------------------------------------------------------------------------
(* The inductive invariant. *)

Types ==
    /\ file \in Seq(Pages) /\ size \in 0..Len(file) /\ headerPages \in 0..Len(file)
    /\ status \in {"open", "replaying", "down", "closed", "refused"}
    /\ walFile \in Seq(LogEntries) /\ walBuffer \in Seq(LogEntries) /\ Len(walBuffer) < FlushAt
    /\ replay \in Seq(LogEntries)
    /\ freeList \in Seq(Nat) /\ versionIndex \in [Ids -> Seq(Nat)]
    /\ index \in [Names -> Found] /\ vectorPages \in [Ids -> Nat]
    /\ writes \in Nat
    /\ job \in {Idle} \cup [kind : {"store", "stored"}, id : Ids, vec : Vectors]
                      \cup [kind : {"commit", "checkpoint", "persisted", "synced"}]
    /\ tx \in {NoTx} \cup [stage : {"log", "versions", "index"}, num : 1..writes, writes : Writes,
                           todo : SUBSET Ids]
    /\ tx # NoTx => tx.todo \subseteq DOMAIN tx.writes
    /\ acked \subseteq [id : Ids, vec : Vectors \ Oversized]
    /\ sealed \in [Names -> Found]
    /\ headerSized \in BOOLEAN /\ sized \in BOOLEAN /\ stored \in BOOLEAN

\* Who is at work when.
Phases ==
    /\ status # "open" =>
          /\ job = Idle /\ tx = NoTx /\ walBuffer = <<>> /\ freeList = <<>>
          /\ versionIndex = [i \in Ids |-> <<>>]
    /\ ~Running => size = 0 /\ root = 0 /\ vectorPages = [i \in Ids |-> 0]
    /\ Running => headerPages <= size
    /\ status # "replaying" => replay = <<>>
    /\ job.kind = "commit" <=> tx.stage = "index"
    /\ job.kind = "stored" => job.vec \notin Oversized
    /\ tx.stage = "versions" => \A i \in DOMAIN tx.writes \ tx.todo : tx.writes[i] \notin Oversized
    /\ tx.stage = "index" => \A i \in DOMAIN tx.writes : tx.writes[i] \notin Oversized
    /\ tx # NoTx => \A i \in DOMAIN tx.writes : tx.writes[i] = Empty => i \in removed

\* The kind of a page says who owns it.
Kinds ==
    /\ \A i \in Ids : \A k \in DOMAIN versionIndex[i] :
          versionIndex[i][k] \in 1..size /\ file[versionIndex[i][k]].kind = "version"
    /\ \A k \in DOMAIN freeList : freeList[k] \in 1..size /\ file[freeList[k]].kind = "version"
    /\ \A i \in Ids : vectorPages[i] # 0 =>
          vectorPages[i] \in 1..size /\ file[vectorPages[i]].kind = "vectors"
    /\ root # 0 => root \in 1..size /\ file[root].kind = "index"
    /\ headerRoot # 0 => headerRoot \in 1..headerPages /\ file[headerRoot].kind = "index"

\* Version pages are in one place.
Placed ==
    /\ \A k \in DOMAIN freeList : \A i \in Ids : \A l \in DOMAIN versionIndex[i] :
          freeList[k] # versionIndex[i][l]
    /\ \A j, k \in DOMAIN freeList : freeList[j] = freeList[k] => j = k
    /\ \A i, j \in Ids : \A k \in DOMAIN versionIndex[i], l \in DOMAIN versionIndex[j] :
          versionIndex[i][k] = versionIndex[j][l] => i = j /\ k = l

\* Chains lead from newer versions to older ones.
Ordered ==
    \A i \in Ids : \A k \in DOMAIN versionIndex[i] :
        /\ file[versionIndex[i][k]].num <= writes
        /\ tx.stage = "log" \/ (tx.stage = "versions" /\ i \in tx.todo) =>
              file[versionIndex[i][k]].num < tx.num
        /\ \A j \in DOMAIN versionIndex[i] :
              j < k => file[versionIndex[i][j]].num > file[versionIndex[i][k]].num

\* What is acknowledged lies in pages the header covers, ...
OnDisk == \A e \in acked : \E p \in 1..headerPages : Holds(file[p], e)

\* ... and what is about to be acknowledged lies in the pages in use.
Written ==
    /\ job.kind = "stored" =>
          /\ index[job.id] # Absent
          /\ vectorPages[job.id] # 0 /\ Holds(file[vectorPages[job.id]], Entry(job.id, job.vec))
    /\ tx.stage = "index" =>
          \A i \in DOMAIN tx.writes \ tx.todo : tx.writes[i] # Empty =>
              /\ index[i] # Absent
              /\ vectorPages[i] # 0 /\ Holds(file[vectorPages[i]], Entry(i, tx.writes[i]))

\* Unless it was removed or may be missed, what was acknowledged is in memory and in the
\* persisted index.
Known ==
    \A e \in acked : e.id \notin removed \cup exposed =>
        /\ Running => index[e.id] # Absent
        /\ headerRoot # 0 => file[headerRoot].snapshot[e.id] # Absent

\* What Close has persisted so far.
Persisted ==
    /\ Running /\ root # headerRoot => headerRoot = 0 /\ job.kind = "persisted"
    /\ job.kind \in {"persisted", "synced"} /\ HasVectors => root # 0 /\ file[root].snapshot = index
    /\ job.kind = "synced" => headerRoot = root
    /\ status = "closed" =>
          /\ walFile = <<>>
          /\ sealed # NoIndex => headerRoot # 0 /\ file[headerRoot].snapshot = sealed

\* Where the entries of a commit are.
InLog ==
    /\ tx.stage # "log" => logged \subseteq IdsIn(walFile)
    /\ tx.stage = "log" =>
          /\ logged \subseteq IdsIn(walFile) \cup IdsIn(walBuffer)
          /\ logged \ DOMAIN tx.writes \subseteq IdsIn(walFile)

\* Which header may be refused.
Sizes ==
    /\ stored => headerSized
    /\ headerSized /\ Running => sized
    /\ job.kind \in {"store", "stored"} => sized
    /\ \A k \in DOMAIN replay : \E l \in DOMAIN walFile : replay[k] = walFile[l]

IInv ==
    /\ Types /\ Phases /\ Kinds /\ Placed /\ Ordered /\ OnDisk /\ Written /\ Known
    /\ Persisted /\ InLog /\ Sizes /\ RefusedUnsizedOrOversized

-----------------------------------------------------------------------------
(* Numbers, sets of numbers and their enumerations. *)

\* Every nonempty set of naturals has a least element, and Min picks it.
LEMMA MinExists ==
    ASSUME NEW S \in SUBSET Nat, S # {}
    PROVE  Min(S) \in S /\ \A j \in S : Min(S) <= j
<1> DEFINE Smaller == {ss \in Nat \X Nat : ss[1] < ss[2]}
<1>1. IsWellFoundedOn(Smaller, Nat)
  BY NatLessThanWellFounded DEF OpToRel
<1>2. PICK k \in S : \A j \in S : ~ (<<j, k>> \in Smaller)
  <2> HIDE DEF Smaller
  <2> QED
    BY <1>1, WFMin
<1>3. ASSUME NEW j \in S
      PROVE  k <= j
  <2>1. j \in Nat /\ k \in Nat
    OBVIOUS
  <2>2. j < k => <<j, k>> \in Smaller
    BY <2>1
  <2>3. QED
    BY <1>2, <2>1, <2>2
<1>4. QED
  BY <1>3 DEF Min

\* A bounded one has a greatest element, and Max picks it.
LEMMA MaxExists ==
    ASSUME NEW n \in Nat, NEW S \in SUBSET (0..n), S # {}
    PROVE  Max(S) \in S /\ \A j \in S : j <= Max(S)
<1> DEFINE Gaps == {n - j : j \in S}
<1>1. Gaps \in SUBSET Nat /\ Gaps # {}
  <2>1. \A j \in S : n - j \in Nat
    OBVIOUS
  <2>2. QED
    BY <2>1
<1>2. Min(Gaps) \in Gaps /\ \A g \in Gaps : Min(Gaps) <= g
  <2> HIDE DEF Gaps
  <2> QED
    BY <1>1, MinExists
<1>3. PICK k \in S : Min(Gaps) = n - k
  BY <1>2
<1>4. \A j \in S : n - j \in Gaps
  OBVIOUS
<1>5. \A j \in S : n - k <= n - j
  BY <1>2, <1>3, <1>4
<1>6. \A j \in S : j <= k
  BY <1>5
<1>7. QED
  BY <1>6 DEF Max

\* Bounded sets of numbers are finite.
LEMMA BoundedIsFinite ==
    ASSUME NEW b \in Nat, NEW S \in SUBSET (0..b)
    PROVE  IsFiniteSet(S) /\ Cardinality(S) \in Nat
<1>1. IsFiniteSet(0..b)
  BY FS_Interval
<1>2. IsFiniteSet(S)
  BY <1>1, FS_Subset
<1>3. QED
  BY <1>2, FS_CardinalityType

\* The strictly increasing enumerations of a set of numbers.
Rising(S) == {s \in [1..Cardinality(S) -> S] : \A j, k \in DOMAIN s : j < k => s[j] < s[k]}

\* A finite set that has one less its greatest element has one.
LEMMA RisingExtends ==
    ASSUME NEW b \in Nat, NEW S \in SUBSET (0..b), S # {}, Rising(S \ {Max(S)}) # {}
    PROVE  Rising(S) # {}
<1> DEFINE m == Max(S)
<1> DEFINE n == Cardinality(S \ {m})
<1>1. m \in S /\ \A j \in S : j <= m
  BY MaxExists
<1>2. IsFiniteSet(S) /\ Cardinality(S) \in Nat
  BY BoundedIsFinite
<1>3. n \in Nat /\ Cardinality(S) = n + 1
  <2>1. S \ {m} \in SUBSET (0..b)
    OBVIOUS
  <2>2. n \in Nat
    BY <2>1, BoundedIsFinite
  <2>3. n = Cardinality(S) - 1
    BY <1>1, <1>2, FS_RemoveElement
  <2>4. QED
    BY <1>2, <2>2, <2>3
<1>4. PICK s \in [1..n -> S \ {m}] : \A j, k \in 1..n : j < k => s[j] < s[k]
  BY DEF Rising
<1> HIDE DEF m, n
<1> DEFINE t == [k \in 1..(n + 1) |-> IF k = n + 1 THEN m ELSE s[k]]
<1>5. \A k \in 1..n : s[k] \in S /\ s[k] < m
  <2> SUFFICES ASSUME NEW k \in 1..n PROVE s[k] \in S /\ s[k] < m
    OBVIOUS
  <2>1. s[k] \in S /\ s[k] # m
    BY <1>4
  <2>2. \A j \in S : j \in Nat
    OBVIOUS
  <2>3. m \in Nat /\ s[k] \in Nat /\ s[k] <= m
    BY <1>1, <2>1, <2>2
  <2>4. QED
    BY <2>1, <2>3
<1>6. t \in [1..(n + 1) -> S]
  BY <1>1, <1>3, <1>5
<1>7. \A j, k \in 1..(n + 1) : j < k => t[j] < t[k]
  BY <1>3, <1>4, <1>5
<1>8. QED
  BY <1>3, <1>6, <1>7 DEF Rising

\* Every bounded set of numbers has one.
LEMMA RisingExists ==
    ASSUME NEW b \in Nat, NEW S \in SUBSET (0..b)
    PROVE  Rising(S) # {}
<1> DEFINE Bad == {n \in Nat : \E T \in SUBSET (0..b) : Cardinality(T) = n /\ Rising(T) = {}}
<1>1. \A T \in SUBSET (0..b) : IsFiniteSet(T) /\ Cardinality(T) \in Nat
  BY BoundedIsFinite
<1>2. SUFFICES Bad = {}
  BY <1>1
<1>3. SUFFICES ASSUME Bad # {} PROVE FALSE
  OBVIOUS
<1>4. PICK n \in Bad : \A j \in Bad : n <= j
  <2> HIDE DEF Bad
  <2>1. Bad \in SUBSET Nat
    BY DEF Bad
  <2> QED
    BY <1>3, <2>1, MinExists
<1>5. PICK T \in SUBSET (0..b) : Cardinality(T) = n /\ Rising(T) = {}
  BY <1>4
<1>6. T # {}
  <2>1. ASSUME T = {} PROVE Rising(T) # {}
    <3>1. Cardinality(T) = 0
      BY <2>1, FS_EmptySet
    <3>2. <<>> \in [1..0 -> T] /\ DOMAIN <<>> = {}
      OBVIOUS
    <3>3. QED
      BY <3>1, <3>2 DEF Rising
  <2>2. QED
    BY <1>5, <2>1
<1>7. Max(T) \in T
  BY <1>6, MaxExists
<1>8. Cardinality(T \ {Max(T)}) = n - 1 /\ n - 1 \in Nat
  BY <1>1, <1>5, <1>7, FS_RemoveElement, T \ {Max(T)} \in SUBSET (0..b)
<1>9. Rising(T \ {Max(T)}) # {}
  <2>1. n - 1 \notin Bad
    BY <1>4, <1>8
  <2>2. QED
    BY <1>8, <2>1, T \ {Max(T)} \in SUBSET (0..b)
<1>10. QED
  BY <1>5, <1>6, <1>9, RisingExtends

\* What Ascending returns for a bounded set: all of it, the least first.
LEMMA AscendingFact ==
    ASSUME NEW b \in Nat, NEW S \in SUBSET (0..b)
    PROVE  /\ Cardinality(S) \in Nat
           /\ Ascending(S) \in [1..Cardinality(S) -> S]
           /\ \A j, k \in 1..Cardinality(S) : j < k => Ascending(S)[j] < Ascending(S)[k]
           /\ \A p \in S : \E k \in 1..Cardinality(S) : Ascending(S)[k] = p
<1> DEFINE s == Ascending(S)
<1>1. Rising(S) # {}
  BY RisingExists
<1>2. IsFiniteSet(S) /\ Cardinality(S) \in Nat
  BY BoundedIsFinite
<1>3. s \in [1..Cardinality(S) -> S] /\ \A j, k \in DOMAIN s : j < k => s[j] < s[k]
  BY <1>1 DEF Rising, Ascending
<1> HIDE DEF s
<1>4. \A j, k \in 1..Cardinality(S) : j < k => s[j] < s[k]
  <2>1. DOMAIN s = 1..Cardinality(S)
    BY <1>3
  <2>2. QED
    BY <1>3, <2>1
<1>5. \A k \in 1..Cardinality(S) : s[k] \in Nat
  <2> SUFFICES ASSUME NEW k \in 1..Cardinality(S) PROVE s[k] \in Nat
    OBVIOUS
  <2>1. s[k] \in S
    BY <1>3
  <2>2. \A j \in S : j \in Nat
    OBVIOUS
  <2>3. QED
    BY <2>1, <2>2
<1>6. IsInjective(s)
  <2>1. \A j, k \in 1..Cardinality(S) : j # k => s[j] # s[k]
    BY <1>2, <1>4, <1>5
  <2>2. QED
    BY <1>3, <2>1 DEF IsInjective
<1>7. s \in Injection(1..Cardinality(S), S)
  BY <1>3, <1>6 DEF Injection
<1>8. Cardinality(1..Cardinality(S)) = Cardinality(S)
  BY <1>2, FS_Interval
<1>9. s \in Surjection(1..Cardinality(S), S)
  BY <1>2, <1>7, <1>8, FS_Injection
<1>10. QED
  BY <1>2, <1>3, <1>4, <1>9 DEF Surjection, s

\* What SetToSeq returns for a finite set: some elements of it, none twice.
LEMMA SetToSeqFact ==
    ASSUME NEW S, IsFiniteSet(S)
    PROVE  /\ SetToSeq(S) \in Seq(S)
           /\ \A j, k \in DOMAIN SetToSeq(S) : SetToSeq(S)[j] = SetToSeq(S)[k] => j = k
<1>1. Cardinality(S) \in Nat /\ ExistsBijection(1..Cardinality(S), S)
  BY FS_CardinalityType
<1>2. \E f \in [1..Cardinality(S) -> S] : IsInjective(f)
  BY <1>1 DEF ExistsBijection, Bijection, Injection
<1>3. SetToSeq(S) \in [1..Cardinality(S) -> S] /\ IsInjective(SetToSeq(S))
  BY <1>2 DEF SetToSeq
<1>4. QED
  BY <1>1, <1>3, IsASeq DEF IsInjective

-----------------------------------------------------------------------------
(* Chains. *)

\* sortVersionChain rearranges a chain; one whose numbers differ comes out descending.
LEMMA SortedFact ==
    ASSUME NEW chain \in Seq(Nat), NEW disk,
           \A k \in DOMAIN chain : disk[chain[k]].num \in Nat,
           \A j, k \in DOMAIN chain : j < k => disk[chain[j]].num > disk[chain[k]].num
    PROVE  /\ Sorted(chain, disk) \in Seq(Nat)
           /\ DOMAIN Sorted(chain, disk) = DOMAIN chain
           /\ \A k \in DOMAIN chain : \E l \in DOMAIN chain : Sorted(chain, disk)[k] = chain[l]
           /\ \A l \in DOMAIN chain : \E k \in DOMAIN chain : Sorted(chain, disk)[k] = chain[l]
           /\ \A j, k \in DOMAIN chain :
                 j < k => disk[Sorted(chain, disk)[j]].num > disk[Sorted(chain, disk)[k]].num
<1> DEFINE Num(k) == disk[chain[k]].num
<1> DEFINE D == DOMAIN chain
<1> DEFINE Sorts(p) == IsInjective(p) /\ \A j, k \in D : j < k => Num(p[j]) >= Num(p[k])
<1> DEFINE order == CHOOSE p \in [D -> D] : Sorts(p)
<1>1. Sorted(chain, disk) = [k \in D |-> chain[order[k]]]
  BY DEF Sorted
<1>2. Len(chain) \in Nat /\ D = 1..Len(chain)
  BY LenProperties
<1>3. \A k \in D : Num(k) \in Nat /\ chain[k] \in Nat
  BY ElementOfSeq, <1>2
<1>4. \A j, k \in D : j < k => Num(j) > Num(k)
  OBVIOUS
<1> HIDE DEF Num, D
<1>5. \E p \in [D -> D] : Sorts(p)
  <2> DEFINE same == [k \in D |-> k]
  <2>1. same \in [D -> D] /\ IsInjective(same)
    BY DEF IsInjective
  <2>2. \A j, k \in D : j < k => Num(same[j]) >= Num(same[k])
    BY <1>3, <1>4
  <2>3. QED
    BY <2>1, <2>2
<1>6. order \in [D -> D] /\ Sorts(order)
  BY <1>5
<1> HIDE DEF order
<1>7. \A k \in D : Sorted(chain, disk)[k] = chain[order[k]] /\ order[k] \in D
  BY <1>1, <1>6
<1>8. Sorted(chain, disk) \in [1..Len(chain) -> Nat]
  BY <1>1, <1>2, <1>3, <1>6
<1>9. ASSUME NEW j \in D, NEW k \in D, j < k
      PROVE  Num(order[j]) > Num(order[k])
  <2>1. order[j] # order[k]
    BY <1>2, <1>6, <1>9 DEF IsInjective
  <2>2. order[j] \in 1..Len(chain) /\ order[k] \in 1..Len(chain)
    BY <1>2, <1>7, <1>9
  <2>3. order[j] < order[k] \/ order[k] < order[j]
    BY <1>2, <2>1, <2>2
  <2>4. Num(order[j]) # Num(order[k])
    BY <1>3, <1>4, <1>7, <1>9, <2>3
  <2>5. Num(order[j]) >= Num(order[k])
    BY <1>6, <1>9
  <2>6. QED
    BY <1>3, <1>7, <1>9, <2>4, <2>5
<1>10. \A j, k \in D : j < k => disk[Sorted(chain, disk)[j]].num > disk[Sorted(chain, disk)[k]].num
  BY <1>7, <1>9 DEF Num
<1>11. Sorted(chain, disk) \in Seq(Nat)
  BY <1>2, <1>8, IsASeq
<1>12. DOMAIN Sorted(chain, disk) = D
  BY <1>1
<1>13. \A l \in D : \E k \in D : order[k] = l
  <2>1. order \in Injection(D, D)
    BY <1>6 DEF Injection
  <2>2. IsFiniteSet(D)
    BY <1>2, FS_Interval
  <2>3. order \in Surjection(D, D)
    BY <2>1, <2>2, FS_Injection
  <2>4. QED
    BY <2>3 DEF Surjection
<1>14. QED
  BY <1>7, <1>10, <1>11, <1>12, <1>13, ZenonT(40) DEF D

\* GCVersionsOlderThan takes places out of a chain and leaves the rest in order, the
\* first always.
LEMMA KeptFact ==
    ASSUME NEW i, NEW oldest, versionIndex[i] \in Seq(Nat)
    PROVE  /\ Kept(i, oldest) \in Seq(Nat)
           /\ \E p \in [DOMAIN Kept(i, oldest) -> DOMAIN versionIndex[i]] :
                 /\ \A n \in DOMAIN Kept(i, oldest) :
                       /\ Kept(i, oldest)[n] = versionIndex[i][p[n]]
                       /\ ~Collectable(i, p[n], oldest)
                 /\ \A m, n \in DOMAIN Kept(i, oldest) : m < n => p[m] < p[n]
                 /\ versionIndex[i] # <<>> => 1 \in DOMAIN Kept(i, oldest) /\ p[1] = 1
<1> DEFINE len == Len(versionIndex[i])
<1> DEFINE S == {k \in DOMAIN versionIndex[i] : ~Collectable(i, k, oldest)}
<1> DEFINE n == Cardinality(S)
<1> DEFINE p == Ascending(S)
<1>1. len \in Nat /\ DOMAIN versionIndex[i] = 1..len
  BY LenProperties
<1>2. S \in SUBSET (0..len)
  BY <1>1
<1>3. /\ n \in Nat /\ p \in [1..n -> S]
      /\ \A j, k \in 1..n : j < k => p[j] < p[k]
      /\ \A q \in S : \E k \in 1..n : p[k] = q
  <2> HIDE DEF S
  <2> QED
    BY <1>1, <1>2, AscendingFact
<1>4. Kept(i, oldest) = [k \in DOMAIN p |-> versionIndex[i][p[k]]]
  BY DEF Kept
<1>5. DOMAIN p = 1..n
  BY <1>3
<1> HIDE DEF p, n
<1>6. \A k \in 1..n : p[k] \in DOMAIN versionIndex[i] /\ ~Collectable(i, p[k], oldest)
  BY <1>3
<1>7. \A k \in 1..n : versionIndex[i][p[k]] \in Nat
  BY <1>1, <1>6, ElementOfSeq
<1>8. Kept(i, oldest) \in [1..n -> Nat]
  BY <1>4, <1>5, <1>7
<1>9. ASSUME versionIndex[i] # <<>>
      PROVE  1 \in 1..n /\ p[1] = 1
  <2>1. 1 \in S
    <3>1. 1 \in 1..len
      BY <1>1, <1>9, EmptySeq
    <3>2. ~Collectable(i, 1, oldest)
      BY DEF Collectable
    <3>3. QED
      BY <1>1, <3>1, <3>2
  <2>2. PICK k \in 1..n : p[k] = 1
    BY <1>3, <2>1
  <2>3. p[1] \in 1..len
    BY <1>1, <1>3, <1>6, <2>2
  <2>4. k = 1
    BY <1>3, <2>2, <2>3, <1>1
  <2>5. QED
    BY <2>2, <2>4
<1>10. Kept(i, oldest) \in Seq(Nat) /\ DOMAIN Kept(i, oldest) = 1..n
  BY <1>3, <1>8, IsASeq
<1>11. p \in [1..n -> DOMAIN versionIndex[i]]
  BY <1>3
<1>12. QED
  BY <1>3, <1>4, <1>5, <1>6, <1>9, <1>10, <1>11, ZenonT(40)

-----------------------------------------------------------------------------
(* Pages. *)

\* A page has entries of known IDs, and only a page of vectors has one of an ID.
LEMMA EntriesFact ==
    ASSUME NEW page \in Pages
    PROVE  /\ EntriesOf(page) \in Seq(Entries)
           /\ \A e : Holds(page, e) /\ e.id \in Ids => page.kind = "vectors"
<1>1. CASE page = Blank
  BY <1>1, EmptySeq DEF EntriesOf, Blank, Holds
<1>2. CASE page.kind = "index"
  BY <1>2, EmptySeq DEF EntriesOf, Holds
<1>3. CASE page.kind = "version"
  <2>1. EntriesOf(page) = <<Entry(Phantom, Garbled)>>
    BY <1>3 DEF EntriesOf
  <2>2. Entry(Phantom, Garbled) \in Entries
    BY DEF Entry, Entries, Contents, Names
  <2>3. QED
    BY <2>1, <2>2, ConstantsAssumption DEF Entry, Holds
<1>4. CASE page.kind = "vectors"
  <2>1. EntriesOf(page) = page.entries
    BY <1>4 DEF EntriesOf
  <2>2. page.entries \in Seq(Entries)
    BY <1>4 DEF Pages, Blank
  <2>3. QED
    BY <1>4, <2>1, <2>2
<1>5. QED
  BY <1>1, <1>2, <1>3, <1>4 DEF Pages

\* writeVectorToPage makes a page of vectors that holds the new entry.
LEMMA WithEntryFact ==
    ASSUME NEW page \in Pages, NEW i \in Ids, NEW v \in Vectors \cup {Empty}
    PROVE  /\ WithEntry(page, i, v) \in Pages
           /\ WithEntry(page, i, v).kind = "vectors"
           /\ Holds(WithEntry(page, i, v), Entry(i, v))
<1> DEFINE E == EntriesOf(page)
<1> DEFINE old == [k \in DOMAIN E |-> [E[k] EXCEPT !.vec = Garbled]]
<1> DEFINE new == Append(old, Entry(i, v))
<1>1. E \in Seq(Entries)
  BY EntriesFact
<1>2. WithEntry(page, i, v) = [kind |-> "vectors", entries |-> new]
  BY DEF WithEntry
<1> HIDE DEF E
<1>3. \A k \in DOMAIN E : [E[k] EXCEPT !.vec = Garbled] \in Entries
  <2>1. ASSUME NEW k \in DOMAIN E PROVE E[k] \in Entries
    BY <1>1
  <2>2. QED
    BY <2>1 DEF Entries, Contents
<1>4. old \in Seq(Entries)
  <2>1. Len(E) \in Nat /\ DOMAIN E = 1..Len(E)
    BY <1>1
  <2>2. old \in [1..Len(E) -> Entries]
    BY <1>3, <2>1
  <2>3. QED
    BY <2>1, <2>2, IsASeq
<1>5. Entry(i, v) \in Entries
  BY DEF Entry, Entries, Contents, Names
<1> HIDE DEF old
<1>6. new \in Seq(Entries) /\ Len(new) \in DOMAIN new /\ new[Len(new)] = Entry(i, v)
  BY <1>4, <1>5, AppendProperties
<1> HIDE DEF new
<1>7. EntriesOf(WithEntry(page, i, v)) = new
  BY <1>2 DEF EntriesOf
<1>8. WithEntry(page, i, v) \in Pages
  BY <1>2, <1>6 DEF Pages
<1>9. QED
  BY <1>2, <1>6, <1>7, <1>8 DEF Holds

\* AllocatePage and the write: one page changes, that came from the free list or lies
\* behind all pages in use.
LEMMA PlaceFact ==
    ASSUME file \in Seq(Pages), size \in 0..Len(file), freeList \in Seq(Nat),
           \A k \in DOMAIN freeList : freeList[k] \in 1..size,
           \A j, k \in DOMAIN freeList : freeList[j] = freeList[k] => j = k,
           NEW page \in Pages, Place(page)
    PROVE  /\ Extended \in Seq(Pages) /\ Slot \in DOMAIN Extended
           /\ file' \in Seq(Pages) /\ size <= size' /\ size' \in 0..Len(file')
           /\ Slot \in 1..size' /\ file'[Slot] = page
           /\ \A p \in 1..size : p # Slot => file'[p] = file[p]
           /\ (\E k \in DOMAIN freeList : Slot = freeList[k]) \/ Slot = size + 1
           /\ freeList' \in Seq(Nat)
           /\ \A k \in DOMAIN freeList' :
                 k \in DOMAIN freeList /\ freeList'[k] = freeList[k] /\ freeList[k] # Slot
<1>1. CASE freeList # <<>>
  <2>1. Slot = freeList[Len(freeList)] /\ Extended = file
    BY <1>1 DEF Slot, Extended, Last
  <2>2. Len(freeList) \in DOMAIN freeList
    BY <1>1
  <2>3. Slot \in 1..size
    BY <2>1, <2>2
  <2>4. size' = size /\ file' = [file EXCEPT ![Slot] = page]
    BY <1>1, <2>1 DEF Place
  <2>5. Slot \in DOMAIN file
    BY <2>3
  <2>6. file' \in Seq(Pages) /\ Len(file') = Len(file)
    BY <2>4, <2>5, ExceptSeq
  <2>7. freeList' = SubSeq(freeList, 1, Len(freeList) - 1)
    BY <1>1 DEF Place, FreeListAfter, Front
  <2>8. /\ freeList' \in Seq(Nat) /\ DOMAIN freeList' = 1..(Len(freeList) - 1)
        /\ \A k \in DOMAIN freeList' : freeList'[k] = freeList[k]
    BY <1>1, <2>7
  <2>9. \A k \in DOMAIN freeList' : k \in DOMAIN freeList /\ k # Len(freeList)
    BY <2>8
  <2>10. QED
    BY <2>1, <2>2, <2>3, <2>4, <2>5, <2>6, <2>8, <2>9
<1>2. CASE freeList = <<>>
  <2>1. Slot = size + 1 /\ size' = size + 1 /\ freeList' = freeList /\ DOMAIN freeList = {}
    BY <1>2 DEF Slot, Place, FreeListAfter
  <2>2. Blank \in Pages
    BY DEF Pages
  <2>3. /\ Extended \in Seq(Pages) /\ size + 1 <= Len(Extended)
        /\ \A p \in 1..size : Extended[p] = file[p]
    <3>1. CASE Len(file) > size
      BY <1>2, <3>1 DEF Extended
    <3>2. CASE ~(Len(file) > size)
      BY <1>2, <2>2, <3>2 DEF Extended
    <3>3. QED
      BY <3>1, <3>2
  <2>4. Slot \in DOMAIN Extended
    BY <2>1, <2>3
  <2>5. file' = [Extended EXCEPT ![Slot] = page]
    BY DEF Place
  <2>6. file' \in Seq(Pages) /\ Len(file') = Len(Extended)
    BY <2>3, <2>4, <2>5, ExceptSeq
  <2>7. \A p \in 1..size : p \in DOMAIN Extended
    BY <2>3
  <2>8. \A p \in 1..size : p # Slot => file'[p] = file[p]
    BY <2>3, <2>5, <2>7
  <2>9. QED
    BY <2>1, <2>3, <2>4, <2>5, <2>6, <2>8
<1>3. QED
  BY <1>1, <1>2

-----------------------------------------------------------------------------
(* What the invariant says of a step. *)

\* The fields of the job and of the transaction.
LEMMA Fields ==
    ASSUME Types
    PROVE  /\ job.kind \in {"none", "store", "stored", "commit", "checkpoint", "persisted", "synced"}
           /\ job.kind \in {"store", "stored"} => job.id \in Ids /\ job.vec \in Vectors
           /\ tx = NoTx \/ tx.stage \in {"log", "versions", "index"}
           /\ tx = NoTx => tx.stage = "none"
           /\ tx # NoTx =>
                 /\ tx.num \in 1..writes /\ tx.writes \in Writes /\ tx.todo \subseteq DOMAIN tx.writes
                 /\ DOMAIN tx.writes \subseteq Ids
                 /\ \A i \in DOMAIN tx.writes : tx.writes[i] \in Vectors \cup {Empty}
<1>1. tx # NoTx => tx.writes \in Writes /\ tx.num \in 1..writes /\ tx.stage \in {"log", "versions", "index"}
  BY DEF Types
<1>2. tx = NoTx => tx.stage = "none"
  BY DEF NoTx
<1>3. job \in {Idle} \cup [kind : {"store", "stored"}, id : Ids, vec : Vectors]
                     \cup [kind : {"commit", "checkpoint", "persisted", "synced"}]
  BY DEF Types
<1>4. job.kind \in {"none", "store", "stored", "commit", "checkpoint", "persisted", "synced"}
  BY <1>3 DEF Idle
<1>5. job.kind \in {"store", "stored"} => job.id \in Ids /\ job.vec \in Vectors
  BY <1>3 DEF Idle
<1>6. tx # NoTx => tx.todo \subseteq DOMAIN tx.writes
  BY DEF Types
<1>7. QED
  BY <1>1, <1>2, <1>4, <1>5, <1>6, ConstantsAssumption

\* The pages of chains are version pages, with numbers.
LEMMA VersionNumbers ==
    ASSUME IInv
    PROVE  \A i \in Ids : \A k \in DOMAIN versionIndex[i] : file[versionIndex[i][k]].num \in Nat
<1> SUFFICES ASSUME NEW i \in Ids, NEW k \in DOMAIN versionIndex[i]
             PROVE  file[versionIndex[i][k]].num \in Nat
  OBVIOUS
<1> DEFINE p == versionIndex[i][k]
<1>1. p \in 1..size /\ file[p].kind = "version"
  BY DEF IInv, Kinds
<1>2. file \in Seq(Pages) /\ size \in 0..Len(file)
  BY DEF IInv, Types
<1> HIDE DEF p
<1>3. file[p] \in Pages
  BY <1>1, <1>2
<1>4. file[p].num \in Nat
  BY <1>1, <1>3 DEF Pages, Blank
<1>5. QED
  BY <1>4 DEF p

\* An allocation takes a page nobody uses and touches no page of vectors the header covers.
LEMMA PlaceKeeps ==
    ASSUME IInv, Running, NEW page \in Pages, Place(page)
    PROVE  /\ file' \in Seq(Pages) /\ size <= size' /\ size' \in 0..Len(file')
           /\ headerPages \in 0..Len(file') /\ headerPages <= size'
           /\ Slot \in 1..size' /\ file'[Slot] = page
           /\ \A p \in 1..size : p # Slot => p \in 1..size' /\ file'[p] = file[p]
           /\ \A p \in 1..headerPages : file[p].kind = "vectors" => file'[p] = file[p]
           /\ root # Slot /\ headerRoot # Slot
           /\ \A i \in Ids : vectorPages[i] # Slot
           /\ \A i \in Ids : \A k \in DOMAIN versionIndex[i] : versionIndex[i][k] # Slot
           /\ freeList' \in Seq(Nat)
           /\ \A k \in DOMAIN freeList' :
                 k \in DOMAIN freeList /\ freeList'[k] = freeList[k] /\ freeList[k] # Slot
<1>1. /\ file \in Seq(Pages) /\ size \in 0..Len(file) /\ freeList \in Seq(Nat)
      /\ headerPages \in 0..Len(file) /\ headerPages <= size /\ vectorPages \in [Ids -> Nat]
  BY DEF IInv, Types, Phases
<1>2. \A k \in DOMAIN freeList : freeList[k] \in 1..size /\ file[freeList[k]].kind = "version"
  BY DEF IInv, Kinds
<1>3. \A j, k \in DOMAIN freeList : freeList[j] = freeList[k] => j = k
  BY DEF IInv, Placed
<1>4. /\ Extended \in Seq(Pages) /\ Slot \in DOMAIN Extended
      /\ file' \in Seq(Pages) /\ size <= size' /\ size' \in 0..Len(file')
      /\ Slot \in 1..size' /\ file'[Slot] = page
      /\ \A p \in 1..size : p # Slot => file'[p] = file[p]
      /\ (\E k \in DOMAIN freeList : Slot = freeList[k]) \/ Slot = size + 1
      /\ freeList' \in Seq(Nat)
      /\ \A k \in DOMAIN freeList' :
            k \in DOMAIN freeList /\ freeList'[k] = freeList[k] /\ freeList[k] # Slot
  BY <1>1, <1>2, <1>3, PlaceFact
<1>5. \A p \in 1..size : file[p].kind # "version" => p # Slot
  BY <1>1, <1>2, <1>4, SMTT(30)
<1>6. \A p \in 1..size : p # Slot => p \in 1..size' /\ file'[p] = file[p]
  BY <1>1, <1>4
<1>7. \A p \in 1..headerPages : file[p].kind = "vectors" => file'[p] = file[p]
  BY <1>1, <1>5, <1>6
<1>8. Slot # 0
  BY <1>4
<1>9. root # Slot /\ headerRoot # Slot
  BY <1>1, <1>5, <1>8 DEF IInv, Kinds
<1>10. \A i \in Ids : vectorPages[i] # Slot
  BY <1>1, <1>5, <1>8 DEF IInv, Kinds
<1>11. ASSUME NEW i \in Ids, NEW k \in DOMAIN versionIndex[i]
       PROVE  versionIndex[i][k] # Slot
  <2>1. versionIndex[i][k] \in 1..size
    BY DEF IInv, Kinds
  <2>2. \A j \in DOMAIN freeList : freeList[j] # versionIndex[i][k]
    BY DEF IInv, Placed
  <2>3. QED
    BY <1>1, <1>4, <2>1, <2>2
<1>12. headerPages \in 0..Len(file') /\ headerPages <= size'
  BY <1>1, <1>4
<1>13. QED
  BY <1>4, <1>6, <1>7, <1>9, <1>10, <1>11, <1>12

\* What is on the page AllocatePage returns is a page.
LEMMA SlotHoldsAPage ==
    ASSUME IInv
    PROVE  Extended[Slot] \in Pages
<1>1. /\ file \in Seq(Pages) /\ size \in 0..Len(file) /\ freeList \in Seq(Nat)
  BY DEF IInv, Types
<1>2. \A k \in DOMAIN freeList : freeList[k] \in 1..size
  BY DEF IInv, Kinds
<1>3. CASE freeList # <<>>
  <2>1. Slot = freeList[Len(freeList)] /\ Extended = file /\ Len(freeList) \in DOMAIN freeList
    BY <1>1, <1>3 DEF Slot, Extended, Last
  <2>2. Slot \in DOMAIN file
    BY <1>1, <1>2, <2>1
  <2>3. QED
    BY <1>1, <2>1, <2>2
<1>4. CASE freeList = <<>>
  <2>1. Slot = size + 1
    BY <1>4 DEF Slot
  <2>2. CASE Len(file) > size
    BY <1>1, <1>4, <2>1, <2>2 DEF Extended
  <2>3. CASE ~(Len(file) > size)
    <3>1. Extended = Append(file, Blank) /\ Blank \in Pages /\ Slot = Len(file) + 1
      BY <1>1, <1>4, <2>1, <2>3 DEF Extended, Pages
    <3>2. QED
      BY <1>1, <3>1
  <2>4. QED
    BY <2>2, <2>3
<1>5. QED
  BY <1>3, <1>4

\* An acknowledged vector stays where it is when the pages of vectors the header covers do.
LEMMA OnDiskStays ==
    ASSUME IInv, headerPages' = headerPages \/ (headerPages' \in Nat /\ headerPages <= headerPages'),
           \A p \in 1..headerPages : file[p].kind = "vectors" => file'[p] = file[p],
           NEW e \in acked
    PROVE  \E p \in 1..headerPages' : Holds(file'[p], e)
<1>1. file \in Seq(Pages) /\ headerPages \in 0..Len(file) /\ e.id \in Ids
  BY DEF IInv, Types
<1>2. PICK p \in 1..headerPages : Holds(file[p], e)
  BY DEF IInv, OnDisk
<1>3. file[p] \in Pages
  BY <1>1, <1>2
<1>4. file[p].kind = "vectors"
  BY <1>1, <1>2, <1>3, EntriesFact
<1>5. QED
  BY <1>1, <1>2, <1>4

\* A page that is placed while chains and headers stay: as a page of vectors it may become
\* that of an ID, as a persisted index the root, otherwise nobody uses it yet.
LEMMA PlaceKeepsPages ==
    ASSUME IInv, Running, NEW page \in Pages, Place(page),
           UNCHANGED <<headerPages, headerRoot, versionIndex, acked>>,
           root' = root \/ (root' = Slot /\ page.kind = "index"),
           vectorPages' \in [Ids -> Nat],
           \A j \in Ids : vectorPages'[j] = vectorPages[j]
                          \/ (vectorPages'[j] = Slot /\ page.kind = "vectors")
    PROVE  /\ file' \in Seq(Pages) /\ size' \in 0..Len(file') /\ headerPages' \in 0..Len(file')
           /\ headerPages' <= size' /\ freeList' \in Seq(Nat)
           /\ Kinds' /\ Placed' /\ OnDisk'
           /\ file'[Slot] = page /\ Slot # 0
           /\ \A j \in Ids : vectorPages[j] # 0 => file'[vectorPages[j]] = file[vectorPages[j]]
           /\ \A j \in Ids : \A k \in DOMAIN versionIndex[j] :
                 file'[versionIndex[j][k]] = file[versionIndex[j][k]]
           /\ headerRoot # 0 => file'[headerRoot] = file[headerRoot]
           /\ root # 0 => file'[root] = file[root]
<1>1. /\ file' \in Seq(Pages) /\ size <= size' /\ size' \in 0..Len(file')
      /\ headerPages \in 0..Len(file') /\ headerPages <= size'
      /\ Slot \in 1..size' /\ file'[Slot] = page
      /\ \A p \in 1..size : p # Slot => p \in 1..size' /\ file'[p] = file[p]
      /\ \A p \in 1..headerPages : file[p].kind = "vectors" => file'[p] = file[p]
      /\ root # Slot /\ headerRoot # Slot
      /\ \A i \in Ids : vectorPages[i] # Slot
      /\ \A i \in Ids : \A k \in DOMAIN versionIndex[i] : versionIndex[i][k] # Slot
      /\ freeList' \in Seq(Nat)
      /\ \A k \in DOMAIN freeList' :
            k \in DOMAIN freeList /\ freeList'[k] = freeList[k] /\ freeList[k] # Slot
  BY PlaceKeeps
<1>2. Slot # 0 /\ headerPages \in Nat /\ headerPages <= size /\ size \in Nat
  BY <1>1 DEF IInv, Types, Phases
<1>3. \A j \in Ids : vectorPages[j] # 0 =>
         /\ vectorPages[j] \in 1..size' /\ file[vectorPages[j]].kind = "vectors"
         /\ file'[vectorPages[j]] = file[vectorPages[j]]
  BY <1>1 DEF IInv, Kinds
<1>4. \A j \in Ids : \A k \in DOMAIN versionIndex[j] :
         /\ versionIndex[j][k] \in 1..size' /\ file[versionIndex[j][k]].kind = "version"
         /\ file'[versionIndex[j][k]] = file[versionIndex[j][k]]
  BY <1>1 DEF IInv, Kinds
<1>5. headerRoot # 0 => headerRoot \in 1..headerPages /\ file[headerRoot].kind = "index"
                        /\ file'[headerRoot] = file[headerRoot]
  BY <1>1, <1>2 DEF IInv, Kinds
<1>6. root # 0 => root \in 1..size' /\ file[root].kind = "index" /\ file'[root] = file[root]
  BY <1>1 DEF IInv, Kinds
<1>7. \A k \in DOMAIN freeList' : freeList'[k] \in 1..size' /\ file'[freeList'[k]].kind = "version"
  BY <1>1, SMTT(30) DEF IInv, Kinds
<1>8. \A i \in Ids : vectorPages'[i] # 0 =>
         vectorPages'[i] \in 1..size' /\ file'[vectorPages'[i]].kind = "vectors"
  BY <1>1, <1>3, SMTT(30)
<1>9. Kinds'
  <2>1. root' # 0 => root' \in 1..size' /\ file'[root'].kind = "index"
    BY <1>1, <1>6
  <2>2. QED
    BY <1>4, <1>5, <1>7, <1>8, <2>1 DEF Kinds
<1>10. Placed'
  BY <1>1 DEF IInv, Placed
<1>11. \A e \in acked : \E p \in 1..headerPages' : Holds(file'[p], e)
  BY <1>1, OnDiskStays
<1>12. OnDisk'
  BY <1>11 DEF OnDisk
<1>13. QED
  BY <1>1, <1>2, <1>3, <1>4, <1>5, <1>6, <1>9, <1>10, <1>12

\* storeVector gives an ID a page that holds its vector.
LEMMA StoreVectorKeeps ==
    ASSUME IInv, Running, NEW i \in Ids, NEW v \in Vectors \cup {Empty}, StoreVector(i, v),
           UNCHANGED <<headerPages, headerRoot, root, versionIndex, acked>>
    PROVE  /\ file' \in Seq(Pages) /\ size' \in 0..Len(file') /\ headerPages' \in 0..Len(file')
           /\ headerPages' <= size' /\ freeList' \in Seq(Nat) /\ vectorPages' \in [Ids -> Nat]
           /\ Kinds' /\ Placed' /\ OnDisk'
           /\ vectorPages'[i] # 0 /\ Holds(file'[vectorPages'[i]], Entry(i, v))
           /\ \A j \in Ids \ {i} :
                 /\ vectorPages'[j] = vectorPages[j]
                 /\ vectorPages[j] # 0 => file'[vectorPages[j]] = file[vectorPages[j]]
           /\ \A j \in Ids : \A k \in DOMAIN versionIndex[j] :
                 file'[versionIndex[j][k]] = file[versionIndex[j][k]]
           /\ headerRoot # 0 => file'[headerRoot] = file[headerRoot]
<1> DEFINE page == WithEntry(Extended[Slot], i, v)
<1>1. page \in Pages /\ page.kind = "vectors" /\ Holds(page, Entry(i, v))
  BY SlotHoldsAPage, WithEntryFact
<1>2. Place(page) /\ vectorPages' = [vectorPages EXCEPT ![i] = Slot] /\ vectorPages \in [Ids -> Nat]
  BY DEF StoreVector, IInv, Types
<1> HIDE DEF page
<1>3. Slot \in Nat
  BY <1>1, <1>2, PlaceKeeps
<1>4. vectorPages' \in [Ids -> Nat] /\ vectorPages'[i] = Slot
      /\ \A j \in Ids \ {i} : vectorPages'[j] = vectorPages[j]
  BY <1>2, <1>3
<1>5. /\ file' \in Seq(Pages) /\ size' \in 0..Len(file') /\ headerPages' \in 0..Len(file')
      /\ headerPages' <= size' /\ freeList' \in Seq(Nat)
      /\ Kinds' /\ Placed' /\ OnDisk'
      /\ file'[Slot] = page /\ Slot # 0
      /\ \A j \in Ids : vectorPages[j] # 0 => file'[vectorPages[j]] = file[vectorPages[j]]
      /\ \A j \in Ids : \A k \in DOMAIN versionIndex[j] :
            file'[versionIndex[j][k]] = file[versionIndex[j][k]]
      /\ headerRoot # 0 => file'[headerRoot] = file[headerRoot]
  BY <1>1, <1>2, <1>4, PlaceKeepsPages
<1>6. QED
  BY <1>1, <1>4, <1>5

\* The log and its buffer: an entry is added, or the buffer is written out.
LEMMA WalAppendFact ==
    ASSUME Types, NEW i \in Ids, NEW v \in Vectors \cup {Empty}, WalAppend(i, v)
    PROVE  /\ walFile' \in Seq(LogEntries) /\ walBuffer' \in Seq(LogEntries)
           /\ Len(walBuffer') < FlushAt
           /\ IdsIn(walFile) \subseteq IdsIn(walFile)'
           /\ IdsIn(walFile) \cup IdsIn(walBuffer) \cup {i}
                 \subseteq IdsIn(walFile)' \cup IdsIn(walBuffer)'
<1> DEFINE e == Entry(i, v)
<1> DEFINE full == Append(walBuffer, e)
<1>1. /\ walFile \in Seq(LogEntries) /\ walBuffer \in Seq(LogEntries)
      /\ FlushAt \in Nat \ {0} /\ Len(walBuffer) < FlushAt
  BY ConstantsAssumption DEF Types
<1>2. e \in LogEntries /\ e.id = i
  BY DEF Entry, LogEntries
<1> HIDE DEF e
<1>3. /\ full \in Seq(LogEntries) /\ Len(full) = Len(walBuffer) + 1 /\ full[Len(walBuffer) + 1] = e
      /\ \A k \in 1..Len(walBuffer) : full[k] = walBuffer[k]
  BY <1>1, <1>2, AppendProperties
<1>4. IdsIn(walBuffer) \cup {i} \subseteq IdsIn(full)
  BY <1>1, <1>2, <1>3 DEF IdsIn
<1>5. \/ walFile' = walFile \o full /\ walBuffer' = <<>>
      \/ walBuffer' = full /\ walFile' = walFile /\ Len(full) < FlushAt
  BY <1>1, <1>3, SMTT(30) DEF WalAppend, e
<1> HIDE DEF full
<1>6. CASE walBuffer' = full /\ walFile' = walFile /\ Len(full) < FlushAt
  <2>1. IdsIn(walFile)' = IdsIn(walFile) /\ IdsIn(walBuffer)' = IdsIn(full)
    BY <1>6 DEF IdsIn
  <2>2. QED
    BY <1>1, <1>3, <1>4, <1>6, <2>1
<1>7. CASE walFile' = walFile \o full /\ walBuffer' = <<>>
  <2>1. walFile' \in Seq(LogEntries) /\ walBuffer' \in Seq(LogEntries) /\ Len(walBuffer') < FlushAt
    BY <1>1, <1>3, <1>7
  <2>2. IdsIn(walFile) \subseteq IdsIn(walFile)' /\ IdsIn(full) \subseteq IdsIn(walFile)'
    <3>1. \A k \in DOMAIN walFile : k \in DOMAIN walFile' /\ walFile'[k] = walFile[k]
      BY <1>1, <1>3, <1>7
    <3>2. \A k \in DOMAIN full : Len(walFile) + k \in DOMAIN walFile' /\ walFile'[Len(walFile) + k] = full[k]
      BY <1>1, <1>3, <1>7
    <3>3. QED
      BY <3>1, <3>2 DEF IdsIn
  <2>3. QED
    BY <1>4, <2>1, <2>2
<1>8. QED
  BY <1>5, <1>6, <1>7

LEMMA FlushFact ==
    ASSUME Types, Flush
    PROVE  /\ walFile' \in Seq(LogEntries) /\ walBuffer' \in Seq(LogEntries)
           /\ Len(walBuffer') < FlushAt
           /\ IdsIn(walFile) \cup IdsIn(walBuffer) \subseteq IdsIn(walFile)'
<1>1. /\ walFile \in Seq(LogEntries) /\ walBuffer \in Seq(LogEntries) /\ FlushAt \in Nat \ {0}
      /\ walFile' = walFile \o walBuffer /\ walBuffer' = <<>>
  BY ConstantsAssumption DEF Types, Flush
<1>2. walFile' \in Seq(LogEntries) /\ walBuffer' \in Seq(LogEntries) /\ Len(walBuffer') < FlushAt
  BY <1>1
<1>3. \A k \in DOMAIN walFile : k \in DOMAIN walFile' /\ walFile'[k] = walFile[k]
  BY <1>1
<1>4. \A k \in DOMAIN walBuffer :
         Len(walFile) + k \in DOMAIN walFile' /\ walFile'[Len(walFile) + k] = walBuffer[k]
  BY <1>1
<1>5. QED
  BY <1>2, <1>3, <1>4 DEF IdsIn

-----------------------------------------------------------------------------
(* The invariant holds at first and is kept by every step. *)

LEMMA InitHolds ==
    ASSUME Init
    PROVE  IInv
<1>1. Types
  <2>1. NoIndex \in [Names -> Found]
    BY DEF NoIndex, Found
  <2>2. /\ file \in Seq(Pages) /\ size \in 0..Len(file) /\ headerPages \in 0..Len(file)
        /\ walFile \in Seq(LogEntries) /\ walBuffer \in Seq(LogEntries) /\ Len(walBuffer) < FlushAt
        /\ replay \in Seq(LogEntries) /\ freeList \in Seq(Nat) /\ writes \in Nat
    BY ConstantsAssumption DEF Init
  <2>3. versionIndex \in [Ids -> Seq(Nat)] /\ vectorPages \in [Ids -> Nat]
    BY DEF Init
  <2>4. headerSized \in BOOLEAN /\ sized \in BOOLEAN /\ stored \in BOOLEAN
    BY ConstantsAssumption DEF Init
  <2>5. QED
    BY <2>1, <2>2, <2>3, <2>4 DEF Init, Types
<1>2. Phases
  BY DEF Init, Phases, Running, Idle, NoTx
<1>3. Kinds /\ Placed /\ Ordered
  BY DEF Init, Kinds, Placed, Ordered
<1>4. OnDisk /\ Written /\ Known
  BY DEF Init, OnDisk, Written, Known, Idle, NoTx
<1>5. Persisted
  BY DEF Init, Persisted, Idle
<1>6. InLog /\ Sizes /\ RefusedUnsizedOrOversized
  BY DEF Init, InLog, Sizes, RefusedUnsizedOrOversized, Idle, NoTx
<1>7. QED
  BY <1>1, <1>2, <1>3, <1>4, <1>5, <1>6 DEF IInv

LEMMA StutterKeeps ==
    ASSUME IInv, UNCHANGED vars
    PROVE  IInv'
<1> USE DEF IInv, vars, diskVars, memoryVars, history, Running
<1>1. Types' /\ Phases'
  BY DEF Types, Phases
<1>2. Kinds' /\ Placed' /\ Ordered'
  BY DEF Kinds, Placed, Ordered
<1>3. OnDisk' /\ Written' /\ Known'
  BY DEF OnDisk, Written, Known
<1>4. Persisted' /\ InLog' /\ Sizes' /\ RefusedUnsizedOrOversized'
  BY DEF Persisted, InLog, Sizes, RefusedUnsizedOrOversized, HasVectors, IdsIn
<1>5. QED
  BY <1>1, <1>2, <1>3, <1>4

\* Nest.Store logs its vector.
LEMMA StoreKeeps ==
    ASSUME IInv, NEW i \in Direct, NEW v \in Vectors, Store(i, v)
    PROVE  IInv'
<1> USE DEF IInv, Running
<1>1. /\ status = "open" /\ status' = "open" /\ job = Idle /\ job.kind = "none"
      /\ job' = [kind |-> "store", id |-> i, vec |-> v] /\ job'.kind = "store"
      /\ i \in Ids /\ sized' = TRUE /\ writes' = writes + 1
      /\ WalAppend(i, v)
      /\ UNCHANGED <<pageVars, headerPages, headerRoot, headerSized, root, index, vectorPages,
                     versionIndex, tx, replay, history>>
  BY ConstantsAssumption DEF Store, LockFree, Idle
<1>2. /\ walFile' \in Seq(LogEntries) /\ walBuffer' \in Seq(LogEntries)
      /\ Len(walBuffer') < FlushAt
      /\ IdsIn(walFile) \subseteq IdsIn(walFile)'
      /\ IdsIn(walFile) \cup IdsIn(walBuffer) \cup {i} \subseteq IdsIn(walFile)' \cup IdsIn(walBuffer)'
  BY <1>1, WalAppendFact
<1>3. Types'
  <2>1. tx' \in {NoTx} \cup [stage : {"log", "versions", "index"}, num : 1..writes', writes : Writes,
                             todo : SUBSET Ids]
    <3>1. 1..writes \subseteq 1..writes'
      BY <1>1 DEF Types
    <3>2. QED
      BY <1>1, <3>1 DEF Types
  <2>2. job' \in [kind : {"store", "stored"}, id : Ids, vec : Vectors]
    BY <1>1
  <2>3. QED
    BY <1>1, <1>2, <2>1, <2>2, SMTT(30) DEF Types, pageVars, history
<1>4. Phases'
  BY <1>1 DEF Phases, pageVars, history
<1>5. Kinds' /\ Placed'
  BY <1>1 DEF Kinds, Placed, pageVars
<1>6. Ordered'
  <2>1. writes \in Nat
    BY DEF Types
  <2>2. QED
    BY <1>1, <2>1, VersionNumbers DEF Ordered, pageVars
<1>7. OnDisk' /\ Written' /\ Known'
  BY <1>1 DEF OnDisk, Written, Known, pageVars, history
<1>8. Persisted'
  BY <1>1 DEF Persisted
<1>9. InLog'
  BY <1>1, <1>2 DEF InLog, history
<1>10. Sizes' /\ RefusedUnsizedOrOversized'
  BY <1>1 DEF Sizes, RefusedUnsizedOrOversized, Phases, history
<1>11. QED
  BY <1>3, <1>4, <1>5, <1>6, <1>7, <1>8, <1>9, <1>10

\* Store changes the index, then gives the ID a page; when the page fails, the ID leaves
\* the index.
LEMMA StoreApplyKeeps ==
    ASSUME IInv, StoreApply
    PROVE  IInv'
<1> USE DEF IInv, Running
<1>1. /\ job.kind = "store" /\ job.id \in Ids /\ job.vec \in Vectors /\ status = "open"
      /\ status' = status /\ tx.stage # "index" /\ job # Idle
      /\ UNCHANGED <<headerVars, walVars, status, versionIndex, tx, replay, writes, restarts, acked,
                     stored, logged, removed, sealed>>
  BY Fields DEF StoreApply, Phases, Idle
<1>2. ASSUME job.vec \notin Oversized, index' = [index EXCEPT ![job.id] = job.vec],
             StoreVector(job.id, job.vec), job' = [job EXCEPT !.kind = "stored"],
             exposed' = exposed
      PROVE  IInv'
  <2>1. /\ file' \in Seq(Pages) /\ size' \in 0..Len(file') /\ headerPages' \in 0..Len(file')
        /\ headerPages' <= size' /\ freeList' \in Seq(Nat) /\ vectorPages' \in [Ids -> Nat]
        /\ Kinds' /\ Placed' /\ OnDisk'
        /\ vectorPages'[job.id] # 0 /\ Holds(file'[vectorPages'[job.id]], Entry(job.id, job.vec))
        /\ \A j \in Ids : \A k \in DOMAIN versionIndex[j] :
              file'[versionIndex[j][k]] = file[versionIndex[j][k]]
        /\ headerRoot # 0 => file'[headerRoot] = file[headerRoot]
    BY <1>1, <1>2, StoreVectorKeeps DEF headerVars
  <2>2. /\ job' \in [kind : {"store", "stored"}, id : Ids, vec : Vectors]
        /\ job'.kind = "stored" /\ job'.id = job.id /\ job'.vec = job.vec
    BY <1>1, <1>2 DEF Types, Idle
  <2>3. /\ index' \in [Names -> Found] /\ index'[job.id] = job.vec /\ job.vec # Absent
        /\ \A n \in Names : index'[n] = index[n] \/ index'[n] # Absent
    BY <1>1, <1>2, ConstantsAssumption DEF Types, Found, Contents, Names
  <2>4. Types'
    BY <1>1, <2>1, <2>2, <2>3 DEF Types, headerVars, walVars
  <2>5. Phases'
    BY <1>1, <1>2, <2>1, <2>2 DEF Phases, headerVars, walVars
  <2>6. Ordered'
    BY <1>1, <2>1, ZenonT(40) DEF Ordered
  <2>7. Written'
    BY <1>1, <2>1, <2>2, <2>3 DEF Written
  <2>8. Known'
    <3>1. \A e \in acked : e.id \in Names
      BY DEF Types, Names
    <3>2. QED
      BY <1>1, <1>2, <2>1, <2>3, <3>1 DEF Known, headerVars
  <2>9. Persisted'
    BY <1>1, <2>2 DEF Persisted, headerVars
  <2>10. InLog' /\ Sizes' /\ RefusedUnsizedOrOversized'
    BY <1>1, <2>2 DEF InLog, Sizes, RefusedUnsizedOrOversized, headerVars, walVars, IdsIn
  <2>11. QED
    BY <2>1, <2>4, <2>5, <2>6, <2>7, <2>8, <2>9, <2>10
<1>3. ASSUME index' = [index EXCEPT ![job.id] = Absent], StoreNothing, job' = Idle,
             exposed' = exposed \cup {job.id}
      PROVE  IInv'
  <2>1. /\ file' \in Seq(Pages) /\ size' \in 0..Len(file') /\ headerPages' \in 0..Len(file')
        /\ headerPages' <= size' /\ freeList' \in Seq(Nat) /\ vectorPages' = vectorPages
        /\ Kinds' /\ Placed' /\ OnDisk'
        /\ \A j \in Ids : \A k \in DOMAIN versionIndex[j] :
              file'[versionIndex[j][k]] = file[versionIndex[j][k]]
        /\ headerRoot # 0 => file'[headerRoot] = file[headerRoot]
    <3>1. vectorPages' = vectorPages /\ vectorPages \in [Ids -> Nat] /\ Place(Extended[Slot])
      BY <1>3 DEF StoreNothing, Types
    <3>2. Extended[Slot] \in Pages
      BY SlotHoldsAPage
    <3>3. QED
      BY <1>1, <3>1, <3>2, PlaceKeepsPages DEF headerVars
  <2>2. job'.kind = "none"
    BY <1>3 DEF Idle
  <2>3. /\ index' \in [Names -> Found]
        /\ \A n \in Names : n # job.id => index'[n] = index[n]
    BY <1>1, <1>3 DEF Types, Found, Names
  <2>4. Types'
    BY <1>1, <1>3, <2>1, <2>2, <2>3 DEF Types, headerVars, walVars
  <2>5. Phases'
    BY <1>1, <1>3, <2>1, <2>2 DEF Phases, headerVars, walVars
  <2>6. Ordered'
    BY <1>1, <2>1, SMTT(30) DEF Ordered
  <2>7. Written'
    BY <1>1, <2>2 DEF Written
  <2>8. Known'
    <3>1. \A e \in acked : e.id \in Names
      BY DEF Types, Names
    <3>2. QED
      BY <1>1, <1>3, <2>1, <2>3, <3>1 DEF Known, headerVars
  <2>9. Persisted'
    BY <1>1, <2>2 DEF Persisted, headerVars
  <2>10. InLog' /\ Sizes' /\ RefusedUnsizedOrOversized'
    BY <1>1, <2>2 DEF InLog, Sizes, RefusedUnsizedOrOversized, headerVars, walVars, IdsIn
  <2>11. QED
    BY <2>1, <2>4, <2>5, <2>6, <2>7, <2>8, <2>9, <2>10
<1>4. QED
  BY <1>2, <1>3 DEF StoreApply

\* The header is written: it covers the pages in use, and has the root in use.
LEMMA HeaderKeeps ==
    ASSUME IInv, Running, WriteHeader, UNCHANGED pageVars, NEW e \in acked
    PROVE  /\ headerPages' = size /\ headerRoot' = root /\ headerSized' = sized
           /\ headerPages' \in 0..Len(file)
           /\ \E p \in 1..headerPages' : Holds(file'[p], e)
<1>1. headerPages' = size /\ headerRoot' = root /\ headerSized' = sized /\ file' = file
  BY DEF WriteHeader, CoveredPages, SizedHeader, pageVars
<1>2. headerPages <= size /\ size \in 0..Len(file) /\ headerPages \in Nat
  BY DEF IInv, Types, Phases
<1>3. \E p \in 1..headerPages' : Holds(file'[p], e)
  BY <1>1, <1>2, OnDiskStays
<1>4. QED
  BY <1>1, <1>2, <1>3

\* Store writes the header and returns.
LEMMA StoreHeaderKeeps ==
    ASSUME IInv, StoreHeader
    PROVE  IInv'
<1> USE DEF IInv, Running
<1> DEFINE new == Entry(job.id, job.vec)
<1>1. /\ job.kind = "stored" /\ job.id \in Ids /\ job.vec \in Vectors \ Oversized /\ status = "open"
      /\ status' = status /\ tx.stage # "index" /\ job' = Idle /\ job'.kind = "none"
      /\ stored' = TRUE /\ acked' = acked \cup {new}
      /\ exposed' = IF root = 0 THEN exposed ELSE exposed \cup {job.id}
      /\ new \in [id : Ids, vec : Vectors \ Oversized] /\ new.id = job.id
      /\ UNCHANGED <<pageVars, root, sized, walVars, status, index, vectorPages, versionIndex, tx, replay,
                     writes, restarts, logged, removed, sealed>>
  <2>1. /\ job.kind = "stored" /\ job.id \in Ids /\ job.vec \in Vectors \ Oversized /\ status = "open"
        /\ tx.stage # "index" /\ job' = Idle /\ job'.kind = "none" /\ stored' = TRUE
        /\ UNCHANGED <<pageVars, root, sized, walVars, status, index, vectorPages, versionIndex, tx,
                       replay, writes, restarts, logged, removed, sealed>>
    BY Fields DEF StoreHeader, Phases, Idle
  <2>2. acked' = acked \cup {new} /\ {e.id : e \in {new}} = {job.id}
    BY DEF StoreHeader, Acknowledge, Entry
  <2>3. exposed' = IF root = 0 THEN exposed ELSE exposed \cup {job.id}
    BY <2>2 DEF StoreHeader, Acknowledge
  <2>4. new \in [id : Ids, vec : Vectors \ Oversized] /\ new.id = job.id
    BY <2>1 DEF Entry
  <2>5. QED
    BY <2>1, <2>2, <2>3, <2>4
<1>2. headerPages' = size /\ headerRoot' = root /\ headerSized' = sized /\ size \in 0..Len(file)
      /\ root = headerRoot
  BY <1>1 DEF StoreHeader, WriteHeader, CoveredPages, SizedHeader, Types, Persisted
<1> HIDE DEF new
<1>3. Types'
  BY <1>1, <1>2 DEF Types, pageVars, walVars
<1>4. Phases'
  BY <1>1, <1>2 DEF Phases, Types, pageVars, walVars
<1>5. Kinds' /\ Placed'
  BY <1>1, <1>2 DEF Kinds, Placed, pageVars
<1>6. Ordered'
  BY <1>1 DEF Ordered, pageVars
<1>7. OnDisk'
  <2>1. ASSUME NEW e \in acked PROVE \E p \in 1..headerPages' : Holds(file'[p], e)
    BY <1>1, HeaderKeeps DEF StoreHeader
  <2>2. vectorPages[job.id] \in 1..headerPages' /\ Holds(file'[vectorPages[job.id]], new)
    BY <1>1, <1>2 DEF Written, Kinds, new, pageVars
  <2>3. QED
    BY <1>1, <2>1, <2>2 DEF OnDisk
<1>8. Written'
  BY <1>1 DEF Written
<1>9. Known'
  <2>1. index[job.id] # Absent
    BY <1>1 DEF Written
  <2>2. QED
    BY <1>1, <1>2, <2>1 DEF Known, pageVars
<1>10. Persisted'
  BY <1>1, <1>2 DEF Persisted
<1>11. InLog' /\ Sizes' /\ RefusedUnsizedOrOversized'
  BY <1>1, <1>2 DEF InLog, Sizes, RefusedUnsizedOrOversized, walVars, IdsIn
<1>12. QED
  BY <1>3, <1>4, <1>5, <1>6, <1>7, <1>8, <1>9, <1>10, <1>11

\* A commit begins: its number is above those of all versions.
LEMMA CommitBeginKeeps ==
    ASSUME IInv, NEW w \in Writes, CommitBegin(w)
    PROVE  IInv'
<1> USE DEF IInv, Running
<1>1. /\ status = "open" /\ status' = status /\ tx = NoTx /\ tx.stage = "none" /\ writes' = writes + 1
      /\ writes \in Nat
      /\ tx' = [stage |-> "log", num |-> writes + 1, writes |-> w, todo |-> DOMAIN w]
      /\ tx' # NoTx /\ tx'.stage = "log" /\ tx'.num = writes + 1 /\ tx'.writes = w /\ tx'.todo = DOMAIN w
      /\ DOMAIN w \subseteq Ids
      /\ removed' = removed \cup {i \in DOMAIN w : w[i] = Empty}
      /\ UNCHANGED <<pageVars, headerVars, walVars, status, index, vectorPages, versionIndex, job,
                     replay, restarts, acked, stored, exposed, logged, sealed>>
  <2>1. /\ status = "open" /\ status' = status /\ tx = NoTx /\ writes' = writes + 1 /\ writes \in Nat
        /\ tx' = [stage |-> "log", num |-> writes + 1, writes |-> w, todo |-> DOMAIN w]
        /\ removed' = removed \cup {i \in DOMAIN w : w[i] = Empty}
        /\ UNCHANGED <<pageVars, headerVars, walVars, status, index, vectorPages, versionIndex, job,
                       replay, restarts, acked, stored, exposed, logged, sealed>>
    BY DEF CommitBegin, Types
  <2>2. tx' # NoTx /\ tx.stage = "none"
    BY <2>1 DEF NoTx
  <2>3. QED
    BY <2>1, <2>2, ConstantsAssumption
<1>2. Types'
  <2>1. tx' \in [stage : {"log", "versions", "index"}, num : 1..writes', writes : Writes,
                 todo : SUBSET Ids]
    BY <1>1
  <2>2. QED
    BY <1>1, <2>1 DEF Types, pageVars, headerVars, walVars
<1>3. Phases'
  BY <1>1 DEF Phases, pageVars, headerVars, walVars
<1>4. Kinds' /\ Placed'
  BY <1>1 DEF Kinds, Placed, pageVars, headerVars
<1>5. Ordered'
  <2>1. \A i \in Ids : \A k \in DOMAIN versionIndex[i] :
           file[versionIndex[i][k]].num \in Nat /\ file[versionIndex[i][k]].num <= writes
    BY VersionNumbers DEF Ordered
  <2>2. QED
    BY <1>1, <2>1 DEF Ordered, pageVars
<1>6. OnDisk' /\ Written' /\ Known'
  BY <1>1 DEF OnDisk, Written, Known, pageVars, headerVars
<1>7. Persisted'
  BY <1>1 DEF Persisted, HasVectors, pageVars, headerVars, walVars
<1>8. InLog' /\ Sizes' /\ RefusedUnsizedOrOversized'
  BY <1>1 DEF InLog, Sizes, RefusedUnsizedOrOversized, headerVars, walVars, IdsIn
<1>9. QED
  BY <1>2, <1>3, <1>4, <1>5, <1>6, <1>7, <1>8

\* A commit logs a write.
LEMMA CommitLogKeeps ==
    ASSUME IInv, NEW i \in Ids, CommitLog(i)
    PROVE  IInv'
<1> USE DEF IInv, Running
<1>1. /\ tx.stage = "log" /\ tx # NoTx /\ i \in tx.todo /\ i \in DOMAIN tx.writes /\ status = "open"
      /\ tx.writes[i] \in Vectors \cup {Empty} /\ WalAppend(i, tx.writes[i])
      /\ logged' = logged \cup {i} /\ tx' = [tx EXCEPT !.todo = @ \ {i}]
      /\ UNCHANGED <<pageVars, headerVars, status, index, vectorPages, versionIndex, job, replay,
                     writes, restarts, acked, stored, exposed, removed, sealed>>
  BY Fields DEF CommitLog, Phases, NoTx
<1>2. /\ tx' \in [stage : {"log", "versions", "index"}, num : 1..writes, writes : Writes, todo : SUBSET Ids]
      /\ tx'.stage = "log" /\ tx'.num = tx.num /\ tx'.writes = tx.writes /\ tx'.todo = tx.todo \ {i}
      /\ tx'.todo \subseteq DOMAIN tx.writes /\ tx' # NoTx
  BY <1>1, Fields DEF Types, NoTx
<1>3. /\ walFile' \in Seq(LogEntries) /\ walBuffer' \in Seq(LogEntries)
      /\ Len(walBuffer') < FlushAt
      /\ IdsIn(walFile) \subseteq IdsIn(walFile)'
      /\ IdsIn(walFile) \cup IdsIn(walBuffer) \cup {i} \subseteq IdsIn(walFile)' \cup IdsIn(walBuffer)'
  BY <1>1, WalAppendFact
<1>4. Types'
  BY <1>1, <1>2, <1>3 DEF Types, pageVars, headerVars
<1>5. Phases'
  BY <1>1, <1>2 DEF Phases, pageVars, headerVars
<1>6. Kinds' /\ Placed'
  BY <1>1 DEF Kinds, Placed, pageVars, headerVars
<1>7. Ordered'
  BY <1>1, <1>2 DEF Ordered, pageVars
<1>8. OnDisk' /\ Written' /\ Known'
  BY <1>1, <1>2 DEF OnDisk, Written, Known, pageVars, headerVars
<1>9. Persisted'
  BY <1>1 DEF Persisted, HasVectors, pageVars, headerVars
<1>10. InLog'
  BY <1>1, <1>2, <1>3 DEF InLog
<1>11. Sizes' /\ RefusedUnsizedOrOversized'
  BY <1>1 DEF Sizes, RefusedUnsizedOrOversized, Phases, headerVars
<1>12. QED
  BY <1>4, <1>5, <1>6, <1>7, <1>8, <1>9, <1>10, <1>11

\* The log is flushed: what the commit has logged is in the file.
LEMMA CommitFlushKeeps ==
    ASSUME IInv, CommitFlush
    PROVE  IInv'
<1> USE DEF IInv, Running
<1>1. /\ tx.stage = "log" /\ tx # NoTx /\ tx.todo = {} /\ status = "open" /\ Flush
      /\ tx' = [tx EXCEPT !.stage = "versions", !.todo = DOMAIN tx.writes]
      /\ UNCHANGED <<pageVars, headerVars, status, index, vectorPages, versionIndex, job, replay,
                     writes, restarts, history>>
  BY DEF CommitFlush, Phases, NoTx
<1>2. /\ tx' \in [stage : {"log", "versions", "index"}, num : 1..writes, writes : Writes, todo : SUBSET Ids]
      /\ tx'.stage = "versions" /\ tx'.num = tx.num /\ tx'.writes = tx.writes /\ tx'.todo = DOMAIN tx.writes
      /\ tx' # NoTx
  BY <1>1, Fields DEF Types, NoTx
<1>3. /\ walFile' \in Seq(LogEntries) /\ walBuffer' \in Seq(LogEntries)
      /\ Len(walBuffer') < FlushAt
      /\ IdsIn(walFile) \cup IdsIn(walBuffer) \subseteq IdsIn(walFile)'
  BY <1>1, FlushFact
<1>4. Types'
  BY <1>1, <1>2, <1>3 DEF Types, pageVars, headerVars, history
<1>5. Phases'
  BY <1>1, <1>2 DEF Phases, pageVars, headerVars, history
<1>6. Kinds' /\ Placed'
  BY <1>1 DEF Kinds, Placed, pageVars, headerVars
<1>7. Ordered'
  BY <1>1, <1>2 DEF Ordered, pageVars
<1>8. OnDisk' /\ Written' /\ Known'
  BY <1>1, <1>2 DEF OnDisk, Written, Known, pageVars, headerVars, history
<1>9. Persisted'
  BY <1>1 DEF Persisted, HasVectors, pageVars, headerVars, history
<1>10. InLog'
  BY <1>1, <1>2, <1>3 DEF InLog, history
<1>11. Sizes' /\ RefusedUnsizedOrOversized'
  BY <1>1 DEF Sizes, RefusedUnsizedOrOversized, Phases, headerVars, history
<1>12. QED
  BY <1>4, <1>5, <1>6, <1>7, <1>8, <1>9, <1>10, <1>11

\* updateIndexMVCC takes the lock.
LEMMA CommitLockKeeps ==
    ASSUME IInv, CommitLock
    PROVE  IInv'
<1> USE DEF IInv, Running
<1>1. /\ tx.stage = "versions" /\ tx # NoTx /\ tx.todo = {} /\ status = "open" /\ job = Idle
      /\ job' = [kind |-> "commit"] /\ job'.kind = "commit" /\ job.kind = "none"
      /\ tx' = [tx EXCEPT !.stage = "index", !.todo = DOMAIN tx.writes]
      /\ UNCHANGED <<pageVars, headerVars, walVars, status, index, vectorPages, versionIndex, replay,
                     writes, restarts, history>>
  BY DEF CommitLock, LockFree, Phases, NoTx, Idle
<1>2. /\ tx' \in [stage : {"log", "versions", "index"}, num : 1..writes, writes : Writes, todo : SUBSET Ids]
      /\ tx'.stage = "index" /\ tx'.num = tx.num /\ tx'.writes = tx.writes /\ tx'.todo = DOMAIN tx.writes
      /\ tx' # NoTx
  BY <1>1, Fields DEF Types, NoTx
<1>3. Types'
  <2>1. job' \in [kind : {"commit", "checkpoint", "persisted", "synced"}]
    BY <1>1
  <2>2. QED
    BY <1>1, <1>2, <2>1 DEF Types, pageVars, headerVars, walVars, history
<1>4. Phases'
  BY <1>1, <1>2 DEF Phases, pageVars, headerVars, walVars, history
<1>5. Kinds' /\ Placed'
  BY <1>1 DEF Kinds, Placed, pageVars, headerVars
<1>6. Ordered'
  BY <1>1, <1>2 DEF Ordered, pageVars
<1>7. OnDisk' /\ Written' /\ Known'
  BY <1>1, <1>2 DEF OnDisk, Written, Known, pageVars, headerVars, history
<1>8. Persisted'
  BY <1>1 DEF Persisted, HasVectors, pageVars, headerVars, history, walVars
<1>9. InLog' /\ Sizes' /\ RefusedUnsizedOrOversized'
  BY <1>1, <1>2 DEF InLog, Sizes, RefusedUnsizedOrOversized, headerVars, walVars, history, IdsIn
<1>10. QED
  BY <1>3, <1>4, <1>5, <1>6, <1>7, <1>8, <1>9

\* updateIndexMVCC applies a write to the index, and to the pages unless it is a removal.
LEMMA CommitApplyKeeps ==
    ASSUME IInv, NEW i \in Ids, CommitApply(i)
    PROVE  IInv'
<1> USE DEF IInv, Running
<1> DEFINE v == tx.writes[i]
<1>1. /\ tx.stage = "index" /\ tx # NoTx /\ i \in tx.todo /\ i \in DOMAIN tx.writes /\ status = "open"
      /\ tx.todo \subseteq DOMAIN tx.writes /\ DOMAIN tx.writes \subseteq Ids
      /\ v \in Vectors \cup {Empty} /\ job.kind = "commit" /\ tx' = [tx EXCEPT !.todo = @ \ {i}]
      /\ UNCHANGED <<headerVars, walVars, status, versionIndex, job, replay, writes, restarts, history>>
  BY Fields DEF CommitApply, Phases, NoTx
<1>2. /\ tx' \in [stage : {"log", "versions", "index"}, num : 1..writes, writes : Writes, todo : SUBSET Ids]
      /\ tx'.stage = "index" /\ tx'.num = tx.num /\ tx'.writes = tx.writes /\ tx'.todo = tx.todo \ {i}
      /\ tx'.todo \subseteq DOMAIN tx.writes /\ tx' # NoTx
  BY <1>1, Fields DEF Types, NoTx
<1>3. /\ file' \in Seq(Pages) /\ size' \in 0..Len(file') /\ headerPages' \in 0..Len(file')
      /\ headerPages' <= size' /\ freeList' \in Seq(Nat) /\ vectorPages' \in [Ids -> Nat]
      /\ Kinds' /\ Placed' /\ OnDisk'
      /\ v # Empty => vectorPages'[i] # 0 /\ Holds(file'[vectorPages'[i]], Entry(i, v))
      /\ \A j \in Ids \ {i} :
            /\ vectorPages'[j] = vectorPages[j]
            /\ vectorPages[j] # 0 => file'[vectorPages[j]] = file[vectorPages[j]]
      /\ \A j \in Ids : \A k \in DOMAIN versionIndex[j] :
            file'[versionIndex[j][k]] = file[versionIndex[j][k]]
      /\ headerRoot # 0 => file'[headerRoot] = file[headerRoot]
  <2>1. CASE v = Empty
    <3>1. UNCHANGED <<pageVars, vectorPages>>
      BY <2>1 DEF CommitApply
    <3>2. /\ file \in Seq(Pages) /\ size \in 0..Len(file) /\ headerPages \in 0..Len(file)
          /\ headerPages <= size /\ freeList \in Seq(Nat) /\ vectorPages \in [Ids -> Nat]
      BY <1>1 DEF Types, Phases
    <3>3. Kinds' /\ Placed' /\ OnDisk'
      BY <1>1, <3>1 DEF Kinds, Placed, OnDisk, pageVars, headerVars, history
    <3>4. QED
      BY <1>1, <2>1, <3>1, <3>2, <3>3 DEF pageVars, headerVars
  <2>2. CASE v # Empty
    <3>1. StoreVector(i, v)
      BY <2>2 DEF CommitApply
    <3>2. QED
      BY <1>1, <3>1, StoreVectorKeeps DEF headerVars, history
  <2>3. QED
    BY <2>1, <2>2
<1>4. /\ index' \in [Names -> Found]
      /\ \A n \in Names : n # i => index'[n] = index[n]
      /\ v # Empty => index'[i] # Absent
      /\ v = Empty => i \in removed
  <2>1. index' = [index EXCEPT ![i] = IF v = Empty THEN Absent ELSE v]
    BY DEF CommitApply
  <2>2. v \in Found /\ Absent \in Found /\ (v # Empty => v # Absent)
    BY <1>1, ConstantsAssumption DEF Found, Contents
  <2>3. QED
    BY <1>1, <2>1, <2>2 DEF Types, Names, Phases
<1> HIDE DEF v
<1>5. Types'
  BY <1>1, <1>2, <1>3, <1>4 DEF Types, headerVars, walVars, history
<1>6. Phases'
  BY <1>1, <1>2, <1>3 DEF Phases, headerVars, walVars, history
<1>7. Ordered'
  <2>1. versionIndex' = versionIndex /\ writes' = writes /\ tx'.stage = "index"
    BY <1>1, <1>2
  <2>2. \A j \in Ids : \A k \in DOMAIN versionIndex[j] :
           file'[versionIndex[j][k]] = file[versionIndex[j][k]]
    BY <1>3
  <2>3. QED
    BY <2>1, <2>2 DEF Ordered
<1>8. Written'
  <2>1. job'.kind # "stored"
    BY <1>1
  <2>2. ASSUME NEW j \in DOMAIN tx.writes \ tx'.todo, tx.writes[j] # Empty
        PROVE  /\ index'[j] # Absent
               /\ vectorPages'[j] # 0 /\ Holds(file'[vectorPages'[j]], Entry(j, tx.writes[j]))
    <3>1. CASE j = i
      BY <1>3, <1>4, <2>2, <3>1 DEF v
    <3>2. CASE j # i
      <4>1. j \in DOMAIN tx.writes \ tx.todo /\ j \in Ids /\ j \in Names
        BY <1>1, <1>2, <2>2, <3>2 DEF Names
      <4>2. index[j] # Absent /\ vectorPages[j] # 0 /\ Holds(file[vectorPages[j]], Entry(j, tx.writes[j]))
        BY <1>1, <2>2, <4>1 DEF Written
      <4>3. QED
        BY <1>3, <1>4, <3>2, <4>1, <4>2
    <3>3. QED
      BY <3>1, <3>2
  <2>3. QED
    BY <1>1, <1>2, <2>1, <2>2 DEF Written
<1>9. Known'
  <2>1. \A e \in acked : e.id \in Names
    BY DEF Types, Names
  <2>2. QED
    BY <1>1, <1>3, <1>4, <2>1 DEF Known, headerVars, history
<1>10. Persisted'
  BY <1>1 DEF Persisted, headerVars, walVars, history
<1>11. InLog' /\ Sizes' /\ RefusedUnsizedOrOversized'
  BY <1>1, <1>2 DEF InLog, Sizes, RefusedUnsizedOrOversized, headerVars, walVars, history, IdsIn
<1>12. QED
  BY <1>3, <1>5, <1>6, <1>7, <1>8, <1>9, <1>10, <1>11

\* A version page: the chain gets it as its head.
VersionStored(i, c) ==
    /\ tx.stage = "versions" /\ i \in tx.todo /\ tx.writes[i] \notin Oversized
    /\ Place(VersionPage(i, tx.writes[i], tx.num, c))
    /\ versionIndex' = [versionIndex EXCEPT ![i] = Sorted(<<Slot>> \o @, file')]
    /\ tx' = [tx EXCEPT !.todo = @ \ {i}]
    /\ UNCHANGED <<headerVars, walVars, status, index, vectorPages, job, replay, writes, restarts,
                   history>>

\* The page becomes the head of its chain, which stays in order.
LEMMA VersionChain ==
    ASSUME IInv, NEW i \in Ids, NEW c \in Nat, VersionStored(i, c)
    PROVE  /\ versionIndex' \in [Ids -> Seq(Nat)]
           /\ \A j \in Ids \ {i} : versionIndex'[j] = versionIndex[j]
           /\ \A k \in DOMAIN versionIndex'[i] :
                 /\ versionIndex'[i][k] \in 1..size' /\ file'[versionIndex'[i][k]].kind = "version"
                 /\ file'[versionIndex'[i][k]].num \in Nat /\ file'[versionIndex'[i][k]].num <= writes
                 /\ versionIndex'[i][k] = Slot
                    \/ \E l \in DOMAIN versionIndex[i] : versionIndex'[i][k] = versionIndex[i][l]
           /\ \A j, k \in DOMAIN versionIndex'[i] :
                 j < k => file'[versionIndex'[i][j]].num > file'[versionIndex'[i][k]].num
           /\ \A j, k \in DOMAIN versionIndex'[i] :
                 versionIndex'[i][j] = versionIndex'[i][k] => j = k
           /\ \A l \in DOMAIN versionIndex[i] : \E k \in DOMAIN versionIndex'[i] :
                 versionIndex'[i][k] = versionIndex[i][l]
<1> USE DEF IInv, Running
<1> DEFINE page == VersionPage(i, tx.writes[i], tx.num, c)
<1> DEFINE old == versionIndex[i]
<1> DEFINE chain == <<Slot>> \o old
<1> DEFINE new == Sorted(chain, file')
<1>a. /\ tx.stage = "versions" /\ i \in tx.todo /\ tx.writes[i] \notin Oversized
      /\ UNCHANGED <<headerVars, walVars, status, index, vectorPages, job, replay, writes, restarts,
                     history>>
  BY DEF VersionStored
<1>1. /\ tx # NoTx /\ i \in DOMAIN tx.writes /\ status = "open" /\ tx.num \in 1..writes /\ writes \in Nat
      /\ tx.writes[i] \in Vectors \cup {Empty}
  BY <1>a, Fields DEF Phases, NoTx, Types
<1>3. page \in Pages /\ page.kind = "version" /\ page.num = tx.num
  BY <1>1 DEF VersionPage, Pages
<1>4. Place(page)
  BY DEF VersionStored
<1> HIDE DEF page
<1>5. /\ size <= size' /\ Slot \in 1..size' /\ file'[Slot] = page
      /\ \A p \in 1..size : p # Slot => p \in 1..size' /\ file'[p] = file[p]
      /\ \A j \in Ids : \A k \in DOMAIN versionIndex[j] : versionIndex[j][k] # Slot
  BY <1>1, <1>3, <1>4, PlaceKeeps
<1>6. old \in Seq(Nat) /\ Slot \in Nat /\ size \in Nat
  BY <1>5 DEF Types
<1>7. \A j \in Ids : \A k \in DOMAIN versionIndex[j] :
         /\ versionIndex[j][k] \in 1..size' /\ file'[versionIndex[j][k]] = file[versionIndex[j][k]]
         /\ file'[versionIndex[j][k]].kind = "version" /\ file'[versionIndex[j][k]].num \in Nat
  BY <1>5, VersionNumbers DEF Kinds
<1>8. /\ chain \in Seq(Nat)
      /\ \A k \in DOMAIN chain : \/ k = 1 /\ chain[k] = Slot
                                 \/ k # 1 /\ k - 1 \in DOMAIN old /\ chain[k] = old[k - 1]
      /\ \A k \in DOMAIN chain : k \in Nat
  <2>1. chain \in Seq(Nat) /\ DOMAIN chain = 1..(Len(old) + 1) /\ DOMAIN old = 1..Len(old)
    BY <1>6
  <2>2. chain[1] = Slot
    BY <1>6
  <2>3. ASSUME NEW k \in DOMAIN chain, k # 1
        PROVE  k - 1 \in DOMAIN old /\ chain[k] = old[k - 1]
    <3>1. k \in 1..(Len(old) + 1) /\ Len(old) \in Nat
      BY <1>6, <2>1
    <3>2. k - 1 \in 1..Len(old)
      BY <2>3, <3>1
    <3>3. <<Slot>> \in Seq(Nat) /\ Len(<<Slot>>) = 1
      BY <1>6
    <3>4. chain[k] = old[k - 1]
      BY <1>6, <2>3, <3>1, <3>3, ConcatProperties
    <3>5. QED
      BY <2>1, <3>2, <3>4
  <2>4. \A k \in DOMAIN chain : k \in Nat
    BY <1>6, <2>1
  <2> HIDE DEF chain, old
  <2>5. QED
    BY <2>1, <2>2, <2>3, <2>4
<1> HIDE DEF chain
<1>9. \A k \in DOMAIN chain : /\ file'[chain[k]].num \in Nat /\ file'[chain[k]].num <= writes
                              /\ chain[k] \in 1..size' /\ file'[chain[k]].kind = "version"
  <2>1. \A k \in DOMAIN old : file'[old[k]].num <= writes
    BY <1>7 DEF Ordered
  <2>2. ASSUME NEW k \in DOMAIN chain
        PROVE  /\ file'[chain[k]].num \in Nat /\ file'[chain[k]].num <= writes
               /\ chain[k] \in 1..size' /\ file'[chain[k]].kind = "version"
    <3>1. CASE chain[k] = Slot
      BY <1>1, <1>3, <1>5, <3>1
    <3>2. CASE \E l \in DOMAIN old : chain[k] = old[l]
      BY <1>7, <2>1, <3>2
    <3>3. QED
      BY <1>8, <3>1, <3>2
  <2>3. QED
    BY <2>2
<1>10. ASSUME NEW j \in DOMAIN chain, NEW k \in DOMAIN chain, j < k
       PROVE  file'[chain[j]].num > file'[chain[k]].num
  <2>1. k # 1 /\ k - 1 \in DOMAIN old /\ chain[k] = old[k - 1]
    <3>1. k # 1
      <4>1. j = 1 \/ j - 1 \in DOMAIN old
        BY <1>8
      <4>2. j >= 1
        BY <4>1, <1>6, <1>8
      <4>3. QED
        BY <1>8, <1>10, <4>2
    <3>2. QED
      BY <1>8, <3>1
  <2>2. CASE j = 1
    <3>1. file'[chain[j]].num = tx.num
      BY <1>3, <1>5, <1>8, <2>2
    <3>2. file[old[k - 1]].num < tx.num
      BY <1>a, <2>1 DEF Ordered
    <3>3. QED
      BY <1>1, <1>7, <2>1, <3>1, <3>2
  <2>3. CASE j # 1
    <3>1. j - 1 \in DOMAIN old /\ chain[j] = old[j - 1] /\ j - 1 < k - 1
      BY <1>8, <1>10, <2>3
    <3>2. file[old[j - 1]].num > file[old[k - 1]].num
      BY <2>1, <3>1 DEF Ordered
    <3>3. QED
      BY <1>7, <2>1, <3>1, <3>2
  <2>4. QED
    BY <2>2, <2>3
<1>11. /\ new \in Seq(Nat) /\ DOMAIN new = DOMAIN chain
       /\ \A k \in DOMAIN chain : \E l \in DOMAIN chain : new[k] = chain[l]
       /\ \A l \in DOMAIN chain : \E k \in DOMAIN chain : new[k] = chain[l]
       /\ \A j, k \in DOMAIN chain : j < k => file'[new[j]].num > file'[new[k]].num
  <2>1. \A k \in DOMAIN chain : file'[chain[k]].num \in Nat
    BY <1>9
  <2>2. \A j, k \in DOMAIN chain : j < k => file'[chain[j]].num > file'[chain[k]].num
    BY <1>10
  <2>3. chain \in Seq(Nat)
    BY <1>8
  <2>4. Sorted(chain, file') \in Seq(Nat) /\ DOMAIN Sorted(chain, file') = DOMAIN chain
    BY <2>1, <2>2, <2>3, SortedFact
  <2>5. \A k \in DOMAIN chain : \E l \in DOMAIN chain : Sorted(chain, file')[k] = chain[l]
    BY <2>1, <2>2, <2>3, SortedFact
  <2>6. \A j, k \in DOMAIN chain :
           j < k => file'[Sorted(chain, file')[j]].num > file'[Sorted(chain, file')[k]].num
    BY <2>1, <2>2, <2>3, SortedFact
  <2>7. \A l \in DOMAIN chain : \E k \in DOMAIN chain : Sorted(chain, file')[k] = chain[l]
    BY <2>1, <2>2, <2>3, SortedFact
  <2>8. QED
    BY <2>4, <2>5, <2>6, <2>7
<1>12. versionIndex' = [versionIndex EXCEPT ![i] = new] /\ versionIndex \in [Ids -> Seq(Nat)]
  BY DEF chain, Types, VersionStored
<1> HIDE DEF new, old
<1>13. /\ \A k \in DOMAIN new : new[k] \in 1..size' /\ file'[new[k]].kind = "version"
                                /\ file'[new[k]].num \in Nat /\ file'[new[k]].num <= writes
       /\ \A k \in DOMAIN new : new[k] = Slot \/ \E l \in DOMAIN old : new[k] = old[l]
       /\ \A j, k \in DOMAIN new : new[j] = new[k] => j = k
  <2>1. \A k \in DOMAIN new : file'[new[k]].num \in Nat
    BY <1>9, <1>11
  <2>2. ASSUME NEW j \in DOMAIN new, NEW k \in DOMAIN new, new[j] = new[k]
        PROVE  j = k
    <3>1. j \in Nat /\ k \in Nat
      BY <1>8, <1>11
    <3>2. \A m, n \in DOMAIN new : m < n => file'[new[m]].num > file'[new[n]].num
      BY <1>11
    <3>3. file'[new[j]].num = file'[new[k]].num /\ file'[new[j]].num \in Nat
      BY <2>1, <2>2
    <3>4. ~(j < k) /\ ~(k < j)
      BY <3>2, <3>3
    <3>5. QED
      BY <3>1, <3>4
  <2>3. \A k \in DOMAIN chain : chain[k] = Slot \/ \E l \in DOMAIN old : chain[k] = old[l]
    BY <1>8
  <2>4. ASSUME NEW k \in DOMAIN new
        PROVE  /\ new[k] \in 1..size' /\ file'[new[k]].kind = "version" /\ file'[new[k]].num <= writes
               /\ new[k] = Slot \/ \E l \in DOMAIN old : new[k] = old[l]
    <3>1. PICK l \in DOMAIN chain : new[k] = chain[l]
      BY <1>11
    <3>2. QED
      BY <1>9, <2>3, <3>1
  <2>5. QED
    BY <2>1, <2>2, <2>4
<1>14. versionIndex' \in [Ids -> Seq(Nat)] /\ versionIndex'[i] = new
       /\ \A j \in Ids \ {i} : versionIndex'[j] = versionIndex[j]
  BY <1>11, <1>12
<1>15. \A l \in DOMAIN old : \E k \in DOMAIN new : new[k] = old[l]
  <2> SUFFICES ASSUME NEW l \in DOMAIN old PROVE \E k \in DOMAIN new : new[k] = old[l]
    OBVIOUS
  <2>1. l + 1 \in DOMAIN chain /\ chain[l + 1] = old[l]
    <3>1. DOMAIN chain = 1..(Len(old) + 1) /\ DOMAIN old = 1..Len(old) /\ Len(old) \in Nat
      BY <1>6 DEF chain
    <3>2. l + 1 \in DOMAIN chain /\ l + 1 # 1 /\ (l + 1) - 1 = l
      BY <3>1
    <3>3. QED
      BY <1>8, <3>2
  <2>2. QED
    BY <1>11, <2>1
<1>16. \A j, k \in DOMAIN new : j < k => file'[new[j]].num > file'[new[k]].num
  BY <1>11
<1>17. new = versionIndex'[i] /\ old = versionIndex[i]
  BY <1>14 DEF old
<1>18. /\ \A k \in DOMAIN versionIndex'[i] :
             /\ versionIndex'[i][k] \in 1..size' /\ file'[versionIndex'[i][k]].kind = "version"
             /\ file'[versionIndex'[i][k]].num \in Nat /\ file'[versionIndex'[i][k]].num <= writes
       /\ \A k \in DOMAIN versionIndex'[i] :
             versionIndex'[i][k] = Slot
             \/ \E l \in DOMAIN versionIndex[i] : versionIndex'[i][k] = versionIndex[i][l]
       /\ \A j, k \in DOMAIN versionIndex'[i] :
             j < k => file'[versionIndex'[i][j]].num > file'[versionIndex'[i][k]].num
       /\ \A j, k \in DOMAIN versionIndex'[i] :
             versionIndex'[i][j] = versionIndex'[i][k] => j = k
       /\ \A l \in DOMAIN versionIndex[i] : \E k \in DOMAIN versionIndex'[i] :
             versionIndex'[i][k] = versionIndex[i][l]
  <2> DEFINE C(mine, theirs) ==
               /\ \A k \in DOMAIN mine : /\ mine[k] \in 1..size' /\ file'[mine[k]].kind = "version"
                                         /\ file'[mine[k]].num \in Nat /\ file'[mine[k]].num <= writes
               /\ \A k \in DOMAIN mine : mine[k] = Slot \/ \E l \in DOMAIN theirs : mine[k] = theirs[l]
               /\ \A j, k \in DOMAIN mine : j < k => file'[mine[j]].num > file'[mine[k]].num
               /\ \A j, k \in DOMAIN mine : mine[j] = mine[k] => j = k
               /\ \A l \in DOMAIN theirs : \E k \in DOMAIN mine : mine[k] = theirs[l]
  <2>1. C(new, old)
    BY <1>13, <1>15, <1>16
  <2>2. C(versionIndex'[i], versionIndex[i])
    <3> HIDE DEF C
    <3> QED
      BY <1>17, <2>1
  <2>3. QED
    BY <2>2
<1>19. QED
  BY <1>14, <1>18

\* So a commit may store a version.
LEMMA VersionKeeps ==
    ASSUME IInv, NEW i \in Ids, NEW c \in Nat, VersionStored(i, c)
    PROVE  IInv'
<1> USE DEF IInv, Running
<1> DEFINE page == VersionPage(i, tx.writes[i], tx.num, c)
<1> DEFINE old == versionIndex[i]
<1> DEFINE new == versionIndex'[i]
<1>a. /\ tx.stage = "versions" /\ i \in tx.todo /\ tx.writes[i] \notin Oversized
      /\ UNCHANGED <<headerVars, walVars, status, index, vectorPages, job, replay, writes, restarts,
                     history>>
  BY DEF VersionStored
<1>1. /\ tx # NoTx /\ i \in DOMAIN tx.writes /\ status = "open" /\ tx.num \in 1..writes /\ writes \in Nat
      /\ tx.writes[i] \in Vectors \cup {Empty}
  BY <1>a, Fields DEF Phases, NoTx, Types
<1>2. /\ tx' \in [stage : {"log", "versions", "index"}, num : 1..writes, writes : Writes, todo : SUBSET Ids]
      /\ tx'.stage = "versions" /\ tx'.num = tx.num /\ tx'.writes = tx.writes /\ tx'.todo = tx.todo \ {i}
      /\ tx'.todo \subseteq DOMAIN tx.writes /\ tx' # NoTx
  BY <1>a, <1>1, Fields DEF Types, NoTx, VersionStored
<1>3. page \in Pages /\ page.kind = "version" /\ page.num = tx.num
  BY <1>1 DEF VersionPage, Pages
<1>4. Place(page)
  BY DEF VersionStored
<1> HIDE DEF page
<1>5. /\ file' \in Seq(Pages) /\ size <= size' /\ size' \in 0..Len(file')
      /\ headerPages \in 0..Len(file') /\ headerPages <= size'
      /\ Slot \in 1..size' /\ file'[Slot] = page
      /\ \A p \in 1..size : p # Slot => p \in 1..size' /\ file'[p] = file[p]
      /\ \A p \in 1..headerPages : file[p].kind = "vectors" => file'[p] = file[p]
      /\ root # Slot /\ headerRoot # Slot
      /\ \A j \in Ids : vectorPages[j] # Slot
      /\ \A j \in Ids : \A k \in DOMAIN versionIndex[j] : versionIndex[j][k] # Slot
      /\ freeList' \in Seq(Nat)
      /\ \A k \in DOMAIN freeList' :
            k \in DOMAIN freeList /\ freeList'[k] = freeList[k] /\ freeList[k] # Slot
  BY <1>1, <1>3, <1>4, PlaceKeeps
<1>6. /\ old \in Seq(Nat) /\ Slot \in Nat /\ headerPages \in Nat /\ headerPages <= size /\ size \in Nat
  BY <1>1, <1>5 DEF Types, Phases
<1>7. \A j \in Ids : \A k \in DOMAIN versionIndex[j] :
         /\ versionIndex[j][k] \in 1..size' /\ file'[versionIndex[j][k]] = file[versionIndex[j][k]]
         /\ file'[versionIndex[j][k]].kind = "version" /\ file'[versionIndex[j][k]].num \in Nat
  BY <1>5, VersionNumbers DEF Kinds
<1>8. /\ versionIndex' \in [Ids -> Seq(Nat)] /\ versionIndex'[i] = new
      /\ \A j \in Ids \ {i} : versionIndex'[j] = versionIndex[j]
  BY VersionChain
<1>9. /\ \A k \in DOMAIN new : new[k] \in 1..size' /\ file'[new[k]].kind = "version"
                               /\ file'[new[k]].num <= writes
      /\ \A k \in DOMAIN new : new[k] = Slot \/ \E l \in DOMAIN old : new[k] = old[l]
      /\ \A j, k \in DOMAIN new : new[j] = new[k] => j = k
  BY VersionChain
<1>10. \A j, k \in DOMAIN new : j < k => file'[new[j]].num > file'[new[k]].num
  BY VersionChain
<1> HIDE DEF new, old
<1>11. Types'
  BY <1>a, <1>1, <1>2, <1>5, <1>8 DEF Types, headerVars, walVars, history
<1>12. Phases'
  BY <1>a, <1>1, <1>2, <1>5 DEF Phases, headerVars, walVars, history
<1>13. Kinds'
  <2>1. \A j \in Ids : \A k \in DOMAIN versionIndex'[j] :
           versionIndex'[j][k] \in 1..size' /\ file'[versionIndex'[j][k]].kind = "version"
    <3> SUFFICES ASSUME NEW j \in Ids, NEW k \in DOMAIN versionIndex'[j]
                 PROVE  /\ versionIndex'[j][k] \in 1..size'
                        /\ file'[versionIndex'[j][k]].kind = "version"
      OBVIOUS
    <3>1. CASE j = i
      BY <1>9, <1>8, <3>1
    <3>2. CASE j # i
      <4>1. versionIndex'[j] = versionIndex[j]
        BY <1>8, <3>2
      <4>2. QED
        BY <1>7, <4>1
    <3>3. QED
      BY <3>1, <3>2
  <2>2. \A k \in DOMAIN freeList' : freeList'[k] \in 1..size' /\ file'[freeList'[k]].kind = "version"
    <3>1. \A k \in DOMAIN freeList' :
             /\ k \in DOMAIN freeList /\ freeList'[k] = freeList[k]
             /\ freeList[k] \in 1..size /\ freeList[k] # Slot /\ file[freeList[k]].kind = "version"
      BY <1>5 DEF Kinds
    <3>2. QED
      BY <1>5, <3>1
  <2>3. \A j \in Ids : vectorPages'[j] # 0 =>
           vectorPages'[j] \in 1..size' /\ file'[vectorPages'[j]].kind = "vectors"
    <3>1. vectorPages' = vectorPages /\ \A p \in 1..size : p # Slot => p \in 1..size' /\ file'[p] = file[p]
      BY <1>a, <1>5
    <3>2. \A j \in Ids : vectorPages[j] # 0 => /\ vectorPages[j] \in 1..size /\ vectorPages[j] # Slot
                                              /\ file[vectorPages[j]].kind = "vectors"
      BY <1>5 DEF Kinds
    <3>3. QED
      BY <3>1, <3>2
  <2>4. root' # 0 => root' \in 1..size' /\ file'[root'].kind = "index"
    BY <1>a, <1>5 DEF Kinds, headerVars
  <2>5. headerRoot' # 0 => headerRoot' \in 1..headerPages' /\ file'[headerRoot'].kind = "index"
    <3>1. headerRoot # 0 =>
             headerRoot \in 1..headerPages /\ headerRoot \in 1..size /\ file[headerRoot].kind = "index"
      BY <1>6 DEF Kinds
    <3>2. QED
      BY <1>a, <1>5, <3>1 DEF headerVars
  <2>6. QED
    BY <2>1, <2>2, <2>3, <2>4, <2>5 DEF Kinds
<1>14. Placed'
  <2>1. \A j, k \in DOMAIN freeList' : freeList'[j] = freeList'[k] => j = k
    BY <1>5 DEF Placed
  <2>2. ASSUME NEW k \in DOMAIN freeList', NEW j \in Ids, NEW l \in DOMAIN versionIndex'[j]
        PROVE  freeList'[k] # versionIndex'[j][l]
    <3>1. freeList'[k] # Slot /\ \A m \in Ids : \A n \in DOMAIN versionIndex[m] :
                                    freeList'[k] # versionIndex[m][n]
      BY <1>5 DEF Placed
    <3>2. CASE j = i
      BY <1>9, <1>8, <3>1, <3>2, SMTT(30) DEF old
    <3>3. CASE j # i
      BY <1>8, <3>1, <3>3
    <3>4. QED
      BY <3>2, <3>3
  <2>3. ASSUME NEW j \in Ids, NEW m \in Ids, NEW k \in DOMAIN versionIndex'[j],
               NEW l \in DOMAIN versionIndex'[m], versionIndex'[j][k] = versionIndex'[m][l]
        PROVE  j = m /\ k = l
    <3>1. \A n \in Ids : \A o \in DOMAIN versionIndex[n] : versionIndex[n][o] # Slot
      BY <1>5
    <3>2. CASE j = i /\ m = i
      BY <1>9, <1>8, <2>3, <3>2
    <3>0. \A n, q \in Ids : \A o \in DOMAIN versionIndex[n], s \in DOMAIN versionIndex[q] :
             versionIndex[n][o] = versionIndex[q][s] => n = q /\ o = s
      BY DEF Placed
    <3>3. CASE j = i /\ m # i
      <4>1. /\ k \in DOMAIN new /\ versionIndex'[j][k] = new[k]
            /\ l \in DOMAIN versionIndex[m] /\ versionIndex'[m][l] = versionIndex[m][l]
        BY <1>8, <2>3, <3>3
      <4>2. new[k] = Slot \/ \E o \in DOMAIN versionIndex[i] : new[k] = versionIndex[i][o]
        BY <1>9, <4>1 DEF old
      <4>3. QED
        BY <2>3, <3>0, <3>1, <3>3, <4>1, <4>2
    <3>4. CASE j # i /\ m = i
      <4>1. /\ l \in DOMAIN new /\ versionIndex'[m][l] = new[l]
            /\ k \in DOMAIN versionIndex[j] /\ versionIndex'[j][k] = versionIndex[j][k]
        BY <1>8, <2>3, <3>4
      <4>2. new[l] = Slot \/ \E o \in DOMAIN versionIndex[i] : new[l] = versionIndex[i][o]
        BY <1>9, <4>1 DEF old
      <4>3. QED
        BY <2>3, <3>0, <3>1, <3>4, <4>1, <4>2
    <3>5. CASE j # i /\ m # i
      <4>1. /\ l \in DOMAIN versionIndex[m] /\ versionIndex'[m][l] = versionIndex[m][l]
            /\ k \in DOMAIN versionIndex[j] /\ versionIndex'[j][k] = versionIndex[j][k]
        BY <1>8, <2>3, <3>5
      <4>2. QED
        BY <2>3, <3>0, <4>1
    <3>6. QED
      BY <3>2, <3>3, <3>4, <3>5
  <2>4. QED
    BY <2>1, <2>2, <2>3 DEF Placed
<1>15. Ordered'
  <2>1. ASSUME NEW j \in Ids \ {i}, NEW k \in DOMAIN versionIndex'[j]
        PROVE  /\ file'[versionIndex'[j][k]].num <= writes'
               /\ j \in tx'.todo => file'[versionIndex'[j][k]].num < tx'.num
               /\ \A l \in DOMAIN versionIndex'[j] :
                     l < k => file'[versionIndex'[j][l]].num > file'[versionIndex'[j][k]].num
    <3>1. versionIndex'[j] = versionIndex[j] /\ k \in DOMAIN versionIndex[j] /\ writes' = writes
          /\ tx'.num = tx.num /\ (j \in tx'.todo => j \in tx.todo)
      BY <1>a, <1>2, <1>8, <2>1
    <3>2. /\ file[versionIndex[j][k]].num <= writes
          /\ j \in tx.todo => file[versionIndex[j][k]].num < tx.num
          /\ \A l \in DOMAIN versionIndex[j] :
                l < k => file[versionIndex[j][l]].num > file[versionIndex[j][k]].num
      BY <1>a, <3>1 DEF Ordered
    <3>3. QED
      BY <1>7, <3>1, <3>2
  <2>2. \A k \in DOMAIN versionIndex'[i] :
           /\ file'[versionIndex'[i][k]].num <= writes'
           /\ \A l \in DOMAIN versionIndex'[i] :
                 l < k => file'[versionIndex'[i][l]].num > file'[versionIndex'[i][k]].num
    BY <1>a, <1>10, <1>9, <1>8
  <2>3. i \notin tx'.todo /\ tx'.stage = "versions"
    BY <1>2
  <2>4. QED
    BY <2>1, <2>2, <2>3 DEF Ordered
<1>16. OnDisk'
  <2>1. \A e \in acked : \E q \in 1..headerPages' : Holds(file'[q], e)
    BY <1>a, <1>5, OnDiskStays DEF headerVars
  <2>2. QED
    BY <1>a, <2>1 DEF OnDisk, history
<1>17. Written'
  <2>1. \A j \in Ids : vectorPages[j] # 0 => file'[vectorPages[j]] = file[vectorPages[j]]
    BY <1>5 DEF Kinds
  <2>2. QED
    BY <1>a, <1>2, <2>1, Fields DEF Written
<1>18. Known'
  <2>1. headerRoot # 0 => file'[headerRoot] = file[headerRoot]
    BY <1>5, <1>6 DEF Kinds
  <2>2. QED
    BY <1>a, <1>1, <2>1 DEF Known, headerVars, history
<1>19. Persisted'
  <2>1. root # 0 => file'[root] = file[root]
    BY <1>5 DEF Kinds
  <2>2. QED
    BY <1>a, <1>1, <2>1 DEF Persisted, HasVectors, headerVars, walVars, history
<1>20. InLog' /\ Sizes' /\ RefusedUnsizedOrOversized'
  BY <1>a, <1>1, <1>2 DEF InLog, Sizes, RefusedUnsizedOrOversized, headerVars, walVars, history, IdsIn
<1>21. QED
  BY <1>11, <1>12, <1>13, <1>14, <1>15, <1>16, <1>17, <1>18, <1>19, <1>20

\* A commit stores a version, or fails because its metadata fits no page.
LEMMA CommitVersionKeeps ==
    ASSUME IInv, NEW i \in Ids, CommitVersion(i)
    PROVE  IInv'
<1> USE DEF IInv, Running
<1>1. /\ tx.stage = "versions" /\ i \in tx.todo
      /\ UNCHANGED <<headerVars, walVars, status, index, vectorPages, job, replay, writes, restarts,
                     history>>
  BY DEF CommitVersion
<1>2. /\ tx # NoTx /\ status = "open" /\ job.kind # "commit" /\ tx.num \in 1..writes /\ writes \in Nat
  BY <1>1, Fields DEF Phases, NoTx, Types
<1>3. ASSUME tx.writes[i] \notin Oversized,
             NEW c \in IF tx.writes[i] = Empty THEN 1..tx.num ELSE {tx.num},
             Place(VersionPage(i, tx.writes[i], tx.num, c)),
             versionIndex' = [versionIndex EXCEPT ![i] = Sorted(<<Slot>> \o @, file')],
             tx' = [tx EXCEPT !.todo = @ \ {i}]
      PROVE  IInv'
  <2>1. c \in Nat
    BY <1>2
  <2>2. QED
    BY <1>1, <1>3, <2>1, VersionKeeps DEF VersionStored
<1>4. ASSUME Place(Extended[Slot]), tx' = NoTx, UNCHANGED versionIndex
      PROVE  IInv'
  <2>1. Extended[Slot] \in Pages /\ vectorPages \in [Ids -> Nat]
    BY SlotHoldsAPage DEF Types
  <2>2. /\ file' \in Seq(Pages) /\ size' \in 0..Len(file') /\ headerPages' \in 0..Len(file')
        /\ headerPages' <= size' /\ freeList' \in Seq(Nat)
        /\ Kinds' /\ Placed' /\ OnDisk'
        /\ \A j \in Ids : vectorPages[j] # 0 => file'[vectorPages[j]] = file[vectorPages[j]]
        /\ \A j \in Ids : \A k \in DOMAIN versionIndex[j] :
              file'[versionIndex[j][k]] = file[versionIndex[j][k]]
        /\ headerRoot # 0 => file'[headerRoot] = file[headerRoot]
        /\ root # 0 => file'[root] = file[root]
    BY <1>1, <1>2, <1>4, <2>1, PlaceKeepsPages DEF headerVars, history
  <2>3. tx'.stage = "none"
    BY <1>4 DEF NoTx
  <2>4. Types'
    BY <1>1, <1>4, <2>1, <2>2 DEF Types, headerVars, walVars, history
  <2>5. Phases'
    BY <1>1, <1>2, <1>4, <2>2, <2>3 DEF Phases, headerVars, walVars, history
  <2>6. Ordered'
    BY <1>1, <1>4, <2>2, <2>3, ZenonT(40) DEF Ordered
  <2>7. Written' /\ Known'
    BY <1>1, <1>2, <2>2, <2>3, Fields DEF Written, Known, headerVars, history
  <2>8. Persisted'
    BY <1>1, <1>2, <2>2 DEF Persisted, HasVectors, headerVars, walVars, history
  <2>9. InLog' /\ Sizes' /\ RefusedUnsizedOrOversized'
    BY <1>1, <2>3 DEF InLog, Sizes, RefusedUnsizedOrOversized, headerVars, walVars, history, IdsIn
  <2>10. QED
    BY <2>2, <2>4, <2>5, <2>6, <2>7, <2>8, <2>9
<1>5. QED
  BY <1>3, <1>4 DEF CommitVersion

\* A commit writes the header and returns.
LEMMA CommitHeaderKeeps ==
    ASSUME IInv, CommitHeader
    PROVE  IInv'
<1> USE DEF IInv, Running
<1> DEFINE done == {j \in DOMAIN tx.writes : tx.writes[j] # Empty}
<1> DEFINE new == {Entry(i, tx.writes[i]) : i \in done}
<1>1. /\ tx.stage = "index" /\ tx # NoTx /\ tx.todo = {} /\ job.kind = "commit" /\ status = "open"
      /\ job' = Idle /\ job'.kind = "none" /\ tx' = NoTx /\ tx'.stage = "none"
      /\ acked' = acked \cup new /\ WriteHeader
      /\ exposed' = IF root = 0 THEN exposed ELSE exposed \cup {e.id : e \in new}
      /\ UNCHANGED <<pageVars, root, sized, walVars, status, index, vectorPages, versionIndex, replay,
                     writes, restarts, stored, logged, removed, sealed>>
  BY DEF CommitHeader, Acknowledge, Phases, NoTx, Idle
<1>2. headerPages' = size /\ headerRoot' = root /\ headerSized' = sized /\ size \in 0..Len(file)
      /\ root = headerRoot /\ sized \in BOOLEAN
  BY <1>1 DEF WriteHeader, CoveredPages, SizedHeader, Types, Persisted
<1>3. ASSUME NEW i \in done
      PROVE  /\ i \in Ids /\ tx.writes[i] \in Vectors \ Oversized
             /\ index[i] # Absent /\ vectorPages[i] # 0
             /\ Holds(file[vectorPages[i]], Entry(i, tx.writes[i]))
  BY <1>1, Fields DEF Written, Phases
<1>4. \A e \in new : /\ e \in [id : Ids, vec : Vectors \ Oversized] /\ index[e.id] # Absent
                     /\ vectorPages[e.id] # 0 /\ Holds(file[vectorPages[e.id]], e)
  BY <1>3 DEF Entry
<1> HIDE DEF new
<1>5. Types'
  BY <1>1, <1>2, <1>4 DEF Types, pageVars, walVars
<1>6. Phases'
  BY <1>1, <1>2 DEF Phases, Types, pageVars, walVars
<1>7. Kinds' /\ Placed'
  BY <1>1, <1>2 DEF Kinds, Placed, pageVars
<1>8. Ordered'
  BY <1>1 DEF Ordered, pageVars
<1>9. OnDisk'
  <2>1. ASSUME NEW e \in acked PROVE \E p \in 1..headerPages' : Holds(file'[p], e)
    BY <1>1, HeaderKeeps
  <2>2. \A e \in new : vectorPages[e.id] \in 1..headerPages' /\ Holds(file'[vectorPages[e.id]], e)
    BY <1>1, <1>2, <1>4 DEF Kinds, pageVars
  <2>3. QED
    BY <1>1, <2>1, <2>2 DEF OnDisk
<1>10. Written'
  BY <1>1 DEF Written
<1>11. Known'
  BY <1>1, <1>2, <1>4 DEF Known, pageVars
<1>12. Persisted'
  BY <1>1, <1>2 DEF Persisted
<1>13. InLog' /\ Sizes' /\ RefusedUnsizedOrOversized'
  BY <1>1, <1>2 DEF InLog, Sizes, RefusedUnsizedOrOversized, walVars, IdsIn
<1>14. QED
  BY <1>5, <1>6, <1>7, <1>8, <1>9, <1>10, <1>11, <1>12, <1>13

\* The checkpoint flushes the log and syncs the pages, ...
LEMMA CheckpointFlushKeeps ==
    ASSUME IInv, CheckpointFlush
    PROVE  IInv'
<1> USE DEF IInv, Running
<1>1. /\ status = "open" /\ job = Idle /\ job.kind = "none" /\ Flush
      /\ job' = [kind |-> "checkpoint"] /\ job'.kind = "checkpoint"
      /\ UNCHANGED <<pageVars, headerVars, status, index, vectorPages, versionIndex, tx, replay, writes,
                     restarts, history>>
  BY DEF CheckpointFlush, LockFree, Idle
<1>2. /\ walFile' \in Seq(LogEntries) /\ walBuffer' \in Seq(LogEntries)
      /\ Len(walBuffer') < FlushAt
      /\ IdsIn(walFile) \cup IdsIn(walBuffer) \subseteq IdsIn(walFile)'
  BY <1>1, FlushFact
<1>3. Types'
  <2>1. job' \in [kind : {"commit", "checkpoint", "persisted", "synced"}]
    BY <1>1
  <2>2. QED
    BY <1>1, <1>2, <2>1 DEF Types, pageVars, headerVars, history
<1>4. Phases'
  BY <1>1 DEF Phases, pageVars, headerVars, history
<1>5. Kinds' /\ Placed' /\ Ordered'
  BY <1>1 DEF Kinds, Placed, Ordered, pageVars, headerVars
<1>6. OnDisk' /\ Written' /\ Known'
  BY <1>1 DEF OnDisk, Written, Known, pageVars, headerVars, history
<1>7. Persisted' /\ InLog'
  BY <1>1, <1>2 DEF Persisted, InLog, headerVars, history
<1>8. Sizes' /\ RefusedUnsizedOrOversized'
  BY <1>1 DEF Sizes, RefusedUnsizedOrOversized, Phases, headerVars, history
<1>9. QED
  BY <1>3, <1>4, <1>5, <1>6, <1>7, <1>8

\* ... then empties it.
LEMMA CheckpointTruncateKeeps ==
    ASSUME IInv, CheckpointTruncate
    PROVE  IInv'
<1> USE DEF IInv, Running
<1>1. /\ job.kind = "checkpoint" /\ status = "open" /\ job' = Idle /\ job'.kind = "none"
      /\ walFile' = <<>> /\ walBuffer' = <<>> /\ logged' = {}
      /\ UNCHANGED <<pageVars, headerVars, status, index, vectorPages, versionIndex, tx, replay, writes,
                     restarts, acked, stored, exposed, removed, sealed>>
  BY DEF CheckpointTruncate, Truncate, Idle, Phases
<1>2. Types'
  <2>1. walFile' \in Seq(LogEntries) /\ walBuffer' \in Seq(LogEntries) /\ Len(walBuffer') < FlushAt
    BY <1>1, ConstantsAssumption
  <2>2. QED
    BY <1>1, <2>1 DEF Types, pageVars, headerVars
<1>3. Phases'
  BY <1>1 DEF Phases, pageVars, headerVars
<1>4. Kinds' /\ Placed' /\ Ordered'
  BY <1>1 DEF Kinds, Placed, Ordered, pageVars, headerVars
<1>5. OnDisk' /\ Written' /\ Known'
  BY <1>1 DEF OnDisk, Written, Known, pageVars, headerVars
<1>6. Persisted' /\ InLog'
  BY <1>1 DEF Persisted, InLog, headerVars
<1>7. Sizes' /\ RefusedUnsizedOrOversized'
  BY <1>1 DEF Sizes, RefusedUnsizedOrOversized, Phases, headerVars
<1>8. QED
  BY <1>2, <1>3, <1>4, <1>5, <1>6, <1>7

\* Two lists joined: places and what is there.
LEMMA JoinFact ==
    ASSUME NEW s \in Seq(Nat), NEW u \in Seq(Nat)
    PROVE  /\ s \o u \in Seq(Nat)
           /\ \A k \in DOMAIN (s \o u) :
                 \/ k \in DOMAIN s /\ (s \o u)[k] = s[k]
                 \/ k - Len(s) \in DOMAIN u /\ (s \o u)[k] = u[k - Len(s)]
           /\ (/\ \A j, k \in DOMAIN s : s[j] = s[k] => j = k
               /\ \A j, k \in DOMAIN u : u[j] = u[k] => j = k
               /\ \A j \in DOMAIN s, k \in DOMAIN u : s[j] # u[k])
              => \A j, k \in DOMAIN (s \o u) : (s \o u)[j] = (s \o u)[k] => j = k
<1> DEFINE join == s \o u
<1>1. /\ Len(s) \in Nat /\ Len(u) \in Nat /\ DOMAIN s = 1..Len(s) /\ DOMAIN u = 1..Len(u)
      /\ join \in Seq(Nat) /\ DOMAIN join = 1..(Len(s) + Len(u))
  BY ConcatProperties
<1>2. ASSUME NEW k \in DOMAIN join
      PROVE  /\ k \in Nat
             /\ \/ k \in DOMAIN s /\ join[k] = s[k]
                \/ k - Len(s) \in DOMAIN u /\ join[k] = u[k - Len(s)]
  <2>1. CASE k <= Len(s)
    BY <1>1, <2>1, ConcatProperties
  <2>2. CASE ~(k <= Len(s))
    <3>1. k - Len(s) \in 1..Len(u)
      BY <1>1, <2>2
    <3>2. join[k] = u[k - Len(s)]
      BY <1>1, <2>2, ConcatProperties
    <3>3. QED
      BY <1>1, <3>1, <3>2
  <2>3. QED
    BY <2>1, <2>2
<1> HIDE DEF join
<1>3. ASSUME \A j, k \in DOMAIN s : s[j] = s[k] => j = k,
             \A j, k \in DOMAIN u : u[j] = u[k] => j = k,
             \A j \in DOMAIN s, k \in DOMAIN u : s[j] # u[k],
             NEW j \in DOMAIN join, NEW k \in DOMAIN join, join[j] = join[k]
      PROVE  j = k
  <2>1. \/ j \in DOMAIN s /\ join[j] = s[j]
        \/ j - Len(s) \in DOMAIN u /\ join[j] = u[j - Len(s)]
    BY <1>2
  <2>2. \/ k \in DOMAIN s /\ join[k] = s[k]
        \/ k - Len(s) \in DOMAIN u /\ join[k] = u[k - Len(s)]
    BY <1>2
  <2>3. j = k \/ j - Len(s) = k - Len(s)
    BY <1>3, <2>1, <2>2
  <2>4. j \in Nat /\ k \in Nat
    BY <1>2
  <2>5. QED
    BY <1>1, <2>3, <2>4
<1>4. QED
  BY <1>1, <1>2, <1>3 DEF join

\* A collection moves version pages from the chains to the free list.
LEMMA GarbageCollectKeeps ==
    ASSUME IInv, NEW oldest \in 1..MaxWrites, GarbageCollect(oldest)
    PROVE  IInv'
<1> USE DEF IInv, Running
<1> DEFINE C == Collected(oldest)
<1> DEFINE freed == SetToSeq(C)
<1>1. /\ status = "open" /\ freeList' = freeList \o freed
      /\ versionIndex' = [i \in Ids |-> Kept(i, oldest)]
      /\ UNCHANGED <<file, size, headerVars, walVars, status, index, vectorPages, job, tx, replay,
                     writes, restarts, history>>
  BY DEF GarbageCollect, LockFree
<1>2. \A p \in C : \E i \in Ids : \E k \in DOMAIN versionIndex[i] :
                      Collectable(i, k, oldest) /\ p = versionIndex[i][k]
  BY DEF Collected
<1>3. \A p \in C : p \in 1..size /\ file[p].kind = "version"
  BY <1>2 DEF Kinds
<1>4. size \in Nat /\ freeList \in Seq(Nat) /\ \A i \in Ids : versionIndex[i] \in Seq(Nat)
  BY DEF Types
<1> HIDE DEF C
<1>5. C \in SUBSET (0..size)
  BY <1>3, <1>4
<1>6. /\ freed \in Seq(C)
      /\ \A j, k \in DOMAIN freed : freed[j] = freed[k] => j = k
  <2>1. IsFiniteSet(C)
    BY <1>4, <1>5, BoundedIsFinite
  <2>2. QED
    BY <2>1, SetToSeqFact
<1> HIDE DEF freed
<1>7. freed \in Seq(Nat) /\ \A k \in DOMAIN freed : freed[k] \in C
  <2>1. \A k \in DOMAIN freed : freed[k] \in C
    BY <1>6
  <2>2. C \subseteq Nat
    BY <1>5
  <2>3. QED
    BY <1>6, <2>1, <2>2, SeqMonotonic
<1>8. /\ freeList' \in Seq(Nat)
      /\ \A k \in DOMAIN freeList' : (\E l \in DOMAIN freeList : freeList'[k] = freeList[l])
                                     \/ freeList'[k] \in C
  BY <1>1, <1>4, <1>7, JoinFact
<1>9. \A j, k \in DOMAIN freeList' : freeList'[j] = freeList'[k] => j = k
  <2>1. \A j, k \in DOMAIN freeList : freeList[j] = freeList[k] => j = k
    BY DEF Placed
  <2>2. \A j \in DOMAIN freeList, k \in DOMAIN freed : freeList[j] # freed[k]
    BY <1>2, <1>7 DEF Placed
  <2> HIDE DEF IInv
  <2>3. \A j, k \in DOMAIN (freeList \o freed) :
           (freeList \o freed)[j] = (freeList \o freed)[k] => j = k
    <3>1. freeList \in Seq(Nat) /\ freed \in Seq(Nat)
      BY <1>4, <1>7
    <3>2. \A j, k \in DOMAIN freed : freed[j] = freed[k] => j = k
      BY <1>6
    <3>3. QED
      BY <2>1, <2>2, <3>1, <3>2, JoinFact
  <2>4. QED
    BY <1>1, <2>3
<1>10. ASSUME NEW i \in Ids
       PROVE  /\ versionIndex'[i] \in Seq(Nat)
              /\ \E p \in [DOMAIN versionIndex'[i] -> DOMAIN versionIndex[i]] :
                    /\ \A n \in DOMAIN versionIndex'[i] :
                          /\ versionIndex'[i][n] = versionIndex[i][p[n]]
                          /\ ~Collectable(i, p[n], oldest)
                    /\ \A m, n \in DOMAIN versionIndex'[i] : m < n => p[m] < p[n]
  <2>1. versionIndex'[i] = Kept(i, oldest)
    BY <1>1
  <2>2. QED
    BY <1>4, <2>1, KeptFact
<1>11. \A i \in Ids : \A n \in DOMAIN versionIndex'[i] : \E k \in DOMAIN versionIndex[i] :
          versionIndex'[i][n] = versionIndex[i][k] /\ ~Collectable(i, k, oldest)
  <2> SUFFICES ASSUME NEW i \in Ids, NEW n \in DOMAIN versionIndex'[i]
               PROVE  \E k \in DOMAIN versionIndex[i] :
                         versionIndex'[i][n] = versionIndex[i][k] /\ ~Collectable(i, k, oldest)
    OBVIOUS
  <2>1. PICK p \in [DOMAIN versionIndex'[i] -> DOMAIN versionIndex[i]] :
           \A m \in DOMAIN versionIndex'[i] :
              versionIndex'[i][m] = versionIndex[i][p[m]] /\ ~Collectable(i, p[m], oldest)
    BY <1>10
  <2>2. p[n] \in DOMAIN versionIndex[i]
    OBVIOUS
  <2>3. QED
    BY <2>1, <2>2
<1>12. Types'
  <2>1. versionIndex' \in [Ids -> Seq(Nat)]
    BY <1>1, <1>10
  <2>2. QED
    BY <1>1, <1>8, <2>1 DEF Types, headerVars, walVars, history
<1>13. Phases'
  BY <1>1 DEF Phases, headerVars, walVars, history
<1>14. Kinds'
  <2>1. \A i \in Ids : \A k \in DOMAIN versionIndex'[i] :
           versionIndex'[i][k] \in 1..size' /\ file'[versionIndex'[i][k]].kind = "version"
    BY <1>1, <1>11 DEF Kinds
  <2>2. \A k \in DOMAIN freeList' : freeList'[k] \in 1..size' /\ file'[freeList'[k]].kind = "version"
    BY <1>1, <1>3, <1>8, SMTT(30) DEF Kinds
  <2>3. QED
    BY <1>1, <2>1, <2>2 DEF Kinds, headerVars
<1>15. Placed'
  <2>1. ASSUME NEW k \in DOMAIN freeList', NEW i \in Ids, NEW l \in DOMAIN versionIndex'[i]
        PROVE  freeList'[k] # versionIndex'[i][l]
    <3>1. PICK m \in DOMAIN versionIndex[i] :
             versionIndex'[i][l] = versionIndex[i][m] /\ ~Collectable(i, m, oldest)
      BY <1>11
    <3>2. CASE \E n \in DOMAIN freeList : freeList'[k] = freeList[n]
      BY <3>1, <3>2 DEF Placed
    <3>3. CASE freeList'[k] \in C
      <4>1. PICK j \in Ids : \E n \in DOMAIN versionIndex[j] :
               Collectable(j, n, oldest) /\ freeList'[k] = versionIndex[j][n]
        BY <1>2, <3>3
      <4>2. PICK n \in DOMAIN versionIndex[j] :
               Collectable(j, n, oldest) /\ freeList'[k] = versionIndex[j][n]
        BY <4>1
      <4>3. versionIndex[j][n] = versionIndex[i][m] => i = j /\ m = n
        BY DEF Placed
      <4>4. QED
        BY <3>1, <4>2, <4>3
    <3>4. QED
      BY <1>8, <3>2, <3>3
  <2>2. ASSUME NEW i \in Ids, NEW j \in Ids, NEW k \in DOMAIN versionIndex'[i],
               NEW l \in DOMAIN versionIndex'[j], versionIndex'[i][k] = versionIndex'[j][l]
        PROVE  i = j /\ k = l
    <3>1. i = j
      <4>1. PICK m \in DOMAIN versionIndex[i] : versionIndex'[i][k] = versionIndex[i][m]
        BY <1>11
      <4>2. PICK n \in DOMAIN versionIndex[j] : versionIndex'[j][l] = versionIndex[j][n]
        BY <1>11
      <4>3. QED
        BY <2>2, <4>1, <4>2, ZenonT(40) DEF Placed
    <3>2. PICK p \in [DOMAIN versionIndex'[i] -> DOMAIN versionIndex[i]] :
             /\ \A n \in DOMAIN versionIndex'[i] : versionIndex'[i][n] = versionIndex[i][p[n]]
             /\ \A m, n \in DOMAIN versionIndex'[i] : m < n => p[m] < p[n]
      BY <1>10
    <3>3. /\ k \in DOMAIN versionIndex'[i] /\ l \in DOMAIN versionIndex'[i]
          /\ p[k] \in DOMAIN versionIndex[i] /\ p[l] \in DOMAIN versionIndex[i]
      BY <3>1
    <3>4. p[k] = p[l]
      BY <2>2, <3>1, <3>2, <3>3 DEF Placed
    <3>5. k \in Nat /\ l \in Nat /\ p[k] \in Nat
      <4>1. versionIndex'[i] \in Seq(Nat) /\ versionIndex[i] \in Seq(Nat)
        BY <1>4, <1>10
      <4>2. /\ DOMAIN versionIndex'[i] = 1..Len(versionIndex'[i]) /\ Len(versionIndex'[i]) \in Nat
            /\ DOMAIN versionIndex[i] = 1..Len(versionIndex[i]) /\ Len(versionIndex[i]) \in Nat
        BY <4>1, LenProperties
      <4>3. QED
        BY <3>3, <4>2
    <3>6. QED
      BY <3>1, <3>2, <3>3, <3>4, <3>5
  <2>3. QED
    BY <1>9, <2>1, <2>2 DEF Placed
<1>16. Ordered'
  <2> SUFFICES ASSUME NEW i \in Ids, NEW k \in DOMAIN versionIndex'[i]
               PROVE  /\ file[versionIndex'[i][k]].num <= writes
                      /\ tx.stage = "log" \/ (tx.stage = "versions" /\ i \in tx.todo) =>
                            file[versionIndex'[i][k]].num < tx.num
                      /\ \A j \in DOMAIN versionIndex'[i] : j < k =>
                            file[versionIndex'[i][j]].num > file[versionIndex'[i][k]].num
    BY <1>1 DEF Ordered
  <2>1. PICK p \in [DOMAIN versionIndex'[i] -> DOMAIN versionIndex[i]] :
           /\ \A n \in DOMAIN versionIndex'[i] : versionIndex'[i][n] = versionIndex[i][p[n]]
           /\ \A m, n \in DOMAIN versionIndex'[i] : m < n => p[m] < p[n]
    BY <1>10
  <2>2. \A n \in DOMAIN versionIndex'[i] : p[n] \in DOMAIN versionIndex[i]
    OBVIOUS
  <2>3. QED
    BY <2>1, <2>2 DEF Ordered
<1>17. OnDisk' /\ Written' /\ Known'
  BY <1>1 DEF OnDisk, Written, Known, headerVars, history
<1>18. Persisted' /\ InLog'
  BY <1>1 DEF Persisted, InLog, HasVectors, headerVars, walVars, history, IdsIn
<1>19. Sizes' /\ RefusedUnsizedOrOversized'
  BY <1>1 DEF Sizes, RefusedUnsizedOrOversized, headerVars, walVars, history
<1>20. QED
  BY <1>12, <1>13, <1>14, <1>15, <1>16, <1>17, <1>18, <1>19

\* Close puts the index on a page of its own, that is the root from then on.
LEMMA CloseKeeps ==
    ASSUME IInv, Close
    PROVE  IInv'
<1> USE DEF IInv, Running
<1>1. /\ status = "open" /\ job = Idle /\ job.kind = "none" /\ tx = NoTx /\ tx.stage = "none"
      /\ job' = [kind |-> "persisted"] /\ job'.kind = "persisted"
      /\ exposed' = IF HasVectors THEN {i \in exposed : index[i] = Absent} ELSE exposed
      /\ UNCHANGED <<headerPages, headerRoot, headerSized, sized, walVars, status, index, vectorPages,
                     versionIndex, tx, replay, writes, restarts, acked, stored, logged, removed, sealed>>
  BY DEF Close, LockFree, Idle, NoTx
<1>2. /\ root = headerRoot /\ job' \in [kind : {"commit", "checkpoint", "persisted", "synced"}]
      /\ IndexPage(index) \in Pages /\ IndexPage(index).kind = "index"
      /\ IndexPage(index).snapshot = index
  BY <1>1 DEF Persisted, IndexPage, Pages, Types
<1>3. /\ file' \in Seq(Pages) /\ size' \in 0..Len(file') /\ headerPages' \in 0..Len(file')
      /\ headerPages' <= size' /\ freeList' \in Seq(Nat)
      /\ Kinds' /\ Placed' /\ OnDisk'
      /\ \A j \in Ids : \A k \in DOMAIN versionIndex[j] :
            file'[versionIndex[j][k]] = file[versionIndex[j][k]]
      /\ headerRoot # 0 => file'[headerRoot] = IF HasVectors THEN IndexPage(index) ELSE file[headerRoot]
      /\ HasVectors => root' # 0 /\ file'[root'] = IndexPage(index)
      /\ root # 0 => root' = root
      /\ ~HasVectors => root' = root
  <2>1. CASE HasVectors /\ root = 0
    <3>1. root' = Slot /\ Place(IndexPage(index))
      BY <2>1 DEF Close
    <3>2. vectorPages' \in [Ids -> Nat]
      BY <1>1 DEF Types
    <3>3. QED
      BY <1>1, <1>2, <2>1, <3>1, <3>2, PlaceKeepsPages
  <2>2. CASE HasVectors /\ root # 0
    <3>1. /\ file' = [file EXCEPT ![root] = IndexPage(index)] /\ UNCHANGED <<root, size, freeList>>
      BY <2>2 DEF Close
    <3>2. /\ file \in Seq(Pages) /\ size \in 0..Len(file) /\ headerPages \in 0..Len(file)
          /\ headerPages <= size /\ freeList \in Seq(Nat)
      BY <1>1 DEF Types, Phases
    <3>3. root \in 1..size /\ root \in DOMAIN file /\ root \in 1..headerPages /\ file[root].kind = "index"
      BY <1>2, <2>2, <3>2 DEF Kinds
    <3>4. /\ file' \in Seq(Pages) /\ Len(file') = Len(file) /\ file'[root] = IndexPage(index)
          /\ \A p \in 1..size : p # root => file'[p] = file[p]
      <4>1. file' \in Seq(Pages) /\ Len(file') = Len(file)
        BY <1>2, <3>1, <3>2, <3>3, ExceptSeq
      <4>2. \A p \in 1..size : p \in DOMAIN file
        BY <3>2
      <4>3. QED
        BY <3>1, <3>3, <4>1, <4>2
    <3>5. \A p \in 1..size : file[p].kind # "index" => file'[p] = file[p]
      BY <3>3, <3>4
    <3>6. /\ \A j \in Ids : \A k \in DOMAIN versionIndex[j] :
                file'[versionIndex[j][k]] = file[versionIndex[j][k]]
          /\ \A k \in DOMAIN freeList : file'[freeList[k]] = file[freeList[k]]
          /\ \A j \in Ids : vectorPages[j] # 0 => file'[vectorPages[j]] = file[vectorPages[j]]
      BY <3>5 DEF Kinds
    <3>7. Kinds'
      BY <1>1, <1>2, <3>1, <3>3, <3>4, <3>6 DEF Kinds
    <3>8. Placed'
      BY <1>1, <3>1 DEF Placed
    <3>9. \A p \in 1..headerPages : file[p].kind = "vectors" => file'[p] = file[p]
      BY <3>2, <3>5
    <3>10. \A e \in acked : \E p \in 1..headerPages' : Holds(file'[p], e)
      BY <1>1, <3>9, OnDiskStays
    <3>11. OnDisk'
      BY <1>1, <3>10 DEF OnDisk
    <3>12. QED
      BY <1>1, <1>2, <2>2, <3>1, <3>2, <3>4, <3>6, <3>7, <3>8, <3>11
  <2>3. CASE ~HasVectors
    <3>1. UNCHANGED <<pageVars, root>>
      BY <2>3 DEF Close
    <3>2. /\ file \in Seq(Pages) /\ size \in 0..Len(file) /\ headerPages \in 0..Len(file)
          /\ headerPages <= size /\ freeList \in Seq(Nat)
      BY <1>1 DEF Types, Phases
    <3>3. Kinds' /\ Placed' /\ OnDisk'
      BY <1>1, <3>1 DEF Kinds, Placed, OnDisk, pageVars
    <3>4. QED
      BY <1>1, <2>3, <3>1, <3>2, <3>3 DEF pageVars
  <2>4. QED
    BY <2>1, <2>2, <2>3
<1>4. Types'
  BY <1>1, <1>2, <1>3 DEF Types, walVars
<1>5. Phases'
  BY <1>1, <1>3 DEF Phases, walVars
<1>6. Ordered'
  BY <1>1, <1>3, ZenonT(40) DEF Ordered
<1>7. Written'
  BY <1>1 DEF Written
<1>8. Known'
  <2> SUFFICES ASSUME NEW e \in acked, e.id \notin removed \cup exposed'
               PROVE  /\ index[e.id] # Absent
                      /\ headerRoot # 0 => file'[headerRoot].snapshot[e.id] # Absent
    BY <1>1 DEF Known
  <2>1. e.id \in Names
    BY DEF Types, Names
  <2>2. CASE e.id \notin exposed
    <3>1. index[e.id] # Absent
      BY <1>1, <2>2 DEF Known
    <3>2. HasVectors
      BY <2>1, <3>1 DEF HasVectors
    <3>3. QED
      BY <1>2, <1>3, <3>1, <3>2
  <2>3. CASE e.id \in exposed
    <3>1. HasVectors /\ index[e.id] # Absent
      BY <1>1, <2>3
    <3>2. QED
      BY <1>2, <1>3, <3>1
  <2>4. QED
    BY <2>2, <2>3
<1>9. Persisted'
  <2>1. HasVectors' <=> HasVectors
    BY <1>1 DEF HasVectors
  <2>2. QED
    BY <1>1, <1>2, <1>3, <2>1 DEF Persisted
<1>10. InLog' /\ Sizes' /\ RefusedUnsizedOrOversized'
  BY <1>1 DEF InLog, Sizes, RefusedUnsizedOrOversized, walVars, IdsIn
<1>11. QED
  BY <1>3, <1>4, <1>5, <1>6, <1>7, <1>8, <1>9, <1>10

\* Close writes the header: the root on disk is the root in use.
LEMMA CloseHeaderKeeps ==
    ASSUME IInv, CloseHeader
    PROVE  IInv'
<1> USE DEF IInv, Running
<1>1. /\ job.kind = "persisted" /\ status = "open" /\ WriteHeader
      /\ job' = [kind |-> "synced"] /\ job'.kind = "synced" /\ tx.stage # "index"
      /\ job' \in [kind : {"commit", "checkpoint", "persisted", "synced"}]
      /\ UNCHANGED <<pageVars, root, sized, walVars, status, index, vectorPages, versionIndex, tx, replay,
                     writes, restarts, history>>
  BY DEF CloseHeader, Phases, Idle
<1>2. headerPages' = size /\ headerRoot' = root /\ headerSized' = sized /\ size \in 0..Len(file)
      /\ sized \in BOOLEAN
  BY <1>1 DEF WriteHeader, CoveredPages, SizedHeader, Types
<1>3. Types'
  BY <1>1, <1>2 DEF Types, pageVars, walVars, history
<1>4. Phases'
  BY <1>1, <1>2 DEF Phases, Types, pageVars, walVars, history
<1>5. Kinds' /\ Placed' /\ Ordered'
  BY <1>1, <1>2 DEF Kinds, Placed, Ordered, pageVars
<1>6. OnDisk'
  <2>1. ASSUME NEW e \in acked PROVE \E p \in 1..headerPages' : Holds(file'[p], e)
    BY <1>1, HeaderKeeps
  <2>2. QED
    BY <1>1, <2>1 DEF OnDisk, history
<1>7. Written'
  BY <1>1 DEF Written
<1>8. Known'
  <2> SUFFICES ASSUME NEW e \in acked, e.id \notin removed \cup exposed
               PROVE  /\ index[e.id] # Absent
                      /\ root # 0 => file[root].snapshot[e.id] # Absent
    BY <1>1, <1>2 DEF Known, pageVars, history
  <2>1. index[e.id] # Absent /\ e.id \in Names
    BY <1>1 DEF Known, Types, Names
  <2>2. HasVectors
    BY <2>1 DEF HasVectors
  <2>3. QED
    BY <1>1, <2>1, <2>2 DEF Persisted
<1>9. Persisted'
  BY <1>1, <1>2 DEF Persisted, HasVectors, pageVars, history
<1>10. InLog' /\ Sizes' /\ RefusedUnsizedOrOversized'
  BY <1>1, <1>2 DEF InLog, Sizes, RefusedUnsizedOrOversized, walVars, history, IdsIn
<1>11. QED
  BY <1>3, <1>4, <1>5, <1>6, <1>7, <1>8, <1>9, <1>10

\* What a process leaves behind has its types, and owns no page.
LEMMA ForgetFact ==
    ASSUME Forget
    PROVE  /\ size' = 0 /\ root' = 0 /\ sized' = FALSE /\ index' = NoIndex /\ index' \in [Names -> Found]
           /\ vectorPages' = [i \in Ids |-> 0] /\ vectorPages' \in [Ids -> Nat]
           /\ walBuffer' = <<>> /\ walBuffer' \in Seq(LogEntries) /\ Len(walBuffer') < FlushAt
           /\ freeList' = <<>> /\ freeList' \in Seq(Nat)
           /\ versionIndex' = [i \in Ids |-> <<>>] /\ versionIndex' \in [Ids -> Seq(Nat)]
           /\ job' = Idle /\ job'.kind = "none" /\ tx' = NoTx /\ tx'.stage = "none"
           /\ replay' = <<>> /\ replay' \in Seq(LogEntries)
           /\ Placed' /\ Ordered' /\ Written'
           /\ \A i \in Ids : DOMAIN versionIndex'[i] = {} /\ vectorPages'[i] = 0
           /\ DOMAIN freeList' = {} /\ DOMAIN replay' = {}
<1>1. /\ size' = 0 /\ root' = 0 /\ sized' = FALSE /\ index' = NoIndex
      /\ vectorPages' = [i \in Ids |-> 0] /\ walBuffer' = <<>> /\ freeList' = <<>>
      /\ versionIndex' = [i \in Ids |-> <<>>] /\ job' = Idle /\ tx' = NoTx /\ replay' = <<>>
      /\ job'.kind = "none" /\ tx'.stage = "none"
  BY DEF Forget, Idle, NoTx
<1>2. index' \in [Names -> Found]
  BY <1>1 DEF NoIndex, Found
<1>3. Len(walBuffer') < FlushAt
  BY <1>1, ConstantsAssumption
<1>4. /\ \A i \in Ids : DOMAIN versionIndex'[i] = {} /\ vectorPages'[i] = 0
      /\ DOMAIN freeList' = {} /\ DOMAIN replay' = {}
  BY <1>1
<1>5. Placed' /\ Ordered' /\ Written'
  BY <1>1, <1>4 DEF Placed, Ordered, Written
<1>6. QED
  BY <1>1, <1>2, <1>3, <1>4, <1>5

\* Close empties the log and ends.
LEMMA CloseEndKeeps ==
    ASSUME IInv, CloseEnd
    PROVE  IInv'
<1> USE DEF IInv, Running
<1>1. /\ job.kind = "synced" /\ status = "open" /\ status' = "closed" /\ walFile' = <<>> /\ logged' = {}
      /\ sealed' = index /\ Forget
      /\ UNCHANGED <<file, headerPages, headerRoot, headerSized, writes, restarts, acked, stored, exposed,
                     removed>>
  BY DEF CloseEnd, Phases, Idle
<1>2. /\ size' = 0 /\ root' = 0 /\ sized' = FALSE /\ index' = NoIndex /\ index' \in [Names -> Found]
      /\ vectorPages' = [i \in Ids |-> 0] /\ vectorPages' \in [Ids -> Nat]
      /\ walBuffer' = <<>> /\ walBuffer' \in Seq(LogEntries) /\ Len(walBuffer') < FlushAt
      /\ freeList' = <<>> /\ freeList' \in Seq(Nat)
      /\ versionIndex' = [i \in Ids |-> <<>>] /\ versionIndex' \in [Ids -> Seq(Nat)]
      /\ job' = Idle /\ job'.kind = "none" /\ tx' = NoTx /\ tx'.stage = "none"
      /\ replay' = <<>> /\ replay' \in Seq(LogEntries)
      /\ Placed' /\ Ordered' /\ Written'
      /\ \A i \in Ids : DOMAIN versionIndex'[i] = {} /\ vectorPages'[i] = 0
      /\ DOMAIN freeList' = {} /\ DOMAIN replay' = {}
  BY <1>1, ForgetFact
<1>3. Types'
  <2>1. walFile' \in Seq(LogEntries) /\ size' \in 0..Len(file)
    BY <1>1, <1>2 DEF Types
  <2>2. QED
    BY <1>1, <1>2, <2>1 DEF Types
<1>4. Phases'
  BY <1>1, <1>2 DEF Phases
<1>5. Kinds' /\ OnDisk'
  BY <1>1, <1>2 DEF Kinds, OnDisk
<1>6. Known'
  BY <1>1 DEF Known
<1>7. Persisted'
  <2>1. index # NoIndex => HasVectors
    BY DEF HasVectors, NoIndex, Types
  <2>2. index # NoIndex => headerRoot # 0 /\ file[headerRoot].snapshot = index
    BY <1>1, <2>1 DEF Persisted
  <2>3. QED
    BY <1>1, <1>2, <2>2 DEF Persisted
<1>8. InLog' /\ Sizes' /\ RefusedUnsizedOrOversized'
  BY <1>1, <1>2 DEF InLog, Sizes, RefusedUnsizedOrOversized
<1>9. QED
  BY <1>2, <1>3, <1>4, <1>5, <1>6, <1>7, <1>8

\* The process ends anywhere.
LEMMA CrashKeeps ==
    ASSUME IInv, Crash
    PROVE  IInv'
<1> USE DEF IInv, Running
<1>1. /\ status' = "down" /\ Forget
      /\ logged' = IF tx.stage = "log" THEN logged \ DOMAIN tx.writes ELSE logged
      /\ UNCHANGED <<diskVars, writes, restarts, acked, stored, exposed, removed, sealed>>
  BY DEF Crash
<1>2. /\ size' = 0 /\ root' = 0 /\ sized' = FALSE /\ index' = NoIndex /\ index' \in [Names -> Found]
      /\ vectorPages' = [i \in Ids |-> 0] /\ vectorPages' \in [Ids -> Nat]
      /\ walBuffer' = <<>> /\ walBuffer' \in Seq(LogEntries) /\ Len(walBuffer') < FlushAt
      /\ freeList' = <<>> /\ freeList' \in Seq(Nat)
      /\ versionIndex' = [i \in Ids |-> <<>>] /\ versionIndex' \in [Ids -> Seq(Nat)]
      /\ job' = Idle /\ job'.kind = "none" /\ tx' = NoTx /\ tx'.stage = "none"
      /\ replay' = <<>> /\ replay' \in Seq(LogEntries)
      /\ Placed' /\ Ordered' /\ Written'
      /\ \A i \in Ids : DOMAIN versionIndex'[i] = {} /\ vectorPages'[i] = 0
      /\ DOMAIN freeList' = {} /\ DOMAIN replay' = {}
  BY <1>1, ForgetFact
<1>3. Types'
  <2>1. size' \in 0..Len(file)
    BY <1>2 DEF Types
  <2>2. QED
    BY <1>1, <1>2, <2>1 DEF Types, diskVars
<1>4. Phases'
  BY <1>1, <1>2 DEF Phases
<1>5. Kinds' /\ OnDisk'
  BY <1>1, <1>2 DEF Kinds, OnDisk, diskVars
<1>6. Known' /\ Persisted'
  BY <1>1, <1>2 DEF Known, Persisted, diskVars
<1>7. InLog'
  BY <1>1, <1>2 DEF InLog, diskVars, IdsIn
<1>8. Sizes' /\ RefusedUnsizedOrOversized'
  BY <1>1, <1>2 DEF Sizes, RefusedUnsizedOrOversized, diskVars
<1>9. QED
  BY <1>2, <1>3, <1>4, <1>5, <1>6, <1>7, <1>8

\* Open refuses a header without dimensions: no Store has ever returned.
LEMMA OpenRefusedKeeps ==
    ASSUME IInv, OpenRefused
    PROVE  IInv'
<1> USE DEF IInv, Running
<1>1. /\ status \in {"down", "closed"} /\ ~headerSized /\ status' = "refused"
      /\ UNCHANGED <<diskVars, memoryVars, replay, writes, history>>
  BY DEF OpenRefused
<1>2. Types' /\ Phases'
  BY <1>1 DEF Types, Phases, diskVars, memoryVars, history
<1>3. Kinds' /\ Placed' /\ Ordered'
  BY <1>1 DEF Kinds, Placed, Ordered, diskVars, memoryVars
<1>4. OnDisk' /\ Written' /\ Known'
  BY <1>1 DEF OnDisk, Written, Known, diskVars, memoryVars, history
<1>5. Persisted' /\ InLog'
  BY <1>1 DEF Persisted, InLog, HasVectors, IdsIn, diskVars, memoryVars, history
<1>6. Sizes' /\ RefusedUnsizedOrOversized'
  BY <1>1 DEF Sizes, RefusedUnsizedOrOversized, diskVars, memoryVars, history
<1>7. QED
  BY <1>2, <1>3, <1>4, <1>5, <1>6

\* The pages with an entry of an ID; the first vector found there.
LEMMA PagesWithFact ==
    ASSUME IInv, NEW n \in Names, PagesWith(n) # {}
    PROVE  /\ Min(PagesWith(n)) \in PagesWith(n) /\ Max(PagesWith(n)) \in PagesWith(n)
           /\ FirstVector(Min(PagesWith(n)), n) \in Contents
           /\ \A p \in PagesWith(n) :
                 p \in 1..headerPages /\ (n \in Ids => file[p].kind = "vectors")
<1>1. file \in Seq(Pages) /\ headerPages \in 0..Len(file)
  BY DEF IInv, Types
<1>2. \A p \in PagesWith(n) :
         /\ p \in 1..headerPages /\ file[p] \in Pages
         /\ \E k \in DOMAIN EntriesOf(file[p]) : EntriesOf(file[p])[k].id = n
  BY <1>1 DEF PagesWith
<1>3. PagesWith(n) \in SUBSET (0..headerPages) /\ PagesWith(n) \in SUBSET Nat /\ headerPages \in Nat
  BY <1>1, <1>2
<1>4. Min(PagesWith(n)) \in PagesWith(n) /\ Max(PagesWith(n)) \in PagesWith(n)
  BY <1>3, MinExists, MaxExists
<1>5. ASSUME NEW p \in PagesWith(n)
      PROVE  p \in 1..headerPages /\ (n \in Ids => file[p].kind = "vectors")
  <2>1. PICK k \in DOMAIN EntriesOf(file[p]) : EntriesOf(file[p])[k].id = n
    BY <1>2
  <2>2. Holds(file[p], EntriesOf(file[p])[k])
    BY DEF Holds
  <2>3. QED
    BY <1>2, <2>1, <2>2, EntriesFact
<1>6. ASSUME NEW p \in PagesWith(n)
      PROVE  FirstVector(p, n) \in Contents
  <2> DEFINE E == EntriesOf(file[p])
  <2> DEFINE mine == {k \in DOMAIN E : E[k].id = n}
  <2>1. E \in Seq(Entries)
    BY <1>2, EntriesFact
  <2>2. mine # {}
    BY <1>2
  <2>3. FirstVector(p, n) = E[Min(mine)].vec
    BY DEF FirstVector
  <2> HIDE DEF E
  <2>4. mine \in SUBSET Nat
    <3>1. DOMAIN E = 1..Len(E) /\ Len(E) \in Nat
      BY <2>1, LenProperties
    <3>2. QED
      BY <3>1
  <2>5. Min(mine) \in mine
    <3> HIDE DEF mine
    <3> QED
      BY <2>2, <2>4, MinExists
  <2>6. E[Min(mine)] \in Entries
    BY <2>1, <2>5
  <2>7. QED
    BY <2>3, <2>6 DEF Entries
<1>7. QED
  BY <1>4, <1>5, <1>6

\* What Open loads is an index, with all that was acknowledged and may not be missed.
LEMMA LoadedFact ==
    ASSUME IInv
    PROVE  /\ LoadedIndex \in [Names -> Found]
           /\ \A e \in acked : e.id \notin removed \cup exposed => LoadedIndex[e.id] # Absent
<1> USE DEF IInv
<1>1. file \in Seq(Pages) /\ headerPages \in 0..Len(file) /\ headerPages \in Nat
  BY DEF Types
<1>2. CASE headerRoot # 0
  <2>1. headerRoot \in DOMAIN file /\ file[headerRoot].kind = "index"
    BY <1>1, <1>2 DEF Kinds
  <2>2. file[headerRoot].snapshot \in [Names -> Found]
    <3>1. file[headerRoot] \in Pages
      BY <1>1, <2>1
    <3>2. QED
      BY <2>1, <3>1 DEF Pages, Blank
  <2>3. LoadedIndex = file[headerRoot].snapshot
    BY <1>2 DEF LoadedIndex
  <2>4. QED
    BY <1>2, <2>2, <2>3 DEF Known
<1>3. CASE headerRoot = 0
  <2>1. LoadedIndex = Rebuilt
    BY <1>3 DEF LoadedIndex
  <2>2. \A n \in Names : Rebuilt[n] \in Found
    BY PagesWithFact DEF Rebuilt, Found
  <2>3. Rebuilt \in [Names -> Found]
    BY <2>2 DEF Rebuilt
  <2>4. ASSUME NEW e \in acked PROVE Rebuilt[e.id] # Absent
    <3>1. e.id \in Ids /\ e.id \in Names /\ e.id # Phantom
      BY ConstantsAssumption DEF Types, Names
    <3>2. PICK p \in 1..headerPages : Holds(file[p], e)
      BY DEF OnDisk
    <3>3. p \in PagesWith(e.id)
      BY <3>2 DEF PagesWith, Holds
    <3>4. Rebuilt[e.id] = FirstVector(Min(PagesWith(e.id)), e.id)
      BY <3>1, <3>3 DEF Rebuilt
    <3>5. FirstVector(Min(PagesWith(e.id)), e.id) \in Contents
      BY <3>1, <3>3, PagesWithFact
    <3>6. QED
      BY <3>4, <3>5, ConstantsAssumption DEF Contents
  <2>5. QED
    BY <2>1, <2>3, <2>4
<1>4. QED
  BY <1>2, <1>3

\* Open reads the header, the persisted index or the pages, and the log.
LEMMA OpenKeeps ==
    ASSUME IInv, Open
    PROVE  IInv'
<1> USE DEF IInv, Running
<1>1. /\ status \in {"down", "closed", "refused"} /\ headerSized /\ status' = "replaying"
      /\ size' = headerPages /\ root' = headerRoot /\ sized' = TRUE /\ index' = LoadedIndex
      /\ vectorPages' = PageMap /\ replay' = walFile
      /\ job = Idle /\ job.kind = "none" /\ tx = NoTx /\ tx.stage = "none"
      /\ walBuffer = <<>> /\ freeList = <<>> /\ versionIndex = [i \in Ids |-> <<>>]
      /\ UNCHANGED <<diskVars, walBuffer, freeList, versionIndex, job, tx, writes, history>>
  BY DEF Open, Phases, Idle, NoTx
<1>2. file \in Seq(Pages) /\ headerPages \in 0..Len(file) /\ headerPages \in Nat
  BY DEF Types
<1>3. /\ LoadedIndex \in [Names -> Found]
      /\ \A e \in acked : e.id \notin removed \cup exposed => LoadedIndex[e.id] # Absent
  BY LoadedFact
<1>4. ASSUME NEW i \in Ids
      PROVE  PageMap[i] \in Nat
             /\ (PageMap[i] # 0 => PageMap[i] \in 1..headerPages /\ file[PageMap[i]].kind = "vectors")
  <2>1. CASE PagesWith(i) = {}
    BY <2>1 DEF PageMap
  <2>2. CASE PagesWith(i) # {}
    <3>1. PageMap[i] = Max(PagesWith(i)) /\ i \in Names
      BY <2>2 DEF PageMap, Names
    <3>2. PageMap[i] \in 1..headerPages /\ file[PageMap[i]].kind = "vectors"
      BY <2>2, <3>1, PagesWithFact
    <3>3. QED
      BY <3>2
  <2>3. QED
    BY <2>1, <2>2
<1>5. PageMap \in [Ids -> Nat]
  BY <1>4 DEF PageMap
<1>6. Types'
  BY <1>1, <1>2, <1>3, <1>5 DEF Types, diskVars, history
<1>7. Phases'
  BY <1>1, <1>2 DEF Phases, diskVars
<1>8. Kinds'
  <2>1. \A i \in Ids : DOMAIN versionIndex'[i] = {}
    BY <1>1
  <2>2. DOMAIN freeList' = {}
    BY <1>1
  <2>3. QED
    BY <1>1, <1>4, <2>1, <2>2 DEF Kinds, diskVars
<1>9. Placed' /\ Ordered'
  BY <1>1 DEF Placed, Ordered
<1>10. OnDisk' /\ Written'
  BY <1>1 DEF OnDisk, Written, diskVars, history
<1>11. Known'
  BY <1>1, <1>3 DEF Known, diskVars, history
<1>12. Persisted' /\ InLog'
  BY <1>1 DEF Persisted, InLog, IdsIn, diskVars, history
<1>13. Sizes' /\ RefusedUnsizedOrOversized'
  BY <1>1 DEF Sizes, RefusedUnsizedOrOversized, diskVars, history
<1>14. QED
  BY <1>6, <1>7, <1>8, <1>9, <1>10, <1>11, <1>12, <1>13

\* Replay applies an entry of an ID the index does not have.
LEMMA ReplayOneKeeps ==
    ASSUME IInv, ReplayOne
    PROVE  IInv'
<1> USE DEF IInv, Running
<1> DEFINE e == Head(replay)
<1>1. /\ status = "replaying" /\ status' = status /\ replay # <<>> /\ replay' = Tail(replay)
      /\ job = Idle /\ job.kind = "none" /\ tx = NoTx /\ tx.stage = "none"
      /\ UNCHANGED <<headerVars, walVars, status, versionIndex, job, tx, writes, restarts, history>>
  BY DEF ReplayOne, Phases, Idle, NoTx
<1>2. /\ e \in LogEntries /\ replay' \in Seq(LogEntries)
      /\ \A k \in DOMAIN replay' : \E l \in DOMAIN replay : replay'[k] = replay[l]
  <2>1. replay \in Seq(LogEntries)
    BY DEF Types
  <2>2. e \in LogEntries /\ Tail(replay) \in Seq(LogEntries)
    BY <1>1, <2>1
  <2>3. \A k \in DOMAIN Tail(replay) : k + 1 \in DOMAIN replay /\ Tail(replay)[k] = replay[k + 1]
    BY <1>1, <2>1
  <2>4. QED
    BY <1>1, <2>2, <2>3
<1>3. e.id \in Ids /\ e.vec \in Vectors \cup {Empty}
  BY <1>2 DEF LogEntries
<1>4. /\ file' \in Seq(Pages) /\ size' \in 0..Len(file') /\ headerPages' \in 0..Len(file')
      /\ headerPages' <= size' /\ freeList' \in Seq(Nat) /\ freeList' = <<>>
      /\ vectorPages' \in [Ids -> Nat]
      /\ Kinds' /\ Placed' /\ OnDisk'
      /\ headerRoot # 0 => file'[headerRoot] = file[headerRoot]
      /\ index' \in [Names -> Found] /\ \A n \in Names : index'[n] = index[n] \/ index'[n] # Absent
  <2>1. CASE UNCHANGED <<pageVars, index, vectorPages>>
    <3>1. /\ file \in Seq(Pages) /\ size \in 0..Len(file) /\ headerPages \in 0..Len(file)
          /\ headerPages <= size /\ freeList \in Seq(Nat) /\ vectorPages \in [Ids -> Nat]
          /\ index \in [Names -> Found] /\ freeList = <<>>
      BY <1>1 DEF Types, Phases
    <3>2. Kinds' /\ Placed' /\ OnDisk'
      BY <1>1, <2>1 DEF Kinds, Placed, OnDisk, pageVars, headerVars, history
    <3>3. QED
      BY <1>1, <2>1, <3>1, <3>2 DEF pageVars, headerVars
  <2>2. CASE index' = [index EXCEPT ![e.id] = e.vec] /\ StoreVector(e.id, e.vec)
    <3>1. index' \in [Names -> Found] /\ \A n \in Names : index'[n] = index[n] \/ index'[n] # Absent
      BY <1>3, <2>2, ConstantsAssumption DEF Types, Found, Contents, Names
    <3>2. freeList' = <<>>
      BY <1>1, <2>2 DEF StoreVector, Place, FreeListAfter, Phases
    <3>3. QED
      BY <1>1, <1>3, <2>2, <3>1, <3>2, StoreVectorKeeps DEF headerVars, history
  <2>3. QED
    BY <2>1, <2>2 DEF ReplayOne
<1> HIDE DEF e
<1>5. Types'
  BY <1>1, <1>2, <1>4 DEF Types, headerVars, walVars, history
<1>6. Phases'
  BY <1>1, <1>4 DEF Phases, headerVars, walVars
<1>7. Ordered'
  <2>1. \A i \in Ids : DOMAIN versionIndex'[i] = {}
    BY <1>1 DEF Phases
  <2>2. QED
    BY <2>1 DEF Ordered
<1>8. Written'
  BY <1>1 DEF Written
<1>9. Known'
  <2>1. \A d \in acked : d.id \in Names
    BY DEF Types, Names
  <2>2. QED
    BY <1>1, <1>4, <2>1 DEF Known, headerVars, history
<1>10. Persisted' /\ InLog'
  BY <1>1 DEF Persisted, InLog, IdsIn, headerVars, walVars, history
<1>11. Sizes' /\ RefusedUnsizedOrOversized'
  <2>1. \A k \in DOMAIN replay' : \E l \in DOMAIN walFile : replay'[k] = walFile[l]
    BY <1>2 DEF Sizes
  <2>2. QED
    BY <1>1, <2>1 DEF Sizes, RefusedUnsizedOrOversized, headerVars, walVars, history
<1>12. QED
  BY <1>4, <1>5, <1>6, <1>7, <1>8, <1>9, <1>10, <1>11

\* Replay fails on an entry that is in the log's file and stays there.
LEMMA ReplayFailsKeeps ==
    ASSUME IInv, ReplayFails
    PROVE  IInv'
<1> USE DEF IInv, Running
<1>1. /\ status = "replaying" /\ status' = "refused" /\ replay # <<>> /\ Head(replay).vec \in Oversized
      /\ file' = Extended /\ Forget /\ freeList = <<>>
      /\ UNCHANGED <<headerPages, headerRoot, headerSized, walFile, writes, restarts, history>>
      /\ tx.stage = "none"
  BY DEF ReplayFails, Phases, NoTx
<1>2. /\ size' = 0 /\ root' = 0 /\ sized' = FALSE /\ index' = NoIndex /\ index' \in [Names -> Found]
      /\ vectorPages' = [i \in Ids |-> 0] /\ vectorPages' \in [Ids -> Nat]
      /\ walBuffer' = <<>> /\ walBuffer' \in Seq(LogEntries) /\ Len(walBuffer') < FlushAt
      /\ freeList' = <<>> /\ freeList' \in Seq(Nat)
      /\ versionIndex' = [i \in Ids |-> <<>>] /\ versionIndex' \in [Ids -> Seq(Nat)]
      /\ job' = Idle /\ job'.kind = "none" /\ tx' = NoTx /\ tx'.stage = "none"
      /\ replay' = <<>> /\ replay' \in Seq(LogEntries)
      /\ Placed' /\ Ordered' /\ Written'
      /\ \A i \in Ids : DOMAIN versionIndex'[i] = {} /\ vectorPages'[i] = 0
      /\ DOMAIN freeList' = {} /\ DOMAIN replay' = {}
  BY <1>1, ForgetFact
<1>3. /\ file' \in Seq(Pages) /\ headerPages \in 0..Len(file') /\ headerPages \in Nat
      /\ \A p \in 1..headerPages : file'[p] = file[p]
  <2>1. /\ file \in Seq(Pages) /\ size \in 0..Len(file) /\ headerPages \in 0..Len(file)
        /\ headerPages <= size /\ Blank \in Pages
    BY <1>1 DEF Types, Phases, Pages
  <2>2. CASE Len(file) > size
    BY <1>1, <2>1, <2>2 DEF Extended
  <2>3. CASE ~(Len(file) > size)
    BY <1>1, <2>1, <2>3 DEF Extended
  <2>4. QED
    BY <2>2, <2>3
<1>4. Types'
  <2>1. size' \in 0..Len(file')
    BY <1>2, <1>3
  <2>2. QED
    BY <1>1, <1>2, <1>3, <2>1 DEF Types, history
<1>5. Phases'
  BY <1>1, <1>2 DEF Phases
<1>6. Kinds' /\ OnDisk'
  BY <1>1, <1>2, <1>3 DEF Kinds, OnDisk, history
<1>7. Known'
  <2>1. headerRoot # 0 => file'[headerRoot] = file[headerRoot]
    BY <1>3 DEF Kinds
  <2>2. QED
    BY <1>1, <2>1 DEF Known, history
<1>8. Persisted' /\ InLog'
  BY <1>1, <1>2 DEF Persisted, InLog, IdsIn, history
<1>9. Sizes'
  BY <1>1, <1>2 DEF Sizes, history
<1>10. RefusedUnsizedOrOversized'
  <2>1. replay \in Seq(LogEntries)
    BY DEF Types
  <2>2. 1 \in DOMAIN replay /\ Head(replay) = replay[1]
    BY <1>1, <2>1
  <2>3. \E k \in DOMAIN walFile : walFile[k].vec \in Oversized
    BY <1>1, <2>2 DEF Sizes
  <2>4. QED
    BY <1>1, <2>3 DEF RefusedUnsizedOrOversized
<1>11. QED
  BY <1>2, <1>4, <1>5, <1>6, <1>7, <1>8, <1>9, <1>10

\* Open has replayed the log and empties it.
LEMMA ReplayEndKeeps ==
    ASSUME IInv, ReplayEnd
    PROVE  IInv'
<1> USE DEF IInv, Running
<1>1. /\ status = "replaying" /\ status' = "open" /\ replay = <<>>
      /\ walFile' = <<>> /\ walBuffer' = <<>> /\ logged' = {}
      /\ UNCHANGED <<pageVars, headerVars, index, vectorPages, versionIndex, job, tx, replay, writes,
                     restarts, acked, stored, exposed, removed, sealed>>
  BY DEF ReplayEnd, Truncate
<1>2. Types'
  <2>1. walFile' \in Seq(LogEntries) /\ walBuffer' \in Seq(LogEntries) /\ Len(walBuffer') < FlushAt
    BY <1>1, ConstantsAssumption
  <2>2. QED
    BY <1>1, <2>1 DEF Types, pageVars, headerVars
<1>3. Phases'
  BY <1>1 DEF Phases, pageVars, headerVars
<1>4. Kinds' /\ Placed' /\ Ordered'
  BY <1>1 DEF Kinds, Placed, Ordered, pageVars, headerVars
<1>5. OnDisk' /\ Written' /\ Known'
  BY <1>1 DEF OnDisk, Written, Known, pageVars, headerVars
<1>6. Persisted' /\ InLog'
  BY <1>1 DEF Persisted, InLog, HasVectors, pageVars, headerVars
<1>7. Sizes' /\ RefusedUnsizedOrOversized'
  BY <1>1 DEF Sizes, RefusedUnsizedOrOversized, headerVars
<1>8. QED
  BY <1>2, <1>3, <1>4, <1>5, <1>6, <1>7

\* Every step keeps the invariant.
LEMMA NextKeeps ==
    ASSUME IInv, Next
    PROVE  IInv'
<1>1. ASSUME NEW i \in Direct, NEW v \in Vectors, Store(i, v) PROVE IInv'
  BY <1>1, StoreKeeps
<1>2. ASSUME StoreApply \/ StoreHeader PROVE IInv'
  BY <1>2, StoreApplyKeeps, StoreHeaderKeeps
<1>3. ASSUME NEW w \in Writes, CommitBegin(w) PROVE IInv'
  BY <1>3, CommitBeginKeeps
<1>4. ASSUME NEW i \in Ids, CommitLog(i) \/ CommitVersion(i) \/ CommitApply(i) PROVE IInv'
  BY <1>4, CommitLogKeeps, CommitVersionKeeps, CommitApplyKeeps
<1>5. ASSUME CommitFlush \/ CommitLock \/ CommitHeader PROVE IInv'
  BY <1>5, CommitFlushKeeps, CommitLockKeeps, CommitHeaderKeeps
<1>6. ASSUME CheckpointFlush \/ CheckpointTruncate PROVE IInv'
  BY <1>6, CheckpointFlushKeeps, CheckpointTruncateKeeps
<1>7. ASSUME NEW oldest \in 1..MaxWrites, GarbageCollect(oldest) PROVE IInv'
  BY <1>7, GarbageCollectKeeps
<1>8. ASSUME Close \/ CloseHeader \/ CloseEnd PROVE IInv'
  BY <1>8, CloseKeeps, CloseHeaderKeeps, CloseEndKeeps
<1>9. ASSUME Crash \/ OpenRefused \/ Open PROVE IInv'
  BY <1>9, CrashKeeps, OpenRefusedKeeps, OpenKeeps
<1>10. ASSUME ReplayOne \/ ReplayFails \/ ReplayEnd PROVE IInv'
  BY <1>10, ReplayOneKeeps, ReplayFailsKeeps, ReplayEndKeeps
<1>11. QED
  BY <1>1, <1>2, <1>3, <1>4, <1>5, <1>6, <1>7, <1>8, <1>9, <1>10 DEF Next, Commit

\* The invariant holds, whatever is stored, committed, collected, closed, lost and opened
\* again, and at whatever step the process ends.
THEOREM Invariant == Spec => []IInv
<1>1. Init => IInv
  BY InitHolds
<1>2. IInv /\ [Next]_vars => IInv'
  BY NextKeeps, StutterKeeps
<1>3. QED
  BY <1>1, <1>2, PTL DEF Spec

-----------------------------------------------------------------------------
(* What it says of the properties the runs check. *)

\* TypeOK: what Open reads was written whole, and page numbers lie in the file.
THEOREM TypeCorrect == Spec => []TypeOK
<1>1. IInv => TypeOK
  <2> SUFFICES ASSUME IInv PROVE TypeOK
    OBVIOUS
  <2> USE DEF IInv
  <2>1. size \in 0..Len(file) /\ headerPages \in 0..Len(file) /\ size \in Nat /\ headerPages \in Nat
    BY DEF Types
  <2>2. headerRoot \in 0..headerPages /\ (headerRoot # 0 => file[headerRoot].kind = "index")
    BY <2>1 DEF Kinds
  <2>3. root \in 0..size
    BY <2>1 DEF Kinds
  <2>4. index \in [Names -> Vectors \cup {Absent, Empty, Garbled}]
    <3>1. Found = Vectors \cup {Absent, Empty, Garbled}
      BY DEF Found, Contents
    <3>2. QED
      BY <3>1 DEF Types
  <2>5. vectorPages \in [Ids -> 0..size]
    <3>1. \A i \in Ids : vectorPages[i] \in 0..size
      BY <2>1 DEF Kinds
    <3>2. QED
      BY <3>1 DEF Types
  <2>6. VersionPages \cup FreePages \subseteq 1..size
    BY DEF Kinds, VersionPages, FreePages
  <2>7. Len(walBuffer) < FlushAt /\ \A e \in acked : e.id \in Ids /\ e.vec \in Vectors \ Oversized
    BY DEF Types
  <2>8. QED
    BY <2>1, <2>2, <2>3, <2>4, <2>5, <2>6, <2>7 DEF TypeOK, Types
<1>2. QED
  BY <1>1, Invariant, PTL

\* PagesApart: the allocator, the collector, the chains, the vector pages and the persisted
\* index never share a page, for any number of pages and any order of calls and crashes.
THEOREM NoPageShared == Spec => []PagesApart
<1>1. IInv => PagesApart
  <2> SUFFICES ASSUME IInv PROVE PagesApart
    OBVIOUS
  <2> USE DEF IInv
  <2>1. \A p \in VersionPages : p # 0 /\ file[p].kind = "version"
    BY SMTT(30) DEF Types, Kinds, VersionPages
  <2>2. \A p \in FreePages : p # 0 /\ file[p].kind = "version"
    BY DEF Types, Kinds, FreePages
  <2>3. \A p \in VectorPagesInUse : p # 0 /\ file[p].kind = "vectors"
    BY DEF Kinds, VectorPagesInUse
  <2>4. root # 0 => file[root].kind = "index"
    BY DEF Kinds
  <2>5. FreePages \cap VersionPages = {}
    BY DEF Placed, FreePages, VersionPages
  <2>6. VersionPages \cap VectorPagesInUse = {} /\ FreePages \cap VectorPagesInUse = {}
    BY <2>1, <2>2, <2>3
  <2>7. root \notin VersionPages \cup FreePages \cup VectorPagesInUse
    BY <2>1, <2>2, <2>3, <2>4
  <2>8. QED
    BY <2>5, <2>6, <2>7 DEF PagesApart, Placed
<1>2. QED
  BY <1>1, Invariant, PTL

\* AcknowledgedOnDisk: what Store or Commit has acknowledged is never overwritten.
THEOREM AcknowledgedStays == Spec => []AcknowledgedOnDisk
<1>1. IInv => AcknowledgedOnDisk
  BY DEF IInv, OnDisk, AcknowledgedOnDisk, Stored, Holds
<1>2. QED
  BY <1>1, Invariant, PTL

\* AcknowledgedFound: but for the two exceptions it names, the next Open finds every
\* acknowledged ID.
THEOREM AcknowledgedComesBack == Spec => []AcknowledgedFound
<1>1. IInv => AcknowledgedFound
  BY LoadedFact DEF AcknowledgedFound
<1>2. QED
  BY <1>1, Invariant, PTL

\* CommittedIsLogged: past the log phase of a commit, a crash finds its entries in the log.
THEOREM CommitsAreLogged == Spec => []CommittedIsLogged
<1>1. IInv => CommittedIsLogged
  BY DEF IInv, InLog, IdsIn, CommittedIsLogged
<1>2. QED
  BY <1>1, Invariant, PTL

\* CleanReopenKeepsIndex: Open after Close finds the index as it was.
THEOREM CleanReopen == Spec => []CleanReopenKeepsIndex
<1>1. IInv => CleanReopenKeepsIndex
  BY DEF IInv, Persisted, LoadedIndex, CleanReopenKeepsIndex
<1>2. QED
  BY <1>1, Invariant, PTL

\* RefusedUnsizedOrOversized: the reasons for which Open fails.
THEOREM RefusedForTwoReasons == Spec => []RefusedUnsizedOrOversized
<1>1. IInv => RefusedUnsizedOrOversized
  BY DEF IInv
<1>2. QED
  BY <1>1, Invariant, PTL

\* Of an open database no step empties a chain, and none puts an older version at its head.
LEMMA HeadsKept ==
    ASSUME IInv, [Next]_vars, status = "open", status' = "open", NEW i \in Ids, versionIndex[i] # <<>>
    PROVE  /\ versionIndex'[i] # <<>>
           /\ file'[Head(versionIndex'[i])].num >= file[Head(versionIndex[i])].num
<1> DEFINE old == versionIndex[i]
<1> DEFINE Goal == /\ versionIndex'[i] # <<>>
                   /\ file'[Head(versionIndex'[i])].num >= file[Head(old)].num
<1>1. /\ old \in Seq(Nat) /\ 1 \in DOMAIN old /\ Head(old) = old[1]
      /\ old[1] \in 1..size /\ file[old[1]].kind = "version" /\ file[old[1]].num \in Nat
  <2>1. old \in Seq(Nat)
    BY DEF IInv, Types
  <2>2. 1 \in DOMAIN old /\ Head(old) = old[1]
    BY <2>1
  <2>3. QED
    BY <2>1, <2>2, VersionNumbers DEF IInv, Kinds
<1>2. ASSUME versionIndex' = versionIndex, file'[old[1]] = file[old[1]] PROVE Goal
  BY <1>1, <1>2
<1>3. ASSUME NEW page \in Pages, Place(page) PROVE file'[old[1]] = file[old[1]]
  BY <1>1, <1>3, PlaceKeeps DEF Running
<1>4. ASSUME NEW j \in Ids, NEW v \in Vectors \cup {Empty}, StoreVector(j, v)
      PROVE  file'[old[1]] = file[old[1]]
  BY <1>3, <1>4, SlotHoldsAPage, WithEntryFact DEF StoreVector
<1>5. ASSUME StoreApply PROVE Goal
  <2>1. versionIndex' = versionIndex /\ job.id \in Ids /\ job.vec \in Vectors
    BY <1>5, Fields DEF StoreApply, IInv, Phases, Idle
  <2>2. StoreVector(job.id, job.vec) \/ Place(Extended[Slot])
    BY <1>5 DEF StoreApply, StoreNothing
  <2>3. file'[old[1]] = file[old[1]]
    BY <1>3, <1>4, <2>1, <2>2, SlotHoldsAPage
  <2>4. QED
    BY <1>2, <2>1, <2>3
<1>6. ASSUME NEW j \in Ids, CommitApply(j) PROVE Goal
  <2>1. versionIndex' = versionIndex /\ tx.writes[j] \in Vectors \cup {Empty}
    BY <1>6, Fields DEF CommitApply, IInv, Types, NoTx
  <2>2. StoreVector(j, tx.writes[j]) \/ file' = file
    BY <1>6 DEF CommitApply, pageVars
  <2>3. QED
    BY <1>2, <1>4, <2>1, <2>2
<1>7. ASSUME NEW j \in Ids, CommitVersion(j) PROVE Goal
  <2>1. CASE Place(Extended[Slot]) /\ versionIndex' = versionIndex
    BY <1>2, <1>3, <2>1, SlotHoldsAPage
  <2>2. CASE \E c \in Nat : VersionStored(j, c)
    <3>1. PICK c \in Nat : VersionStored(j, c)
      BY <2>2
    <3>2. file'[old[1]] = file[old[1]]
      <4>1. VersionPage(j, tx.writes[j], tx.num, c) \in Pages
        <5>1. Types /\ writes \in Nat /\ tx.stage = "versions" /\ j \in tx.todo
          BY <3>1 DEF VersionStored, IInv, Types
        <5>2. tx # NoTx /\ tx.num \in 1..writes /\ tx.writes[j] \in Vectors \cup {Empty}
          BY <5>1, Fields DEF NoTx
        <5>3. QED
          BY <5>1, <5>2 DEF VersionPage, Pages
      <4>2. QED
        BY <1>3, <3>1, <4>1 DEF VersionStored
    <3>3. CASE j = i
      <4> DEFINE new == versionIndex'[i]
      <4>1. /\ new \in Seq(Nat)
            /\ \A k \in DOMAIN new : file'[new[k]].num \in Nat
            /\ \A m, k \in DOMAIN new : m < k => file'[new[m]].num > file'[new[k]].num
            /\ \E k \in DOMAIN new : new[k] = old[1]
        BY <1>1, <3>1, <3>3, VersionChain
      <4> HIDE DEF new
      <4>2. PICK k \in DOMAIN new : new[k] = old[1]
        BY <4>1
      <4>3. new # <<>> /\ 1 \in DOMAIN new /\ Head(new) = new[1] /\ (k = 1 \/ 1 < k)
        BY <4>1, <4>2
      <4>4. file'[new[1]].num >= file'[new[k]].num
        BY <4>1, <4>3, SMTT(30)
      <4>5. new # <<>> /\ file'[Head(new)].num >= file[Head(old)].num
        BY <1>1, <3>2, <4>2, <4>3, <4>4
      <4>6. QED
        BY <4>5 DEF new
    <3>4. CASE j # i
      <4>1. versionIndex'[i] = versionIndex[i]
        BY <3>1, <3>4, VersionChain
      <4>2. QED
        BY <1>1, <3>2, <4>1
    <3>5. QED
      BY <3>3, <3>4
  <2>3. CASE tx.writes[j] \notin Oversized
    <3>1. PICK c \in IF tx.writes[j] = Empty THEN 1..tx.num ELSE {tx.num} : VersionStored(j, c)
      BY <1>7, <2>3 DEF CommitVersion, VersionStored
    <3>2. tx.num \in Nat
      BY <3>1, Fields, SMTT(30) DEF VersionStored, IInv, Types, NoTx
    <3>3. QED
      BY <2>2, <3>1, <3>2
  <2>4. QED
    BY <1>7, <2>1, <2>3 DEF CommitVersion
<1>8. ASSUME NEW oldest \in 1..MaxWrites, GarbageCollect(oldest) PROVE Goal
  <2> DEFINE new == Kept(i, oldest)
  <2>1. versionIndex'[i] = new /\ file' = file
    BY <1>8 DEF GarbageCollect
  <2>2. /\ new \in Seq(Nat)
        /\ \E p \in [DOMAIN new -> DOMAIN old] :
              /\ \A n \in DOMAIN new : new[n] = old[p[n]] /\ ~Collectable(i, p[n], oldest)
              /\ \A m, n \in DOMAIN new : m < n => p[m] < p[n]
              /\ old # <<>> => 1 \in DOMAIN new /\ p[1] = 1
    BY <1>1, KeptFact
  <2> HIDE DEF new
  <2>3. 1 \in DOMAIN new /\ new[1] = old[1]
    BY <1>1, <2>2
  <2>4. new # <<>> /\ Head(new) = new[1]
    BY <2>2, <2>3
  <2>5. QED
    BY <1>1, <2>1, <2>3, <2>4
<1>9. ASSUME Close PROVE Goal
  <2>1. versionIndex' = versionIndex /\ index \in [Names -> Found]
    BY <1>9 DEF Close, IInv, Types
  <2>2. CASE Place(IndexPage(index))
    <3>1. IndexPage(index) \in Pages
      BY <2>1 DEF IndexPage, Pages
    <3>2. QED
      BY <1>2, <1>3, <2>1, <2>2, <3>1
  <2>3. CASE root # 0 /\ file' = [file EXCEPT ![root] = IndexPage(index)]
    <3>1. old[1] # root
      BY <1>1, <2>3 DEF IInv, Kinds
    <3>2. old[1] \in DOMAIN file
      BY <1>1 DEF IInv, Types
    <3>3. QED
      BY <1>2, <2>1, <2>3, <3>1, <3>2
  <2>4. CASE file' = file
    BY <1>2, <2>1, <2>4
  <2>5. QED
    BY <1>9, <2>2, <2>3, <2>4 DEF Close, pageVars
<1>10. CASE UNCHANGED <<file, versionIndex>>
  BY <1>2, <1>10
<1>11. CASE Next
  <2>1. ASSUME NEW j \in Direct, NEW v \in Vectors, Store(j, v) PROVE Goal
    BY <1>10, <2>1 DEF Store, pageVars
  <2>2. ASSUME StoreHeader \/ CommitFlush \/ CommitLock \/ CommitHeader PROVE Goal
    BY <1>10, <2>2 DEF StoreHeader, CommitFlush, CommitLock, CommitHeader, pageVars
  <2>3. ASSUME NEW w \in Writes, CommitBegin(w) PROVE Goal
    BY <1>10, <2>3 DEF CommitBegin, pageVars
  <2>4. ASSUME NEW j \in Ids, CommitLog(j) PROVE Goal
    BY <1>10, <2>4 DEF CommitLog, pageVars
  <2>5. ASSUME CheckpointFlush \/ CheckpointTruncate \/ CloseHeader PROVE Goal
    BY <1>10, <2>5 DEF CheckpointFlush, CheckpointTruncate, CloseHeader, pageVars
  <2>6. ~(CloseEnd \/ Crash \/ OpenRefused \/ Open \/ ReplayOne \/ ReplayFails \/ ReplayEnd)
    BY DEF CloseEnd, Crash, OpenRefused, Open, ReplayOne, ReplayFails, ReplayEnd
  <2>7. QED
    BY <1>5, <1>6, <1>7, <1>8, <1>9, <1>11, <2>1, <2>2, <2>3, <2>4, <2>5, <2>6 DEF Next, Commit
<1>12. QED
  BY <1>10, <1>11 DEF vars, diskVars, memoryVars

\* NewestVersionKept: the newest version of every ID stays on disk at the front of its chain,
\* whatever is collected and whatever page is given out again.
THEOREM NewestVersionStays == Spec => NewestVersionKept
<1>1. IInv /\ [Next]_vars =>
         (status = "open" /\ status' = "open" =>
            \A i \in Ids : versionIndex[i] # <<>> =>
                /\ versionIndex'[i] # <<>>
                /\ file'[Head(versionIndex'[i])].num >= file[Head(versionIndex[i])].num)
  BY HeadsKept
<1>2. QED
  BY <1>1, Invariant, PTL DEF Spec, NewestVersionKept
=============================================================================
