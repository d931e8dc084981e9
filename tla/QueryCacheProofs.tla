--------------------------- MODULE QueryCacheProofs ---------------------------
(***************************************************************************)
(* A search sees every Store that returned before it began, for any number  *)
(* of searches, calls and cached queries, and even when the races of Get    *)
(* have broken the recency list: the argument never looks at the list.      *)
(*                                                                         *)
(* It rests on the lock of the database.  A search holds it for reading     *)
(* until its result is in the cache, and an invalidation comes before a     *)
(* Store releases it, so that no result older than the last invalidation    *)
(* can be cached or be on its way to the cache.                             *)
(*                                                                         *)
(* The list is in order as long as no two hits have met, and only then.     *)
(* That argument is about where the links lead between any two of the six   *)
(* assignments of a move (MovedBy): in the order of use, past the element   *)
(* that is on its way to the front.                                         *)
(***************************************************************************)
EXTENDS QueryCache, FiniteSetTheorems, SequenceTheorems, TLAPS

Actors == Finders \cup Writers
Bringing == Moving \cup {"searched", "answer", "spinning"}

Shape ==
    /\ changes \in Nat
    /\ firm \in Nat
    /\ firm <= changes
    /\ found \in [Finders -> Nat]
    /\ since \in [Finders -> Nat]
    /\ pc \in [Actors -> Places \cup {"invalidate", "done"}]
    /\ \A k \in Cached : "result" \in DOMAIN entries[k]

\* Who is between the search and the cache, or before an invalidation, holds the lock.
Locked ==
    /\ \A f \in Finders : pc[f] = "searched" => f \in readers
    /\ \A w \in Writers : pc[w] = "invalidate" => writer = w
    /\ writer # Nobody => readers = {}

\* No result in the cache, or on its way to it, is older than the last invalidation.
Fresh ==
    /\ \A k \in Cached : entries[k].result \in Nat /\ entries[k].result >= firm
    /\ \A f \in Finders : pc[f] = "searched" => found[f] >= firm

Early == \A f \in Finders : since[f] <= firm

IInv == Shape /\ Locked /\ Fresh /\ Early /\ StoresSeen

\* The pc of one actor changes.
LEMMA GotoFact ==
    ASSUME Shape, NEW a \in Actors, NEW p \in Places \cup {"invalidate", "done"}, Goto(a, p)
    PROVE  /\ pc' \in [Actors -> Places \cup {"invalidate", "done"}]
           /\ pc'[a] = p
           /\ \A b \in Actors \ {a} : pc'[b] = pc[b]
BY DEF Goto, Shape

\* Nothing is cached at first.
LEMMA InitHolds == Init => IInv
<1> SUFFICES ASSUME Init PROVE IInv
    OBVIOUS
<1>1. Cached = {}
    BY DEF Init, Cached
<1>2. \A a \in Actors : pc[a] = "idle"
    BY DEF Init, Actors
<1>3. Shape
    BY <1>1 DEF Init, Shape, Actors, Places
<1>4. Locked
    BY <1>2, ConstantsAssumption DEF Init, Locked, Actors, ConstantsAssumption
<1>5. Fresh /\ Early
    BY <1>1, <1>2 DEF Init, Fresh, Early, Actors
<1>6. StoresSeen
    BY <1>2 DEF Init, StoresSeen, Moving, Actors
<1> QED BY <1>3, <1>4, <1>5, <1>6 DEF IInv

\* A lookup remembers when it began, and a hit is at least that new.
LEMMA GetKeeps ==
    ASSUME IInv, NEW f \in Finders, NEW k \in Keys, Get(f, k)
    PROVE  IInv'
<1> USE DEF IInv
<1>1. PICK p : p \in {"missed", "answer", "unlink next"} /\ Goto(f, p)
    BY DEF Get
<1>2. p \in Places /\ p # "searched" /\ p # "invalidate"
    BY <1>1 DEF Places, Moving
<1>3. /\ f \in Actors
      /\ pc' \in [Actors -> Places \cup {"invalidate", "done"}]
      /\ pc'[f] = p
      /\ \A b \in Actors \ {f} : pc'[b] = pc[b]
    BY <1>1, <1>2, GotoFact DEF Actors
<1>4. UNCHANGED <<changes, firm, entries, readers, writer>>
    BY DEF Get, lockVars
<1>5. since' = [since EXCEPT ![f] = firm]
    BY DEF Get
<1>6. \/ found' = found /\ p = "missed"
      \/ /\ k \in Cached
         /\ found' = [found EXCEPT ![f] = entries[k].result]
    <2>1. CASE k \notin Cached
        <3>1. found' = found /\ Goto(f, "missed")
            BY <2>1 DEF Get
        <3>2. pc'[f] = "missed"
            BY <3>1, <1>3, GotoFact DEF Places
        <3> QED BY <3>1, <3>2, <1>3
    <2>2. CASE k \in Cached
        BY <2>2 DEF Get
    <2> QED BY <2>1, <2>2
<1>7. k \in Cached => entries[k].result \in Nat /\ entries[k].result >= firm
    BY DEF Fresh
<1>8. found' \in [Finders -> Nat] /\ since' \in [Finders -> Nat]
    BY <1>5, <1>6, <1>7 DEF Shape
<1>9. Cached' = Cached
    BY <1>4 DEF Cached
<1>10. Shape'
    BY <1>3, <1>4, <1>8, <1>9 DEF Shape
<1>11. Locked'
    <2>1. \A w \in Writers : w # f /\ w \in Actors
        BY ConstantsAssumption DEF ConstantsAssumption, Actors
    <2> QED BY <1>2, <1>3, <1>4, <2>1 DEF Locked, Actors
<1>12. \A g \in Finders \ {f} : found'[g] = found[g] /\ since'[g] = since[g] /\ pc'[g] = pc[g]
    BY <1>3, <1>5, <1>6 DEF Shape, Actors
<1>13. Fresh'
    BY <1>2, <1>3, <1>4, <1>9, <1>12 DEF Fresh
<1>14. since'[f] = firm
    BY <1>5 DEF Shape
<1>15. Early'
    BY <1>4, <1>12, <1>14 DEF Early, Shape
<1>16. p # "missed" => found'[f] >= since'[f]
    BY <1>6, <1>7, <1>14 DEF Shape
<1>17. StoresSeen'
    BY <1>3, <1>12, <1>16 DEF StoresSeen, Moving
<1> QED BY <1>10, <1>11, <1>13, <1>15, <1>17

\* Moving an element changes only the list.
LEMMA MoveKeeps ==
    ASSUME IInv, NEW f \in Finders, MoveToFront(f)
    PROVE  IInv'
<1> USE DEF IInv
<1>1. PICK p : p \in Moving \cup {"answer"} /\ Goto(f, p)
    BY DEF MoveToFront, At, Moving
<1>2. p \in Places /\ p # "searched" /\ p # "invalidate" /\ pc[f] \in Moving
    BY <1>1 DEF Places, Moving, MoveToFront
<1>3. /\ f \in Actors
      /\ pc' \in [Actors -> Places \cup {"invalidate", "done"}]
      /\ pc'[f] = p
      /\ \A b \in Actors \ {f} : pc'[b] = pc[b]
    BY <1>1, <1>2, GotoFact DEF Actors
<1>4. UNCHANGED <<changes, firm, entries, readers, writer, found, since>>
    BY DEF MoveToFront, lockVars, findVars
<1>5. Cached' = Cached
    BY <1>4 DEF Cached
<1>6. Shape'
    BY <1>3, <1>4, <1>5 DEF Shape
<1>7. Locked'
    <2>1. \A w \in Writers : w # f /\ w \in Actors
        BY ConstantsAssumption DEF ConstantsAssumption, Actors
    <2> QED BY <1>2, <1>3, <1>4, <2>1 DEF Locked, Actors
<1>8. Fresh' /\ Early'
    BY <1>2, <1>3, <1>4, <1>5 DEF Fresh, Early, Actors
<1>9. StoresSeen'
    BY <1>2, <1>3, <1>4 DEF StoresSeen, Actors
<1> QED BY <1>6, <1>7, <1>8, <1>9

\* A search sees every change there has been.
LEMMA SearchKeeps ==
    ASSUME IInv, NEW f \in Finders, Search(f)
    PROVE  IInv'
<1> USE DEF IInv
<1>1. UNCHANGED <<changes, firm, entries, writer>> /\ writer = Nobody
    BY DEF Search, cacheVars
<1>2. Cached' = Cached /\ f \in Actors
    BY <1>1 DEF Cached, Actors
<1>3. \A w \in Writers : w # f /\ w \in Actors
    BY ConstantsAssumption DEF ConstantsAssumption, Actors
<1>4. CASE closed
    <2>1. Goto(f, "idle") /\ UNCHANGED <<readers, found>> /\ since' = [since EXCEPT ![f] = 0]
        BY <1>4 DEF Search
    <2>2. /\ pc' \in [Actors -> Places \cup {"invalidate", "done"}]
          /\ pc'[f] = "idle"
          /\ \A b \in Actors \ {f} : pc'[b] = pc[b]
        BY <2>1, <1>2, GotoFact DEF Places
    <2>3. since' \in [Finders -> Nat] /\ since'[f] = 0
          /\ \A g \in Finders \ {f} : since'[g] = since[g]
        BY <2>1 DEF Shape
    <2>4. Shape'
        BY <1>1, <1>2, <2>1, <2>2, <2>3 DEF Shape
    <2>5. Locked'
        BY <1>1, <1>3, <2>1, <2>2 DEF Locked, Actors
    <2>6. Fresh'
        BY <1>1, <1>2, <2>1, <2>2 DEF Fresh, Actors
    <2>7. Early'
        BY <1>1, <2>3 DEF Early, Shape
    <2>8. StoresSeen'
        BY <2>1, <2>2, <2>3 DEF StoresSeen, Actors, Moving
    <2> QED BY <2>4, <2>5, <2>6, <2>7, <2>8
<1>5. CASE ~closed
    <2>1. /\ Goto(f, "searched")
          /\ readers' = readers \cup {f}
          /\ found' = [found EXCEPT ![f] = changes]
          /\ since' = since
        BY <1>5 DEF Search
    <2>2. /\ pc' \in [Actors -> Places \cup {"invalidate", "done"}]
          /\ pc'[f] = "searched"
          /\ \A b \in Actors \ {f} : pc'[b] = pc[b]
        BY <2>1, <1>2, GotoFact DEF Places
    <2>3. found' \in [Finders -> Nat] /\ found'[f] = changes
          /\ \A g \in Finders \ {f} : found'[g] = found[g]
        BY <2>1 DEF Shape
    <2>4. Shape'
        BY <1>1, <1>2, <2>1, <2>2, <2>3 DEF Shape
    <2>5. Locked'
        BY <1>1, <1>3, <2>1, <2>2 DEF Locked, Actors
    <2>6. Fresh'
        BY <1>1, <1>2, <2>2, <2>3 DEF Fresh, Actors, Shape
    <2>7. Early'
        BY <1>1, <2>1 DEF Early
    <2>8. found'[f] >= since'[f]
        BY <2>1, <2>3 DEF Early, Shape
    <2>9. StoresSeen'
        BY <2>1, <2>2, <2>3, <2>8 DEF StoresSeen, Actors
    <2> QED BY <2>4, <2>5, <2>6, <2>7, <2>9
<1> QED BY <1>4, <1>5

\* What Put caches is the result of the search; nothing else in the cache changes.
LEMMA PutEntries ==
    ASSUME Shape, NEW f \in Finders, Put(f)
    PROVE  /\ \A k \in Cached' : "result" \in DOMAIN entries'[k]
           /\ \A k \in Cached' : \/ entries'[k].result = found[f]
                                 \/ k \in Cached /\ entries'[k].result = entries[k].result
<1> DEFINE k == key[f]
<1>1. CASE Replace(f)
    <2>1. k \in Cached /\ entries' = [entries EXCEPT ![k].result = found[f]]
        BY <1>1 DEF Replace
    <2>2. Cached' = Cached
        BY <2>1 DEF Cached
    <2>3. \A c \in Cached \ {k} : entries'[c] = entries[c]
        BY <2>1 DEF Cached
    <2>4. entries'[k] = [entries[k] EXCEPT !.result = found[f]]
        BY <2>1 DEF Cached
    <2>5. "result" \in DOMAIN entries[k]
        BY <2>1 DEF Shape
    <2>6. "result" \in DOMAIN entries'[k] /\ entries'[k].result = found[f]
        BY <2>4, <2>5
    <2> QED BY <2>1, <2>2, <2>3, <2>6 DEF Shape
<1>2. ASSUME NEW ents, NEW nxt, NEW prv, NEW ls, NEW n, NEW rec,
             Push(f, ents, nxt, prv, ls, n, rec),
             DOMAIN ents \subseteq Cached,
             \A c \in DOMAIN ents : ents[c] = entries[c]
      PROVE  /\ \A c \in Cached' : "result" \in DOMAIN entries'[c]
             /\ \A c \in Cached' : \/ entries'[c].result = found[f]
                                   \/ c \in Cached /\ entries'[c].result = entries[c].result
    <2>1. PICK e : entries' = [c \in DOMAIN ents \cup {k} |->
                                 IF c = k THEN [result |-> found[f], element |-> e] ELSE ents[c]]
        BY <1>2 DEF Push
    <2>2. Cached' = DOMAIN ents \cup {k}
        BY <2>1 DEF Cached
    <2>3. entries'[k] = [result |-> found[f], element |-> e]
        BY <2>1
    <2>4. \A c \in DOMAIN ents \ {k} : entries'[c] = entries[c] /\ c \in Cached
        BY <1>2, <2>1
    <2>5. "result" \in DOMAIN entries'[k] /\ entries'[k].result = found[f]
        BY <2>3
    <2> QED BY <2>2, <2>4, <2>5 DEF Shape
<1>3. CASE Insert(f)
    <2>1. Push(f, entries, next, prev, listed, len, recency)
        BY <1>3 DEF Insert
    <2> QED BY <1>2, <2>1 DEF Cached
<1>4. CASE Evict(f)
    <2> DEFINE left == Cached \ {valueOf[prev[Root]]}
               ents == [c \in left |-> entries[c]]
    <2>1. DOMAIN ents = left /\ \A c \in left : ents[c] = entries[c]
        OBVIOUS
    <2>2. PICK nxt, prv, ls, n, rec : Push(f, ents, nxt, prv, ls, n, rec)
        BY <1>4 DEF Evict
    <2> HIDE DEF ents
    <2> QED BY <1>2, <2>1, <2>2
<1>5. CASE EvictBroken(f)
    <2>1. entries' = entries
        BY <1>5 DEF EvictBroken
    <2> QED BY <2>1 DEF Cached, Shape
<1> QED BY <1>1, <1>3, <1>4, <1>5 DEF Put

\* The result is cached while the lock is held, and so after the last invalidation.
LEMMA PutKeeps ==
    ASSUME IInv, NEW f \in Finders, Put(f)
    PROVE  IInv'
<1> USE DEF IInv
<1>1. /\ UNCHANGED <<changes, firm, writer, found, since>>
      /\ pc[f] = "searched"
      /\ readers' = IF pc'[f] = "answer" THEN readers \ {f} ELSE readers
    BY DEF Put, findVars
<1>2. f \in Actors /\ \A w \in Writers : w # f /\ w \in Actors
    BY ConstantsAssumption DEF ConstantsAssumption, Actors
<1>3. \/ Goto(f, "answer")
      \/ Goto(f, "spinning")
      \/ UNCHANGED pc
    BY DEF Put, Replace, Insert, Evict, EvictBroken, Push
<1>4. /\ pc' \in [Actors -> Places \cup {"invalidate", "done"}]
      /\ pc'[f] = "answer" \/ pc'[f] = "spinning" \/ pc'[f] = "searched"
      /\ \A b \in Actors \ {f} : pc'[b] = pc[b]
    BY <1>1, <1>2, <1>3 DEF Shape, Goto, Places
<1>5. /\ \A k \in Cached' : "result" \in DOMAIN entries'[k]
      /\ \A k \in Cached' : \/ entries'[k].result = found[f]
                            \/ k \in Cached /\ entries'[k].result = entries[k].result
    BY PutEntries
<1>6. Shape'
    BY <1>1, <1>4, <1>5 DEF Shape
<1>7. Locked'
    <2>1. \A g \in Finders \ {f} : pc'[g] = "searched" => g \in readers'
        BY <1>1, <1>4 DEF Locked, Actors
    <2>2. pc'[f] = "searched" => f \in readers'
        BY <1>1 DEF Locked
    <2>3. \A w \in Writers : pc'[w] = "invalidate" => writer' = w
        BY <1>1, <1>2, <1>4 DEF Locked
    <2>4. writer' # Nobody => readers' = {}
        BY <1>1 DEF Locked
    <2> QED BY <2>1, <2>2, <2>3, <2>4 DEF Locked
<1>8. found[f] \in Nat /\ found[f] >= firm
    BY <1>1 DEF Shape, Fresh
<1>9. Fresh'
    <2>1. \A k \in Cached' : entries'[k].result \in Nat /\ entries'[k].result >= firm'
        BY <1>1, <1>5, <1>8 DEF Fresh
    <2>2. \A g \in Finders : pc'[g] = "searched" => found'[g] >= firm'
        BY <1>1, <1>4, <1>8 DEF Fresh, Actors
    <2> QED BY <2>1, <2>2 DEF Fresh
<1>10. Early'
    BY <1>1 DEF Early
<1>11. StoresSeen'
    BY <1>1, <1>2, <1>4 DEF StoresSeen, Actors
<1> QED BY <1>6, <1>7, <1>9, <1>10, <1>11

\* A Find that has returned holds nothing.
LEMMA ReturnKeeps ==
    ASSUME IInv, NEW f \in Finders, Return(f)
    PROVE  IInv'
<1> USE DEF IInv
<1>1. /\ UNCHANGED <<changes, firm, entries, readers, writer>>
      /\ Goto(f, "idle")
      /\ found' = [found EXCEPT ![f] = 0]
      /\ since' = [since EXCEPT ![f] = 0]
    BY DEF Return, lockVars, cacheVars
<1>2. Cached' = Cached /\ f \in Actors /\ \A w \in Writers : w # f /\ w \in Actors
    BY <1>1, ConstantsAssumption DEF ConstantsAssumption, Actors, Cached
<1>3. /\ pc' \in [Actors -> Places \cup {"invalidate", "done"}]
      /\ pc'[f] = "idle"
      /\ \A b \in Actors \ {f} : pc'[b] = pc[b]
    BY <1>1, <1>2, GotoFact DEF Places
<1>4. found' \in [Finders -> Nat] /\ since' \in [Finders -> Nat] /\ since'[f] = 0
      /\ \A g \in Finders \ {f} : found'[g] = found[g] /\ since'[g] = since[g]
    BY <1>1 DEF Shape
<1>5. Shape'
    BY <1>1, <1>2, <1>3, <1>4 DEF Shape
<1>6. Locked'
    BY <1>1, <1>2, <1>3 DEF Locked, Actors
<1>7. Fresh'
    BY <1>1, <1>2, <1>3, <1>4 DEF Fresh, Actors
<1>8. Early'
    BY <1>1, <1>4 DEF Early, Shape
<1>9. StoresSeen'
    BY <1>3, <1>4 DEF StoresSeen, Actors, Moving
<1> QED BY <1>5, <1>6, <1>7, <1>8, <1>9

\* A call that changes data starts when nobody holds the lock.
LEMMA WriteKeeps ==
    ASSUME IInv, NEW w \in Writers, Write(w)
    PROVE  IInv'
<1> USE DEF IInv
<1>1. /\ UNCHANGED <<firm, entries, readers, found, since>>
      /\ writer = Nobody /\ readers = {}
      /\ changes' = changes \/ changes' = changes + 1
      /\ \/ Goto(w, "done") /\ writer' = writer
         \/ Goto(w, "invalidate") /\ writer' = w
    BY DEF Write, CanLock, cacheVars, findVars, Store, Remove, Commit, Compact, Close,
           Unchanged, Change, ThenInvalidate
<1>2. /\ Cached' = Cached /\ w \in Actors
      /\ \A f \in Finders : f # w /\ f \in Actors
      /\ \A v \in Writers : v # Nobody /\ v \in Actors
    BY <1>1, ConstantsAssumption DEF ConstantsAssumption, Actors, Cached
<1>3. /\ pc' \in [Actors -> Places \cup {"invalidate", "done"}]
      /\ \/ pc'[w] = "done" /\ writer' = writer
         \/ pc'[w] = "invalidate" /\ writer' = w
      /\ \A b \in Actors \ {w} : pc'[b] = pc[b]
    <2>1. CASE Goto(w, "done") /\ writer' = writer
        BY <1>2, <2>1, GotoFact
    <2>2. CASE Goto(w, "invalidate") /\ writer' = w
        BY <1>2, <2>2, GotoFact
    <2> QED BY <1>1, <2>1, <2>2
<1>4. changes' \in Nat /\ firm' <= changes'
    BY <1>1 DEF Shape
<1>5. Shape'
    BY <1>1, <1>2, <1>3, <1>4 DEF Shape
<1>6. \A f \in Finders : pc'[f] = pc[f]
    BY <1>2, <1>3
<1>7. Locked'
    <2>1. \A v \in Writers \ {w} : pc'[v] # "invalidate"
        BY <1>1, <1>2, <1>3 DEF Locked
    <2>2. pc'[w] = "invalidate" => writer' = w
        BY <1>3
    <2> QED BY <1>1, <1>6, <2>1, <2>2 DEF Locked
<1>8. Fresh' /\ Early' /\ StoresSeen'
    BY <1>1, <1>2, <1>6 DEF Fresh, Early, StoresSeen
<1> QED BY <1>5, <1>7, <1>8

\* No search is on its way to the cache when it is emptied.
LEMMA InvalidateKeeps ==
    ASSUME IInv, NEW w \in Writers, Invalidate(w)
    PROVE  IInv'
<1> USE DEF IInv
<1>1. /\ UNCHANGED <<changes, readers, found, since>>
      /\ entries' = <<>> /\ firm' = changes /\ writer' = Nobody
      /\ Goto(w, "done") /\ pc[w] = "invalidate"
    BY DEF Invalidate, findVars
<1>2. /\ Cached' = {} /\ w \in Actors
      /\ \A f \in Finders : f # w /\ f \in Actors
      /\ \A v \in Writers : v # Nobody /\ v \in Actors
    BY <1>1, ConstantsAssumption DEF ConstantsAssumption, Actors, Cached
<1>3. /\ pc' \in [Actors -> Places \cup {"invalidate", "done"}]
      /\ pc'[w] = "done"
      /\ \A b \in Actors \ {w} : pc'[b] = pc[b]
    BY <1>1, <1>2 DEF Shape, Goto
<1>4. readers = {} /\ writer = w
    BY <1>1, <1>2 DEF Locked
<1>5. \A f \in Finders : pc'[f] = pc[f] /\ pc[f] # "searched"
    BY <1>2, <1>3, <1>4 DEF Locked
<1>6. firm' \in Nat /\ firm' <= changes'
    BY <1>1 DEF Shape
<1>7. Shape'
    BY <1>1, <1>2, <1>3, <1>6 DEF Shape
<1>8. Locked'
    BY <1>1, <1>2, <1>3, <1>4, <1>5 DEF Locked
<1>9. Fresh'
    BY <1>2, <1>5 DEF Fresh
<1>10. \A f \in Finders : since'[f] <= firm'
    BY <1>1 DEF Early, Shape
<1>11. Early' /\ StoresSeen'
    BY <1>1, <1>5, <1>10 DEF Early, StoresSeen
<1> QED BY <1>7, <1>8, <1>9, <1>11

LEMMA StutterKeeps == ASSUME IInv, UNCHANGED vars PROVE IInv'
BY DEF vars, lockVars, cacheVars, findVars, IInv, Shape, Locked, Fresh, Early, StoresSeen, Cached

\* Every step keeps it.
LEMMA NextKeeps ==
    ASSUME IInv, [Next]_vars
    PROVE  IInv'
<1>1. CASE UNCHANGED vars
    BY <1>1, StutterKeeps
<1>2. CASE Stop
    BY <1>2, StutterKeeps DEF Stop
<1>3. ASSUME NEW f \in Finders, NEW k \in Keys, Get(f, k) PROVE IInv'
    BY <1>3, GetKeeps
<1>4. ASSUME NEW f \in Finders, FindStep(f) PROVE IInv'
    BY <1>4, MoveKeeps, SearchKeeps, PutKeeps, ReturnKeeps DEF FindStep
<1>5. ASSUME NEW w \in Writers, Write(w) \/ Invalidate(w) PROVE IInv'
    BY <1>5, WriteKeeps, InvalidateKeeps
<1> QED BY <1>1, <1>2, <1>3, <1>4, <1>5 DEF Next

\* A Find that begins after a Store has returned sees that Store and all changes before
\* it: the property StoresSeen of the run cache_find, for all values of the constants.
THEOREM FindSeesStores == Spec => []StoresSeen
<1>1. IInv => StoresSeen
    BY DEF IInv
<1> QED BY InitHolds, NextKeeps, <1>1, PTL DEF Spec

-----------------------------------------------------------------------------
(* Types.  Every call changes the data once at most. *)

Started == {w \in Writers : pc[w] # "idle"}
Counted == changes <= Cardinality(Started)

\* What a finder holds where it stands.
Holding ==
    /\ \A f \in Finders : pc[f] \in Searching => key[f] \in Keys
    /\ \A f \in Finders : pc[f] \in Moving => held[f] \in Elements

Typed == TypeOK /\ Counted /\ Holding

\* A step of a finder starts no call.
LEMMA FinderSteps ==
    ASSUME Shape, Counted, NEW f \in Finders, UNCHANGED changes,
           \A b \in Actors \ {f} : pc'[b] = pc[b]
    PROVE  /\ \A w \in Writers : pc'[w] = pc[w]
           /\ Counted'
<1>1. \A w \in Writers : pc'[w] = pc[w]
    BY ConstantsAssumption DEF Actors
<1>2. Started' = Started
    BY <1>1 DEF Started
<1> QED BY <1>1, <1>2 DEF Counted

\* The count bounds the changes.
LEMMA ChangesBounded ==
    ASSUME changes \in Nat, Counted
    PROVE  changes \in Results
<1>1. IsFiniteSet(Writers) /\ Started \subseteq Writers
    BY ConstantsAssumption DEF Started
<1>2. Cardinality(Started) <= Cardinality(Writers) /\ Cardinality(Started) \in Nat
      /\ Cardinality(Writers) \in Nat
    BY <1>1, FS_Subset, FS_CardinalityType
<1> QED BY <1>2 DEF Counted, Results

LEMMA TypedAtFirst == Init => Typed
<1> SUFFICES ASSUME Init PROVE Typed
    OBVIOUS
<1>1. Cardinality(Writers) \in Nat /\ 0 \in Results
    BY ConstantsAssumption, FS_CardinalityType DEF Results
<1>2. Started = {} /\ changes = 0
    BY DEF Init, Started
<1>3. Counted
    BY <1>2, FS_EmptySet DEF Counted
<1>4. Holding
    BY DEF Init, Holding, Searching, Moving
<1>5. Cached = {}
    BY DEF Init, Cached
<1>6. TypeOK
    <2>1. /\ next \in [Elements \cup {Root} -> Links] /\ prev \in [Elements \cup {Root} -> Links]
          /\ valueOf \in [Elements -> Keys \cup {Nil}] /\ 0 \in 0..MaxSize /\ 0 \in 0..AfterRace
        BY ConstantsAssumption DEF Init, Links
    <2>2. /\ \A f \in Finders : pc[f] \in Places
          /\ \A w \in Writers : pc[w] \in {"idle", "invalidate", "done"}
        BY DEF Init, Places
    <2>3. /\ key \in [Finders -> Keys \cup {Nil}] /\ found \in [Finders -> Results]
          /\ held \in [Finders -> Elements \cup {Nil}] /\ since \in [Finders -> Results]
        BY <1>1 DEF Init
    <2> QED BY <1>1, <1>5, <2>1, <2>2, <2>3 DEF Init, TypeOK
<1> QED BY <1>3, <1>4, <1>6 DEF Typed

LEMMA GetTyped ==
    ASSUME IInv, Typed, NEW f \in Finders, NEW k \in Keys, Get(f, k)
    PROVE  Typed'
<1> USE DEF IInv, Typed
<1>1. PICK p : p \in {"missed", "answer", "unlink next"} /\ Goto(f, p)
    BY DEF Get
<1>2. p \in Places
    BY <1>1 DEF Places, Moving
<1>3. /\ f \in Actors /\ pc' \in [Actors -> Places \cup {"invalidate", "done"}] /\ pc'[f] = p
      /\ \A b \in Actors \ {f} : pc'[b] = pc[b]
    BY <1>1, <1>2, GotoFact DEF Actors
<1>4. /\ UNCHANGED <<changes, closed, writer, readers, entries, next, prev, listed, len, valueOf, panicked, firm>>
      /\ key' = [key EXCEPT ![f] = k] /\ since' = [since EXCEPT ![f] = firm]
      /\ raced < AfterRace
    BY DEF Get, lockVars, listVars
<1>5. raced' \in 0..AfterRace
    <2>1. raced \in 0..AfterRace /\ AfterRace \in Nat
        BY ConstantsAssumption DEF TypeOK
    <2>2. raced' = raced + 1 \/ raced' = 0
        BY DEF Get
    <2> QED BY <1>4, <2>1, <2>2
<1>6. /\ found' \in [Finders -> Results] /\ held' \in [Finders -> Elements \cup {Nil}]
      /\ p # "missed" => held'[f] \in Elements
      /\ \A g \in Finders \ {f} : held'[g] = held[g]
    <2>1. found \in [Finders -> Results] /\ held \in [Finders -> Elements \cup {Nil}]
        BY DEF TypeOK
    <2>2. CASE k \notin Cached
        <3>1. found' = found /\ held' = held /\ Goto(f, "missed")
            BY <2>2 DEF Get
        <3>2. p = "missed"
            BY <1>3, <3>1, GotoFact DEF Places
        <3> QED BY <2>1, <3>1, <3>2
    <2>3. CASE k \in Cached
        <3>1. /\ found' = [found EXCEPT ![f] = entries[k].result]
              /\ held' = [held EXCEPT ![f] = entries[k].element]
            BY <2>3 DEF Get
        <3>2. entries[k].result \in Results /\ entries[k].element \in Elements
            BY <2>3 DEF TypeOK
        <3> QED BY <2>1, <3>1, <3>2
    <2> QED BY <2>2, <2>3
<1>7. Counted' /\ \A w \in Writers : pc'[w] = pc[w]
    BY <1>3, <1>4, FinderSteps
<1>8. Cached' = Cached
    BY <1>4 DEF Cached
<1>9. Holding'
    BY <1>1, <1>3, <1>4, <1>6 DEF Holding, TypeOK, Searching, Moving, Actors
<1>10. TypeOK'
    BY <1>2, <1>3, <1>4, <1>5, <1>6, <1>7, <1>8 DEF TypeOK, Actors
<1> QED BY <1>7, <1>9, <1>10

LEMMA MoveTyped ==
    ASSUME IInv, Typed, NEW f \in Finders, MoveToFront(f)
    PROVE  Typed'
<1> USE DEF IInv, Typed
<1>1. PICK p : p \in Moving \cup {"answer"} /\ Goto(f, p)
    BY DEF MoveToFront, At, Moving
<1>2. p \in Places
    BY <1>1 DEF Places
<1>3. /\ f \in Actors /\ pc' \in [Actors -> Places \cup {"invalidate", "done"}] /\ pc'[f] = p
      /\ \A b \in Actors \ {f} : pc'[b] = pc[b]
    BY <1>1, <1>2, GotoFact DEF Actors
<1>4. /\ UNCHANGED <<changes, closed, writer, readers, entries, listed, len, valueOf, key, found, held, since,
                     panicked, firm, raced>>
      /\ pc[f] \in Moving
    BY DEF MoveToFront, lockVars, findVars
<1>5. next' \in [Elements \cup {Root} -> Links] /\ prev' \in [Elements \cup {Root} -> Links]
    <2>1. held[f] \in Elements
        BY <1>4 DEF Holding
    <2>2. next \in [Elements \cup {Root} -> Links] /\ prev \in [Elements \cup {Root} -> Links]
        BY DEF TypeOK
    <2>3. held[f] \in Links /\ Root \in Links
        BY <2>1 DEF Links
    <2>4. \E x, v \in Links : SetNext(x, v) \/ SetPrev(x, v)
        BY <2>1, <2>2, <2>3 DEF MoveToFront
    <2> QED BY <2>2, <2>4 DEF SetNext, SetPrev
<1>6. Counted' /\ \A w \in Writers : pc'[w] = pc[w]
    BY <1>3, <1>4, FinderSteps
<1>7. Cached' = Cached
    BY <1>4 DEF Cached
<1>8. Holding'
    BY <1>1, <1>3, <1>4 DEF Holding, Searching, Moving, Actors
<1>9. TypeOK'
    BY <1>2, <1>3, <1>4, <1>5, <1>6, <1>7 DEF TypeOK, Actors
<1> QED BY <1>6, <1>8, <1>9

LEMMA SearchTyped ==
    ASSUME IInv, Typed, NEW f \in Finders, Search(f)
    PROVE  Typed'
<1> USE DEF IInv, Typed
<1>1. PICK p : p \in {"idle", "searched"} /\ Goto(f, p)
    BY DEF Search
<1>2. p \in Places
    BY <1>1 DEF Places
<1>3. /\ f \in Actors /\ pc' \in [Actors -> Places \cup {"invalidate", "done"}] /\ pc'[f] = p
      /\ \A b \in Actors \ {f} : pc'[b] = pc[b]
    BY <1>1, <1>2, GotoFact DEF Actors
<1>4. /\ UNCHANGED <<changes, closed, writer, entries, next, prev, listed, len, valueOf, held, panicked, firm,
                     raced>>
      /\ pc[f] = "missed"
      /\ readers' \subseteq Finders
    BY DEF Search, cacheVars, listVars, TypeOK
<1>5. /\ key' \in [Finders -> Keys \cup {Nil}] /\ found' \in [Finders -> Results]
      /\ since' \in [Finders -> Results]
      /\ p = "searched" => key' = key
      /\ \A g \in Finders \ {f} : key'[g] = key[g]
    <2>1. /\ key \in [Finders -> Keys \cup {Nil}] /\ found \in [Finders -> Results]
          /\ since \in [Finders -> Results] /\ changes \in Results /\ 0 \in Results
        BY ConstantsAssumption, FS_CardinalityType DEF TypeOK, Results
    <2>2. CASE closed
        <3>1. /\ Goto(f, "idle") /\ found' = found
              /\ key' = [key EXCEPT ![f] = Nil] /\ since' = [since EXCEPT ![f] = 0]
            BY <2>2 DEF Search
        <3>2. p = "idle"
            BY <1>3, <3>1, GotoFact DEF Places
        <3> QED BY <2>1, <3>1, <3>2
    <2>3. CASE ~closed
        BY <2>1, <2>3 DEF Search
    <2> QED BY <2>2, <2>3
<1>6. Counted' /\ \A w \in Writers : pc'[w] = pc[w]
    BY <1>3, <1>4, FinderSteps
<1>7. Cached' = Cached
    BY <1>4 DEF Cached
<1>8. Holding'
    BY <1>1, <1>3, <1>4, <1>5 DEF Holding, Searching, Moving, Actors
<1>9. TypeOK'
    BY <1>2, <1>3, <1>4, <1>5, <1>6, <1>7 DEF TypeOK, Actors
<1> QED BY <1>6, <1>8, <1>9

\* An element that nothing points to is one.
LEMMA PutTyped ==
    ASSUME IInv, Typed, NEW f \in Finders, Put(f)
    PROVE  Typed'
<1> USE DEF IInv, Typed
<1>1. /\ UNCHANGED <<changes, closed, writer, key, found, held, since, firm, raced>>
      /\ pc[f] = "searched" /\ key[f] \in Keys
      /\ readers' = IF pc'[f] = "answer" THEN readers \ {f} ELSE readers
    BY DEF Put, findVars, Holding, Searching
<1>2. f \in Actors
    BY DEF Actors
<1>3. \/ Goto(f, "answer")
      \/ Goto(f, "spinning")
      \/ UNCHANGED pc
    BY DEF Put, Replace, Insert, Evict, EvictBroken, Push
<1>4. /\ pc' \in [Actors -> Places \cup {"invalidate", "done"}]
      /\ pc'[f] \in {"answer", "spinning", "searched"}
      /\ \A b \in Actors \ {f} : pc'[b] = pc[b]
    BY <1>1, <1>2, <1>3 DEF Shape, Goto, Places
<1> DEFINE Here == /\ Cached' \subseteq Keys
                   /\ \A k \in Cached' : entries'[k] \in [result : Results, element : Elements]
                   /\ next' \in [Elements \cup {Root} -> Links] /\ prev' \in [Elements \cup {Root} -> Links]
                   /\ listed' \subseteq Elements /\ len' \in 0..MaxSize
                   /\ valueOf' \in [Elements -> Keys \cup {Nil}]
                   /\ panicked' \in Finders \cup {Nobody}
<1>5. /\ Cached \subseteq Keys
      /\ \A k \in Cached : entries[k] \in [result : Results, element : Elements]
      /\ next \in [Elements \cup {Root} -> Links] /\ prev \in [Elements \cup {Root} -> Links]
      /\ listed \subseteq Elements /\ len \in 0..MaxSize
      /\ valueOf \in [Elements -> Keys \cup {Nil}] /\ found[f] \in Results
      /\ panicked \in Finders \cup {Nobody}
    BY DEF TypeOK
<1>6. ASSUME NEW ents, NEW nxt \in [Elements \cup {Root} -> Links], NEW prv \in [Elements \cup {Root} -> Links],
             NEW ls \in SUBSET Elements, NEW n \in Nat, n < MaxSize, NEW rec,
             Push(f, ents, nxt, prv, ls, n, rec),
             DOMAIN ents \subseteq Cached,
             \A c \in DOMAIN ents : ents[c] = entries[c]
      PROVE  Here
    <2>1. PICK e \in Elements :
              /\ entries' = [c \in DOMAIN ents \cup {key[f]} |->
                               IF c = key[f] THEN [result |-> found[f], element |-> e] ELSE ents[c]]
              /\ next' = [nxt EXCEPT ![e] = nxt[Root], ![Root] = e]
              /\ prev' = [prv EXCEPT ![e] = Root, ![nxt[Root]] = e]
              /\ listed' = ls \cup {e} /\ len' = n + 1 /\ valueOf' = [valueOf EXCEPT ![e] = key[f]]
              /\ panicked' = panicked
        <3>1. Unused(nxt, prv, ents) # {} /\ Unused(nxt, prv, ents) \subseteq Elements
            BY <1>6 DEF Push, Unused
        <3>2. (CHOOSE x \in Unused(nxt, prv, ents) : TRUE) \in Elements
            BY <3>1
        <3> QED BY <1>6, <3>2 DEF Push
    <2>2. Cached' = DOMAIN ents \cup {key[f]}
        BY <2>1 DEF Cached
    <2>3. \A k \in Cached' : entries'[k] \in [result : Results, element : Elements]
        <3>1. entries'[key[f]] = [result |-> found[f], element |-> e]
            BY <2>1
        <3>2. \A k \in DOMAIN ents \ {key[f]} : entries'[k] = entries[k] /\ k \in Cached
            BY <1>6, <2>1
        <3> QED BY <1>5, <2>2, <3>1, <3>2
    <2>4. nxt[Root] \in Links /\ e \in Links /\ Root \in Links
        BY <2>1 DEF Links
    <2>5. next' \in [Elements \cup {Root} -> Links] /\ prev' \in [Elements \cup {Root} -> Links]
        BY <2>1, <2>4
    <2>6. len' \in 0..MaxSize /\ listed' \subseteq Elements /\ valueOf' \in [Elements -> Keys \cup {Nil}]
        BY <1>1, <1>5, <1>6, <2>1, ConstantsAssumption
    <2> QED BY <1>1, <1>5, <1>6, <2>1, <2>2, <2>3, <2>5, <2>6
<1>7. ASSUME Replace(f) PROVE Here
    <2> DEFINE k == key[f]
               e == entries[k].element
    <2>1. /\ k \in Cached /\ entries' = [entries EXCEPT ![k].result = found[f]]
          /\ UNCHANGED <<listed, len, valueOf, panicked>>
        BY <1>7 DEF Replace
    <2>2. entries[k] \in [result : Results, element : Elements] /\ e \in Elements
        BY <1>5, <2>1
    <2>3. Cached' = Cached
        BY <2>1 DEF Cached
    <2>4. \A c \in Cached' : entries'[c] \in [result : Results, element : Elements]
        <3>1. entries'[k] = [entries[k] EXCEPT !.result = found[f]]
            BY <2>1 DEF Cached
        <3>2. \A c \in Cached \ {k} : entries'[c] = entries[c]
            BY <2>1 DEF Cached
        <3> QED BY <1>5, <2>2, <2>3, <3>1, <3>2
    <2>5. next' \in [Elements \cup {Root} -> Links] /\ prev' \in [Elements \cup {Root} -> Links]
        <3>1. CASE UNCHANGED <<next, prev>>
            BY <1>5, <3>1
        <3>2. CASE ~UNCHANGED <<next, prev>>
            <4> DEFINE out == [next EXCEPT ![prev[e]] = next[e]]
            <4>1. /\ next' = [out EXCEPT ![e] = out[Root], ![Root] = e]
                  /\ prev' = [prev EXCEPT ![next[e]] = prev[e], ![e] = Root, ![out[Root]] = e]
                BY <1>7, <3>2 DEF Replace
            <4>2. e \in Links /\ Root \in Links /\ next[e] \in Links /\ prev[e] \in Links
                BY <1>5, <2>2 DEF Links
            <4>3. out \in [Elements \cup {Root} -> Links]
                BY <1>5, <4>2
            <4>4. out[Root] \in Links
                BY <4>3
            <4> QED BY <1>5, <4>1, <4>2, <4>3, <4>4
        <3> QED BY <3>1, <3>2
    <2> QED BY <1>5, <2>1, <2>3, <2>4, <2>5
<1>8. ASSUME Insert(f) PROVE Here
    <2>1. Push(f, entries, next, prev, listed, len, recency) /\ len < MaxSize
        BY <1>8 DEF Insert
    <2>2. len \in Nat /\ listed \in SUBSET Elements /\ DOMAIN entries \subseteq Cached
        BY <1>5, ConstantsAssumption DEF Cached
    <2> HIDE DEF Here
    <2> QED BY <1>5, <1>6, <2>1, <2>2
<1>9. ASSUME Evict(f) PROVE Here
    <2> DEFINE e == prev[Root]
               ents == [c \in Cached \ {valueOf[e]} |-> entries[c]]
               out == [next EXCEPT ![prev[e]] = next[e]]
               in == [prev EXCEPT ![next[e]] = prev[e]]
               nxt == [out EXCEPT ![e] = Nil]
               prv == [in EXCEPT ![e] = Nil]
               rec == SubSeq(recency, 1, Len(recency) - 1)
    <2>1. e \in listed /\ len >= MaxSize /\ Push(f, ents, nxt, prv, listed \ {e}, len - 1, rec)
        BY <1>9 DEF Evict
    <2>2. DOMAIN ents \subseteq Cached /\ \A c \in DOMAIN ents : ents[c] = entries[c]
        OBVIOUS
    <2>3. e \in Elements /\ next[e] \in Links /\ prev[e] \in Links /\ Nil \in Links
        BY <1>5, <2>1 DEF Links
    <2>4. nxt \in [Elements \cup {Root} -> Links] /\ prv \in [Elements \cup {Root} -> Links]
        BY <1>5, <2>3
    <2>5. len - 1 \in Nat /\ len - 1 < MaxSize /\ listed \ {e} \in SUBSET Elements
        BY <1>5, <2>1, ConstantsAssumption
    <2> HIDE DEF ents, nxt, prv, rec, e
    <2> QED BY <1>6, <2>1, <2>2, <2>4, <2>5
<1>10. ASSUME EvictBroken(f) PROVE Here
    <2>1. /\ UNCHANGED <<entries, next, prev, listed, len, valueOf>> /\ panicked' \in Finders \cup {Nobody}
        BY <1>5, <1>10 DEF EvictBroken, listVars
    <2> QED BY <1>5, <2>1 DEF Cached
<1>11. Here
    BY <1>7, <1>8, <1>9, <1>10 DEF Put
<1> HIDE DEF Here
<1>12. Counted' /\ \A w \in Writers : pc'[w] = pc[w]
    BY <1>1, <1>4, FinderSteps
<1>13. Holding'
    BY <1>1, <1>4 DEF Holding, Searching, Moving, Actors
<1>14. \A g \in Finders : pc'[g] \in Places
    BY <1>4 DEF TypeOK, Actors, Places
<1>15. TypeOK'
    BY <1>1, <1>11, <1>12, <1>14 DEF TypeOK, Here
<1> QED BY <1>12, <1>13, <1>15

LEMMA ReturnTyped ==
    ASSUME IInv, Typed, NEW f \in Finders, Return(f)
    PROVE  Typed'
<1> USE DEF IInv, Typed
<1>1. /\ UNCHANGED <<changes, closed, writer, readers, entries, next, prev, listed, len, valueOf, panicked,
                     firm, raced>>
      /\ Goto(f, "idle") /\ 0 \in Results
      /\ key' = [key EXCEPT ![f] = Nil] /\ found' = [found EXCEPT ![f] = 0]
      /\ held' = [held EXCEPT ![f] = Nil] /\ since' = [since EXCEPT ![f] = 0]
    BY ConstantsAssumption, FS_CardinalityType DEF Return, lockVars, cacheVars, listVars, Results
<1>2. /\ f \in Actors /\ pc' \in [Actors -> Places \cup {"invalidate", "done"}] /\ pc'[f] = "idle"
      /\ \A b \in Actors \ {f} : pc'[b] = pc[b]
    BY <1>1, GotoFact DEF Actors, Places
<1>3. Counted' /\ \A w \in Writers : pc'[w] = pc[w]
    BY <1>1, <1>2, FinderSteps
<1>4. Cached' = Cached
    BY <1>1 DEF Cached
<1>5. Holding'
    BY <1>1, <1>2 DEF Holding, TypeOK, Searching, Moving, Actors
<1>6. \A g \in Finders : pc'[g] \in Places
    BY <1>2 DEF TypeOK, Actors, Places
<1>7. /\ key' \in [Finders -> Keys \cup {Nil}] /\ found' \in [Finders -> Results]
      /\ held' \in [Finders -> Elements \cup {Nil}] /\ since' \in [Finders -> Results]
    BY <1>1 DEF TypeOK
<1>8. TypeOK'
    BY <1>1, <1>3, <1>4, <1>6, <1>7 DEF TypeOK
<1> QED BY <1>3, <1>5, <1>8

\* A call begins once.
LEMMA WriteTyped ==
    ASSUME IInv, Typed, NEW w \in Writers, Write(w)
    PROVE  Typed'
<1> USE DEF IInv, Typed
<1>1. /\ UNCHANGED <<firm, readers, entries, next, prev, listed, len, valueOf, key, found, held, since,
                     panicked, raced>>
      /\ pc[w] = "idle"
      /\ changes' = changes \/ changes' = changes + 1
      /\ closed' \in BOOLEAN /\ writer' \in {writer, w}
      /\ Goto(w, "done") \/ Goto(w, "invalidate")
    BY DEF Write, CanLock, cacheVars, listVars, findVars, Store, Remove, Commit, Compact, Close,
           Unchanged, Change, ThenInvalidate, TypeOK
<1>2. w \in Actors /\ \A f \in Finders : f # w /\ f \in Actors
    BY ConstantsAssumption DEF Actors
<1>3. /\ pc' \in [Actors -> Places \cup {"invalidate", "done"}] /\ pc'[w] \in {"done", "invalidate"}
      /\ \A b \in Actors \ {w} : pc'[b] = pc[b]
    BY <1>1, <1>2, GotoFact
<1>4. Counted' /\ changes' \in Nat
    <2>1. Started' = Started \cup {w} /\ w \notin Started
        BY <1>1, <1>3 DEF Started, Actors
    <2>2. IsFiniteSet(Started)
        BY ConstantsAssumption, FS_Subset DEF Started
    <2>3. Cardinality(Started') = Cardinality(Started) + 1 /\ Cardinality(Started) \in Nat
        BY <2>1, <2>2, FS_AddElement, FS_CardinalityType
    <2> QED BY <1>1, <2>3 DEF Counted, Shape
<1>5. changes' \in Results
    <2>1. IsFiniteSet(Writers) /\ Started' \subseteq Writers
        BY ConstantsAssumption DEF Started
    <2>2. Cardinality(Started') <= Cardinality(Writers) /\ Cardinality(Started') \in Nat
          /\ Cardinality(Writers) \in Nat
        BY <2>1, FS_Subset, FS_CardinalityType
    <2> QED BY <1>4, <2>2 DEF Counted, Results
<1>6. Cached' = Cached
    BY <1>1 DEF Cached
<1>7. Holding'
    BY <1>1, <1>2, <1>3 DEF Holding
<1>8. TypeOK'
    BY <1>1, <1>2, <1>3, <1>5, <1>6 DEF TypeOK, Actors
<1> QED BY <1>4, <1>7, <1>8

LEMMA InvalidateTyped ==
    ASSUME IInv, Typed, NEW w \in Writers, Invalidate(w)
    PROVE  Typed'
<1> USE DEF IInv, Typed
<1>1. /\ UNCHANGED <<changes, closed, readers, key, found, held, since, panicked, raced>>
      /\ entries' = <<>> /\ listed' = {} /\ len' = 0 /\ firm' = changes /\ writer' = Nobody
      /\ next' = [e \in Elements \cup {Root} |-> IF e = Root THEN Root ELSE Nil]
      /\ prev' = [e \in Elements \cup {Root} |-> IF e = Root THEN Root ELSE Nil]
      /\ valueOf' = [e \in Elements |-> Nil]
      /\ Goto(w, "done") /\ pc[w] = "invalidate"
    BY DEF Invalidate, findVars
<1>2. w \in Actors /\ \A f \in Finders : f # w /\ f \in Actors
    BY ConstantsAssumption DEF Actors
<1>3. /\ pc' \in [Actors -> Places \cup {"invalidate", "done"}] /\ pc'[w] = "done"
      /\ \A b \in Actors \ {w} : pc'[b] = pc[b]
    BY <1>1, <1>2, GotoFact
<1>4. Started' = Started
    BY <1>1, <1>3 DEF Started, Actors
<1>5. Counted'
    BY <1>1, <1>4 DEF Counted
<1>6. Cached' = {}
    BY <1>1 DEF Cached
<1>7. Holding'
    BY <1>1, <1>2, <1>3 DEF Holding
<1>8. /\ next' \in [Elements \cup {Root} -> Links] /\ prev' \in [Elements \cup {Root} -> Links]
      /\ valueOf' \in [Elements -> Keys \cup {Nil}] /\ len' \in 0..MaxSize
    BY <1>1, ConstantsAssumption DEF Links
<1>9. TypeOK'
    BY <1>1, <1>2, <1>3, <1>6, <1>8 DEF TypeOK, Actors
<1> QED BY <1>5, <1>7, <1>9

\* Every step keeps the types.
LEMMA NextTyped ==
    ASSUME IInv, Typed, [Next]_vars
    PROVE  Typed'
<1>1. CASE UNCHANGED vars
    <2>1. Started' = Started /\ Cached' = Cached
        BY <1>1 DEF vars, cacheVars, Started, Cached
    <2>2. Counted' /\ Holding'
        BY <1>1, <2>1 DEF vars, findVars, Typed, Counted, Holding
    <2>3. TypeOK'
        BY <1>1, <2>1 DEF vars, lockVars, cacheVars, listVars, findVars, Typed, TypeOK
    <2> QED BY <2>2, <2>3 DEF Typed
<1>2. CASE Stop
    BY <1>1, <1>2 DEF Stop
<1>3. ASSUME NEW f \in Finders, NEW k \in Keys, Get(f, k) PROVE Typed'
    BY <1>3, GetTyped
<1>4. ASSUME NEW f \in Finders, FindStep(f) PROVE Typed'
    BY <1>4, MoveTyped, SearchTyped, PutTyped, ReturnTyped DEF FindStep
<1>5. ASSUME NEW w \in Writers, Write(w) \/ Invalidate(w) PROVE Typed'
    BY <1>5, WriteTyped, InvalidateTyped
<1> QED BY <1>1, <1>2, <1>3, <1>4, <1>5 DEF Next

\* TypeOK: the list holds at most as much as the cache may, and every pointer leads to an
\* element, the root or nowhere, also once races have broken the list.
THEOREM TypeCorrect == Spec => []TypeOK
<1>1. IInv /\ Typed /\ [Next]_vars => (IInv /\ Typed)'
    BY NextKeeps, NextTyped
<1>2. Init => IInv /\ Typed
    BY InitHolds, TypedAtFirst
<1>3. Typed => TypeOK
    BY DEF Typed
<1> QED BY <1>1, <1>2, <1>3, PTL DEF Spec

-----------------------------------------------------------------------------
(* The list, as long as no Get has met another: where its links lead, also   *)
(* between two assignments of a move.                                        *)

\* The elements from the front to the back, between two visits of the root.
Chain ==
    [i \in 0..(Len(recency) + 1) |-> IF i \in DOMAIN recency THEN entries[recency[i]].element ELSE Root]

Order ==
    /\ recency \in Seq(Keys)
    /\ Cached = {recency[i] : i \in DOMAIN recency}
    /\ \A i, j \in DOMAIN recency : Chain[i] = Chain[j] => i = j
    /\ len = Len(recency)
    /\ listed = {Chain[i] : i \in DOMAIN recency}
    /\ \A i \in DOMAIN recency : valueOf[Chain[i]] = recency[i]

Settled == \A i \in 0..Len(recency) : next[Chain[i]] = Chain[i + 1] /\ prev[Chain[i + 1]] = Chain[i]

\* Finder f moves the element that is used most recently from behind place m of the others.
MovedBy(f) ==
    /\ held[f] = Chain[1]
    /\ prev[Chain[2]] = Root
    /\ next[Root] = IF pc[f] = "link prev" THEN Chain[1] ELSE Chain[2]
    /\ \E m \in 2..Len(recency) :
          /\ pc[f] \in {"unlink next", "unlink prev"} =>
                next[Chain[1]] = Chain[m + 1] /\ prev[Chain[1]] = Chain[m]
          /\ \A i \in 2..Len(recency) :
                /\ next[Chain[i]] = IF i = m /\ pc[f] = "unlink next" THEN Chain[1] ELSE Chain[i + 1]
                /\ prev[Chain[i + 1]] =
                      IF i = m /\ pc[f] \in {"unlink next", "unlink prev"} THEN Chain[1] ELSE Chain[i]
    /\ pc[f] \in {"set next", "link next", "link prev"} => prev[Chain[1]] = Root
    /\ pc[f] \in {"link next", "link prev"} => next[Chain[1]] = Chain[2]

InOrder ==
    raced = 0 =>
        /\ Order
        /\ \A f, g \in Getting : f = g
        /\ Getting = {} => Settled
        /\ \A f \in Getting : MovedBy(f)
        /\ panicked = Nobody /\ Spinning = {}

\* The places of the chain.
LEMMA ChainFact ==
    ASSUME Typed, Order
    PROVE  /\ Len(recency) \in Nat /\ DOMAIN recency = 1..Len(recency)
           /\ Chain[0] = Root /\ Chain[Len(recency) + 1] = Root
           /\ \A i \in 1..Len(recency) :
                 /\ recency[i] \in Cached /\ Chain[i] = entries[recency[i]].element
                 /\ Chain[i] \in Elements /\ Chain[i] # Root
           /\ \A i, j \in 1..Len(recency) : Chain[i] = Chain[j] => i = j
           /\ Root \notin Elements
<1>1. Len(recency) \in Nat /\ DOMAIN recency = 1..Len(recency)
    BY DEF Order
<1>2. \A i \in 1..Len(recency) : recency[i] \in Cached
    BY <1>1 DEF Order
<1>3. Root \notin Elements
    BY ConstantsAssumption
<1>4. \A i \in 1..Len(recency) : Chain[i] = entries[recency[i]].element
    BY <1>1 DEF Chain
<1>5. \A i \in 1..Len(recency) : Chain[i] \in Elements /\ Chain[i] # Root
    BY <1>2, <1>3, <1>4 DEF Typed, TypeOK
<1>6. Chain[0] = Root /\ Chain[Len(recency) + 1] = Root
    BY <1>1 DEF Chain
<1> QED BY <1>1, <1>2, <1>3, <1>4, <1>5, <1>6 DEF Order

\* What ToFront returns.
LEMMA ToFrontFact ==
    ASSUME NEW S, NEW s \in Seq(S), NEW p \in 1..Len(s), \A i, j \in 1..Len(s) : s[i] = s[j] => i = j
    PROVE  /\ ToFront(s, s[p]) \in Seq(S) /\ Len(ToFront(s, s[p])) = Len(s)
           /\ \A i \in 1..Len(s) :
                 ToFront(s, s[p])[i] = IF i = 1 THEN s[p] ELSE IF i <= p THEN s[i - 1] ELSE s[i]
<1> DEFINE place == CHOOSE i \in DOMAIN s : s[i] = s[p]
<1> DEFINE t == [i \in DOMAIN s |-> IF i = 1 THEN s[p] ELSE IF i <= place THEN s[i - 1] ELSE s[i]]
<1>1. Len(s) \in Nat /\ DOMAIN s = 1..Len(s)
    OBVIOUS
<1>2. place = p
    <2>1. place \in DOMAIN s /\ s[place] = s[p]
        BY <1>1
    <2> QED BY <1>1, <2>1
<1>3. ToFront(s, s[p]) = t
    BY DEF ToFront
<1> HIDE DEF place
<1>4. \A i \in 1..Len(s) : t[i] \in S
    <2> SUFFICES ASSUME NEW i \in 1..Len(s) PROVE t[i] \in S
        OBVIOUS
    <2>1. CASE i = 1
        BY <1>1, <2>1
    <2>2. CASE i # 1
        <3>1. i - 1 \in 1..Len(s)
            BY <1>1, <2>2
        <3> QED BY <1>1, <2>2, <3>1
    <2> QED BY <2>1, <2>2
<1>5. t \in [1..Len(s) -> S]
    BY <1>1, <1>4
<1>6. t \in Seq(S) /\ Len(t) = Len(s)
    BY <1>1, <1>5
<1> QED BY <1>1, <1>2, <1>3, <1>6

\* A key is used: its element is the first of the chain, the ones before it move back.
LEMMA UsedFact ==
    ASSUME Typed, Order, NEW k \in Cached, recency' = ToFront(recency, k), Cached' = Cached,
           \A c \in Cached : entries'[c].element = entries[c].element,
           UNCHANGED <<listed, len, valueOf>>
    PROVE  \E p \in 1..Len(recency) :
              /\ Chain[p] = entries[k].element
              /\ Len(recency') = Len(recency) /\ Order'
              /\ Chain'[0] = Root /\ Chain'[1] = Chain[p]
              /\ \A i \in 2..p : Chain'[i] = Chain[i - 1]
              /\ \A i \in (p + 1)..(Len(recency) + 1) : Chain'[i] = Chain[i]
<1> DEFINE n == Len(recency)
<1>1. /\ n \in Nat /\ DOMAIN recency = 1..n
      /\ \A i \in 1..n : recency[i] \in Cached /\ Chain[i] = entries[recency[i]].element
      /\ \A i, j \in 1..n : Chain[i] = Chain[j] => i = j
    BY ChainFact
<1>2. \A i, j \in 1..n : recency[i] = recency[j] => i = j
    BY <1>1
<1>3. PICK p \in 1..n : recency[p] = k
    BY <1>1 DEF Order
<1>4. /\ recency' \in Seq(Keys) /\ Len(recency') = n /\ DOMAIN recency' = 1..n
      /\ \A i \in 1..n :
            recency'[i] = IF i = 1 THEN recency[p] ELSE IF i <= p THEN recency[i - 1] ELSE recency[i]
    <2>1. recency \in Seq(Keys)
        BY DEF Order
    <2>2. /\ ToFront(recency, recency[p]) \in Seq(Keys) /\ Len(ToFront(recency, recency[p])) = n
          /\ \A i \in 1..n : ToFront(recency, recency[p])[i] =
                IF i = 1 THEN recency[p] ELSE IF i <= p THEN recency[i - 1] ELSE recency[i]
        BY <1>2, <2>1, ToFrontFact
    <2>3. recency' = ToFront(recency, recency[p])
        BY <1>3
    <2>4. recency' \in Seq(Keys) /\ Len(recency') = n
        BY <2>2, <2>3
    <2>5. DOMAIN recency' = 1..n
        BY <2>4
    <2> QED BY <2>2, <2>3, <2>4, <2>5
<1> DEFINE from == [i \in 1..n |-> IF i = 1 THEN p ELSE IF i <= p THEN i - 1 ELSE i]
<1>5. /\ \A i \in 1..n : from[i] \in 1..n
      /\ \A i, j \in 1..n : from[i] = from[j] => i = j
      /\ \A j \in 1..n : \E i \in 1..n : from[i] = j
    <2>1. \A i \in 1..n : from[i] \in 1..n
        BY <1>1
    <2>2. \A i, j \in 1..n : from[i] = from[j] => i = j
        BY <1>1
    <2>3. ASSUME NEW j \in 1..n PROVE \E i \in 1..n : from[i] = j
        <3>1. CASE j = p
            BY <1>1, <3>1
        <3>2. CASE j < p
            <4>1. j + 1 \in 1..n /\ j + 1 # 1 /\ j + 1 <= p /\ (j + 1) - 1 = j
                BY <1>1, <3>2
            <4> QED BY <4>1
        <3>3. CASE j > p
            BY <1>1, <3>3
        <3> QED BY <3>1, <3>2, <3>3
    <2> QED BY <2>1, <2>2, <2>3
<1>6. \A i \in 1..n : recency'[i] = recency[from[i]]
    BY <1>1, <1>4
<1>7. \A i \in 1..n : Chain'[i] = entries'[recency'[i]].element
    BY <1>1, <1>4 DEF Chain
<1>8. Chain'[0] = Root /\ Chain'[n + 1] = Root
    BY <1>1, <1>4 DEF Chain
<1> HIDE DEF from
<1>9. \A i \in 1..n : Chain'[i] = Chain[from[i]]
    <2> SUFFICES ASSUME NEW i \in 1..n PROVE Chain'[i] = Chain[from[i]]
        OBVIOUS
    <2>1. from[i] \in 1..n /\ recency'[i] = recency[from[i]]
        BY <1>5, <1>6
    <2>2. recency[from[i]] \in Cached /\ Chain[from[i]] = entries[recency[from[i]]].element
        BY <1>1, <2>1
    <2> QED BY <1>7, <2>1, <2>2
<1>10. Order'
    <2>1. Cached' = {recency'[i] : i \in DOMAIN recency'}
        <3>1. Cached = {recency[i] : i \in 1..n} /\ Cached' = Cached
            BY <1>1 DEF Order
        <3>2. ASSUME NEW i \in 1..n PROVE recency'[i] \in Cached
            <4>1. from[i] \in 1..n
                BY <1>5
            <4>2. recency'[i] = recency[from[i]]
                BY <1>6
            <4> QED BY <3>1, <4>1, <4>2
        <3>3. ASSUME NEW j \in 1..n PROVE \E i \in 1..n : recency[j] = recency'[i]
            <4>1. PICK i \in 1..n : from[i] = j
                BY <1>5
            <4> QED BY <1>6, <4>1
        <3>4. {recency'[i] : i \in 1..n} = {recency[i] : i \in 1..n}
            <4>1. \A i \in 1..n : recency'[i] \in {recency[j] : j \in 1..n}
                BY <3>1, <3>2
            <4>2. \A j \in 1..n : recency[j] \in {recency'[i] : i \in 1..n}
                BY <3>3
            <4> QED BY <4>1, <4>2
        <3>5. {recency'[i] : i \in DOMAIN recency'} = {recency'[i] : i \in 1..n}
            <4>1. DOMAIN recency' = 1..n
                BY <1>4
            <4> QED BY <4>1
        <3> QED BY <3>1, <3>4, <3>5
    <2>2. ASSUME NEW i \in 1..n, NEW j \in 1..n, Chain'[i] = Chain'[j] PROVE i = j
        <3>1. from[i] \in 1..n /\ from[j] \in 1..n /\ Chain[from[i]] = Chain[from[j]]
            BY <1>5, <1>9, <2>2
        <3>2. from[i] = from[j]
            BY <1>1, <3>1
        <3> QED BY <1>5, <3>2
    <2>3. listed' = {Chain'[i] : i \in DOMAIN recency'}
        <3>1. listed = {Chain[i] : i \in 1..n} /\ listed' = listed
            BY <1>1 DEF Order
        <3>2. ASSUME NEW i \in 1..n PROVE Chain'[i] \in listed
            <4>1. from[i] \in 1..n
                BY <1>5
            <4>2. Chain'[i] = Chain[from[i]]
                BY <1>9
            <4> QED BY <3>1, <4>1, <4>2
        <3>3. ASSUME NEW j \in 1..n PROVE \E i \in 1..n : Chain[j] = Chain'[i]
            <4>1. PICK i \in 1..n : from[i] = j
                BY <1>5
            <4> QED BY <1>9, <4>1
        <3>4. {Chain'[i] : i \in 1..n} = {Chain[i] : i \in 1..n}
            <4>1. \A i \in 1..n : Chain'[i] \in {Chain[j] : j \in 1..n}
                BY <3>1, <3>2
            <4>2. \A j \in 1..n : Chain[j] \in {Chain'[i] : i \in 1..n}
                BY <3>3
            <4> QED BY <4>1, <4>2
        <3>5. {Chain'[i] : i \in DOMAIN recency'} = {Chain'[i] : i \in 1..n}
            <4>1. DOMAIN recency' = 1..n
                BY <1>4
            <4> QED BY <4>1
        <3> QED BY <3>1, <3>4, <3>5
    <2>4. ASSUME NEW i \in 1..n PROVE valueOf'[Chain'[i]] = recency'[i]
        <3>1. from[i] \in 1..n /\ Chain'[i] = Chain[from[i]] /\ recency'[i] = recency[from[i]]
            BY <1>5, <1>6, <1>9
        <3> QED BY <1>1, <3>1 DEF Order
    <2> QED BY <1>4, <2>1, <2>2, <2>3, <2>4 DEF Order
<1>11. \A i \in 1..n : Chain'[i] = IF i = 1 THEN Chain[p] ELSE IF i <= p THEN Chain[i - 1] ELSE Chain[i]
    BY <1>9 DEF from
<1>12. Chain[p] = entries[k].element
    BY <1>1, <1>3
<1>13. ASSUME NEW i \in 2..p PROVE Chain'[i] = Chain[i - 1]
    <2>1. i \in 1..n /\ i # 1 /\ i <= p
        BY <1>1
    <2> QED BY <1>11, <2>1
<1>14. ASSUME NEW i \in (p + 1)..(n + 1) PROVE Chain'[i] = Chain[i]
    <2>1. CASE i = n + 1
        BY <1>1, <1>8, <2>1, ChainFact
    <2>2. CASE i # n + 1
        <3>1. i \in 1..n /\ i # 1 /\ ~(i <= p)
            BY <1>1, <2>2
        <3> QED BY <1>11, <3>1
    <2> QED BY <2>1, <2>2
<1>15. Chain'[1] = Chain[p]
    <2>1. 1 \in 1..n
        BY <1>1
    <2> QED BY <1>11, <2>1
<1> QED BY <1>4, <1>8, <1>10, <1>12, <1>13, <1>14, <1>15

\* A step that leaves the list alone, and the finders that move an element or spin.
LEMMA ListUntouched ==
    ASSUME InOrder, raced' = 0 => raced = 0, UNCHANGED <<cacheVars, panicked>>,
           \A f \in Finders : \/ pc'[f] = pc[f] /\ held'[f] = held[f]
                              \/ pc[f] \notin Moving \cup {"spinning"} /\ pc'[f] \notin Moving \cup {"spinning"}
    PROVE  InOrder'
<1>1. /\ UNCHANGED <<entries, next, prev, listed, len, valueOf, recency, panicked>>
    BY DEF cacheVars, listVars
<1>2. Chain' = Chain /\ Cached' = Cached
    BY <1>1 DEF Chain, Cached
<1>3. Getting' = Getting /\ Spinning' = Spinning /\ \A f \in Getting : pc'[f] = pc[f] /\ held'[f] = held[f]
    BY DEF Getting, Spinning
<1>4. ASSUME NEW f \in Getting, MovedBy(f) PROVE MovedBy(f)'
    <2>1. next' = next /\ prev' = prev /\ Chain' = Chain /\ Len(recency') = Len(recency)
          /\ pc'[f] = pc[f] /\ held'[f] = held[f]
        BY <1>1, <1>2, <1>3
    <2>2. PICK m \in 2..Len(recency) :
              /\ pc[f] \in {"unlink next", "unlink prev"} =>
                    next[Chain[1]] = Chain[m + 1] /\ prev[Chain[1]] = Chain[m]
              /\ \A i \in 2..Len(recency) :
                    /\ next[Chain[i]] = IF i = m /\ pc[f] = "unlink next" THEN Chain[1] ELSE Chain[i + 1]
                    /\ prev[Chain[i + 1]] =
                          IF i = m /\ pc[f] \in {"unlink next", "unlink prev"} THEN Chain[1] ELSE Chain[i]
        BY <1>4 DEF MovedBy
    <2>3. /\ pc'[f] \in {"unlink next", "unlink prev"} =>
                next'[Chain'[1]] = Chain'[m + 1] /\ prev'[Chain'[1]] = Chain'[m]
          /\ \A i \in 2..Len(recency') :
                /\ next'[Chain'[i]] = IF i = m /\ pc'[f] = "unlink next" THEN Chain'[1] ELSE Chain'[i + 1]
                /\ prev'[Chain'[i + 1]] =
                      IF i = m /\ pc'[f] \in {"unlink next", "unlink prev"} THEN Chain'[1] ELSE Chain'[i]
        BY <2>1, <2>2
    <2>4. /\ held[f] = Chain[1]
          /\ prev[Chain[2]] = Root
          /\ next[Root] = IF pc[f] = "link prev" THEN Chain[1] ELSE Chain[2]
          /\ pc[f] \in {"set next", "link next", "link prev"} => prev[Chain[1]] = Root
          /\ pc[f] \in {"link next", "link prev"} => next[Chain[1]] = Chain[2]
        BY <1>4 DEF MovedBy
    <2>5. /\ held'[f] = Chain'[1]
          /\ prev'[Chain'[2]] = Root
          /\ next'[Root] = IF pc'[f] = "link prev" THEN Chain'[1] ELSE Chain'[2]
          /\ pc'[f] \in {"set next", "link next", "link prev"} => prev'[Chain'[1]] = Root
          /\ pc'[f] \in {"link next", "link prev"} => next'[Chain'[1]] = Chain'[2]
        BY <2>1, <2>4
    <2>6. m \in 2..Len(recency')
        BY <2>1
    <2> QED BY <2>3, <2>5, <2>6 DEF MovedBy
<1>5. Order => Order'
    BY <1>1, <1>2 DEF Order
<1>6. Settled => Settled'
    BY <1>1, <1>2 DEF Settled
<1> QED BY <1>1, <1>3, <1>4, <1>5, <1>6 DEF InOrder

\* Nothing is cached.
LEMMA EmptyInOrder ==
    ASSUME entries = <<>>, recency = <<>>, listed = {}, len = 0, next[Root] = Root, prev[Root] = Root
    PROVE  Order /\ Settled
<1>1. Len(recency) = 0 /\ DOMAIN recency = {} /\ recency \in Seq(Keys)
    OBVIOUS
<1>2. Chain[0] = Root /\ Chain[1] = Root
    BY <1>1 DEF Chain
<1>3. Order
    BY <1>1 DEF Order, Cached
<1>4. Settled
    BY <1>1, <1>2 DEF Settled
<1> QED BY <1>3, <1>4

\* The same of the state that a step makes.
LEMMA EmptyInOrderNext ==
    ASSUME entries' = <<>>, recency' = <<>>, listed' = {}, len' = 0, next'[Root] = Root, prev'[Root] = Root
    PROVE  Order' /\ Settled'
<1>1. Len(recency') = 0 /\ DOMAIN recency' = {} /\ recency' \in Seq(Keys)
    OBVIOUS
<1>2. Chain'[0] = Root /\ Chain'[1] = Root
    BY <1>1 DEF Chain
<1>3. Order'
    BY <1>1 DEF Order, Cached
<1>4. Settled'
    BY <1>1, <1>2 DEF Settled
<1> QED BY <1>3, <1>4

LEMMA InOrderAtFirst == Init => InOrder
<1> SUFFICES ASSUME Init PROVE InOrder
    OBVIOUS
<1>1. Order /\ Settled
    <2>1. next[Root] = Root /\ prev[Root] = Root
        BY DEF Init
    <2> QED BY <2>1, EmptyInOrder DEF Init
<1>2. Getting = {} /\ Spinning = {}
    BY DEF Init, Getting, Spinning, Moving
<1> QED BY <1>1, <1>2 DEF Init, InOrder

\* A lookup that hits an element behind the first has all of its move before it.
LEMMA GetInOrder ==
    ASSUME IInv, Typed, InOrder, NEW f \in Finders, NEW k \in Keys, Get(f, k)
    PROVE  InOrder'
<1>1. /\ UNCHANGED <<entries, next, prev, listed, len, valueOf, panicked>>
      /\ pc[f] = "idle" /\ f \in Actors
    BY DEF Get, listVars, Actors
<1>2. \A p \in {"missed", "answer", "unlink next"} :
         Goto(f, p) => pc'[f] = p /\ \A b \in Actors \ {f} : pc'[b] = pc[b]
    BY <1>1, GotoFact DEF IInv, Places, Moving
<1>3. raced \in Nat
    BY ConstantsAssumption DEF Typed, TypeOK
<1>4. CASE k \notin Cached
    <2>1. Goto(f, "missed") /\ UNCHANGED <<held, recency>> /\ raced' = IF raced > 0 THEN raced + 1 ELSE 0
        BY <1>4 DEF Get
    <2>2. raced' = 0 => raced = 0
        BY <1>3, <2>1
    <2>3. pc'[f] = "missed" /\ \A b \in Actors \ {f} : pc'[b] = pc[b]
        BY <1>2, <2>1
    <2>4. \A g \in Finders : \/ pc'[g] = pc[g] /\ held'[g] = held[g]
                             \/ pc[g] \notin Moving \cup {"spinning"} /\ pc'[g] \notin Moving \cup {"spinning"}
        <3>1. pc[f] \notin Moving \cup {"spinning"} /\ pc'[f] \notin Moving \cup {"spinning"}
            BY <1>1, <2>3 DEF Moving
        <3>2. \A g \in Finders : g # f => pc'[g] = pc[g] /\ held'[g] = held[g]
            BY <2>1, <2>3 DEF Actors
        <3> QED BY <3>1, <3>2
    <2>5. UNCHANGED <<cacheVars, panicked>>
        BY <1>1, <2>1 DEF cacheVars, listVars
    <2> QED BY <2>2, <2>4, <2>5, ListUntouched
<1>5. CASE k \in Cached
    <2> SUFFICES ASSUME raced' = 0 PROVE InOrder'
        BY DEF InOrder
    <2> DEFINE e == entries[k].element
    <2> DEFINE n == Len(recency)
    <2>1. /\ raced = 0 /\ Getting = {} /\ recency' = ToFront(recency, k)
          /\ held' = [held EXCEPT ![f] = e]
          /\ held'[f] \in listed /\ next[Root] # held'[f] => Goto(f, "unlink next")
          /\ next[Root] = held'[f] => Goto(f, "answer")
        <3>1. /\ held' = [held EXCEPT ![f] = e] /\ recency' = Used(k)
              /\ raced' = IF raced > 0 \/ Getting # {} THEN raced + 1 ELSE 0
            BY <1>5 DEF Get
        <3>2. Goto(f, IF held'[f] \notin listed \/ next[Root] = held'[f] THEN "answer" ELSE "unlink next")
            BY <1>5 DEF Get
        <3>3. raced = 0 /\ Getting = {}
            BY <1>3, <3>1
        <3>4. recency' = ToFront(recency, k)
            BY <3>1, <3>3 DEF Used
        <3>5. held'[f] \in listed /\ next[Root] # held'[f] => Goto(f, "unlink next")
            BY <3>2 DEF Goto
        <3>6. next[Root] = held'[f] => Goto(f, "answer")
            BY <3>2 DEF Goto
        <3> QED BY <3>1, <3>3, <3>4, <3>5, <3>6
    <2>2. held \in [Finders -> Elements \cup {Nil}]
        BY DEF Typed, TypeOK
    <2>3. held'[f] = e
        BY <2>1, <2>2
    <2>4. Order /\ Settled /\ panicked = Nobody /\ Spinning = {}
        BY <2>1 DEF InOrder
    <2>5. /\ n \in Nat /\ DOMAIN recency = 1..n /\ Chain[0] = Root /\ Chain[n + 1] = Root
          /\ \A i \in 1..n : Chain[i] # Root
          /\ \A i, j \in 1..n : Chain[i] = Chain[j] => i = j
        BY <2>4, ChainFact
    <2>6. Cached' = Cached
        BY <1>1 DEF Cached
    <2>7. PICK p \in 1..n :
              /\ Chain[p] = e
              /\ Len(recency') = n /\ Order'
              /\ Chain'[0] = Root /\ Chain'[1] = Chain[p]
              /\ \A i \in 2..p : Chain'[i] = Chain[i - 1]
              /\ \A i \in (p + 1)..(n + 1) : Chain'[i] = Chain[i]
        BY <1>1, <1>5, <2>1, <2>4, <2>6, UsedFact
    <2>8. \A i \in 0..n : next[Chain[i]] = Chain[i + 1] /\ prev[Chain[i + 1]] = Chain[i]
        BY <2>4 DEF Settled
    <2>9. e \in listed /\ next[Root] = Chain[1]
        <3>1. e \in listed
            BY <2>4, <2>5, <2>7 DEF Order
        <3>2. 0 \in 0..n /\ 0 + 1 = 1
            BY <2>5
        <3> QED BY <2>5, <2>8, <3>1, <3>2
    <2> HIDE DEF e, n
    <2>10. CASE p = 1
        <3>1. Goto(f, "answer")
            BY <2>1, <2>3, <2>7, <2>9, <2>10
        <3>2. pc'[f] = "answer" /\ \A b \in Actors \ {f} : pc'[b] = pc[b]
            BY <1>2, <3>1
        <3>3. Getting' = {} /\ Spinning' = {}
            BY <2>1, <2>4, <3>2 DEF Getting, Spinning, Moving, Actors
        <3>4. \A i \in 0..(n + 1) : Chain'[i] = Chain[i]
            BY <2>5, <2>7, <2>10
        <3>5. Settled'
            <4>1. \A i \in 0..n : next'[Chain'[i]] = Chain'[i + 1] /\ prev'[Chain'[i + 1]] = Chain'[i]
                BY <1>1, <2>5, <2>8, <3>4
            <4> QED BY <2>7, <4>1 DEF Settled
        <3> QED BY <1>1, <2>4, <2>7, <3>3, <3>5 DEF InOrder
    <2>11. CASE p # 1
        <3>1. Goto(f, "unlink next")
            <4>1. 1 \in 1..n /\ Chain[1] # Chain[p]
                BY <2>5, <2>7, <2>11
            <4> QED BY <2>1, <2>3, <2>7, <2>9, <4>1
        <3>2. pc'[f] = "unlink next" /\ \A b \in Actors \ {f} : pc'[b] = pc[b]
            BY <1>2, <3>1
        <3>3. Getting' = {f} /\ Spinning' = {}
            BY <2>1, <2>4, <3>2 DEF Getting, Spinning, Moving, Actors
        <3>4. p \in 2..n /\ n \in Nat
            BY <2>5, <2>11
        <3>5. /\ Chain'[1] = Chain[p] /\ Chain'[2] = Chain[1] /\ Chain'[p] = Chain[p - 1]
              /\ Chain'[p + 1] = Chain[p + 1]
              /\ \A i \in 2..p : Chain'[i] = Chain[i - 1]
              /\ \A i \in (p + 1)..(n + 1) : Chain'[i] = Chain[i]
            <4>1. 2 \in 2..p /\ 2 - 1 = 1 /\ p \in 2..p /\ p + 1 \in (p + 1)..(n + 1)
                BY <3>4
            <4> QED BY <2>7, <4>1
        <3>6. held'[f] = Chain'[1] /\ prev'[Chain'[2]] = Root /\ next'[Root] = Chain'[2]
            BY <1>1, <2>3, <2>5, <2>7, <2>8, <2>9, <3>4, <3>5
        <3>7. next'[Chain'[1]] = Chain'[p + 1] /\ prev'[Chain'[1]] = Chain'[p]
            BY <1>1, <2>8, <3>4, <3>5
        <3>8. ASSUME NEW i \in 2..n
              PROVE  /\ next'[Chain'[i]] = IF i = p THEN Chain'[1] ELSE Chain'[i + 1]
                     /\ prev'[Chain'[i + 1]] = IF i = p THEN Chain'[1] ELSE Chain'[i]
            <4>1. CASE i < p
                <5>1. Chain'[i] = Chain[i - 1] /\ Chain'[i + 1] = Chain[i] /\ i - 1 \in 0..n /\ (i - 1) + 1 = i
                    BY <3>4, <3>5, <4>1
                <5> QED BY <1>1, <2>8, <4>1, <5>1
            <4>2. CASE i = p
                <5>1. p - 1 \in 0..n /\ (p - 1) + 1 = p /\ p \in 0..n
                    BY <3>4
                <5> QED BY <1>1, <2>8, <3>5, <4>2, <5>1
            <4>3. CASE i > p
                <5>1. Chain'[i] = Chain[i] /\ Chain'[i + 1] = Chain[i + 1] /\ i \in 0..n
                    BY <3>4, <3>5, <4>3
                <5> QED BY <1>1, <2>8, <4>3, <5>1
            <4> QED BY <3>4, <4>1, <4>2, <4>3
        <3>9. MovedBy(f)'
            BY <2>7, <3>2, <3>4, <3>6, <3>7, <3>8, ZenonT(40) DEF MovedBy
        <3> QED BY <1>1, <2>4, <2>7, <3>3, <3>9 DEF InOrder
    <2> QED BY <2>10, <2>11
<1> QED BY <1>4, <1>5

\* One assignment of the move.
LEMMA MoveInOrder ==
    ASSUME IInv, Typed, InOrder, NEW f \in Finders, MoveToFront(f)
    PROVE  InOrder'
<1> SUFFICES ASSUME raced' = 0 PROVE InOrder'
    BY DEF InOrder
<1> DEFINE n == Len(recency)
<1> DEFINE e == held[f]
<1>1. /\ UNCHANGED <<entries, listed, len, valueOf, recency, held, panicked>>
      /\ raced = 0 /\ pc[f] \in Moving /\ f \in Actors
    BY DEF MoveToFront, findVars, Actors
<1>2. Order /\ Getting = {f} /\ MovedBy(f) /\ panicked = Nobody /\ Spinning = {}
    <2>1. f \in Getting
        BY <1>1 DEF Getting
    <2> QED BY <1>1, <2>1 DEF InOrder
<1>3. /\ n \in Nat /\ Chain[0] = Root /\ Chain[n + 1] = Root
      /\ \A i \in 1..n : Chain[i] # Root /\ Chain[i] \in Elements
      /\ \A i, j \in 1..n : Chain[i] = Chain[j] => i = j
    BY <1>2, ChainFact
<1>4. Chain' = Chain /\ Cached' = Cached
    BY <1>1 DEF Chain, Cached
<1>5. Order' /\ Len(recency') = n
    BY <1>1, <1>2, <1>4 DEF Order
<1>6. PICK m \in 2..n :
         /\ pc[f] \in {"unlink next", "unlink prev"} => next[Chain[1]] = Chain[m + 1] /\ prev[Chain[1]] = Chain[m]
         /\ \A i \in 2..n :
               /\ next[Chain[i]] = IF i = m /\ pc[f] = "unlink next" THEN Chain[1] ELSE Chain[i + 1]
               /\ prev[Chain[i + 1]] =
                     IF i = m /\ pc[f] \in {"unlink next", "unlink prev"} THEN Chain[1] ELSE Chain[i]
    BY <1>2 DEF MovedBy
<1>7. /\ e = Chain[1]
      /\ prev[Chain[2]] = Root
      /\ next[Root] = IF pc[f] = "link prev" THEN Chain[1] ELSE Chain[2]
      /\ pc[f] \in {"set next", "link next", "link prev"} => prev[Chain[1]] = Root
      /\ pc[f] \in {"link next", "link prev"} => next[Chain[1]] = Chain[2]
    BY <1>2 DEF MovedBy
<1>8. DOMAIN next = Elements \cup {Root} /\ DOMAIN prev = Elements \cup {Root}
    BY DEF Typed, TypeOK
<1>9. \A p \in Moving \cup {"answer"} : Goto(f, p) => pc'[f] = p /\ \A b \in Actors \ {f} : pc'[b] = pc[b]
    BY <1>1, GotoFact DEF IInv, Places
<1> DEFINE I == 1..(n + 1)
<1>10. /\ \A i \in I : Chain[i] \in Elements \cup {Root}
       /\ \A i, j \in I : Chain[i] = Chain[j] => i = j
    BY <1>3
<1>11. /\ 1 \in I /\ 2 \in I /\ n + 1 \in I /\ m \in I /\ m + 1 \in I /\ m # 1 /\ m + 1 # 1 /\ m + 1 # 2 /\ m # n + 1
       /\ 1 # n + 1 /\ 2 # n + 1
       /\ \A i \in 2..n : i \in I /\ i + 1 \in I /\ i # 1 /\ i + 1 # 1 /\ i + 1 # 2 /\ i # n + 1
                          /\ (i + 1 = m + 1 => i = m)
    BY <1>3
<1> HIDE DEF e, n, I
<1>13. ASSUME NEW p \in Moving \ {"unlink next"}, Goto(f, p),
              prev'[Chain[2]] = Root,
              next'[Chain[n + 1]] = IF p = "link prev" THEN Chain[1] ELSE Chain[2],
              p = "unlink prev" => next'[Chain[1]] = Chain[m + 1] /\ prev'[Chain[1]] = Chain[m],
              \A i \in 2..n : next'[Chain[i]] = Chain[i + 1],
              \A i \in 2..n : prev'[Chain[i + 1]] = IF i = m /\ p = "unlink prev" THEN Chain[1] ELSE Chain[i],
              p \in {"set next", "link next", "link prev"} => prev'[Chain[1]] = Root,
              p \in {"link next", "link prev"} => next'[Chain[1]] = Chain[2]
       PROVE  InOrder'
    <2>1. pc'[f] = p /\ \A b \in Actors \ {f} : pc'[b] = pc[b]
        BY <1>9, <1>13
    <2>2. Getting' = {f} /\ Spinning' = {}
        <3>1. p # "spinning" /\ p \in Moving
            BY <1>13 DEF Moving
        <3>2. \A g \in Finders : g # f => pc'[g] = pc[g]
            BY <2>1 DEF Actors
        <3>3. \A g \in Finders : pc[g] \in Moving => g = f
            BY <1>2 DEF Getting
        <3>4. \A g \in Finders : pc[g] # "spinning"
            BY <1>2 DEF Spinning
        <3>5. \A g \in Finders : pc'[g] \in Moving <=> g = f
            BY <2>1, <3>1, <3>2, <3>3
        <3>6. \A g \in Finders : pc'[g] # "spinning"
            BY <2>1, <3>1, <3>2, <3>4
        <3> QED BY <3>5, <3>6 DEF Getting, Spinning
    <2>3. held'[f] = Chain'[1] /\ prev'[Chain'[2]] = Root
          /\ next'[Root] = IF pc'[f] = "link prev" THEN Chain'[1] ELSE Chain'[2]
        BY <1>1, <1>3, <1>4, <1>7, <1>13, <2>1 DEF e
    <2>4. /\ pc'[f] \in {"unlink next", "unlink prev"} => next'[Chain'[1]] = Chain'[m + 1] /\ prev'[Chain'[1]] = Chain'[m]
          /\ \A i \in 2..n :
                /\ next'[Chain'[i]] = IF i = m /\ pc'[f] = "unlink next" THEN Chain'[1] ELSE Chain'[i + 1]
                /\ prev'[Chain'[i + 1]] =
                      IF i = m /\ pc'[f] \in {"unlink next", "unlink prev"} THEN Chain'[1] ELSE Chain'[i]
        BY <1>4, <1>13, <2>1
    <2>5. /\ pc'[f] \in {"set next", "link next", "link prev"} => prev'[Chain'[1]] = Root
          /\ pc'[f] \in {"link next", "link prev"} => next'[Chain'[1]] = Chain'[2]
        BY <1>4, <1>13, <2>1
    <2>6. m \in 2..Len(recency')
        BY <1>5
    <2>7. MovedBy(f)'
        BY <1>5, <2>3, <2>4, <2>5, <2>6 DEF MovedBy
    <2> QED BY <1>1, <1>2, <1>5, <2>2, <2>7 DEF InOrder
<1>14. ASSUME At(f, "unlink next", "unlink prev"), SetNext(prev[e], next[e]) PROVE InOrder'
    <2>1. next' = [next EXCEPT ![Chain[m]] = Chain[m + 1]] /\ prev' = prev /\ pc[f] = "unlink next"
          /\ Goto(f, "unlink prev")
        BY <1>6, <1>7, <1>14 DEF At, SetNext
    <2>2. \A i \in I : next'[Chain[i]] = IF i = m THEN Chain[m + 1] ELSE next[Chain[i]]
        BY <1>8, <1>10, <1>11, <2>1
    <2>3. \A i \in 2..n : next'[Chain[i]] = Chain[i + 1]
        BY <1>6, <1>11, <2>1, <2>2
    <2>4. \A i \in 2..n : prev'[Chain[i + 1]] = IF i = m /\ "unlink prev" = "unlink prev" THEN Chain[1] ELSE Chain[i]
        BY <1>6, <1>11, <2>1, <2>2
    <2>5. prev'[Chain[2]] = Root
        BY <1>7, <1>11, <2>1, <2>2
    <2>6. next'[Chain[n + 1]] = IF "unlink prev" = "link prev" THEN Chain[1] ELSE Chain[2]
        BY <1>3, <1>7, <1>11, <2>1, <2>2
    <2>7. /\ "unlink prev" = "unlink prev" => next'[Chain[1]] = Chain[m + 1] /\ prev'[Chain[1]] = Chain[m]
          /\ "unlink prev" \in {"set next", "link next", "link prev"} => prev'[Chain[1]] = Root
          /\ "unlink prev" \in {"link next", "link prev"} => next'[Chain[1]] = Chain[2]
        BY <1>6, <1>7, <1>11, <2>1, <2>2
    <2>8. "unlink prev" \in Moving \ {"unlink next"}
        BY DEF Moving
    <2> QED BY <1>13, <2>1, <2>3, <2>4, <2>5, <2>6, <2>7, <2>8
<1>15. ASSUME At(f, "unlink prev", "set prev"), SetPrev(next[e], prev[e]) PROVE InOrder'
    <2>1. prev' = [prev EXCEPT ![Chain[m + 1]] = Chain[m]] /\ next' = next /\ pc[f] = "unlink prev"
          /\ Goto(f, "set prev")
        BY <1>6, <1>7, <1>15 DEF At, SetPrev
    <2>2. \A i \in I : prev'[Chain[i]] = IF i = m + 1 THEN Chain[m] ELSE prev[Chain[i]]
        BY <1>8, <1>10, <1>11, <2>1
    <2>3. \A i \in 2..n : next'[Chain[i]] = Chain[i + 1]
        BY <1>6, <1>11, <2>1, <2>2
    <2>4. \A i \in 2..n : prev'[Chain[i + 1]] = IF i = m /\ "set prev" = "unlink prev" THEN Chain[1] ELSE Chain[i]
        BY <1>6, <1>11, <2>1, <2>2, ZenonT(40)
    <2>5. prev'[Chain[2]] = Root
        BY <1>7, <1>11, <2>1, <2>2
    <2>6. next'[Chain[n + 1]] = IF "set prev" = "link prev" THEN Chain[1] ELSE Chain[2]
        BY <1>3, <1>7, <1>11, <2>1, <2>2
    <2>7. /\ "set prev" = "unlink prev" => next'[Chain[1]] = Chain[m + 1] /\ prev'[Chain[1]] = Chain[m]
          /\ "set prev" \in {"set next", "link next", "link prev"} => prev'[Chain[1]] = Root
          /\ "set prev" \in {"link next", "link prev"} => next'[Chain[1]] = Chain[2]
        BY <1>6, <1>7, <1>11, <2>1, <2>2
    <2>8. "set prev" \in Moving \ {"unlink next"}
        BY DEF Moving
    <2> QED BY <1>13, <2>1, <2>3, <2>4, <2>5, <2>6, <2>7, <2>8
<1>16. ASSUME At(f, "set prev", "set next"), SetPrev(e, Root) PROVE InOrder'
    <2>1. prev' = [prev EXCEPT ![Chain[1]] = Root] /\ next' = next /\ pc[f] = "set prev"
          /\ Goto(f, "set next")
        BY <1>7, <1>16 DEF At, SetPrev
    <2>2. \A i \in I : prev'[Chain[i]] = IF i = 1 THEN Root ELSE prev[Chain[i]]
        BY <1>8, <1>10, <1>11, <2>1
    <2>3. \A i \in 2..n : next'[Chain[i]] = Chain[i + 1]
        BY <1>6, <1>11, <2>1, <2>2
    <2>4. \A i \in 2..n : prev'[Chain[i + 1]] = IF i = m /\ "set next" = "unlink prev" THEN Chain[1] ELSE Chain[i]
        BY <1>6, <1>11, <2>1, <2>2, ZenonT(40)
    <2>5. prev'[Chain[2]] = Root
        BY <1>7, <1>11, <2>1, <2>2
    <2>6. next'[Chain[n + 1]] = IF "set next" = "link prev" THEN Chain[1] ELSE Chain[2]
        BY <1>3, <1>7, <1>11, <2>1, <2>2
    <2>7. /\ "set next" = "unlink prev" => next'[Chain[1]] = Chain[m + 1] /\ prev'[Chain[1]] = Chain[m]
          /\ "set next" \in {"set next", "link next", "link prev"} => prev'[Chain[1]] = Root
          /\ "set next" \in {"link next", "link prev"} => next'[Chain[1]] = Chain[2]
        BY <1>6, <1>7, <1>11, <2>1, <2>2
    <2>8. "set next" \in Moving \ {"unlink next"}
        BY DEF Moving
    <2> QED BY <1>13, <2>1, <2>3, <2>4, <2>5, <2>6, <2>7, <2>8
<1>17. ASSUME At(f, "set next", "link next"), SetNext(e, next[Root]) PROVE InOrder'
    <2>1. next' = [next EXCEPT ![Chain[1]] = Chain[2]] /\ prev' = prev /\ pc[f] = "set next"
          /\ Goto(f, "link next")
        BY <1>7, <1>17 DEF At, SetNext
    <2>2. \A i \in I : next'[Chain[i]] = IF i = 1 THEN Chain[2] ELSE next[Chain[i]]
        BY <1>8, <1>10, <1>11, <2>1
    <2>3. \A i \in 2..n : next'[Chain[i]] = Chain[i + 1]
        BY <1>6, <1>11, <2>1, <2>2
    <2>4. \A i \in 2..n : prev'[Chain[i + 1]] = IF i = m /\ "link next" = "unlink prev" THEN Chain[1] ELSE Chain[i]
        BY <1>6, <1>11, <2>1, <2>2
    <2>5. prev'[Chain[2]] = Root
        BY <1>7, <1>11, <2>1, <2>2
    <2>6. next'[Chain[n + 1]] = IF "link next" = "link prev" THEN Chain[1] ELSE Chain[2]
        BY <1>3, <1>7, <1>11, <2>1, <2>2
    <2>7. /\ "link next" = "unlink prev" => next'[Chain[1]] = Chain[m + 1] /\ prev'[Chain[1]] = Chain[m]
          /\ "link next" \in {"set next", "link next", "link prev"} => prev'[Chain[1]] = Root
          /\ "link next" \in {"link next", "link prev"} => next'[Chain[1]] = Chain[2]
        BY <1>6, <1>7, <1>11, <2>1, <2>2
    <2>8. "link next" \in Moving \ {"unlink next"}
        BY DEF Moving
    <2> QED BY <1>13, <2>1, <2>3, <2>4, <2>5, <2>6, <2>7, <2>8
<1>18. ASSUME At(f, "link next", "link prev"), SetNext(prev[e], e) PROVE InOrder'
    <2>1. next' = [next EXCEPT ![Chain[n + 1]] = Chain[1]] /\ prev' = prev /\ pc[f] = "link next"
          /\ Goto(f, "link prev")
        BY <1>3, <1>7, <1>18 DEF At, SetNext
    <2>2. \A i \in I : next'[Chain[i]] = IF i = n + 1 THEN Chain[1] ELSE next[Chain[i]]
        BY <1>8, <1>10, <1>11, <2>1
    <2>3. \A i \in 2..n : next'[Chain[i]] = Chain[i + 1]
        BY <1>6, <1>11, <2>1, <2>2
    <2>4. \A i \in 2..n : prev'[Chain[i + 1]] = IF i = m /\ "link prev" = "unlink prev" THEN Chain[1] ELSE Chain[i]
        BY <1>6, <1>11, <2>1, <2>2
    <2>5. prev'[Chain[2]] = Root
        BY <1>7, <1>11, <2>1, <2>2
    <2>6. next'[Chain[n + 1]] = IF "link prev" = "link prev" THEN Chain[1] ELSE Chain[2]
        BY <1>3, <1>7, <1>11, <2>1, <2>2
    <2>7. /\ "link prev" = "unlink prev" => next'[Chain[1]] = Chain[m + 1] /\ prev'[Chain[1]] = Chain[m]
          /\ "link prev" \in {"set next", "link next", "link prev"} => prev'[Chain[1]] = Root
          /\ "link prev" \in {"link next", "link prev"} => next'[Chain[1]] = Chain[2]
        BY <1>6, <1>7, <1>11, <2>1, <2>2
    <2>8. "link prev" \in Moving \ {"unlink next"}
        BY DEF Moving
    <2> QED BY <1>13, <2>1, <2>3, <2>4, <2>5, <2>6, <2>7, <2>8
<1>19. ASSUME At(f, "link prev", "answer"), SetPrev(next[e], e) PROVE InOrder'
    <2>1. prev' = [prev EXCEPT ![Chain[2]] = Chain[1]] /\ next' = next /\ pc[f] = "link prev"
          /\ Goto(f, "answer")
        BY <1>7, <1>19 DEF At, SetPrev
    <2>2. pc'[f] = "answer" /\ \A b \in Actors \ {f} : pc'[b] = pc[b]
        BY <1>9, <2>1
    <2>3. Getting' = {} /\ Spinning' = {}
        BY <1>2, <2>2 DEF Getting, Spinning, Moving, Actors
    <2>4. \A i \in I : prev'[Chain[i]] = IF i = 2 THEN Chain[1] ELSE prev[Chain[i]]
        BY <1>8, <1>10, <1>11, <2>1
    <2>5. ASSUME NEW i \in 0..n PROVE next'[Chain[i]] = Chain[i + 1] /\ prev'[Chain[i + 1]] = Chain[i]
        <3>1. CASE i = 0
            <4>1. prev'[Chain[1]] = Root /\ next'[Root] = Chain[1]
                <5>1. prev[Chain[1]] = Root /\ next[Root] = Chain[1]
                    BY <1>7, <2>1
                <5>2. prev'[Chain[1]] = prev[Chain[1]]
                    BY <1>11, <2>4
                <5> QED BY <2>1, <5>1, <5>2
            <4>2. 0 + 1 = 1
                OBVIOUS
            <4> QED BY <1>3, <3>1, <4>1, <4>2
        <3>2. CASE i = 1
            <4>1. prev'[Chain[2]] = Chain[1] /\ next'[Chain[1]] = Chain[2]
                BY <1>7, <1>11, <2>1, <2>4
            <4>2. 1 + 1 = 2
                OBVIOUS
            <4> QED BY <3>2, <4>1, <4>2
        <3>3. CASE i > 1
            <4>1. i \in 2..n
                BY <1>3, <3>3
            <4> QED BY <1>6, <1>11, <2>1, <2>4, <4>1
        <3> QED BY <1>3, <3>1, <3>2, <3>3
    <2>6. Settled'
        BY <1>4, <1>5, <2>5 DEF Settled
    <2> QED BY <1>1, <1>2, <1>5, <2>3, <2>6 DEF InOrder
<1> QED BY <1>14, <1>15, <1>16, <1>17, <1>18, <1>19 DEF MoveToFront, e

\* Put replaces the result of a cached key: its element goes to the front at once.
LEMMA ReplaceInOrder ==
    ASSUME Typed, Order, Settled, raced = 0, NEW f \in Finders, Replace(f)
    PROVE  Order' /\ Settled'
<1> DEFINE k == key[f]
<1> DEFINE e == entries[k].element
<1> DEFINE n == Len(recency)
<1>1. /\ k \in Cached /\ recency' = ToFront(recency, k) /\ UNCHANGED <<listed, len, valueOf>>
      /\ entries' = [entries EXCEPT ![k].result = found[f]]
    BY DEF Replace, Used
<1>2. Cached' = Cached /\ \A c \in Cached : entries'[c].element = entries[c].element
    <2>1. \A c \in Cached : entries[c] \in [result : Results, element : Elements]
        BY DEF Typed, TypeOK
    <2> QED BY <1>1, <2>1 DEF Cached
<1>3. /\ n \in Nat /\ Chain[0] = Root /\ Chain[n + 1] = Root
      /\ \A i \in 1..n : Chain[i] # Root /\ Chain[i] \in Elements
      /\ \A i, j \in 1..n : Chain[i] = Chain[j] => i = j
      /\ DOMAIN recency = 1..n
    BY ChainFact
<1>4. PICK p \in 1..n :
          /\ Chain[p] = e
          /\ Len(recency') = n /\ Order'
          /\ Chain'[0] = Root /\ Chain'[1] = Chain[p]
          /\ \A i \in 2..p : Chain'[i] = Chain[i - 1]
          /\ \A i \in (p + 1)..(n + 1) : Chain'[i] = Chain[i]
    BY <1>1, <1>2, UsedFact
<1>5. \A i \in 0..n : next[Chain[i]] = Chain[i + 1] /\ prev[Chain[i + 1]] = Chain[i]
    BY DEF Settled
<1>6. e \in listed
    BY <1>3, <1>4 DEF Order
<1>7. next[Root] = Chain[1]
    <2>1. 0 \in 0..n /\ 0 + 1 = 1
        BY <1>3
    <2> QED BY <1>3, <1>5, <2>1
<1>8. /\ next[Root] = e => UNCHANGED <<next, prev>>
      /\ next[Root] # e =>
            LET out == [next EXCEPT ![prev[e]] = next[e]]
                front == out[Root]
            IN  /\ next' = [out EXCEPT ![e] = front, ![Root] = e]
                /\ prev' = [prev EXCEPT ![next[e]] = prev[e], ![e] = Root, ![front] = e]
    BY <1>6 DEF Replace
<1> HIDE DEF e, k, n
<1>9. CASE p = 1
    <2>1. UNCHANGED <<next, prev>>
        BY <1>4, <1>7, <1>8, <1>9
    <2>2. \A i \in 0..(n + 1) : Chain'[i] = Chain[i]
        BY <1>3, <1>4, <1>9
    <2>3. ASSUME NEW i \in 0..n PROVE next'[Chain'[i]] = Chain'[i + 1] /\ prev'[Chain'[i + 1]] = Chain'[i]
        <3>1. i \in 0..(n + 1) /\ i + 1 \in 0..(n + 1)
            BY <1>3
        <3> QED BY <1>5, <2>1, <2>2, <3>1
    <2> QED BY <1>4, <2>3 DEF Settled
<1>10. CASE p # 1
    <2> DEFINE I == 1..(n + 1)
    <2>1. /\ 1 \in I /\ p \in I /\ p - 1 \in I /\ p + 1 \in I /\ n + 1 \in I /\ p - 1 # n + 1 /\ p # n + 1 /\ 1 # n + 1
          /\ (p - 1) + 1 = p /\ p \in 0..n /\ p - 1 \in 0..n /\ p # p + 1 /\ p # 1 /\ 1 # p + 1 /\ p # p - 1
          /\ p \in 2..p /\ p + 1 \in (p + 1)..(n + 1) /\ 2 \in 2..p /\ 2 - 1 = 1 /\ 1 \in 1..n
        BY <1>3, <1>10
    <2>2. /\ \A i \in I : Chain[i] \in Elements \cup {Root}
          /\ \A i, j \in I : Chain[i] = Chain[j] => i = j
        BY <1>3
    <2>3. prev[e] = Chain[p - 1] /\ next[e] = Chain[p + 1] /\ next[Root] # e
        BY <1>3, <1>4, <1>5, <1>7, <2>1
    <2>4. DOMAIN next = Elements \cup {Root} /\ DOMAIN prev = Elements \cup {Root}
        BY DEF Typed, TypeOK
    <2> DEFINE out == [next EXCEPT ![Chain[p - 1]] = Chain[p + 1]]
    <2> HIDE DEF I
    <2>5. \A i \in I : out[Chain[i]] = IF i = p - 1 THEN Chain[p + 1] ELSE next[Chain[i]]
        BY <2>1, <2>2, <2>4
    <2>6. DOMAIN out = Elements \cup {Root}
        BY <2>4
    <2>7. out[Root] = Chain[1]
        BY <1>3, <1>7, <2>1, <2>5
    <2>8. /\ next' = [out EXCEPT ![Chain[p]] = Chain[1], ![Chain[n + 1]] = Chain[p]]
          /\ prev' = [prev EXCEPT ![Chain[p + 1]] = Chain[p - 1], ![Chain[p]] = Root, ![Chain[1]] = Chain[p]]
        BY <1>3, <1>4, <1>8, <2>3, <2>7
    <2> HIDE DEF out
    <2>9. \A i \in I : next'[Chain[i]] = IF i = n + 1 THEN Chain[p] ELSE IF i = p THEN Chain[1] ELSE out[Chain[i]]
        BY <2>1, <2>2, <2>6, <2>8
    <2>10. \A i \in I : prev'[Chain[i]] = IF i = 1 THEN Chain[p] ELSE IF i = p THEN Root
                                         ELSE IF i = p + 1 THEN Chain[p - 1] ELSE prev[Chain[i]]
        BY <2>1, <2>2, <2>4, <2>8
    <2>11. ASSUME NEW i \in 0..n PROVE next'[Chain'[i]] = Chain'[i + 1] /\ prev'[Chain'[i + 1]] = Chain'[i]
        <3>1. CASE i = 0
            <4>1. Chain'[0] = Chain[n + 1] /\ Chain'[1] = Chain[p] /\ 0 + 1 = 1
                BY <1>3, <1>4
            <4>2. next'[Chain[n + 1]] = Chain[p] /\ prev'[Chain[p]] = Root
                BY <2>1, <2>9, <2>10
            <4> QED BY <1>3, <3>1, <4>1, <4>2
        <3>2. CASE i = 1
            <4>1. Chain'[1] = Chain[p] /\ Chain'[2] = Chain[1] /\ 1 + 1 = 2
                BY <1>4, <2>1
            <4>2. next'[Chain[p]] = Chain[1] /\ prev'[Chain[1]] = Chain[p]
                BY <2>1, <2>9, <2>10
            <4> QED BY <3>2, <4>1, <4>2
        <3>3. CASE i > 1 /\ i < p
            <4>1. /\ i \in 2..p /\ i + 1 \in 2..p /\ (i + 1) - 1 = i /\ (i - 1) + 1 = i /\ i - 1 \in 0..n
                  /\ i - 1 \in I /\ i \in I /\ i - 1 # n + 1 /\ i - 1 # p /\ i - 1 # p - 1
                  /\ i # 1 /\ i # p /\ i # p + 1
                BY <1>3, <3>3 DEF I
            <4>2. Chain'[i] = Chain[i - 1] /\ Chain'[i + 1] = Chain[i]
                BY <1>4, <4>1
            <4>3. next'[Chain[i - 1]] = next[Chain[i - 1]] /\ prev'[Chain[i]] = prev[Chain[i]]
                BY <2>5, <2>9, <2>10, <4>1
            <4> QED BY <1>5, <4>1, <4>2, <4>3
        <3>4. CASE i = p
            <4>1. Chain'[p] = Chain[p - 1] /\ Chain'[p + 1] = Chain[p + 1]
                BY <1>4, <2>1
            <4>2. next'[Chain[p - 1]] = Chain[p + 1] /\ prev'[Chain[p + 1]] = Chain[p - 1]
                BY <2>1, <2>5, <2>9, <2>10
            <4> QED BY <3>4, <4>1, <4>2
        <3>5. CASE i > p
            <4>1. /\ i \in (p + 1)..(n + 1) /\ i + 1 \in (p + 1)..(n + 1)
                  /\ i \in I /\ i + 1 \in I /\ i # n + 1 /\ i # p /\ i # p - 1
                  /\ i + 1 # 1 /\ i + 1 # p /\ i + 1 # p + 1
                BY <1>3, <3>5 DEF I
            <4>2. Chain'[i] = Chain[i] /\ Chain'[i + 1] = Chain[i + 1]
                BY <1>4, <4>1
            <4>3. next'[Chain[i]] = next[Chain[i]] /\ prev'[Chain[i + 1]] = prev[Chain[i + 1]]
                BY <2>5, <2>9, <2>10, <4>1
            <4> QED BY <1>5, <4>2, <4>3
        <3> QED BY <1>3, <1>10, <3>1, <3>2, <3>3, <3>4, <3>5
    <2> QED BY <1>4, <2>11 DEF Settled
<1> QED BY <1>4, <1>9, <1>10

\* The links lead along the chain C through the elements of the keys of rec, and back.
Linked(C, ents, nxt, prv, ls, rec) ==
    /\ rec \in Seq(Keys)
    /\ C[0] = Root /\ C[Len(rec) + 1] = Root
    /\ DOMAIN ents = {rec[i] : i \in 1..Len(rec)}
    /\ \A i \in 1..Len(rec) : C[i] = ents[rec[i]].element /\ C[i] \in Elements /\ valueOf[C[i]] = rec[i]
    /\ \A i, j \in 1..Len(rec) : C[i] = C[j] => i = j
    /\ ls = {C[i] : i \in 1..Len(rec)}
    /\ DOMAIN nxt = Elements \cup {Root} /\ DOMAIN prv = Elements \cup {Root}
    /\ \A i \in 0..Len(rec) : nxt[C[i]] = C[i + 1] /\ prv[C[i + 1]] = C[i]

LEMMA ChainLinked ==
    ASSUME Typed, Order, Settled
    PROVE  Linked(Chain, entries, next, prev, listed, recency)
<1> DEFINE n == Len(recency)
<1>1. /\ n \in Nat /\ DOMAIN recency = 1..n /\ recency \in Seq(Keys)
      /\ Chain[0] = Root /\ Chain[n + 1] = Root
      /\ \A i, j \in 1..n : Chain[i] = Chain[j] => i = j
    BY ChainFact DEF Order
<1>2. \A i \in 1..n : /\ Chain[i] = entries[recency[i]].element
                      /\ Chain[i] \in Elements /\ valueOf[Chain[i]] = recency[i]
    BY <1>1, ChainFact DEF Order
<1>3. DOMAIN entries = {recency[i] : i \in 1..n} /\ listed = {Chain[i] : i \in 1..n}
    BY <1>1 DEF Order, Cached
<1>4. \A i \in 0..n : next[Chain[i]] = Chain[i + 1] /\ prev[Chain[i + 1]] = Chain[i]
    BY DEF Settled
<1>5. DOMAIN next = Elements \cup {Root} /\ DOMAIN prev = Elements \cup {Root}
    BY DEF Typed, TypeOK
<1> QED BY <1>1, <1>2, <1>3, <1>4, <1>5 DEF Linked

\* A new element goes to the front of the chain of what eviction has left.
LEMMA PushInOrder ==
    ASSUME Typed, raced = 0, NEW f \in Finders, key[f] \in Keys,
           NEW ents, NEW nxt, NEW prv, NEW ls, NEW rec, NEW C,
           Linked(C, ents, nxt, prv, ls, rec), key[f] \notin DOMAIN ents,
           Push(f, ents, nxt, prv, ls, Len(rec), rec)
    PROVE  Order' /\ Settled'
<1> DEFINE N == Len(rec)
<1>0. /\ N \in Nat /\ rec \in Seq(Keys) /\ Len(rec) = N /\ C[0] = Root /\ C[N + 1] = Root
      /\ DOMAIN ents = {rec[i] : i \in 1..N}
      /\ \A i \in 1..N : C[i] = ents[rec[i]].element /\ C[i] \in Elements /\ valueOf[C[i]] = rec[i]
      /\ \A i, j \in 1..N : C[i] = C[j] => i = j
      /\ ls = {C[i] : i \in 1..N}
      /\ DOMAIN nxt = Elements \cup {Root} /\ DOMAIN prv = Elements \cup {Root}
      /\ \A i \in 0..N : nxt[C[i]] = C[i + 1] /\ prv[C[i + 1]] = C[i]
    BY DEF Linked
<1> USE <1>0
<1> DEFINE k == key[f]
<1> DEFINE unused == Unused(nxt, prv, ents)
<1> DEFINE e == CHOOSE x \in unused : TRUE
<1>1. /\ unused # {}
      /\ entries' = [c \in DOMAIN ents \cup {k} |-> IF c = k THEN [result |-> found[f], element |-> e] ELSE ents[c]]
      /\ next' = [nxt EXCEPT ![e] = nxt[Root], ![Root] = e]
      /\ prev' = [prv EXCEPT ![e] = Root, ![nxt[Root]] = e]
      /\ listed' = ls \cup {e}
      /\ len' = N + 1
      /\ valueOf' = [valueOf EXCEPT ![e] = k]
      /\ recency' = <<k>> \o rec
    BY DEF Push
<1> HIDE DEF N
<1>2. e \in unused
    BY <1>1
<1> HIDE DEF e, k
<1>3. e \in Elements /\ \A c \in DOMAIN ents : ents[c].element # e
    BY <1>2 DEF Unused
<1>4. e # Root
    BY <1>3, ConstantsAssumption
<1>5. \A i \in 1..N : C[i] # e /\ C[i] # Root
    <2> SUFFICES ASSUME NEW i \in 1..N PROVE C[i] # e /\ C[i] # Root
        OBVIOUS
    <2>1. rec[i] \in DOMAIN ents /\ C[i] = ents[rec[i]].element /\ C[i] \in Elements
        OBVIOUS
    <2>2. C[i] # e
        BY <1>3, <2>1
    <2>3. C[i] # Root
        BY <2>1, ConstantsAssumption
    <2> QED BY <2>2, <2>3
<1>6. /\ recency' \in Seq(Keys) /\ Len(recency') = N + 1 /\ DOMAIN recency' = 1..(N + 1)
      /\ recency'[1] = k /\ \A i \in 2..(N + 1) : recency'[i] = rec[i - 1]
    <2>1. <<k>> \in Seq(Keys) /\ Len(<<k>>) = 1 /\ <<k>>[1] = k
        BY DEF k
    <2>2. recency' \in Seq(Keys) /\ Len(recency') = N + 1
        BY <1>1, <2>1
    <2>3. DOMAIN recency' = 1..(N + 1)
        BY <2>2
    <2>4. recency'[1] = k /\ \A i \in 2..(N + 1) : recency'[i] = rec[i - 1]
        BY <1>1, <2>1
    <2> QED BY <2>2, <2>3, <2>4
<1>7. Cached' = DOMAIN ents \cup {k} /\ entries'[k].element = e /\ \A c \in DOMAIN ents : entries'[c] = ents[c]
    BY <1>1 DEF Cached, k
<1>8. \A i \in 1..(N + 1) : Chain'[i] = entries'[recency'[i]].element
    BY <1>6 DEF Chain
<1>9. Chain'[0] = Root /\ Chain'[1] = e /\ Chain'[N + 2] = Root /\ \A i \in 2..(N + 1) : Chain'[i] = C[i - 1]
    <2>1. Chain'[0] = Root /\ Chain'[N + 2] = Root
        BY <1>6 DEF Chain
    <2>2. Chain'[1] = e
        BY <1>6, <1>7, <1>8
    <2>3. ASSUME NEW i \in 2..(N + 1) PROVE Chain'[i] = C[i - 1]
        <3>1. i - 1 \in 1..N /\ i \in 1..(N + 1)
            OBVIOUS
        <3>2. rec[i - 1] \in DOMAIN ents /\ C[i - 1] = ents[rec[i - 1]].element
            BY <3>1
        <3>3. recency'[i] = rec[i - 1]
            BY <1>6
        <3>4. Chain'[i] = entries'[recency'[i]].element
            BY <1>8, <3>1
        <3>5. entries'[rec[i - 1]] = ents[rec[i - 1]]
            BY <1>7, <3>2
        <3> QED BY <3>2, <3>3, <3>4, <3>5
    <2> QED BY <2>1, <2>2, <2>3
<1>10. \A i \in 1..(N + 1) : i = 1 \/ (i \in 2..(N + 1) /\ i - 1 \in 1..N)
    OBVIOUS
<1>11. Order'
    <2>1. Cached' = {recency'[i] : i \in 1..(N + 1)}
        <3>1. \A i \in 1..(N + 1) : recency'[i] \in Cached'
            BY <1>6, <1>7, <1>10
        <3>2. ASSUME NEW c \in Cached' PROVE \E i \in 1..(N + 1) : c = recency'[i]
            <4>1. CASE c = k
                BY <1>6, <4>1
            <4>2. CASE c # k
                <5>1. PICK j \in 1..N : c = rec[j]
                    BY <1>7, <4>2
                <5>2. j + 1 \in 2..(N + 1) /\ (j + 1) - 1 = j /\ j + 1 \in 1..(N + 1)
                    OBVIOUS
                <5>3. recency'[j + 1] = rec[(j + 1) - 1]
                    BY <1>6, <5>2
                <5> QED BY <5>1, <5>2, <5>3
            <4> QED BY <4>1, <4>2
        <3> QED BY <3>1, <3>2
    <2>2. ASSUME NEW i \in 1..(N + 1), NEW j \in 1..(N + 1), Chain'[i] = Chain'[j] PROVE i = j
        <3>1. CASE i = 1 \/ j = 1
            <4>1. ASSUME NEW q \in 1..(N + 1), q # 1 PROVE Chain'[q] # e
                <5>1. q \in 2..(N + 1) /\ q - 1 \in 1..N
                    BY <1>10, <4>1
                <5>2. Chain'[q] = C[q - 1] /\ C[q - 1] # e
                    BY <1>5, <1>9, <5>1
                <5> QED BY <5>2
            <4>2. Chain'[1] = e
                BY <1>9
            <4> QED BY <2>2, <3>1, <4>1, <4>2
        <3>2. CASE i # 1 /\ j # 1
            <4>1. i - 1 \in 1..N /\ j - 1 \in 1..N /\ C[i - 1] = C[j - 1]
                BY <1>9, <1>10, <2>2, <3>2
            <4>2. i - 1 = j - 1
                BY <4>1
            <4> QED BY <4>2
        <3> QED BY <3>1, <3>2
    <2>3. listed' = {Chain'[i] : i \in 1..(N + 1)}
        <3>1. \A i \in 1..(N + 1) : Chain'[i] \in listed'
            BY <1>1, <1>9, <1>10
        <3>2. ASSUME NEW x \in listed' PROVE \E i \in 1..(N + 1) : x = Chain'[i]
            <4>1. CASE x = e
                BY <1>9, <4>1
            <4>2. CASE x # e
                <5>1. PICK j \in 1..N : x = C[j]
                    BY <1>1, <4>2
                <5>2. j + 1 \in 2..(N + 1) /\ (j + 1) - 1 = j /\ j + 1 \in 1..(N + 1)
                    OBVIOUS
                <5> QED BY <1>9, <5>1, <5>2
            <4> QED BY <4>1, <4>2
        <3> QED BY <3>1, <3>2
    <2>4. ASSUME NEW i \in 1..(N + 1) PROVE valueOf'[Chain'[i]] = recency'[i]
        <3>1. DOMAIN valueOf = Elements
            BY DEF Typed, TypeOK
        <3>2. CASE i = 1
            BY <1>1, <1>3, <1>6, <1>9, <3>1, <3>2
        <3>3. CASE i # 1
            <4>1. i - 1 \in 1..N /\ Chain'[i] = C[i - 1] /\ recency'[i] = rec[i - 1]
                BY <1>6, <1>9, <1>10, <3>3
            <4>2. valueOf'[C[i - 1]] = valueOf[C[i - 1]]
                BY <1>1, <1>5, <3>1, <4>1
            <4> QED BY <4>1, <4>2
        <3> QED BY <3>2, <3>3
    <2>5. /\ recency' \in Seq(Keys)
          /\ Cached' = {recency'[i] : i \in DOMAIN recency'}
          /\ \A i, j \in DOMAIN recency' : Chain'[i] = Chain'[j] => i = j
          /\ len' = Len(recency')
          /\ listed' = {Chain'[i] : i \in DOMAIN recency'}
          /\ \A i \in DOMAIN recency' : valueOf'[Chain'[i]] = recency'[i]
        <3>1. DOMAIN recency' = 1..(N + 1) /\ len' = Len(recency') /\ recency' \in Seq(Keys)
            BY <1>1, <1>6
        <3> HIDE DEF Chain
        <3> QED BY <2>1, <2>2, <2>3, <2>4, <3>1
    <2> QED BY <2>5 DEF Order
<1>12. nxt[Root] = C[1]
    <2>1. 0 \in 0..N /\ 0 + 1 = 1
        OBVIOUS
    <2> QED BY <2>1, SMTT(30)
<1>13. C[1] \in Elements \cup {Root} /\ C[1] # e
    <2>1. CASE N = 0
        BY <1>4, <2>1
    <2>2. CASE N # 0
        <3>1. 1 \in 1..N
            BY <2>2
        <3> QED BY <1>5, <3>1
    <2> QED BY <2>1, <2>2
<1>14. /\ next'[Root] = e /\ next'[e] = C[1] /\ \A x \in Elements : x # e => next'[x] = nxt[x]
       /\ prev'[e] = Root /\ prev'[C[1]] = e
       /\ \A x \in Elements \cup {Root} : x # e /\ x # C[1] => prev'[x] = prv[x]
    BY <1>1, <1>3, <1>4, <1>12, <1>13, ConstantsAssumption
<1>15. ASSUME NEW i \in 0..(N + 1) PROVE next'[Chain'[i]] = Chain'[i + 1] /\ prev'[Chain'[i + 1]] = Chain'[i]
    <2>1. CASE i = 0
        <3>1. 0 + 1 = 1
            OBVIOUS
        <3> QED BY <1>9, <1>14, <2>1, <3>1
    <2>2. CASE i = 1
        <3>1. 1 + 1 = 2 /\ Chain'[2] = C[1]
            <4>1. CASE N = 0
                BY <1>9, <4>1
            <4>2. CASE N # 0
                <5>1. 2 \in 2..(N + 1) /\ 2 - 1 = 1
                    BY <4>2
                <5> QED BY <1>9, <5>1
            <4> QED BY <4>1, <4>2
        <3> QED BY <1>9, <1>14, <2>2, <3>1
    <2>3. CASE i > 1
        <3>1. i - 1 \in 0..N /\ i - 1 \in 1..N /\ (i - 1) + 1 = i /\ i \in 2..(N + 1)
            BY <2>3
        <3>2. nxt[C[i - 1]] = C[i] /\ prv[C[i]] = C[i - 1] /\ Chain'[i] = C[i - 1]
            BY <1>9, <3>1
        <3>3. Chain'[i + 1] = C[i]
            <4>1. CASE i = N + 1
                BY <1>9, <4>1
            <4>2. CASE i # N + 1
                <5>1. i + 1 \in 2..(N + 1) /\ (i + 1) - 1 = i
                    BY <2>3, <4>2
                <5> QED BY <1>9, <5>1
            <4> QED BY <4>1, <4>2
        <3>4. next'[C[i - 1]] = nxt[C[i - 1]]
            BY <1>5, <1>14, <3>1
        <3>5. C[i] # C[1] /\ C[i] # e /\ C[i] \in Elements \cup {Root}
            <4>1. 1 \in 1..N /\ i # 1
                BY <2>3
            <4>2. CASE i = N + 1
                BY <1>4, <1>5, <4>1, <4>2
            <4>3. CASE i # N + 1
                <5>1. i \in 1..N
                    BY <2>3, <4>3
                <5>2. C[i] \in Elements /\ C[i] # C[1]
                    BY <4>1, <5>1
                <5> QED BY <1>5, <5>1, <5>2
            <4> QED BY <4>2, <4>3
        <3>6. prev'[C[i]] = prv[C[i]]
            BY <1>14, <3>5
        <3> QED BY <3>2, <3>3, <3>4, <3>6
    <2> QED BY <2>1, <2>2, <2>3
<1>16. Settled'
    BY <1>6, <1>15 DEF Settled
<1> QED BY <1>11, <1>16

\* Put of a key that is not cached, when the list has room.
LEMMA InsertInOrder ==
    ASSUME Typed, Order, Settled, raced = 0, NEW f \in Finders, key[f] \in Keys, Insert(f)
    PROVE  Order' /\ Settled'
<1>1. len = Len(recency)
    BY DEF Order
<1>2. key[f] \notin DOMAIN entries /\ Push(f, entries, next, prev, listed, Len(recency), recency)
    BY <1>1 DEF Insert, Cached
<1>3. Linked(Chain, entries, next, prev, listed, recency)
    BY ChainLinked
<1> QED BY <1>2, <1>3, PushInOrder

\* And when it has none: the element at the back leaves before the new one enters.
LEMMA EvictInOrder ==
    ASSUME Typed, Order, Settled, raced = 0, NEW f \in Finders, key[f] \in Keys, Evict(f)
    PROVE  Order' /\ Settled'
<1> DEFINE n == Len(recency)
<1>1. /\ n \in Nat /\ recency \in Seq(Keys) /\ len = n /\ Chain[0] = Root /\ Chain[n + 1] = Root
      /\ Cached = {recency[i] : i \in 1..n} /\ listed = {Chain[i] : i \in 1..n}
      /\ \A i, j \in 1..n : Chain[i] = Chain[j] => i = j
      /\ DOMAIN next = Elements \cup {Root} /\ DOMAIN prev = Elements \cup {Root}
      /\ \A i \in 0..n : next[Chain[i]] = Chain[i + 1] /\ prev[Chain[i + 1]] = Chain[i]
    <2>1. Linked(Chain, entries, next, prev, listed, recency)
        BY ChainLinked
    <2>2. n \in Nat /\ len = n /\ Cached = DOMAIN entries
        BY DEF Order, Cached
    <2> QED BY <2>1, <2>2 DEF Linked
<1>2. \A i \in 1..n : /\ Chain[i] = entries[recency[i]].element /\ recency[i] \in Cached
                      /\ Chain[i] \in Elements /\ Chain[i] # Root /\ valueOf[Chain[i]] = recency[i]
    BY <1>1, ChainLinked, ConstantsAssumption DEF Linked
<1>3. PICK N \in Nat : n = N + 1
    <2>1. len >= MaxSize /\ MaxSize \in Nat \ {0}
        BY ConstantsAssumption DEF Evict
    <2>2. n - 1 \in Nat /\ n = (n - 1) + 1
        BY <1>1, <2>1
    <2> QED BY <2>2
<1>4. /\ prev[Root] = Chain[n] /\ next[Chain[n]] = Root /\ prev[Chain[n]] = Chain[N]
      /\ valueOf[Chain[n]] = recency[n]
    <2>1. n \in 0..n /\ N \in 0..n /\ n \in 1..n
        BY <1>3
    <2> QED BY <1>1, <1>2, <1>3, <2>1
<1> DEFINE ents == [c \in Cached \ {recency[n]} |-> entries[c]]
<1> DEFINE out == [next EXCEPT ![Chain[N]] = Root]
<1> DEFINE nxt == [out EXCEPT ![Chain[n]] = Nil]
<1> DEFINE in == [prev EXCEPT ![Root] = Chain[N]]
<1> DEFINE prv == [in EXCEPT ![Chain[n]] = Nil]
<1> DEFINE rec == SubSeq(recency, 1, N)
<1> DEFINE C == [i \in 0..n |-> IF i = n THEN Root ELSE Chain[i]]
<1>5. key[f] \notin Cached /\ Push(f, ents, nxt, prv, listed \ {Chain[n]}, N, rec)
    <2>1. len - 1 = N /\ n - 1 = N
        BY <1>1, <1>3
    <2> QED BY <1>4, <2>1 DEF Evict
<1>6. DOMAIN ents = Cached \ {recency[n]} /\ \A c \in DOMAIN ents : ents[c] = entries[c]
    OBVIOUS
<1>7. rec \in Seq(Keys) /\ Len(rec) = N /\ \A i \in 1..N : rec[i] = recency[i]
    BY <1>1, <1>3
<1>8. \A i \in 0..n : C[i] = IF i = n THEN Root ELSE Chain[i]
    OBVIOUS
<1> HIDE DEF n, ents, rec, C
<1>9. \A i \in 1..N : i \in 1..n /\ i \in 0..n /\ i # n
    BY <1>3
<1>10. n \in 1..n /\ n \in 0..n /\ 0 \in 0..n /\ 0 # n /\ N \in 0..n /\ N # n
    BY <1>3
<1>11. C[0] = Root /\ C[n] = Root /\ \A i \in 0..N : C[i] = Chain[i]
    <2>1. \A i \in 0..N : i \in 0..n /\ i # n
        BY <1>3
    <2> QED BY <1>1, <1>8, <1>10, <2>1
<1>12. \A i \in 1..N : C[i] = Chain[i]
    BY <1>3, <1>11
<1>13. ASSUME NEW i \in 1..n, NEW j \in 1..n, recency[i] = recency[j] PROVE i = j
    <2>1. Chain[i] = entries[recency[i]].element /\ Chain[j] = entries[recency[j]].element
        BY <1>2
    <2> QED BY <1>1, <1>13, <2>1
<1>14. \A i \in 1..n : i # n => i \in 1..N
    BY <1>3
<1>15. DOMAIN ents = {rec[i] : i \in 1..N} /\ key[f] \notin DOMAIN ents
    <2>1. ASSUME NEW i \in 1..N PROVE rec[i] \in DOMAIN ents
        <3>1. i \in 1..n /\ i # n /\ rec[i] = recency[i]
            BY <1>7, <1>9
        <3>2. recency[i] \in Cached /\ recency[i] # recency[n]
            BY <1>2, <1>10, <1>13, <3>1
        <3> QED BY <1>6, <3>1, <3>2
    <2>2. ASSUME NEW c \in DOMAIN ents PROVE \E i \in 1..N : c = rec[i]
        <3>1. PICK i \in 1..n : c = recency[i]
            BY <1>1, <1>6
        <3>2. i # n
            BY <1>6, <3>1
        <3> QED BY <1>7, <1>14, <3>1, <3>2
    <2>3. key[f] \notin DOMAIN ents
        BY <1>5, <1>6
    <2> QED BY <2>1, <2>2, <2>3
<1>16. ASSUME NEW i \in 1..N PROVE C[i] = ents[rec[i]].element /\ C[i] \in Elements /\ valueOf[C[i]] = rec[i]
    <2>1. i \in 1..n /\ C[i] = Chain[i] /\ rec[i] = recency[i] /\ rec[i] \in DOMAIN ents
        BY <1>7, <1>9, <1>12, <1>15
    <2>2. ents[rec[i]] = entries[recency[i]]
        BY <1>6, <2>1
    <2> QED BY <1>2, <2>1, <2>2
<1>17. \A i, j \in 1..N : C[i] = C[j] => i = j
    BY <1>1, <1>9, <1>12
<1>18. listed \ {Chain[n]} = {C[i] : i \in 1..N}
    <2>1. ASSUME NEW i \in 1..N PROVE C[i] \in listed \ {Chain[n]}
        <3>1. i \in 1..n /\ i # n /\ C[i] = Chain[i]
            BY <1>9, <1>12
        <3>2. Chain[i] # Chain[n]
            BY <1>1, <1>10, <3>1
        <3> QED BY <1>1, <3>1, <3>2
    <2>2. ASSUME NEW x \in listed \ {Chain[n]} PROVE \E i \in 1..N : x = C[i]
        <3>1. PICK i \in 1..n : x = Chain[i]
            BY <1>1
        <3> QED BY <1>12, <1>14, <3>1
    <2> QED BY <2>1, <2>2
<1>19. \A i \in 0..N : Chain[i] \in Elements \cup {Root} /\ Chain[i] # Chain[n] /\ (i # N => Chain[i] # Chain[N])
    <2>1. \A i \in 1..N : i # N => Chain[i] # Chain[N] /\ N \in 1..N
        BY <1>1, <1>3, <1>9
    <2>2. \A i \in 1..N : Chain[i] \in Elements /\ Chain[i] # Root /\ Chain[i] # Chain[n]
        BY <1>1, <1>2, <1>9, <1>10
    <2>3. Chain[n] # Root
        BY <1>2, <1>10
    <2>4. \A i \in 0..N : i = 0 \/ i \in 1..N
        BY <1>3
    <2>5. 0 # N => N \in 1..N
        BY <1>3
    <2> QED BY <1>1, <2>1, <2>2, <2>3, <2>4, <2>5
<1>20. Chain[n] \in Elements /\ Chain[n] # Root
    BY <1>2, <1>10
<1>21. /\ DOMAIN nxt = Elements \cup {Root} /\ DOMAIN prv = Elements \cup {Root}
       /\ nxt[Chain[N]] = Root /\ prv[Root] = Chain[N]
       /\ \A x \in Elements \cup {Root} : x # Chain[N] /\ x # Chain[n] => nxt[x] = next[x]
       /\ \A x \in Elements : x # Chain[n] => prv[x] = prev[x]
    <2>1. Chain[N] \in Elements \cup {Root} /\ Chain[N] # Chain[n]
        BY <1>3, <1>19
    <2>2. Root \notin Elements
        BY ConstantsAssumption
    <2>3. DOMAIN out = Elements \cup {Root} /\ DOMAIN in = Elements \cup {Root}
        BY <1>1
    <2> QED BY <1>1, <1>20, <2>1, <2>2, <2>3
<1> HIDE DEF nxt, prv
<1>22. ASSUME NEW i \in 0..N PROVE nxt[C[i]] = C[i + 1] /\ prv[C[i + 1]] = C[i]
    <2>1. i \in 0..n /\ C[i] = Chain[i]
        BY <1>3, <1>11
    <2>2. CASE i = N
        BY <1>3, <1>11, <1>21, <2>1, <2>2
    <2>3. CASE i # N
        <3>1. i + 1 \in 1..N
            BY <1>3, <2>3
        <3>2. C[i + 1] = Chain[i + 1] /\ Chain[i + 1] \in Elements /\ Chain[i + 1] # Chain[n]
            BY <1>1, <1>2, <1>9, <1>10, <1>12, <3>1
        <3>3. nxt[Chain[i]] = next[Chain[i]] /\ prv[Chain[i + 1]] = prev[Chain[i + 1]]
            BY <1>19, <1>21, <2>3, <3>2
        <3> QED BY <1>1, <2>1, <3>2, <3>3
    <2> QED BY <2>2, <2>3
<1>23. Linked(C, ents, nxt, prv, listed \ {Chain[n]}, rec)
    BY <1>3, <1>7, <1>11, <1>15, <1>16, <1>17, <1>18, <1>21, <1>22 DEF Linked
<1> QED BY <1>5, <1>7, <1>15, <1>23, PushInOrder

\* The eviction loop neither panics nor spins on a list that is in order.
LEMMA PutInOrder ==
    ASSUME IInv, Typed, InOrder, NEW f \in Finders, Put(f)
    PROVE  InOrder'
<1> SUFFICES ASSUME raced' = 0 PROVE InOrder'
    BY DEF InOrder
<1>1. raced = 0 /\ pc[f] = "searched" /\ Getting = {} /\ Spinning = {} /\ f \in Actors
    BY DEF Put, MayWrite, Actors
<1>2. Order /\ Settled /\ panicked = Nobody
    BY <1>1 DEF InOrder
<1>3. key[f] \in Keys
    BY <1>1 DEF Typed, Holding, Searching
<1>4. ~EvictBroken(f)
    <2> SUFFICES ASSUME EvictBroken(f) PROVE FALSE
        OBVIOUS
    <2>1. len >= MaxSize /\ (prev[Root] = Root \/ prev[Root] \in Elements \ listed)
        BY DEF EvictBroken
    <2>2. Len(recency) \in Nat /\ Len(recency) \in 1..Len(recency)
        BY <1>2, <2>1, ConstantsAssumption DEF Order
    <2>3. Linked(Chain, entries, next, prev, listed, recency)
        BY <1>2, ChainLinked
    <2>4. prev[Root] = Chain[Len(recency)] /\ Chain[Len(recency)] \in listed /\ listed \subseteq Elements
        BY <2>2, <2>3 DEF Linked
    <2> QED BY <2>1, <2>4, ConstantsAssumption
<1>5. Order' /\ Settled'
    BY <1>1, <1>2, <1>3, <1>4, ReplaceInOrder, InsertInOrder, EvictInOrder DEF Put
<1>6. Goto(f, "answer") /\ UNCHANGED panicked
    BY <1>4 DEF Put, Replace, Insert, Evict, Push
<1>7. pc'[f] = "answer" /\ \A b \in Actors \ {f} : pc'[b] = pc[b]
    BY <1>1, <1>6, GotoFact DEF IInv, Places
<1>8. Getting' = {} /\ Spinning' = {}
    BY <1>1, <1>7 DEF Getting, Spinning, Moving, Actors
<1> QED BY <1>2, <1>5, <1>6, <1>8 DEF InOrder

\* The steps that touch neither the list nor a move.
LEMMA OthersInOrder ==
    ASSUME IInv, Typed, InOrder, NEW a \in Actors, NEW p \in Places \cup {"invalidate", "done"}, Goto(a, p),
           {pc[a], p} \cap (Moving \cup {"spinning"}) = {}, UNCHANGED <<cacheVars, panicked, raced>>,
           \A f \in Finders : f # a => held'[f] = held[f]
    PROVE  InOrder'
<1>1. pc'[a] = p /\ \A b \in Actors \ {a} : pc'[b] = pc[b]
    BY GotoFact DEF IInv
<1>2. \A f \in Finders : \/ pc'[f] = pc[f] /\ held'[f] = held[f]
                         \/ pc[f] \notin Moving \cup {"spinning"} /\ pc'[f] \notin Moving \cup {"spinning"}
    <2>1. \A f \in Finders : f # a => pc'[f] = pc[f]
        BY <1>1 DEF Actors
    <2> QED BY <1>1, <2>1
<1> QED BY <1>2, ListUntouched

LEMMA SearchInOrder ==
    ASSUME IInv, Typed, InOrder, NEW f \in Finders, Search(f)
    PROVE  InOrder'
<1>1. PICK p \in {"idle", "searched"} : Goto(f, p)
    BY DEF Search
<1>2. /\ pc[f] = "missed" /\ f \in Actors /\ UNCHANGED <<cacheVars, panicked, raced, held>>
      /\ p \in Places \cup {"invalidate", "done"}
    BY DEF Search, Actors, Places
<1> QED BY <1>1, <1>2, OthersInOrder DEF Moving

LEMMA ReturnInOrder ==
    ASSUME IInv, Typed, InOrder, NEW f \in Finders, Return(f)
    PROVE  InOrder'
<1>1. /\ pc[f] = "answer" /\ f \in Actors /\ UNCHANGED <<cacheVars, panicked, raced>> /\ Goto(f, "idle")
      /\ "idle" \in Places \cup {"invalidate", "done"}
    BY DEF Return, Actors, Places
<1>2. \A g \in Finders : g # f => held'[g] = held[g]
    BY DEF Return, Typed, TypeOK
<1> QED BY <1>1, <1>2, OthersInOrder DEF Moving

LEMMA WriteInOrder ==
    ASSUME IInv, Typed, InOrder, NEW w \in Writers, Write(w)
    PROVE  InOrder'
<1>1. PICK p \in {"invalidate", "done"} : Goto(w, p)
    BY DEF Write, Store, Remove, Commit, Compact, Close, Unchanged, Change, ThenInvalidate
<1>2. /\ pc[w] = "idle" /\ w \in Actors /\ UNCHANGED <<cacheVars, panicked, raced, held>>
      /\ p \in Places \cup {"invalidate", "done"}
    BY DEF Write, CanLock, Actors, findVars
<1> QED BY <1>1, <1>2, OthersInOrder DEF Moving

\* An invalidation leaves an empty list, and nobody in the middle of a move.
LEMMA InvalidateInOrder ==
    ASSUME IInv, Typed, InOrder, NEW w \in Writers, Invalidate(w)
    PROVE  InOrder'
<1> SUFFICES ASSUME raced' = 0 PROVE InOrder'
    BY DEF InOrder
<1>1. /\ raced = 0 /\ Getting = {} /\ Spinning = {} /\ w \in Actors /\ Goto(w, "done") /\ UNCHANGED panicked
      /\ entries' = <<>> /\ recency' = <<>> /\ listed' = {} /\ len' = 0
      /\ next' = [e \in Elements \cup {Root} |-> IF e = Root THEN Root ELSE Nil]
      /\ prev' = [e \in Elements \cup {Root} |-> IF e = Root THEN Root ELSE Nil]
    BY DEF Invalidate, MayWrite, Actors
<1>2. next'[Root] = Root /\ prev'[Root] = Root
    BY <1>1
<1>3. Order' /\ Settled'
    BY <1>1, <1>2, EmptyInOrderNext
<1>4. pc'[w] = "done" /\ \A b \in Actors \ {w} : pc'[b] = pc[b]
    BY <1>1, GotoFact DEF IInv
<1>5. Getting' = {} /\ Spinning' = {}
    BY <1>1, <1>4, ConstantsAssumption DEF Getting, Spinning, Moving, Actors
<1>6. panicked = Nobody
    BY <1>1 DEF InOrder
<1> QED BY <1>1, <1>3, <1>5, <1>6 DEF InOrder

\* Every step keeps the list in order.
LEMMA NextInOrder ==
    ASSUME IInv, Typed, InOrder, [Next]_vars
    PROVE  InOrder'
<1>1. CASE UNCHANGED vars
    BY <1>1, ListUntouched DEF vars, findVars
<1>2. CASE Stop
    BY <1>1, <1>2 DEF Stop
<1>3. ASSUME NEW f \in Finders, NEW k \in Keys, Get(f, k) PROVE InOrder'
    BY <1>3, GetInOrder
<1>4. ASSUME NEW f \in Finders, FindStep(f) PROVE InOrder'
    BY <1>4, MoveInOrder, SearchInOrder, PutInOrder, ReturnInOrder DEF FindStep
<1>5. ASSUME NEW w \in Writers, Write(w) \/ Invalidate(w) PROVE InOrder'
    BY <1>5, WriteInOrder, InvalidateInOrder
<1> QED BY <1>1, <1>2, <1>3, <1>4, <1>5 DEF Next

LEMMA AlwaysInOrder == Spec => [](Typed /\ InOrder)
<1>1. IInv /\ Typed /\ InOrder /\ [Next]_vars => (IInv /\ Typed /\ InOrder)'
    BY NextKeeps, NextTyped, NextInOrder
<1>2. Init => IInv /\ Typed /\ InOrder
    BY InitHolds, TypedAtFirst, InOrderAtFirst
<1> QED BY <1>1, <1>2, PTL DEF Spec

\* ListIsRecency: until two Gets meet, the list is the order of use.
THEOREM ListInOrder == Spec => []ListIsRecency
<1>1. ASSUME Typed, InOrder PROVE ListIsRecency
    <2> SUFFICES ASSUME raced = 0, Getting = {} PROVE ListIsRecency
        BY DEF ListIsRecency
    <2> DEFINE n == Len(recency)
    <2> DEFINE middle == [i \in DOMAIN recency |-> entries[recency[i]].element]
    <2> DEFINE chain == <<Root>> \o middle \o <<Root>>
    <2>1. Order /\ Settled
        BY <1>1 DEF InOrder
    <2>2. /\ n \in Nat /\ DOMAIN recency = 1..n /\ Chain[0] = Root /\ Chain[n + 1] = Root
          /\ \A i \in 1..n : recency[i] \in Cached /\ Chain[i] = entries[recency[i]].element
          /\ \A i, j \in 1..n : Chain[i] = Chain[j] => i = j
        BY <1>1, <2>1, ChainFact
    <2>3. Cached = {recency[i] : i \in DOMAIN recency} /\ len = n
        BY <2>1 DEF Order
    <2>4. Cardinality(Cached) = n
        <3>1. recency \in [1..n -> Cached] /\ \A i, j \in 1..n : recency[i] = recency[j] => i = j
            <4>1. recency = [i \in 1..n |-> recency[i]]
                <5>1. recency \in Seq(Keys)
                    BY <2>1 DEF Order
                <5> HIDE DEF n
                <5> QED BY <2>2, <5>1
            <4>2. \A i \in 1..n : recency[i] \in Cached
                BY <2>2
            <4>3. recency \in [1..n -> Cached]
                <5> HIDE DEF n
                <5> QED BY <4>1, <4>2
            <4>4. ASSUME NEW i \in 1..n, NEW j \in 1..n, recency[i] = recency[j] PROVE i = j
                <5>1. Chain[i] = Chain[j]
                    BY <2>2, <4>4
                <5> QED BY <2>2, <5>1
            <4> QED BY <4>3, <4>4
        <3>2. \A c \in Cached : \E i \in 1..n : recency[i] = c
            BY <2>2, <2>3
        <3>3. recency \in Injection(1..n, Cached)
            BY <2>2, <3>1 DEF Injection, IsInjective
        <3>4. recency \in Surjection(1..n, Cached)
            BY <3>1, <3>2 DEF Surjection
        <3>5. recency \in Bijection(1..n, Cached)
            BY <3>3, <3>4 DEF Bijection
        <3> QED BY <2>2, <3>5, FS_CountingElements DEF ExistsBijection
    <2>5. Len(chain) = n + 2 /\ \A i \in 1..(n + 2) : chain[i] = Chain[i - 1]
        <3>1. middle \in Seq({entries[c].element : c \in Cached}) /\ Len(middle) = n
              /\ \A i \in 1..n : middle[i] = Chain[i]
            BY <2>2
        <3> HIDE DEF middle
        <3>2. /\ Len(chain) = n + 2 /\ chain[1] = Root /\ chain[n + 2] = Root
              /\ \A i \in 2..(n + 1) : chain[i] = middle[i - 1]
            BY <2>2, <3>1
        <3>3. ASSUME NEW i \in 1..(n + 2) PROVE chain[i] = Chain[i - 1]
            <4>1. CASE i = 1
                BY <2>2, <3>2, <4>1
            <4>2. CASE i = n + 2
                BY <2>2, <3>2, <4>2
            <4>3. CASE i # 1 /\ i # n + 2
                <5>1. i \in 2..(n + 1) /\ i - 1 \in 1..n
                    BY <2>2, <4>3
                <5> QED BY <3>1, <3>2, <5>1
            <4> QED BY <4>1, <4>2, <4>3
        <3> QED BY <3>2, <3>3
    <2>6. ASSUME NEW i \in 1..(n + 1) PROVE next[chain[i]] = chain[i + 1] /\ prev[chain[i + 1]] = chain[i]
        <3>1. /\ i \in 1..(n + 2) /\ i + 1 \in 1..(n + 2) /\ i - 1 \in 0..n /\ (i + 1) - 1 = i /\ (i - 1) + 1 = i
            BY <2>2
        <3>2. chain[i] = Chain[i - 1] /\ chain[i + 1] = Chain[i]
            BY <2>5, <3>1
        <3>3. next[Chain[i - 1]] = Chain[i] /\ prev[Chain[i]] = Chain[i - 1]
            BY <2>1, <3>1 DEF Settled
        <3> QED BY <3>2, <3>3
    <2>7. \A i \in 1..Len(chain) - 1 : next[chain[i]] = chain[i + 1] /\ prev[chain[i + 1]] = chain[i]
        BY <2>2, <2>5, <2>6
    <2> QED BY <2>3, <2>4, <2>7 DEF ListIsRecency
<1> QED BY <1>1, AlwaysInOrder, PTL

\* OnlyRacesHarm: without two Gets at the same time, Put neither panics nor loops for ever.
THEOREM HarmNeedsRaces == Spec => []OnlyRacesHarm
<1>1. ASSUME Typed, InOrder PROVE OnlyRacesHarm
    <2>1. raced \in Nat
        BY <1>1, ConstantsAssumption DEF Typed, TypeOK
    <2> QED BY <1>1, <2>1 DEF InOrder, OnlyRacesHarm
<1> QED BY <1>1, AlwaysInOrder, PTL
=============================================================================
