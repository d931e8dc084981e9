------------------------------ MODULE QueryCache ------------------------------
(***************************************************************************)
(* The query cache (cache.go) and what of the database handle meets it:     *)
(* Nest.Find, which looks into the cache before it takes Nest.mu, and the   *)
(* calls that change what a search returns: Store and Remove, which         *)
(* invalidate the cache, Compact and the commit of a transaction, which do  *)
(* not.                                                                    *)
(*                                                                         *)
(* A member of Finders is a goroutine that calls Find again and again, or   *)
(* a worker of BatchFind; a member of Writers makes one call that changes   *)
(* data.  A cached result is the number of changes the search had seen.     *)
(*                                                                         *)
(* QueryCache.Get moves an element of the recency list while it holds only  *)
(* the read lock.  The list is therefore modelled down to the pointers of   *)
(* container/list, and one assignment of its move is one step.  Sections    *)
(* under the write lock of QueryCache.mu are one step: nobody sees their    *)
(* middle.                                                                 *)
(***************************************************************************)
EXTENDS Integers, Sequences, FiniteSets

CONSTANTS
    Finders,    \* goroutines that search
    Writers,    \* calls that change data
    Keys,       \* cache keys of the queries
    Elements,   \* list elements, reused once nothing points to them
    MaxSize,    \* QueryCache.maxSize
    AfterRace   \* bound: the lookups followed once two Gets have raced, the second one included

Nobody == "nobody"
Nil == "nil"
Root == "root"

\* Open replaces a size of 0 by the default; negative sizes are left out.
ASSUME ConstantsAssumption ==
    /\ IsFiniteSet(Writers)
    /\ Finders \cap Writers = {}
    /\ Nobody \notin Finders \cup Writers
    /\ {Root, Nil} \cap Elements = {}
    /\ MaxSize \in Nat \ {0}
    /\ AfterRace \in Nat

VARIABLES
    changes,   \* how often what a search returns has changed
    closed,    \* Nest.closed
    writer,    \* who holds Nest.mu for writing, or Nobody
    readers,   \* who holds it for reading
    entries,   \* QueryCache.entries: the result and the element of a cached key
    next,      \* the list: Element.next, and root.next
    prev,      \* Element.prev, and root.prev
    listed,    \* the elements whose list is the cache's list
    len,       \* its length
    valueOf,   \* Element.Value: the key
    pc,        \* where a finder or a writer stands
    key,       \* the key of the finder's query
    found,     \* the result a finder holds
    held,      \* the element it moves
    panicked,  \* whose panic has ended the process, or Nobody
    firm,      \* history: the changes there were when the cache was last invalidated
    since,     \* history: firm when the finder's call began
    recency,   \* history: the cached keys, the most recently used first
    raced      \* history: the lookups since a Get met another that was moving an element

lockVars == <<writer, readers>>
listVars == <<next, prev, listed, len, valueOf>>
cacheVars == <<entries, listVars, recency>>
findVars == <<key, found, held, since>>
vars == <<changes, closed, lockVars, cacheVars, pc, findVars, panicked, firm, raced>>

Links == Elements \cup {Root, Nil}
Results == 0..Cardinality(Writers)
Cached == DOMAIN entries

\* The stages of list.move, in order, and of Get.
Moving == {"unlink next", "unlink prev", "set prev", "set next", "link next", "link prev"}
Searching == {"missed", "searched"}

Init ==
    /\ changes = 0
    /\ closed = FALSE
    /\ writer = Nobody
    /\ readers = {}
    /\ entries = <<>>
    /\ next = [e \in Elements \cup {Root} |-> IF e = Root THEN Root ELSE Nil]
    /\ prev = [e \in Elements \cup {Root} |-> IF e = Root THEN Root ELSE Nil]
    /\ listed = {}
    /\ len = 0
    /\ valueOf = [e \in Elements |-> Nil]
    /\ pc = [a \in Finders \cup Writers |-> "idle"]
    /\ key = [f \in Finders |-> Nil]
    /\ found = [f \in Finders |-> 0]
    /\ held = [f \in Finders |-> Nil]
    /\ panicked = Nobody
    /\ firm = 0
    /\ since = [f \in Finders |-> 0]
    /\ recency = <<>>
    /\ raced = 0

-----------------------------------------------------------------------------
(* QueryCache.mu.  A finder that moves an element holds it for reading; one *)
(* that spins in the eviction loop holds it for writing, for good.          *)

Getting == {f \in Finders : pc[f] \in Moving}
Spinning == {f \in Finders : pc[f] = "spinning"}

MayRead == Spinning = {}

MayWrite == Spinning = {} /\ Getting = {}

Running == panicked = Nobody

Goto(a, place) == pc' = [pc EXCEPT ![a] = place]

\* The order of use, which nothing reads after a race.
ToFront(s, k) ==
    LET place == CHOOSE i \in DOMAIN s : s[i] = k
    IN  [i \in DOMAIN s |-> IF i = 1 THEN k ELSE IF i <= place THEN s[i - 1] ELSE s[i]]
Used(k) == IF raced > 0 THEN recency ELSE ToFront(recency, k)

-----------------------------------------------------------------------------
(* Nest.Find *)

\* The lookup of Get.  A hit moves the element to the front, unless it is there.
Get(f, k) ==
    /\ pc[f] = "idle"
    /\ MayRead
    /\ raced < AfterRace
    /\ key' = [key EXCEPT ![f] = k]
    /\ since' = [since EXCEPT ![f] = firm]
    /\ \/ /\ k \notin Cached
          /\ Goto(f, "missed")
          /\ raced' = IF raced > 0 THEN raced + 1 ELSE 0
          /\ UNCHANGED <<found, held, recency>>
       \/ /\ k \in Cached
          /\ found' = [found EXCEPT ![f] = entries[k].result]
          /\ held' = [held EXCEPT ![f] = entries[k].element]
          /\ recency' = Used(k)
          /\ raced' = IF raced > 0 \/ Getting # {} THEN raced + 1 ELSE 0
          /\ LET e == held'[f] IN
             Goto(f, IF e \notin listed \/ next[Root] = e THEN "answer" ELSE "unlink next")
    /\ UNCHANGED <<changes, closed, lockVars, entries, listVars, panicked, firm>>

At(f, here, there) == pc[f] = here /\ Goto(f, there)

\* p.next = v and p.prev = v.  The links of a listed element are never nil.
SetNext(p, v) == next' = [next EXCEPT ![p] = v] /\ UNCHANGED prev
SetPrev(p, v) == prev' = [prev EXCEPT ![p] = v] /\ UNCHANGED next

\* list.move(e, &root), one assignment at a time.
MoveToFront(f) ==
    /\ pc[f] \in Moving
    /\ LET e == held[f] IN
       \/ At(f, "unlink next", "unlink prev") /\ SetNext(prev[e], next[e])
       \/ At(f, "unlink prev", "set prev") /\ SetPrev(next[e], prev[e])
       \/ At(f, "set prev", "set next") /\ SetPrev(e, Root)
       \/ At(f, "set next", "link next") /\ SetNext(e, next[Root])
       \/ At(f, "link next", "link prev") /\ SetNext(prev[e], e)
       \/ At(f, "link prev", "answer") /\ SetPrev(next[e], e)
    /\ UNCHANGED <<changes, closed, lockVars, entries, listed, len, valueOf, recency,
                   findVars, panicked, firm, raced>>

\* Under the read lock of Nest.mu: the index and the metadata cannot change until Put.
Search(f) ==
    /\ pc[f] = "missed"
    /\ writer = Nobody
    /\ IF closed
       THEN /\ Goto(f, "idle")
            /\ key' = [key EXCEPT ![f] = Nil]
            /\ since' = [since EXCEPT ![f] = 0]
            /\ UNCHANGED <<readers, found>>
       ELSE /\ Goto(f, "searched")
            /\ readers' = readers \cup {f}
            /\ found' = [found EXCEPT ![f] = changes]
            /\ UNCHANGED <<key, since>>
    /\ UNCHANGED <<changes, closed, writer, cacheVars, held, panicked, firm, raced>>

\* Mutant of Replace: the element stays where it is.
ReplaceInPlace(f) ==
    /\ key[f] \in Cached
    /\ entries' = [entries EXCEPT ![key[f]].result = found[f]]
    /\ recency' = Used(key[f])
    /\ UNCHANGED <<listVars, panicked>>
    /\ Goto(f, "answer")

\* Put, for a key that another goroutine has cached meanwhile.
Replace(f) ==
    LET k == key[f]
        e == entries[k].element
    IN  /\ k \in Cached
        /\ entries' = [entries EXCEPT ![k].result = found[f]]
        /\ recency' = Used(k)
        /\ IF e \notin listed \/ next[Root] = e
           THEN UNCHANGED <<next, prev>>
           ELSE LET out == [next EXCEPT ![prev[e]] = next[e]]
                    front == out[Root]
                IN  /\ next' = [out EXCEPT ![e] = front, ![Root] = e]
                    /\ prev' = [prev EXCEPT ![next[e]] = prev[e], ![e] = Root, ![front] = e]
        /\ UNCHANGED <<listed, len, valueOf, panicked>>
        /\ Goto(f, "answer")

\* What nothing in use points to: some set that has all the elements in use, and all they point
\* to, is without it.
Unused(nxt, prv, ents) ==
    {e \in Elements : \E S \in SUBSET Elements :
        /\ e \notin S
        /\ {ents[c].element : c \in DOMAIN ents} \subseteq S
        /\ \A x \in S \cup {Root} : {nxt[x], prv[x]} \subseteq S \cup {Root, Nil}}

\* PushFront of a new element, on what eviction has left.
Push(f, ents, nxt, prv, ls, n, rec) ==
    LET unused == Unused(nxt, prv, ents)
        e == CHOOSE x \in unused : TRUE
        front == nxt[Root]
    IN  /\ unused # {}
        /\ entries' = [c \in DOMAIN ents \cup {key[f]} |->
                         IF c = key[f] THEN [result |-> found[f], element |-> e] ELSE ents[c]]
        /\ next' = [nxt EXCEPT ![e] = front, ![Root] = e]
        /\ prev' = [prv EXCEPT ![e] = Root, ![front] = e]
        /\ listed' = ls \cup {e}
        /\ len' = n + 1
        /\ valueOf' = [valueOf EXCEPT ![e] = key[f]]
        /\ recency' = IF raced > 0 THEN recency ELSE <<key[f]>> \o rec
        /\ Goto(f, "answer")
        /\ UNCHANGED panicked

\* Mutant of Insert: the list takes one element too many.
InsertLate(f) ==
    /\ key[f] \notin Cached
    /\ len <= MaxSize
    /\ Push(f, entries, next, prev, listed, len, recency)

\* The list has room.
Insert(f) ==
    /\ key[f] \notin Cached
    /\ len < MaxSize
    /\ Push(f, entries, next, prev, listed, len, recency)

\* It has none: the entry at the back goes.
Evict(f) ==
    LET e == prev[Root]
        left == Cached \ {valueOf[e]}
        out == [next EXCEPT ![prev[e]] = next[e]]
        in == [prev EXCEPT ![next[e]] = prev[e]]
    IN  /\ key[f] \notin Cached
        /\ len >= MaxSize
        /\ e \in listed
        /\ Push(f, [c \in left |-> entries[c]], [out EXCEPT ![e] = Nil], [in EXCEPT ![e] = Nil],
                listed \ {e}, len - 1, SubSeq(recency, 1, Len(recency) - 1))

\* The back of a list that a race has broken: the root, whose value is no key, or an
\* element that has left the list, which Remove ignores, so that the loop never ends.
EvictBroken(f) ==
    /\ key[f] \notin Cached
    /\ len >= MaxSize
    /\ \/ prev[Root] = Root /\ panicked' = f /\ UNCHANGED pc
       \/ prev[Root] \in Elements \ listed /\ Goto(f, "spinning") /\ UNCHANGED panicked
    /\ UNCHANGED <<entries, listVars, recency>>

\* Put, and what ends with it: the read lock of Nest.mu.
Put(f) ==
    /\ pc[f] = "searched"
    /\ MayWrite
    /\ Replace(f) \/ Insert(f) \/ Evict(f) \/ EvictBroken(f)
    /\ readers' = IF pc'[f] = "answer" THEN readers \ {f} ELSE readers
    /\ UNCHANGED <<changes, closed, writer, findVars, firm, raced>>

Return(f) ==
    /\ pc[f] = "answer"
    /\ Goto(f, "idle")
    /\ key' = [key EXCEPT ![f] = Nil]
    /\ found' = [found EXCEPT ![f] = 0]
    /\ held' = [held EXCEPT ![f] = Nil]
    /\ since' = [since EXCEPT ![f] = 0]
    /\ UNCHANGED <<changes, closed, lockVars, cacheVars, panicked, firm, raced>>

-----------------------------------------------------------------------------
(* The calls that change data.  The part of each under Nest.mu is one step, *)
(* but for the invalidation, which must wait for QueryCache.mu.             *)

\* Mutant of CanLock: a search releases Nest.mu before it caches its result.
CanLockBeside(w) == pc[w] = "idle" /\ writer = Nobody

CanLock(w) == pc[w] = "idle" /\ writer = Nobody /\ readers = {}

Unchanged(w) == Goto(w, "done") /\ UNCHANGED <<changes, closed, writer>>
Change(w) == Goto(w, "done") /\ changes' = changes + 1 /\ UNCHANGED <<closed, writer>>
ThenInvalidate(w) == Goto(w, "invalidate") /\ writer' = w /\ UNCHANGED closed

\* Store fails before it touches the index, or after (a page, the header or the sync),
\* and then returns without invalidating what it has changed.
Store(w) ==
    \/ Unchanged(w)
    \/ ~closed /\ Change(w)
    \/ ~closed /\ ThenInvalidate(w) /\ changes' = changes + 1

\* Remove changes nothing but the cache, and reports that it is not implemented.
Remove(w) ==
    \/ closed /\ Unchanged(w)
    \/ ~closed /\ ThenInvalidate(w) /\ UNCHANGED changes

\* updateIndexMVCC does not ask whether the database is closed.
Commit(w) == Change(w)

\* Compact fails early, or replaces the index by one without metadata; a failure after
\* the pages are closed leaves the index but takes the metadata from the results.
Compact(w) == Unchanged(w) \/ (~closed /\ Change(w))

Close(w) ==
    \/ Unchanged(w)
    \/ ~closed /\ closed' = TRUE /\ Goto(w, "done") /\ UNCHANGED <<changes, writer>>

Write(w) ==
    /\ CanLock(w)
    /\ Store(w) \/ Remove(w) \/ Commit(w) \/ Compact(w) \/ Close(w)
    /\ UNCHANGED <<readers, cacheVars, findVars, panicked, firm, raced>>

\* Mutant of Invalidate: the new list has the length of the old one.
InvalidateKeepingLen(w) ==
    /\ pc[w] = "invalidate"
    /\ MayWrite
    /\ entries' = <<>>
    /\ next' = [e \in Elements \cup {Root} |-> IF e = Root THEN Root ELSE Nil]
    /\ prev' = [e \in Elements \cup {Root} |-> IF e = Root THEN Root ELSE Nil]
    /\ listed' = {}
    /\ valueOf' = [e \in Elements |-> Nil]
    /\ recency' = <<>>
    /\ firm' = changes
    /\ writer' = Nobody
    /\ Goto(w, "done")
    /\ UNCHANGED <<len, changes, closed, readers, findVars, panicked, raced>>

\* QueryCache.Invalidate makes a new map and a new list; then Nest.mu is released.
Invalidate(w) ==
    /\ pc[w] = "invalidate"
    /\ MayWrite
    /\ entries' = <<>>
    /\ next' = [e \in Elements \cup {Root} |-> IF e = Root THEN Root ELSE Nil]
    /\ prev' = [e \in Elements \cup {Root} |-> IF e = Root THEN Root ELSE Nil]
    /\ listed' = {}
    /\ len' = 0
    /\ valueOf' = [e \in Elements |-> Nil]
    /\ recency' = <<>>
    /\ firm' = changes
    /\ writer' = Nobody
    /\ Goto(w, "done")
    /\ UNCHANGED <<changes, closed, readers, findVars, panicked, raced>>

\* The process has ended, a goroutine holds QueryCache.mu and spins, or the bound is reached.
Stop ==
    /\ ~Running \/ Spinning # {} \/ raced = AfterRace
    /\ UNCHANGED vars

FindStep(f) == MoveToFront(f) \/ Search(f) \/ Put(f) \/ Return(f)

Next ==
    \/ Running /\ \/ \E f \in Finders, k \in Keys : Get(f, k)
                  \/ \E f \in Finders : FindStep(f)
                  \/ \E w \in Writers : Write(w) \/ Invalidate(w)
    \/ Stop

Spec == Init /\ [][Next]_vars

-----------------------------------------------------------------------------
(* Properties *)

Places == {"idle", "missed", "searched", "answer", "spinning"} \cup Moving

(* Every variable has its type, and the list never holds more than the cache may. *)
TypeOK ==
    /\ changes \in Results /\ firm \in Results
    /\ closed \in BOOLEAN /\ raced \in 0..AfterRace
    /\ writer \in Writers \cup {Nobody} /\ readers \subseteq Finders
    /\ Cached \subseteq Keys
    /\ \A k \in Cached : entries[k] \in [result : Results, element : Elements]
    /\ next \in [Elements \cup {Root} -> Links] /\ prev \in [Elements \cup {Root} -> Links]
    /\ listed \subseteq Elements
    /\ len \in 0..MaxSize
    /\ valueOf \in [Elements -> Keys \cup {Nil}]
    /\ \A f \in Finders : pc[f] \in Places
    /\ \A w \in Writers : pc[w] \in {"idle", "invalidate", "done"}
    /\ key \in [Finders -> Keys \cup {Nil}]
    /\ found \in [Finders -> Results] /\ held \in [Finders -> Elements \cup {Nil}]
    /\ since \in [Finders -> Results]
    /\ panicked \in Finders \cup {Nobody}

(* The list is the order of use: as long as no Get has met another that was moving an  *)
(* element, the links lead from the front to the back through the cached keys, the     *)
(* most recently used first, and back again (cache.go, Get and Put).                   *)
ListIsRecency ==
    raced = 0 /\ Getting = {} =>
        LET chain == <<Root>> \o [i \in DOMAIN recency |-> entries[recency[i]].element] \o <<Root>>
        IN  /\ Cached = {recency[i] : i \in DOMAIN recency}
            /\ len = Len(recency) /\ len = Cardinality(Cached)
            /\ \A i \in 1..Len(chain) - 1 : /\ next[chain[i]] = chain[i + 1]
                                            /\ prev[chain[i + 1]] = chain[i]

(* Only concurrent Gets do harm: the eviction loop panics on the root, or runs for     *)
(* ever on an element that has left the list, only after Get has moved elements under  *)
(* the read lock while another Get was in it (cache.go, Get and Put).                  *)
OnlyRacesHarm == panicked # Nobody \/ Spinning # {} => raced > 0

(* A Find that begins after a Store has returned sees that Store and all changes       *)
(* before it, from the cache or from the index, whatever other searches put into the   *)
(* cache meanwhile, and whatever the races do to the list (magpie.go, Find and Store). *)
StoresSeen ==
    \A f \in Finders : pc[f] \in Moving \cup {"searched", "answer", "spinning"} =>
        found[f] >= since[f]
=============================================================================
