---------------------------- MODULE WorkersProofs ----------------------------
(***************************************************************************)
(* Close stops the pool before it writes, and nothing but an early sender   *)
(* panics, for any number of workers, tasks, clients and calls of Close.    *)
(*                                                                         *)
(* The argument is the lock: a Close that has begun holds Nest.mu alone, so *)
(* no second one is inside Stop, and a pool that has been stopped is either *)
(* empty or still being stopped by the Close that holds the lock.           *)
(***************************************************************************)
EXTENDS Workers, FiniteSetTheorems, TLAPS

WorkerPlaces == {"idle", "executing", "call", "locking", "holding", "gone"}
ClientPlaces == {"call", "locking", "holding", "returned"}
StopPlaces == {"cancelling", "closing", "joining"}
InClose == {"holding", "stopping", "persisting"} \cup StopPlaces
CloserPlaces == {"locking", "returned", "refused", "failed"} \cup InClose

AllGone == \A w \in Pool : pc[w] = "gone"

\* Everybody stands where his role takes him.
Roles ==
    /\ \A w \in Pool : pc[w] \in WorkerPlaces
    /\ \A g \in Clients : pc[g] \in ClientPlaces
    /\ \A c \in Closers : pc[c] \in CloserPlaces

\* Nest.mu has one holder for writing, and every Close that has begun is it.
CloseExcludes ==
    /\ \A a, b \in writer : a = b
    /\ \A c \in Closers : pc[c] \in InClose => c \in writer

\* How far Stop has come, from what it leaves behind.
Stopping ==
    /\ running => ~tasksClosed
    /\ \A c \in Closers : pc[c] \in {"cancelling", "closing"} => ~tasksClosed
    /\ \A c \in Closers : pc[c] \in StopPlaces \cup {"persisting"} => ~running
    /\ ~running => AllGone \/ \E c \in Closers : pc[c] \in StopPlaces
    /\ closed => ~running

\* Only tasks panic, and only tasks that asked while the pool was running.
NoLatePanic ==
    /\ late = {}
    /\ panicked \subseteq Tasks

IInv == TypeOK /\ Roles /\ CloseExcludes /\ Stopping /\ PersistsAlone /\ NoLatePanic

-----------------------------------------------------------------------------
LEMMA InitHolds == Init => IInv
  <1> SUFFICES ASSUME Init
               PROVE  IInv
    OBVIOUS
  <1>1. /\ \A w \in Pool : pc[w] = "idle"
        /\ \A g \in Clients : pc[g] = "call"
        /\ \A c \in Closers : pc[c] = "locking"
    BY ConstantsAssumption DEF Init, Lockers, ConstantsAssumption
  <1>2. {w \in Pool : pc[w] # "gone"} = Pool
    BY <1>1
  <1>3. \A a \in Lockers : pc[a] \in {"idle", "call", "locking"}
    BY <1>1 DEF Lockers
  <1>4. pc \in [Lockers -> {"idle", "call", "locking"}]
    BY <1>3 DEF Init
  <1>5. TypeOK
    <2>1. wg = Cardinality({w \in Pool : pc[w] # "gone"})
      BY <1>2 DEF Init
    <2>2. doing \in [Pool -> SUBSET Tasks] /\ sched \in [Tasks -> {"waiting"}]
      BY DEF Init
    <2>3. tasks \in Seq(Tasks) /\ Len(tasks) <= QueueCap
      BY ConstantsAssumption DEF Init, ConstantsAssumption
    <2> QED
      BY <1>4, <2>1, <2>2, <2>3 DEF Init, TypeOK
  <1>6. Roles /\ CloseExcludes /\ Stopping /\ PersistsAlone /\ NoLatePanic
    BY <1>1 DEF Init, Roles, CloseExcludes, Stopping, PersistsAlone, NoLatePanic, WorkerPlaces,
                ClientPlaces, CloserPlaces, InClose, StopPlaces
  <1> QED
    BY <1>5, <1>6 DEF IInv

-----------------------------------------------------------------------------
(* The goroutines of the periodic tasks touch no lock and no worker.        *)

LEMMA SchedulerKeeps ==
    ASSUME IInv, NEW t \in Tasks, Scheduler(t)
    PROVE  IInv'
  <1> USE DEF IInv
  <1>1. UNCHANGED <<poolVars, pc, doing, lockVars, closed, stopped>> /\ late' = {}
    <2>1. CASE Tick(t)
      BY <2>1 DEF Tick, Accepts, NoLatePanic
    <2>2. CASE Send(t) \/ SendOnClosed(t) \/ GiveUp(t) \/ Park(t) \/ Leave(t)
      BY <2>2 DEF Send, SendOnClosed, GiveUp, Park, Leave, NoLatePanic
    <2> QED
      BY <2>1, <2>2 DEF Scheduler
  <1>2. panicked' \subseteq Tasks
    BY DEF Scheduler, Tick, Send, SendOnClosed, GiveUp, Park, Leave, NoLatePanic
  <1>3. sched' \in [Tasks -> {"waiting", "sending", "parked", "gone"}]
    BY DEF Scheduler, Tick, Send, SendOnClosed, GiveUp, Park, Leave, TypeOK
  <1>4. tasks' \in Seq(Tasks) /\ Len(tasks') <= QueueCap
    <2>1. CASE Send(t)
      BY <2>1, ConstantsAssumption DEF Send, TypeOK, ConstantsAssumption
    <2>2. CASE UNCHANGED tasks
      BY <2>2 DEF TypeOK
    <2> QED
      BY <2>1, <2>2 DEF Scheduler, Tick, SendOnClosed, GiveUp, Park, Leave
  <1>5. TypeOK'
    BY <1>1, <1>2, <1>3, <1>4 DEF TypeOK, poolVars, lockVars
  <1>6. Roles' /\ CloseExcludes' /\ Stopping' /\ PersistsAlone'
    BY <1>1 DEF Roles, CloseExcludes, Stopping, PersistsAlone, AllGone, poolVars, lockVars
  <1> QED
    BY <1>1, <1>2, <1>5, <1>6 DEF NoLatePanic

-----------------------------------------------------------------------------
(* Workers and clients.                                                     *)

\* The wait group still counts when nobody starts or returns.
LEMMA CountKept ==
    ASSUME TypeOK, wg' = wg, \A w \in Pool : pc'[w] = "gone" <=> pc[w] = "gone"
    PROVE  wg' = Cardinality({w \in Pool : pc'[w] # "gone"})
  <1>1. {w \in Pool : pc'[w] # "gone"} = {w \in Pool : pc[w] # "gone"}
    OBVIOUS
  <1> QED
    BY <1>1 DEF TypeOK

\* The places of TypeOK.
Places == WorkerPlaces \cup ClientPlaces \cup CloserPlaces

\* Whoever moves, the others stay.
LEMMA GotoFact ==
    ASSUME TypeOK, NEW a \in Lockers, NEW place \in Places, Goto(a, place)
    PROVE  /\ pc' \in [Lockers -> Places]
           /\ pc'[a] = place
           /\ \A b \in Lockers \ {a} : pc'[b] = pc[b]
  BY DEF Goto, TypeOK, Places, WorkerPlaces, ClientPlaces, CloserPlaces, InClose, StopPlaces

\* A worker that is still there, or a client, moves on: the pool is not stopped yet, or
\* what it does is of no concern to the Close that stops it.
LEMMA MoveKeeps ==
    ASSUME IInv, NEW a \in Pool \cup Clients,
           NEW place \in Places, Goto(a, place),
           a \in Pool => place \in WorkerPlaces /\ (place = "gone" <=> pc[a] = "gone"),
           a \in Clients => place \in ClientPlaces,
           UNCHANGED <<poolVars, stopped, closed, panicked, late>>,
           \A c \in Closers : c \in writer' <=> c \in writer,
           \A b, c \in writer' : b = c
    PROVE  /\ pc' \in [Lockers -> Places]
           /\ wg' = Cardinality({w \in Pool : pc'[w] # "gone"})
           /\ Roles' /\ CloseExcludes' /\ Stopping' /\ PersistsAlone' /\ NoLatePanic'
  <1> USE DEF IInv
  <1>1. a \in Lockers /\ a \notin Closers
    BY ConstantsAssumption DEF Lockers, ConstantsAssumption
  <1>2. /\ pc' \in [Lockers -> Places] /\ pc'[a] = place
        /\ \A b \in Lockers \ {a} : pc'[b] = pc[b]
    BY <1>1, GotoFact
  <1>3. \A c \in Closers : pc'[c] = pc[c]
    BY <1>1, <1>2 DEF Lockers
  <1>4. \A w \in Pool : pc'[w] = "gone" <=> pc[w] = "gone"
    <2>1. \A w \in Pool \ {a} : pc'[w] = pc[w]
      BY <1>2 DEF Lockers
    <2> QED
      BY <1>2, <2>1
  <1>5. wg' = Cardinality({w \in Pool : pc'[w] # "gone"})
    BY <1>4, CountKept DEF poolVars
  <1>6. Roles'
    <2>1. \A g \in Clients \ {a} : pc'[g] = pc[g]
      BY <1>2 DEF Lockers
    <2>2. \A w \in Pool \ {a} : pc'[w] = pc[w]
      BY <1>2 DEF Lockers
    <2> QED
      BY <1>2, <1>3, <2>1, <2>2 DEF Roles
  <1>7. CloseExcludes'
    BY <1>3 DEF CloseExcludes
  <1>8. Stopping' /\ PersistsAlone'
    BY <1>3, <1>4 DEF Stopping, PersistsAlone, AllGone, poolVars
  <1> QED
    BY <1>2, <1>5, <1>6, <1>7, <1>8 DEF NoLatePanic

LEMMA ReceiveKeeps ==
    ASSUME IInv, NEW w \in Pool, Receive(w)
    PROVE  IInv'
  <1> USE DEF IInv
  <1>1. Head(tasks) \in Tasks /\ Len(tasks) > 0
    BY DEF Receive, TypeOK
  <1>2. FirstStep(Head(tasks)) \in {"executing", "call", "locking"}
    BY <1>1 DEF FirstStep, Tasks
  <1>3. FirstStep(Head(tasks)) \in WorkerPlaces \cap Places /\ FirstStep(Head(tasks)) # "gone"
    BY <1>2 DEF WorkerPlaces, Places
  <1>4. w \in Pool /\ w \notin Clients /\ pc[w] # "gone"
    BY ConstantsAssumption DEF ConstantsAssumption, Receive
  <1>5. /\ pc' \in [Lockers -> Places]
        /\ wg' = Cardinality({v \in Pool : pc'[v] # "gone"})
        /\ Roles' /\ CloseExcludes' /\ Stopping' /\ PersistsAlone' /\ NoLatePanic'
    <2>1. Goto(w, FirstStep(Head(tasks))) /\ UNCHANGED <<poolVars, stopped, closed, panicked, late, writer>>
      BY DEF Receive, lockVars
    <2>2. \A b, c \in writer' : b = c
      BY <2>1 DEF CloseExcludes
    <2>3. \A c \in Closers : c \in writer' <=> c \in writer
      BY <2>1
    <2>4. w \in Pool \cup Clients
      OBVIOUS
    <2> QED
      BY <1>3, <1>4, <2>1, <2>2, <2>3, <2>4, MoveKeeps
  <1>6. tasks' \in Seq(Tasks) /\ Len(tasks') <= QueueCap
        /\ sched' \in [Tasks -> {"waiting", "sending", "parked", "gone"}]
    <2>1. Tail(tasks) \in Seq(Tasks) /\ Len(Tail(tasks)) = Len(tasks) - 1
      BY <1>1 DEF TypeOK
    <2>2. CASE tasks' = Tail(tasks) /\ UNCHANGED sched
      BY <2>1, <2>2, ConstantsAssumption DEF TypeOK, ConstantsAssumption
    <2>3. CASE \E t \in Tasks : tasks' = Append(Tail(tasks), t) /\ sched' = [sched EXCEPT ![t] = "waiting"]
      BY <2>1, <2>3, ConstantsAssumption DEF TypeOK, ConstantsAssumption
    <2> QED
      BY <2>2, <2>3 DEF Receive
  <1>7. doing' \in [Pool -> SUBSET Tasks]
    BY <1>1 DEF Receive, TypeOK
  <1>8. TypeOK'
    BY <1>5, <1>6, <1>7 DEF TypeOK, Receive, poolVars, lockVars, Places, WorkerPlaces, ClientPlaces,
                            CloserPlaces, InClose, StopPlaces
  <1> QED
    BY <1>5, <1>8

LEMMA ExitKeeps ==
    ASSUME IInv, NEW w \in Pool, Exit(w)
    PROVE  IInv'
  <1> USE DEF IInv
  <1>1. /\ w \in Lockers /\ w \notin Clients /\ w \notin Closers /\ pc[w] = "idle"
        /\ Goto(w, "gone") /\ wg' = wg - 1
    BY ConstantsAssumption DEF Lockers, ConstantsAssumption, Exit, LeavePool
  <1>2. "gone" \in Places
    BY DEF Places, WorkerPlaces
  <1>3. /\ pc' \in [Lockers -> Places] /\ pc'[w] = "gone"
        /\ \A b \in Lockers \ {w} : pc'[b] = pc[b]
    BY <1>1, <1>2, GotoFact
  <1>4. UNCHANGED <<running, ctxDone, tasksClosed, tasks, sched, stopped, doing, lockVars, closed,
                    panicked, late>>
    BY DEF Exit
  <1>5. \A c \in Closers : pc'[c] = pc[c]
    BY <1>1, <1>3 DEF Lockers
  <1>6. wg' = Cardinality({v \in Pool : pc'[v] # "gone"})
    <2>1. {v \in Pool : pc'[v] # "gone"} = {v \in Pool : pc[v] # "gone"} \ {w}
      BY <1>3 DEF Lockers
    <2>2. IsFiniteSet({v \in Pool : pc[v] # "gone"})
      BY ConstantsAssumption, FS_Subset DEF ConstantsAssumption
    <2>3. w \in {v \in Pool : pc[v] # "gone"}
      BY <1>1
    <2>4. Cardinality({v \in Pool : pc[v] # "gone"} \ {w}) = Cardinality({v \in Pool : pc[v] # "gone"}) - 1
      BY <2>2, <2>3, FS_RemoveElement
    <2> QED
      BY <1>1, <2>1, <2>4 DEF TypeOK
  <1>7. TypeOK'
    BY <1>3, <1>4, <1>6 DEF TypeOK, lockVars, Places, WorkerPlaces, ClientPlaces, CloserPlaces,
                            InClose, StopPlaces
  <1>8. \A v \in Pool : pc'[v] = pc[v] \/ pc'[v] = "gone"
    BY <1>3 DEF Lockers
  <1>9. Roles' /\ CloseExcludes'
    <2>1. \A g \in Clients : pc'[g] = pc[g]
      BY <1>1, <1>3 DEF Lockers
    <2> QED
      BY <1>4, <1>5, <1>8, <2>1 DEF Roles, CloseExcludes, WorkerPlaces, lockVars
  <1>10. Stopping' /\ PersistsAlone' /\ NoLatePanic'
    BY <1>4, <1>5, <1>8 DEF Stopping, PersistsAlone, NoLatePanic, AllGone
  <1> QED
    BY <1>7, <1>9, <1>10

\* A worker finishes a task, or a client's call returns.
LEMMA ReturnFact ==
    ASSUME IInv, NEW a \in Pool \cup Clients, Return(a)
    PROVE  /\ \E place \in {"idle", "returned"} :
                 Goto(a, place) /\ (a \in Pool => place = "idle") /\ (a \in Clients => place = "returned")
           /\ doing' \in [Pool -> SUBSET Tasks]
  BY ConstantsAssumption DEF Return, Finish, IInv, TypeOK, ConstantsAssumption

\* Execute, CallCollect, Unlock, and Lock by a worker or a client.
LEMMA UserKeeps ==
    ASSUME IInv, NEW a \in Pool \cup Clients,
           (a \in Pool /\ Execute(a)) \/ CallCollect(a) \/ Unlock(a) \/ Lock(a)
    PROVE  IInv'
  <1> USE DEF IInv
  <1>1. /\ a \in Pool => a \notin Clients
        /\ a \notin Closers /\ a \in Lockers
    BY ConstantsAssumption DEF ConstantsAssumption, Lockers
  <1>2. PICK place \in {"idle", "returned", "locking", "holding"} :
            /\ Goto(a, place)
            /\ a \in Pool => place # "returned" /\ pc[a] # "gone"
            /\ a \in Clients => place # "idle"
    BY <1>1, ReturnFact DEF Execute, CallCollect, Unlock, Lock, Finish
  <1>3. /\ place \in Places
        /\ a \in Pool => place \in WorkerPlaces /\ (place = "gone" <=> pc[a] = "gone")
        /\ a \in Clients => place \in ClientPlaces
    BY <1>2 DEF Places, WorkerPlaces, ClientPlaces
  <1>4. UNCHANGED <<poolVars, tasks, sched, stopped, closed, panicked, late>>
    BY DEF Execute, CallCollect, Unlock, Lock
  <1>5. doing' \in [Pool -> SUBSET Tasks]
    <2>1. CASE a \in Pool /\ Execute(a)
      BY <2>1 DEF Execute, Finish, TypeOK
    <2>2. CASE CallCollect(a) \/ Unlock(a)
      BY <2>2, ReturnFact DEF CallCollect, Unlock, TypeOK
    <2>3. CASE Lock(a)
      BY <2>3 DEF Lock, TypeOK
    <2> QED
      BY <2>1, <2>2, <2>3
  <1>6. /\ \A c \in Closers : c \in writer' <=> c \in writer
        /\ \A b, c \in writer' : b = c
        /\ writer' \subseteq Lockers /\ readers' \subseteq Pool
    <2>1. CASE (a \in Pool /\ Execute(a)) \/ CallCollect(a)
      BY <2>1 DEF Execute, CallCollect, lockVars, TypeOK, CloseExcludes
    <2>2. CASE Unlock(a)
      BY <1>1, <2>2 DEF Unlock, Release, TypeOK, CloseExcludes
    <2>3. CASE Lock(a)
      BY <1>1, <2>3 DEF Lock, Reads, TypeOK, CloseExcludes
    <2> QED
      BY <2>1, <2>2, <2>3
  <1>7. /\ pc' \in [Lockers -> Places]
        /\ wg' = Cardinality({v \in Pool : pc'[v] # "gone"})
        /\ Roles' /\ CloseExcludes' /\ Stopping' /\ PersistsAlone' /\ NoLatePanic'
    BY <1>2, <1>3, <1>4, <1>6, MoveKeeps
  <1>8. TypeOK'
    BY <1>4, <1>5, <1>6, <1>7 DEF TypeOK, poolVars, Places, WorkerPlaces, ClientPlaces,
                                  CloserPlaces, InClose, StopPlaces
  <1> QED
    BY <1>7, <1>8

-----------------------------------------------------------------------------
(* Close.                                                                   *)

\* A Close moves on: the workers, the clients and the other calls stay.
LEMMA CloserFact ==
    ASSUME IInv, NEW c \in Closers, NEW place \in CloserPlaces, Goto(c, place)
    PROVE  /\ pc' \in [Lockers -> Places]
           /\ pc'[c] = place
           /\ \A d \in Closers \ {c} : pc'[d] = pc[d]
           /\ \A w \in Pool : pc'[w] = pc[w]
           /\ AllGone' <=> AllGone
           /\ {w \in Pool : pc'[w] # "gone"} = {w \in Pool : pc[w] # "gone"}
           /\ Roles'
  <1>1. /\ c \in Lockers /\ c \notin Pool /\ c \notin Clients
        /\ place \in Places
    BY ConstantsAssumption DEF Lockers, ConstantsAssumption, Places
  <1>2. /\ pc' \in [Lockers -> Places] /\ pc'[c] = place
        /\ \A b \in Lockers \ {c} : pc'[b] = pc[b]
    BY <1>1, GotoFact DEF IInv
  <1>3. \A w \in Pool \cup Clients : pc'[w] = pc[w]
    BY <1>1, <1>2 DEF Lockers
  <1>4. \A d \in Closers \ {c} : pc'[d] = pc[d]
    BY <1>2 DEF Lockers
  <1>5. Roles'
    BY <1>2, <1>3, <1>4 DEF IInv, Roles
  <1> QED
    BY <1>2, <1>3, <1>4, <1>5 DEF AllGone

\* While one Close is between taking and releasing the lock, no other is.
LEMMA NoOtherCloser ==
    ASSUME IInv, NEW c \in Closers, pc[c] \in InClose,
           NEW d \in Closers, pc[d] \in InClose
    PROVE  d = c /\ c \in writer
  BY DEF IInv, CloseExcludes

LEMMA CloserLocks ==
    ASSUME IInv, NEW c \in Closers, Lock(c)
    PROVE  IInv'
  <1> USE DEF IInv
  <1>1. c \notin Pool /\ c \in Lockers /\ "holding" \in CloserPlaces
    BY ConstantsAssumption DEF ConstantsAssumption, Lockers, CloserPlaces, InClose
  <1>2. /\ Goto(c, "holding") /\ writer = {} /\ writer' = {c}
        /\ UNCHANGED <<poolVars, tasks, sched, stopped, doing, closed, panicked, late, readers>>
    BY <1>1 DEF Lock, Reads
  <1>3. /\ pc' \in [Lockers -> Places] /\ pc'[c] = "holding"
        /\ \A d \in Closers \ {c} : pc'[d] = pc[d]
        /\ \A w \in Pool : pc'[w] = pc[w]
        /\ AllGone' <=> AllGone
        /\ {w \in Pool : pc'[w] # "gone"} = {w \in Pool : pc[w] # "gone"}
        /\ Roles'
    BY <1>1, <1>2, CloserFact
  <1>4. \A d \in Closers : pc[d] \notin InClose
    BY <1>2 DEF CloseExcludes
  <1>5. \A d \in Closers : pc'[d] \notin StopPlaces \cup {"persisting"}
    BY <1>3, <1>4 DEF InClose, StopPlaces
  <1>6. TypeOK'
    BY <1>1, <1>2, <1>3 DEF TypeOK, poolVars, Places, WorkerPlaces, ClientPlaces, CloserPlaces,
                            InClose, StopPlaces
  <1>7. CloseExcludes'
    BY <1>2, <1>3, <1>4 DEF CloseExcludes
  <1>8. Stopping' /\ PersistsAlone' /\ NoLatePanic'
    BY <1>2, <1>3, <1>4, <1>5 DEF Stopping, PersistsAlone, NoLatePanic, AllGone, poolVars,
                                  StopPlaces, InClose
  <1> QED
    BY <1>3, <1>6, <1>7, <1>8

LEMMA CloserKeeps ==
    ASSUME IInv, NEW c \in Closers, Closer(c)
    PROVE  IInv'
  <1> USE DEF IInv
  <1>1. PICK place \in CloserPlaces : Goto(c, place)
    BY DEF Closer, StopTasks, Stop, Cancel, CloseChannel, Join, Persist, CloserPlaces, InClose,
           StopPlaces
  <1>2. /\ pc' \in [Lockers -> Places] /\ pc'[c] = place
        /\ \A d \in Closers \ {c} : pc'[d] = pc[d]
        /\ \A w \in Pool : pc'[w] = pc[w]
        /\ AllGone' <=> AllGone
        /\ {w \in Pool : pc'[w] # "gone"} = {w \in Pool : pc[w] # "gone"}
        /\ Roles'
    BY <1>1, CloserFact
  <1>3. pc[c] \in InClose
    BY DEF Closer, StopTasks, Stop, Cancel, CloseChannel, Join, Persist, InClose, StopPlaces
  <1>4. /\ c \in writer
        /\ \A d \in Closers \ {c} : pc'[d] \notin InClose
    BY <1>2, <1>3, NoOtherCloser
  <1>5. \A d \in Closers : pc'[d] \in InClose => d = c /\ place \in InClose
    BY <1>2, <1>4
  <1>6. UNCHANGED <<wg, tasks, doing, late>>
    BY DEF Closer, StopTasks, Stop, Cancel, CloseChannel, Join, Persist, poolVars
  <1>7. /\ writer' \subseteq writer /\ readers' \subseteq readers
        /\ place \in InClose => writer' = writer
    <2>1. CASE StopTasks(c)
      BY <1>2, <2>1 DEF StopTasks, Release, lockVars, Goto, InClose, TypeOK, Lockers, StopPlaces
    <2>2. CASE Persist(c)
      BY <1>2, <2>2 DEF Persist, Release, lockVars, Goto, InClose, TypeOK, Lockers, StopPlaces
    <2>3. CASE Stop(c) \/ Cancel(c) \/ CloseChannel(c) \/ Join(c)
      BY <2>3 DEF Stop, Cancel, CloseChannel, Join, lockVars
    <2> QED
      BY <2>1, <2>2, <2>3 DEF Closer
  <1>8. CloseExcludes'
    BY <1>4, <1>5, <1>7 DEF CloseExcludes
  <1>9. panicked' = panicked
    <2>1. CASE CloseChannel(c)
      BY <2>1 DEF CloseChannel, Stopping
    <2> QED
      BY <2>1 DEF Closer, StopTasks, Stop, Cancel, Join, Persist
  <1>10. sched' \in [Tasks -> {"waiting", "sending", "parked", "gone"}] /\ stopped' \subseteq Tasks
    BY DEF Closer, StopTasks, Stop, Cancel, CloseChannel, Join, Persist, AfterCancel, TypeOK
  <1>11. running' \in BOOLEAN /\ ctxDone' \in BOOLEAN /\ tasksClosed' \in BOOLEAN /\ closed' \in BOOLEAN
    BY DEF Closer, StopTasks, Stop, Cancel, CloseChannel, Join, Persist, TypeOK, poolVars
  <1>12. TypeOK'
    BY <1>2, <1>6, <1>7, <1>9, <1>10, <1>11 DEF TypeOK, Places, WorkerPlaces, ClientPlaces,
                                                CloserPlaces, InClose, StopPlaces
  <1>13. Stopping' /\ PersistsAlone'
    <2> USE DEF Stopping, PersistsAlone, StopPlaces, InClose
    <2>1. CASE StopTasks(c)
      <3>1. pc[c] = "holding" /\ place \in {"refused", "stopping"}
            /\ UNCHANGED <<running, tasksClosed, closed>>
        BY <1>2, <2>1 DEF StopTasks, poolVars, Goto, TypeOK, Lockers
      <3> QED
        BY <1>2, <1>4, <3>1 DEF AllGone
    <2>2. CASE Stop(c)
      <3>1. /\ pc[c] = "stopping" /\ ~running' /\ UNCHANGED <<tasksClosed, closed>>
            /\ place = IF running THEN "cancelling" ELSE "persisting"
        BY <1>2, <2>2 DEF Stop, AlreadyStopped, Goto, TypeOK, Lockers
      <3>2. ~running => AllGone
        BY <1>3, <3>1, NoOtherCloser
      <3> QED
        BY <1>2, <1>4, <3>1, <3>2 DEF AllGone
    <2>3. CASE Cancel(c)
      <3>1. pc[c] = "cancelling" /\ place = "closing" /\ UNCHANGED <<running, tasksClosed, closed>>
        BY <1>2, <2>3 DEF Cancel, Goto, TypeOK, Lockers
      <3> QED
        BY <1>2, <1>4, <3>1 DEF AllGone
    <2>4. CASE CloseChannel(c)
      <3>1. pc[c] = "closing" /\ place = "joining" /\ UNCHANGED <<running, closed>>
        BY <1>2, <2>4 DEF CloseChannel, Goto, TypeOK, Lockers
      <3> QED
        BY <1>2, <1>4, <3>1 DEF AllGone
    <2>5. CASE Join(c)
      <3>1. pc[c] = "joining" /\ place = "persisting" /\ UNCHANGED <<running, tasksClosed, closed>>
        BY <1>2, <2>5 DEF Join, Goto, TypeOK, Lockers, poolVars
      <3>2. AllGone
        <4>1. IsFiniteSet({w \in Pool : pc[w] # "gone"})
          BY ConstantsAssumption, FS_Subset DEF ConstantsAssumption
        <4>2. {w \in Pool : pc[w] # "gone"} = {}
          BY <2>5, <4>1, FS_EmptySet DEF Join, Joined, TypeOK
        <4> QED
          BY <4>2 DEF AllGone
      <3> QED
        BY <1>2, <1>4, <3>1, <3>2 DEF AllGone
    <2>6. CASE Persist(c)
      <3>1. pc[c] = "persisting" /\ place \in {"returned", "failed"} /\ UNCHANGED <<running, tasksClosed>>
        BY <1>2, <2>6 DEF Persist, Goto, TypeOK, Lockers, poolVars
      <3>2. AllGone /\ ~running
        BY <3>1 DEF AllGone
      <3> QED
        BY <1>2, <1>4, <3>1, <3>2 DEF AllGone
    <2> QED
      BY <2>1, <2>2, <2>3, <2>4, <2>5, <2>6 DEF Closer
  <1> QED
    BY <1>2, <1>6, <1>8, <1>9, <1>12, <1>13 DEF NoLatePanic

-----------------------------------------------------------------------------
\* The invariant holds in every state: TypeOK, and what Close leaves behind at each step.
THEOREM Invariant == Spec => []IInv
  <1>1. IInv /\ [Next]_vars => IInv'
    <2> SUFFICES ASSUME IInv, [Next]_vars
                 PROVE  IInv'
      OBVIOUS
    <2>1. CASE UNCHANGED vars
      BY <2>1 DEF vars, IInv, TypeOK, Roles, CloseExcludes, Stopping, PersistsAlone, NoLatePanic, AllGone
    <2>2. CASE \E t \in Tasks : Scheduler(t)
      BY <2>2, SchedulerKeeps
    <2>3. CASE \E w \in Pool : Worker(w)
      BY <2>3, ReceiveKeeps, ExitKeeps, UserKeeps DEF Worker
    <2>4. CASE \E a \in Pool \cup Clients : CallCollect(a) \/ Unlock(a)
      BY <2>4, UserKeeps
    <2>5. CASE \E a \in Lockers : Lock(a)
      BY <2>5, UserKeeps, CloserLocks DEF Lockers
    <2>6. CASE \E c \in Closers : Closer(c)
      BY <2>6, CloserKeeps
    <2> QED
      BY <2>1, <2>2, <2>3, <2>4, <2>5, <2>6 DEF Next
  <1> QED
    BY <1>1, InitHolds, PTL DEF Spec

\* The pool's and the handle's fields have their types, and the wait group counts the
\* workers that have not returned (WorkerPool, Nest).
THEOREM TypeCorrect == Spec => []TypeOK
  <1>1. IInv => TypeOK
    BY DEF IInv
  <1> QED
    BY <1>1, Invariant, PTL

\* No worker runs a task, or will, once Close has begun to write (Nest.Close after
\* WorkerPool.Stop), also when an earlier Close has failed and when several compete.
THEOREM CloseWritesAlone == Spec => []PersistsAlone
  <1>1. IInv => PersistsAlone
    BY DEF IInv
  <1> QED
    BY <1>1, Invariant, PTL

\* The channel of tasks is closed once, and only a task that had read running before
\* Stop cleared it sends on it afterwards (SubmitTask, Stop).
THEOREM PanicsAreEarly == Spec => []OnlyEarlySendersPanic
  <1>1. IInv => OnlyEarlySendersPanic
    BY DEF IInv, NoLatePanic, OnlyEarlySendersPanic
  <1> QED
    BY <1>1, Invariant, PTL
=============================================================================
