------------------------------- MODULE Workers -------------------------------
(***************************************************************************)
(* The background worker pool (workers.go) and what of the database handle  *)
(* (magpie.go) it meets: Nest.mu, Nest.closed, Nest.Close, which stops the  *)
(* pool, and Nest.GarbageCollect, called by a client or by the MVCCGC task. *)
(*                                                                         *)
(* A member of Tasks is one PeriodicTask: the goroutine that submits a task *)
(* at every tick, and the task itself.  A member of Clients is one call of  *)
(* Nest.GarbageCollect, a member of Closers one call of Nest.Close.  A step *)
(* is one channel operation, one critical section of wp.mu, or the taking   *)
(* or releasing of Nest.mu.                                                 *)
(***************************************************************************)
EXTENDS Integers, Sequences, FiniteSets

CONSTANTS
    Pool,          \* worker goroutines
    Clients,       \* calls of Nest.GarbageCollect
    Closers,       \* calls of Nest.Close
    CollectTasks,  \* MVCCGC: calls Nest.GarbageCollect
    WriteTasks,    \* WALCheckpoint: holds Nest.mu for writing
    ReadTasks,     \* IndexOptimization: holds Nest.mu for reading
    IdleTasks,     \* AutoCompaction, MetricsAggregation: take no lock
    QueueCap,      \* capacity of the task channel, 100 in the code
    CloseMayFail   \* whether persisting the index, the header or the pages may fail

Tasks == CollectTasks \cup WriteTasks \cup ReadTasks \cup IdleTasks
Lockers == Pool \cup Clients \cup Closers

\* A goroutine has one role.
ASSUME ConstantsAssumption ==
    /\ IsFiniteSet(Pool)
    /\ Pool \cap Clients = {} /\ Pool \cap Closers = {} /\ Clients \cap Closers = {}
    /\ QueueCap \in Nat \ {0}
    /\ CloseMayFail \in BOOLEAN

VARIABLES
    running,      \* WorkerPool.running
    ctxDone,      \* WorkerPool.ctx is cancelled
    tasksClosed,  \* the channel WorkerPool.tasks is closed
    tasks,        \* what it holds
    wg,           \* the counter of WorkerPool.wg
    sched,        \* where the goroutine of a periodic task stands
    stopped,      \* the periodic tasks whose own context is cancelled
    pc,           \* where a worker, a client or a closer stands
    doing,        \* the task a worker has received, if any
    writer,       \* who holds Nest.mu for writing, or nobody
    readers,      \* who holds it for reading
    closed,       \* Nest.closed
    panicked,     \* whose panic has ended the process, if any
    late          \* history: periodic tasks sending although Stop had cleared running before they asked

poolVars == <<running, ctxDone, tasksClosed, wg>>
lockVars == <<writer, readers>>
vars == <<running, ctxDone, tasksClosed, tasks, wg, sched, stopped, pc, doing,
          writer, readers, closed, panicked, late>>

\* What Open leaves: the pool started, one goroutine per configured task.
Init ==
    /\ running = TRUE
    /\ ctxDone = FALSE
    /\ tasksClosed = FALSE
    /\ tasks = <<>>
    /\ wg = Cardinality(Pool)
    /\ sched = [t \in Tasks |-> "waiting"]
    /\ stopped = {}
    /\ pc = [a \in Lockers |-> CASE a \in Pool -> "idle"
                            [] a \in Clients -> "call"
                            [] a \in Closers -> "locking"]
    /\ doing = [w \in Pool |-> {}]
    /\ writer = {}
    /\ readers = {}
    /\ closed = FALSE
    /\ panicked = {}
    /\ late = {}

Goto(a, place) == pc' = [pc EXCEPT ![a] = place]

-----------------------------------------------------------------------------
(* The goroutine of a periodic task: PeriodicTask.Start and SubmitTask. *)

\* Mutant of Accepts: the pool's state is not looked at.
AcceptsAlways == TRUE
Accepts == running

\* A tick: SubmitTask reads running under wp.mu, and returns if it is false.
Tick(t) ==
    /\ sched[t] = "waiting"
    /\ sched' = [sched EXCEPT ![t] = IF Accepts THEN "sending" ELSE "waiting"]
    /\ late' = IF Accepts /\ ~running THEN late \cup {t} ELSE late
    /\ UNCHANGED <<poolVars, tasks, stopped, pc, doing, lockVars, closed, panicked>>

\* The select finds room in the channel.
Send(t) ==
    /\ sched[t] = "sending"
    /\ ~tasksClosed
    /\ Len(tasks) < QueueCap
    /\ tasks' = Append(tasks, t)
    /\ sched' = [sched EXCEPT ![t] = "waiting"]
    /\ UNCHANGED <<poolVars, stopped, pc, doing, lockVars, closed, panicked, late>>

\* The select takes its send case after the channel was closed.
SendOnClosed(t) ==
    /\ sched[t] = "sending"
    /\ tasksClosed
    /\ panicked' = {t}
    /\ UNCHANGED <<poolVars, tasks, sched, stopped, pc, doing, lockVars, closed, late>>

\* The select takes its ctx.Done case.
GiveUp(t) ==
    /\ sched[t] = "sending"
    /\ ctxDone
    /\ sched' = [sched EXCEPT ![t] = "waiting"]
    /\ UNCHANGED <<poolVars, tasks, stopped, pc, doing, lockVars, closed, panicked, late>>

\* Neither case is ready: the goroutine sleeps in the channel's send queue.
Park(t) ==
    /\ sched[t] = "sending"
    /\ ~ctxDone /\ ~tasksClosed
    /\ Len(tasks) = QueueCap
    /\ sched' = [sched EXCEPT ![t] = "parked"]
    /\ UNCHANGED <<poolVars, tasks, stopped, pc, doing, lockVars, closed, panicked, late>>

\* The task's own context is cancelled: the goroutine ends.
Leave(t) ==
    /\ sched[t] = "waiting"
    /\ t \in stopped
    /\ sched' = [sched EXCEPT ![t] = "gone"]
    /\ UNCHANGED <<poolVars, tasks, stopped, pc, doing, lockVars, closed, panicked, late>>

-----------------------------------------------------------------------------
(* A worker. *)

\* Where Execute of a task begins.
FirstStep(t) ==
    CASE t \in IdleTasks -> "executing"
      [] t \in CollectTasks -> "call"
      [] t \in WriteTasks \cup ReadTasks -> "locking"

\* A receive from a full channel lets a sleeping sender in.
Receive(w) ==
    /\ pc[w] = "idle"
    /\ tasks # <<>>
    /\ doing' = [doing EXCEPT ![w] = {Head(tasks)}]
    /\ Goto(w, FirstStep(Head(tasks)))
    /\ \/ /\ \A t \in Tasks : sched[t] # "parked"
          /\ tasks' = Tail(tasks)
          /\ UNCHANGED sched
       \/ \E t \in Tasks :
             /\ sched[t] = "parked"
             /\ tasks' = Append(Tail(tasks), t)
             /\ sched' = [sched EXCEPT ![t] = "waiting"]
    /\ UNCHANGED <<poolVars, stopped, lockVars, closed, panicked, late>>

\* Mutant of LeavePool: a worker that returns on ctx.Done forgets wg.Done.
LeavePoolUncounted(w) ==
    /\ Goto(w, "gone")
    /\ wg' = IF ctxDone THEN wg ELSE wg - 1
LeavePool(w) ==
    /\ Goto(w, "gone")
    /\ wg' = wg - 1

\* The worker returns: the channel is closed and empty, or ctx.Done was chosen.
Exit(w) ==
    /\ pc[w] = "idle"
    /\ ctxDone \/ (tasksClosed /\ tasks = <<>>)
    /\ LeavePool(w)
    /\ UNCHANGED <<running, ctxDone, tasksClosed, tasks, sched, stopped, doing, lockVars,
                   closed, panicked, late>>

\* Mutant of Finish: an error of the task ends the worker.
FinishOrDie(w) ==
    /\ pc' \in {[pc EXCEPT ![w] = "idle"], [pc EXCEPT ![w] = "gone"]}
    /\ doing' = [doing EXCEPT ![w] = {}]
\* Whatever Execute returns, the worker goes back to its select.
Finish(w) ==
    /\ Goto(w, "idle")
    /\ doing' = [doing EXCEPT ![w] = {}]

\* Execute of a task that takes no lock.
Execute(w) ==
    /\ pc[w] = "executing"
    /\ Finish(w)
    /\ UNCHANGED <<poolVars, tasks, sched, stopped, lockVars, closed, panicked, late>>

-----------------------------------------------------------------------------
(* Nest.mu, and Nest.GarbageCollect. *)

\* The call returns: to its client, or to the worker that ran it as a task.
Return(a) == IF a \in Pool THEN Finish(a) ELSE Goto(a, "returned") /\ UNCHANGED doing

\* GarbageCollect reads closed before it asks for the lock.
CallCollect(a) ==
    /\ pc[a] = "call"
    /\ a \in Pool \cup Clients
    /\ IF closed THEN Return(a) ELSE Goto(a, "locking") /\ UNCHANGED doing
    /\ UNCHANGED <<poolVars, tasks, sched, stopped, lockVars, closed, panicked, late>>

Reads(a) == a \in Pool /\ doing[a] \subseteq ReadTasks

Lock(a) ==
    /\ pc[a] = "locking"
    /\ writer = {}
    /\ IF Reads(a)
         THEN readers' = readers \cup {a} /\ UNCHANGED writer
         ELSE readers = {} /\ writer' = {a} /\ UNCHANGED readers
    /\ Goto(a, "holding")
    /\ UNCHANGED <<poolVars, tasks, sched, stopped, doing, closed, panicked, late>>

Release(a) ==
    /\ writer' = writer \ {a}
    /\ readers' = readers \ {a}

\* The critical section ends: the collection, the checkpoint or the inspection is over.
Unlock(a) ==
    /\ pc[a] = "holding"
    /\ a \in Pool \cup Clients
    /\ Release(a)
    /\ Return(a)
    /\ UNCHANGED <<poolVars, tasks, sched, stopped, closed, panicked, late>>

-----------------------------------------------------------------------------
(* Nest.Close, which holds Nest.mu from its first step to its last, and      *)
(* WorkerPool.Stop within it.                                               *)

AlreadyClosed == closed

\* Close returns ErrDatabaseClosed, or cancels every periodic task.
StopTasks(c) ==
    /\ c \in Closers
    /\ pc[c] = "holding"
    /\ \/ AlreadyClosed /\ Release(c) /\ Goto(c, "refused") /\ UNCHANGED stopped
       \/ ~AlreadyClosed /\ stopped' = Tasks /\ Goto(c, "stopping") /\ UNCHANGED lockVars
    /\ UNCHANGED <<poolVars, tasks, sched, doing, closed, panicked, late>>

\* Mutant of AlreadyStopped: a second Stop is not recognised.
AlreadyStoppedUnchecked == FALSE
AlreadyStopped == ~running

\* Stop returns at once if the pool does not run; otherwise it clears running.
Stop(c) ==
    /\ pc[c] = "stopping"
    /\ running' = FALSE
    /\ Goto(c, IF AlreadyStopped THEN "persisting" ELSE "cancelling")
    /\ UNCHANGED <<ctxDone, tasksClosed, wg, tasks, sched, stopped, doing, lockVars, closed,
                   panicked, late>>

\* Mutant of AfterCancel: SubmitTask's send does not look at ctx.Done.
AfterCancelAsleep(place) == place
\* A sleeping sender wakes up with its ctx.Done case.
AfterCancel(place) == IF place = "parked" THEN "waiting" ELSE place

\* cancel() wakes every sleeping sender.
Cancel(c) ==
    /\ pc[c] = "cancelling"
    /\ ctxDone' = TRUE
    /\ sched' = [t \in Tasks |-> AfterCancel(sched[t])]
    /\ Goto(c, "closing")
    /\ UNCHANGED <<running, tasksClosed, wg, tasks, stopped, doing, lockVars, closed, panicked, late>>

\* close(wp.tasks), which panics on a channel that is closed already.
CloseChannel(c) ==
    /\ pc[c] = "closing"
    /\ tasksClosed' = TRUE
    /\ panicked' = IF tasksClosed THEN {c} ELSE panicked
    /\ Goto(c, "joining")
    /\ UNCHANGED <<running, ctxDone, wg, tasks, sched, stopped, doing, lockVars, closed, late>>

\* Mutant of Joined: Stop does not wait.
JoinedAtOnce == TRUE
Joined == wg = 0

\* wg.Wait() returns.
Join(c) ==
    /\ pc[c] = "joining"
    /\ Joined
    /\ Goto(c, "persisting")
    /\ UNCHANGED <<poolVars, tasks, sched, stopped, doing, lockVars, closed, panicked, late>>

\* Index, header and pages are written and the files closed; on an error Close
\* returns it and leaves closed as it was.
Persist(c) ==
    /\ pc[c] = "persisting"
    /\ \/ closed' = TRUE /\ Goto(c, "returned")
       \/ CloseMayFail /\ UNCHANGED closed /\ Goto(c, "failed")
    /\ Release(c)
    /\ UNCHANGED <<poolVars, tasks, sched, stopped, doing, panicked, late>>

-----------------------------------------------------------------------------
Scheduler(t) ==
    Tick(t) \/ Send(t) \/ SendOnClosed(t) \/ GiveUp(t) \/ Park(t) \/ Leave(t)

Worker(w) == Receive(w) \/ Exit(w) \/ Execute(w)

Closer(c) ==
    \/ StopTasks(c) \/ Stop(c) \/ Cancel(c) \/ CloseChannel(c)
    \/ Join(c) \/ Persist(c)

Next ==
    /\ panicked = {}
    /\ \/ \E t \in Tasks : Scheduler(t)
       \/ \E w \in Pool : Worker(w)
       \/ \E a \in Pool \cup Clients : CallCollect(a) \/ Unlock(a)
       \/ \E a \in Lockers : Lock(a)
       \/ \E c \in Closers : Closer(c)

Spec == Init /\ [][Next]_vars

Alive(A) == panicked = {} /\ A

(***************************************************************************)
(* Every goroutine that can run does, and Nest.mu goes to a goroutine that  *)
(* waits long enough, as Go's mutexes promise.  A select that stays ready   *)
(* takes one of its ready cases.  Ticks, and the calls of clients and       *)
(* closers, need not come.                                                  *)
(***************************************************************************)
Fairness ==
    /\ \A t \in Tasks :
          /\ WF_vars(Alive(Send(t) \/ GiveUp(t) \/ SendOnClosed(t) \/ Park(t)))
          /\ WF_vars(Alive(Leave(t)))
    /\ \A w \in Pool : WF_vars(Alive(Worker(w)))
    /\ \A a \in Pool \cup Clients :
          /\ WF_vars(Alive(CallCollect(a) \/ Unlock(a)))
          /\ SF_vars(Alive(Lock(a)))
    /\ \A c \in Closers : WF_vars(Alive(Closer(c)))

FairSpec == Spec /\ Fairness

-----------------------------------------------------------------------------
(* Properties. *)

\* Every variable has its type (WorkerPool's and Nest's fields), and the wait
\* group counts the workers that have not returned.
TypeOK ==
    /\ running \in BOOLEAN /\ ctxDone \in BOOLEAN /\ tasksClosed \in BOOLEAN /\ closed \in BOOLEAN
    /\ tasks \in Seq(Tasks) /\ Len(tasks) <= QueueCap
    /\ wg = Cardinality({w \in Pool : pc[w] # "gone"})
    /\ sched \in [Tasks -> {"waiting", "sending", "parked", "gone"}]
    /\ stopped \subseteq Tasks /\ late \subseteq Tasks
    /\ pc \in [Lockers -> {"idle", "executing", "call", "locking", "holding", "gone",
                           "stopping", "cancelling", "closing", "joining", "persisting",
                           "returned", "refused", "failed"}]
    /\ doing \in [Pool -> SUBSET Tasks]
    /\ writer \subseteq Lockers /\ readers \subseteq Pool
    /\ panicked \subseteq Tasks \cup Closers

\* While Close writes the index, the header and the pages, and after it, no worker
\* runs a task or will: Stop has waited for them all.  (A checkpoint in between
\* would sync and truncate beside it, on files already closed.)
PersistsAlone ==
    (closed \/ \E c \in Closers : pc[c] = "persisting") => \A w \in Pool : pc[w] = "gone"

\* The process panics in one way only: a periodic task sends on the closed channel
\* although its SubmitTask had read running before Stop cleared it.  One that asks
\* later is turned away, and no second Close closes the channel again.
OnlyEarlySendersPanic == panicked \subseteq Tasks \ late

\* A task the channel has accepted is executed, unless the pool is being stopped:
\* then the workers may leave it there.
AcceptedRuns ==
    \A t \in Tasks :
        (\E k \in DOMAIN tasks : tasks[k] = t) ~>
            \/ \E w \in Pool : doing[w] = {t}
            \/ ctxDone \/ panicked # {}

\* A periodic task's goroutine ends once Close has cancelled its context, wherever it
\* stood then, and even if Close itself never gets past its wait for the workers.
GoroutinesEnd ==
    \A t \in Tasks : t \in stopped ~> sched[t] = "gone" \/ panicked # {}

\* A Close that has taken Nest.mu returns, or the process has panicked, or a worker
\* waits for the very lock Close holds: nothing else can keep Close waiting.
CloseReturnsOrBlocks ==
    \A c \in Closers :
        pc[c] = "stopping" ~>
            \/ pc[c] \in {"returned", "failed"}
            \/ panicked # {}
            \/ \E w \in Pool : pc[w] = "locking" /\ writer = {c}

\* workers_test.go:725 "Close immediately (should wait for workers)": a Close that
\* has begun to stop the pool returns.  It does not when a worker that has received
\* a locking task meets Close in wg.Wait, which holds Nest.mu meanwhile.
CloseReturns ==
    \A c \in Closers :
        pc[c] = "stopping" ~> pc[c] \in {"returned", "failed"} \/ panicked # {}
=============================================================================
