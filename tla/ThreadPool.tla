----------------------------- MODULE ThreadPool -----------------------------
(***************************************************************************)
(* dropboxlite::ThreadPool (src/src/common/thread_pool.cpp and the         *)
(* enqueue template in src/include/common/thread_pool.h): worker threads   *)
(* take std::function tasks from a queue guarded by queue_mutex_, sleep on *)
(* condition_ while it is empty, and count running tasks in the atomic     *)
(* active_tasks_; wait() sleeps on wait_condition_ until the queue is      *)
(* empty and no task is active; the destructor sets stop_ and joins.       *)
(*                                                                         *)
(* One owner thread enqueues, waits and finally destroys the pool, as the  *)
(* tests do.  A step that holds queue_mutex_ from lock to unlock is one    *)
(* atomic step; only wait() holds the mutex across two steps (between      *)
(* evaluating its predicate and going to sleep), so the workers' critical  *)
(* sections are disabled there.  active_tasks_++, -- and the notify_all    *)
(* of wait_condition_ run without the mutex.  A condition variable may     *)
(* also wake a sleeper spuriously.                                         *)
(***************************************************************************)
EXTENDS Naturals, Sequences, FiniteSets

CONSTANTS
    Workers,        \* the worker threads (model values)
    MaxTasks        \* bound on the number of tasks the owner enqueues

VARIABLES
    tasks,          \* tasks_: queued task ids, oldest first
    stop,           \* stop_
    active,         \* active_tasks_
    enq,            \* number of tasks enqueued so far (task ids 1 .. enq)
    done,           \* ids of the tasks that have run
    wpc,            \* program counter of each worker
    wtask,          \* the task each worker popped
    opc             \* program counter of the owner thread

vars == <<tasks, stop, active, enq, done, wpc, wtask, opc>>

NoTask == 0

-----------------------------------------------------------------------------
(* Worker loop (constructor lambda).                                       *)

\* Mutant: the worker leaves as soon as stop_ is set.
workerTakeExitOnStop(w) ==
    /\ wpc[w] = "top"
    /\ opc # "wait_block"
    /\ \/ /\ ~stop /\ tasks = <<>>
          /\ wpc' = [wpc EXCEPT ![w] = "sleep"]
          /\ UNCHANGED <<tasks, wtask>>
       \/ /\ stop
          /\ wpc' = [wpc EXCEPT ![w] = "exited"]
          /\ UNCHANGED <<tasks, wtask>>
       \/ /\ ~stop /\ tasks # <<>>
          /\ wtask' = [wtask EXCEPT ![w] = Head(tasks)]
          /\ tasks' = Tail(tasks)
          /\ wpc' = [wpc EXCEPT ![w] = "inc"]
    /\ UNCHANGED <<stop, active, enq, done, opc>>

\* Mutant: the front task is taken without tasks_.pop().
workerTakeNoPop(w) ==
    /\ wpc[w] = "top"
    /\ opc # "wait_block"
    /\ \/ /\ ~stop /\ tasks = <<>>
          /\ wpc' = [wpc EXCEPT ![w] = "sleep"]
          /\ UNCHANGED <<tasks, wtask>>
       \/ /\ stop /\ tasks = <<>>
          /\ wpc' = [wpc EXCEPT ![w] = "exited"]
          /\ UNCHANGED <<tasks, wtask>>
       \/ /\ tasks # <<>>
          /\ wtask' = [wtask EXCEPT ![w] = Head(tasks)]
          /\ wpc' = [wpc EXCEPT ![w] = "inc"]
          /\ UNCHANGED tasks
    /\ UNCHANGED <<stop, active, enq, done, opc>>

\* Lock queue_mutex_, condition_.wait(lock, stop_ || !tasks_.empty()):
\* sleep if the predicate is false; otherwise leave if stopped with nothing
\* queued, or pop the front task; unlock.
workerTake(w) ==
    /\ wpc[w] = "top"
    /\ opc # "wait_block"                 \* wait() holds queue_mutex_
    /\ \/ /\ ~stop /\ tasks = <<>>
          /\ wpc' = [wpc EXCEPT ![w] = "sleep"]
          /\ UNCHANGED <<tasks, wtask>>
       \/ /\ stop /\ tasks = <<>>
          /\ wpc' = [wpc EXCEPT ![w] = "exited"]
          /\ UNCHANGED <<tasks, wtask>>
       \/ /\ tasks # <<>>
          /\ wtask' = [wtask EXCEPT ![w] = Head(tasks)]
          /\ tasks' = Tail(tasks)
          /\ wpc' = [wpc EXCEPT ![w] = "inc"]
    /\ UNCHANGED <<stop, active, enq, done, opc>>

\* active_tasks_++
workerInc(w) ==
    /\ wpc[w] = "inc"
    /\ active' = active + 1
    /\ wpc' = [wpc EXCEPT ![w] = "run"]
    /\ UNCHANGED <<tasks, stop, enq, done, wtask, opc>>

\* task()
workerRun(w) ==
    /\ wpc[w] = "run"
    /\ done' = done \cup {wtask[w]}
    /\ wpc' = [wpc EXCEPT ![w] = "dec"]
    /\ UNCHANGED <<tasks, stop, active, enq, wtask, opc>>

\* active_tasks_--
workerDec(w) ==
    /\ wpc[w] = "dec"
    /\ active' = active - 1
    /\ wpc' = [wpc EXCEPT ![w] = "notify"]
    /\ UNCHANGED <<tasks, stop, enq, done, wtask, opc>>

\* wait_condition_.notify_all(): wakes the owner if it sleeps in wait().
workerNotify(w) ==
    /\ wpc[w] = "notify"
    /\ opc' = IF opc = "wait_sleep" THEN "wait_check" ELSE opc
    /\ wpc' = [wpc EXCEPT ![w] = "top"]
    /\ wtask' = [wtask EXCEPT ![w] = NoTask]
    /\ UNCHANGED <<tasks, stop, active, enq, done>>

-----------------------------------------------------------------------------
(* Owner thread.                                                           *)

\* Mutant: the new task gets the id of the previous one.
enqueuePushOffByOne ==
    /\ opc = "idle"
    /\ enq < MaxTasks
    /\ enq' = enq + 1
    /\ tasks' = Append(tasks, enq)
    /\ opc' = "enqueue_notify"
    /\ UNCHANGED <<stop, active, done, wpc, wtask>>

\* enqueue: lock; stop_ is false (the owner enqueues only before it
\* destroys the pool); tasks_.emplace; unlock.
enqueuePush ==
    /\ opc = "idle"
    /\ enq < MaxTasks
    /\ enq' = enq + 1
    /\ tasks' = Append(tasks, enq + 1)
    /\ opc' = "enqueue_notify"
    /\ UNCHANGED <<stop, active, done, wpc, wtask>>

\* Mutant: enqueue does not notify condition_.
enqueueNotifyNone ==
    /\ opc = "enqueue_notify"
    /\ opc' = "idle"
    /\ UNCHANGED <<tasks, stop, active, enq, done, wpc, wtask>>

\* enqueue: condition_.notify_one() wakes one sleeping worker, if any.
enqueueNotify ==
    /\ opc = "enqueue_notify"
    /\ opc' = "idle"
    /\ \/ \E w \in Workers :
             /\ wpc[w] = "sleep"
             /\ wpc' = [wpc EXCEPT ![w] = "top"]
       \/ /\ \A w \in Workers : wpc[w] # "sleep"
          /\ UNCHANGED wpc
    /\ UNCHANGED <<tasks, stop, active, enq, done, wtask>>

\* wait(): lock queue_mutex_ and evaluate tasks_.empty() && active_tasks_ == 0;
\* return if it holds, else keep the mutex and go to sleep.
waitBegin ==
    /\ opc = "idle"
    /\ opc' = "wait_check"
    /\ UNCHANGED <<tasks, stop, active, enq, done, wpc, wtask>>

waitCheck ==
    /\ opc = "wait_check"
    /\ opc' = IF tasks = <<>> /\ active = 0 THEN "idle" ELSE "wait_block"
    /\ UNCHANGED <<tasks, stop, active, enq, done, wpc, wtask>>

\* wait_condition_.wait releases the mutex and sleeps, atomically.
waitBlock ==
    /\ opc = "wait_block"
    /\ opc' = "wait_sleep"
    /\ UNCHANGED <<tasks, stop, active, enq, done, wpc, wtask>>

\* ~ThreadPool: lock; stop_ = true; unlock.
destroyStop ==
    /\ opc = "idle"
    /\ stop' = TRUE
    /\ opc' = "destroy_notify"
    /\ UNCHANGED <<tasks, active, enq, done, wpc, wtask>>

\* Mutant: the destructor does not notify condition_.
destroyNotifyNone ==
    /\ opc = "destroy_notify"
    /\ opc' = "destroy_join"
    /\ UNCHANGED <<tasks, stop, active, enq, done, wpc, wtask>>

\* ~ThreadPool: condition_.notify_all().
destroyNotify ==
    /\ opc = "destroy_notify"
    /\ wpc' = [w \in Workers |-> IF wpc[w] = "sleep" THEN "top" ELSE wpc[w]]
    /\ opc' = "destroy_join"
    /\ UNCHANGED <<tasks, stop, active, enq, done, wtask>>

\* ~ThreadPool: worker.join() for every worker.
destroyJoin ==
    /\ opc = "destroy_join"
    /\ \A w \in Workers : wpc[w] = "exited"
    /\ opc' = "destroyed"
    /\ UNCHANGED <<tasks, stop, active, enq, done, wpc, wtask>>

\* A condition variable may return from wait without a notification.
SpuriousWakeup ==
    \/ /\ opc = "wait_sleep"
       /\ opc' = "wait_check"
       /\ UNCHANGED wpc
    \/ \E w \in Workers :
          /\ wpc[w] = "sleep"
          /\ wpc' = [wpc EXCEPT ![w] = "top"]
          /\ UNCHANGED opc

-----------------------------------------------------------------------------
Init ==
    /\ tasks = <<>>
    /\ stop = FALSE
    /\ active = 0
    /\ enq = 0
    /\ done = {}
    /\ wpc = [w \in Workers |-> "top"]
    /\ wtask = [w \in Workers |-> NoTask]
    /\ opc = "idle"

WorkerStep(w) ==
    workerTake(w) \/ workerInc(w) \/ workerRun(w) \/ workerDec(w) \/ workerNotify(w)

OwnerStep ==
    \/ enqueuePush \/ enqueueNotify
    \/ waitBegin \/ waitCheck \/ waitBlock
    \/ destroyStop \/ destroyNotify \/ destroyJoin

Next ==
    \/ \E w \in Workers : WorkerStep(w)
    \/ OwnerStep
    \/ /\ SpuriousWakeup
       /\ UNCHANGED <<tasks, stop, active, enq, done, wtask>>

\* Threads that can run keep running: every worker, and the owner once it
\* is inside enqueue, wait or the destructor.  Whether the owner starts one
\* of those calls is its own choice.  Spurious wakeups are neither promised
\* nor endless: a behaviour has only finitely many of them.
Fairness ==
    /\ \A w \in Workers : WF_vars(WorkerStep(w))
    /\ WF_vars(enqueueNotify \/ waitCheck \/ waitBlock \/ destroyNotify \/ destroyJoin)
    /\ <>[][~SpuriousWakeup]_vars

Spec == Init /\ [][Next]_vars
FairSpec == Spec /\ Fairness

-----------------------------------------------------------------------------
TypeOK ==
    /\ tasks \in Seq(1 .. MaxTasks)
    /\ stop \in BOOLEAN
    /\ active \in 0 .. Cardinality(Workers)
    /\ enq \in 0 .. MaxTasks
    /\ done \subseteq 1 .. MaxTasks
    /\ wpc \in [Workers -> {"top", "sleep", "inc", "run", "dec", "notify", "exited"}]
    /\ wtask \in [Workers -> 0 .. MaxTasks]
    /\ opc \in {"idle", "enqueue_notify", "wait_check", "wait_block", "wait_sleep",
                "destroy_notify", "destroy_join", "destroyed"}

\* The destructor drains the pool: once every worker has left its loop,
\* nothing is queued and every task enqueued has run (a worker leaves only
\* when stop_ is set and tasks_ is empty, after finishing its own task).
DrainedOnExit ==
    (\A w \in Workers : wpc[w] = "exited") => (tasks = <<>> /\ done = 1 .. enq)

\* The pool behaves as a FIFO task queue: tasks start in the order they
\* were enqueued, each exactly once, and each started task finishes.
Running == {wtask[w] : w \in {x \in Workers : wpc[x] \in {"inc", "run"}}}
TQ == INSTANCE TaskQueue WITH queue <- tasks, running <- Running, finished <- done
ImplementsTaskQueue == TQ!Spec

\* Every enqueued task eventually runs: a worker asleep on condition_ is
\* woken by enqueue's notify_one.
Queued == {tasks[i] : i \in DOMAIN tasks}
NoTaskLost == \A x \in 1 .. MaxTasks : (x \in Queued) ~> (x \in done)

\* Once the destructor has set stop_, it returns: every worker wakes,
\* drains the queue and leaves, and the joins complete.
DestroyCompletes == (opc = "destroy_notify") ~> (opc = "destroyed")

\* wait() returns only when every task enqueued before it has run ("Wait
\* for all tasks to complete", thread_pool.h; test ThreadPoolTest.Wait).
WaitMeansAllDone ==
    [][(opc = "wait_check" /\ opc' = "idle") => done = 1 .. enq]_vars

\* A call of wait() returns once the pool is idle.
WaitReturns == (opc = "wait_check") ~> (opc = "idle")

=============================================================================
