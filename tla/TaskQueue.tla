------------------------------ MODULE TaskQueue ------------------------------
(***************************************************************************)
(* What a FIFO task pool promises, without threads: tasks are enqueued in  *)
(* order, each is started exactly once in the order it was enqueued, and   *)
(* each started task finishes.                                             *)
(***************************************************************************)
EXTENDS Naturals, Sequences, FiniteSets

CONSTANT MaxTasks          \* tasks are numbered 1 .. MaxTasks

VARIABLES
    queue,                 \* tasks enqueued and not started, oldest first
    running,               \* tasks started and not finished
    finished               \* tasks finished

Enqueued == {queue[i] : i \in DOMAIN queue} \cup running \cup finished

Init ==
    /\ queue = <<>>
    /\ running = {}
    /\ finished = {}

\* The next task, numbered after all earlier ones, joins the queue.
Enqueue ==
    LET x == Len(queue) + Cardinality(running) + Cardinality(finished) + 1 IN
    /\ x <= MaxTasks
    /\ queue' = Append(queue, x)
    /\ UNCHANGED <<running, finished>>

\* The oldest queued task starts.
Start ==
    /\ queue # <<>>
    /\ queue' = Tail(queue)
    /\ running' = running \cup {Head(queue)}
    /\ UNCHANGED finished

\* A started task finishes.
Finish(x) ==
    /\ x \in running
    /\ running' = running \ {x}
    /\ finished' = finished \cup {x}
    /\ UNCHANGED queue

Next == Enqueue \/ Start \/ \E x \in running : Finish(x)

Spec == Init /\ [][Next]_<<queue, running, finished>>

=============================================================================
