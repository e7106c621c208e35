\* Two workers, three tasks, an owner that enqueues, waits and destroys
\* the pool in any order; fair scheduling of running threads.
CONSTANTS
    w1 = w1
    w2 = w2
    Workers <- MCWorkers
    MaxTasks = 3
SPECIFICATION FairSpec
\* The program ends when the pool is destroyed and every worker has left.
CHECK_DEADLOCK FALSE
PROPERTY WaitMeansAllDone
