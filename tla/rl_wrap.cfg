\* Two threads acquiring 1 or 3 tokens, never more than the burst of 3, at
\* rate 1; the clock and the threads are fair.
CONSTANTS
    t1 = t1
    t2 = t2
    Threads <- MCTwoThreads
    Requests = {1, 3}
    Rates = {1}
    InitRate = 1
    InitBurst = 3
    MaxCalls = 2
    MaxSetRate = 0
    MaxElapsed = 3
SPECIFICATION FairSpec
\* The threads stop after their calls and the clock is capped.
CHECK_DEADLOCK FALSE
PROPERTY AcquireReturns
