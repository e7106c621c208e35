\* One client that probes twice while one thread uploads a one-chunk file
\* to it; the clock may move from second 0 to second 1.
CONSTANTS
    Clients = {c1}
    Paths = {p1}
    Threads = {t1}
    d1 = d1
    d2 = d2
    Versions <- MCVersionsShrink
    MaxClock = 1
    MaxCrashes = 0
    MaxUploads = 1
    ClientMayDisconnect = FALSE
    SerialPerPath = TRUE
    NoChunk = NoChunk
    NoRecord = NoRecord
    ProbeClient = c1
    MaxProbes = 2
SPECIFICATION ProbeSpec
\* The bounded client and server stop after their requests.
CHECK_DEADLOCK FALSE
INVARIANT NoMissedFile
