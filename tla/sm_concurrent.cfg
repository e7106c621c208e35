\* Two handler threads, two clients sharing chunks, a crash, dropped
\* client streams, and uploads of one path that overlap.
CONSTANTS
    Clients = {c1, c2}
    Paths = {p1}
    Threads = {t1, t2}
    d1 = d1
    d2 = d2
    Versions <- MCVersionsShrink
    MaxClock = 1
    MaxCrashes = 1
    MaxUploads = 3
    ClientMayDisconnect = TRUE
    SerialPerPath = FALSE
    NoChunk = NoChunk
    NoRecord = NoRecord
SYMMETRY MCSymmetry
SPECIFICATION Spec
\* The server idles once the bounded clients have sent every request.
CHECK_DEADLOCK FALSE
INVARIANT TypeOK
