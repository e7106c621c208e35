\* One client uploads a path twice with the two RPCs in flight at once (a
\* retry while the first handler still runs); no crash, no disconnect.
CONSTANTS
    Clients = {c1}
    Paths = {p1}
    Threads = {t1, t2}
    d1 = d1
    d2 = d2
    Versions <- MCVersionsShrink
    MaxClock = 0
    MaxCrashes = 0
    MaxUploads = 2
    ClientMayDisconnect = FALSE
    SerialPerPath = FALSE
    NoChunk = NoChunk
    NoRecord = NoRecord
SYMMETRY MCSymmetry
SPECIFICATION Spec
\* The server idles once the bounded clients have sent every request.
CHECK_DEADLOCK FALSE
INVARIANT RecordChunksAligned
