\* Two threads, two clients uploading files that share chunks; no crash,
\* no disconnect, no overlapping uploads of one path.
CONSTANTS
    Clients = {c1, c2}
    Paths = {p1}
    Threads = {t1, t2}
    d1 = d1
    d2 = d2
    Versions <- MCVersionsShrink
    MaxClock = 0
    MaxCrashes = 0
    MaxUploads = 2
    ClientMayDisconnect = FALSE
    SerialPerPath = TRUE
    NoChunk = NoChunk
    NoRecord = NoRecord
SYMMETRY MCSymmetry
SPECIFICATION Spec
\* The server idles once the bounded clients have sent every request.
CHECK_DEADLOCK FALSE
INVARIANT RecordIntact
