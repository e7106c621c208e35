\* One thread; a file of two chunks is re-uploaded with one chunk.
CONSTANTS
    Clients = {c1}
    Paths = {p1}
    Threads = {t1}
    d1 = d1
    d2 = d2
    Versions <- MCVersionsShrink
    MaxClock = 0
    MaxCrashes = 0
    MaxUploads = 2
    ClientMayDisconnect = FALSE
    SerialPerPath = TRUE
    NoChunk = NoChunk
    NoRecord = NoRecord
SYMMETRY MCSymmetry
SPECIFICATION Spec
\* The server idles once the bounded clients have sent every request.
CHECK_DEADLOCK FALSE
INVARIANT CompleteUploadNotRejected
