\* One thread; a client stream may end early, after which the RPC still
\* finalizes with the declared total_chunks.
CONSTANTS
    Clients = {c1}
    Paths = {p1}
    Threads = {t1}
    d1 = d1
    d2 = d2
    Versions <- MCVersions
    MaxClock = 0
    MaxCrashes = 0
    MaxUploads = 2
    ClientMayDisconnect = TRUE
    SerialPerPath = TRUE
    NoChunk = NoChunk
    NoRecord = NoRecord
SYMMETRY MCSymmetry
SPECIFICATION Spec
\* The server idles once the bounded clients have sent every request.
CHECK_DEADLOCK FALSE
INVARIANT RecordMatchesUpload
