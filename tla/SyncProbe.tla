------------------------------ MODULE SyncProbe ------------------------------
(***************************************************************************)
(* The Sync RPC (src/src/server/sync_service.cpp) composed with the upload *)
(* path of StorageManager: one client probes the server repeatedly while   *)
(* RPC threads upload, finalize and delete its files.                      *)
(*                                                                         *)
(* A probe reads the client's live FileRecords (listFiles, getAllFiles),   *)
(* diffs them against the file list the client sent (computeChanges), and *)
(* returns server_time, the wall clock in seconds.  Between probes the    *)
(* client may download a path (DownloadFile, getFileMetadata, getFile).    *)
(* The client's side of the protocol is the spec's: it sends back that     *)
(* server_time as last_sync_time in its next probe, and a download gives   *)
(* it the server's content of the path (spec 8, download path; the RPC    *)
(* itself is a stub that streams no chunk).                                *)
(***************************************************************************)
EXTENDS StorageManager, Integers

CONSTANTS
    ProbeClient,    \* the client that probes
    MaxProbes       \* bound on Sync RPCs

VARIABLES
    spc,            \* the probing RPC: "idle" or "reply"
    local,          \* the client's file list: path -> its content, or NoRecord
    changes,        \* the FileChanges computed by the current probe
    lastSync,       \* the last_sync_time the client sends
    reported,       \* history: paths some probe reported as CREATED
    probes          \* Sync RPCs so far

probeVars == <<spc, local, changes, lastSync, reported, probes>>

\* getAllFiles: SELECT * FROM files WHERE deleted = 0.
getAllFiles(c) == {p \in Paths : record[c][p] # NoRecord /\ ~record[c][p].deleted}

\* StorageManager::listFiles: getClientDB, then getAllFiles.
listFiles(c) == getAllFiles(c)

\* MetadataDB::getFile: SELECT * FROM files WHERE path = ?, with no filter
\* on deleted: a tombstoned row is returned like a live one.
getFile(c, p) == record[c][p]

\* StorageManager::getFileMetadata: getClientDB, then getFile.
getFileMetadata(c, p) == getFile(c, p)

\* computeChanges: a path both sides have is MODIFIED when the hashes
\* differ; a path only the server has is CREATED when it was modified
\* after last_sync_time.
computeChanges(c, files, last) ==
    {<<p, "MODIFIED">> : p \in {q \in listFiles(c) : files[q] # NoRecord
                                                     /\ files[q] # record[c][q].hash}}
    \cup
    {<<p, "CREATED">> : p \in {q \in listFiles(c) : files[q] = NoRecord
                                                    /\ record[c][q].mtime > last}}

-----------------------------------------------------------------------------
\* Sync: list the files and compute the changes, in one SQLite read.
SyncCompute ==
    /\ spc = "idle" /\ probes < MaxProbes
    /\ changes' = computeChanges(ProbeClient, local, lastSync)
    /\ spc' = "reply"
    /\ probes' = probes + 1
    /\ UNCHANGED <<local, lastSync, reported>>

\* Sync: stamp the response with system_clock::now() in seconds; the client
\* takes the changes and keeps server_time for its next probe.
SyncReply ==
    /\ spc = "reply"
    /\ lastSync' = clock
    /\ reported' = reported \cup {p \in Paths : <<p, "CREATED">> \in changes}
    /\ spc' = "idle"
    /\ UNCHANGED <<local, changes, probes>>

\* DownloadFile: NOT_FOUND when getFileMetadata finds no row, which changes
\* nothing; otherwise OK, and the client holds the server's content of the
\* path.  The client downloads between its probes.
DownloadFile(p) ==
    /\ spc = "idle"
    /\ getFileMetadata(ProbeClient, p) # NoRecord
    /\ local' = [local EXCEPT ![p] = getFileMetadata(ProbeClient, p).hash]
    /\ UNCHANGED <<spc, changes, lastSync, reported, probes>>

ProbeInit ==
    /\ Init
    /\ spc = "idle"
    /\ local \in [Paths -> {NoRecord} \cup {Intended(v) : v \in Versions}]
    /\ changes = {}
    \* A client that never synced sends 0, which is before every mtime the
    \* server's clock can produce; the model's clock starts at 0, so -1.
    /\ lastSync = -1
    /\ reported = {}
    /\ probes = 0

ProbeNext ==
    \/ Next /\ UNCHANGED probeVars
    \/ (SyncCompute \/ SyncReply \/ \E p \in Paths : DownloadFile(p)) /\ UNCHANGED vars

ProbeSpec == ProbeInit /\ [][ProbeNext]_<<vars, probeVars>>

-----------------------------------------------------------------------------
\* Between probes, every live file the client does not have and has not
\* been told about is still newer than the last_sync_time the client will
\* send, so the next probe reports it: no file is missed for good.
NoMissedFile ==
    spc = "idle" =>
        \A p \in getAllFiles(ProbeClient) :
            local[p] = NoRecord /\ p \notin reported =>
                record[ProbeClient][p].mtime > lastSync

=============================================================================
