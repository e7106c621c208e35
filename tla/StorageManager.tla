--------------------------- MODULE StorageManager ---------------------------
(***************************************************************************)
(* The server's upload path: StorageManager::storeChunk and finalizeFile   *)
(* (src/src/server/storage_manager.cpp) driven by the UploadFile RPC       *)
(* handler (src/src/server/sync_service.cpp), over the shared chunk store  *)
(* on disk and each client's MetadataDB (src/src/core/metadata_db.cpp).    *)
(*                                                                         *)
(* Every RPC runs on its own server thread.  A thread serves one RPC at a  *)
(* time and goes back to idle.  Each SQLite statement is one atomic step   *)
(* (autocommit, serialized connection); a blob write is three steps        *)
(* (open-and-truncate, write, close) because the file is written in place  *)
(* and other threads see it in between.                                    *)
(*                                                                         *)
(* Data is abstracted: a chunk's bytes are its digest (a model value); a   *)
(* blob on disk is in one of four states; a file's content is the sequence *)
(* of <<digest, blob state read>> pairs appended to the staging file.      *)
(* SHA-256 of a file is modelled by the content it is of: under the        *)
(* collision-resistance assumption the digest is an injective function of  *)
(* the content, and equality of digests is all the code ever uses.         *)
(***************************************************************************)
EXTENDS Naturals, Sequences, FiniteSets, SequencesExt

CONSTANTS
    Clients,              \* client ids (model values)
    Paths,                \* file paths (model values)
    Threads,              \* RPC handler threads of the server
    Versions,             \* file versions a client may upload: sequences of chunk digests
    MaxClock,             \* bound on the wall clock, in seconds
    MaxCrashes,           \* bound on server process crashes
    MaxUploads,           \* bound on the number of UploadFile RPCs
    ClientMayDisconnect,  \* TRUE: a client stream may end before all chunks are sent
    SerialPerPath,        \* TRUE: a client never has two uploads of one path in flight
    NoChunk,              \* sentinel: no binding at this (path, index)
    NoRecord              \* sentinel: no row in files for this path

Digests == UNION {ToSet(v) : v \in Versions}
MaxChunks == Max({Len(v) : v \in Versions})
Idx == 0 .. MaxChunks - 1

ASSUME \A v \in Versions : Len(v) >= 1

\* On-disk state of <root>/chunks/<h[0:2]>/<h>.
BlobStates == {"absent", "empty", "partial", "full"}

VARIABLES
    blob,       \* chunk store: digest -> state of its file
    bindings,   \* chunks table of each client DB: client -> path -> index -> digest
    record,     \* files table of each client DB: client -> path -> FileRecord
    staging,    \* <root>/clients/<client>/<path>: client -> path -> content
    clock,      \* system_clock::now() in seconds
    crashes,    \* number of server crashes so far
    uploads,    \* number of UploadFile RPCs so far
    pc,         \* program counter of each handler thread
    cl, pa,     \* client_id and filepath of the thread's current RPC
    ver,        \* the version the client streams (its chunks in index order)
    sent,       \* UploadFile: number of chunks received so far
    fhashes,    \* finalizeFile: chunk_hashes read from the DB
    fpos,       \* finalizeFile: loop position in chunk_hashes
    uploaded    \* history: versions some UploadFile RPC carried, per client and path

threadVars == <<pc, cl, pa, ver, sent, fhashes, fpos>>
vars == <<blob, bindings, record, staging, clock, crashes, uploads, uploaded, threadVars>>

\* A unit of a staging file: the chunk written there and how much of it the
\* writer had read, or a hole of zero bytes left by a write past the end.
Hole == <<NoChunk, "hole">>
Content == Seq((Digests \X {"partial", "full"}) \cup {Hole})

\* The fields of struct FileRecord the model keeps.
FileRecord == [hash : Content, version : Nat, deleted : BOOLEAN, mtime : 0 .. MaxClock]

\* The content a client means by version v: every chunk complete.
Intended(v) == [i \in 1 .. Len(v) |-> <<v[i], "full">>]

(***************************************************************************)
(* MetadataDB::getFileChunks: SELECT hash FROM chunks WHERE file_path = ?  *)
(* ORDER BY chunk_index.                                                   *)
(***************************************************************************)
getFileChunks(c, p) ==
    LET bound == SetToSortSeq({i \in Idx : bindings[c][p][i] # NoChunk}, <)
    IN  [k \in 1 .. Len(bound) |-> bindings[c][p][bound[k]]]

\* The thread leaves its RPC and is ready for the next one.
Return(t) ==
    /\ pc' = [pc EXCEPT ![t] = "idle"]
    /\ UNCHANGED <<cl, pa, ver, sent, fhashes, fpos>>

Goto(t, l) == pc' = [pc EXCEPT ![t] = l]

\* A write of x at position k of file s through an ofstream whose offset is
\* k: it overwrites what is there, or extends the file, leaving a hole if
\* another writer truncated the file under it.
WriteAt(s, k, x) ==
    [i \in 1 .. IF k > Len(s) THEN k ELSE Len(s) |->
        IF i = k THEN x ELSE IF i <= Len(s) THEN s[i] ELSE Hole]

-----------------------------------------------------------------------------
(* UploadFile: the first message carries client_id, file_path and          *)
(* total_chunks; every message carries one chunk.  The server does not     *)
(* stop a client from having two uploads of one path in flight (a retry    *)
(* after a timeout while the first handler still runs); SerialPerPath      *)
(* assumes clients that never do.                                          *)
UploadFile(t, c, p, v) ==
    /\ pc[t] = "idle"
    /\ SerialPerPath => \A u \in Threads : pc[u] # "idle" => <<cl[u], pa[u]>> # <<c, p>>
    /\ pc' = [pc EXCEPT ![t] = "check"]
    /\ cl' = [cl EXCEPT ![t] = c]
    /\ pa' = [pa EXCEPT ![t] = p]
    /\ ver' = [ver EXCEPT ![t] = v]
    /\ sent' = [sent EXCEPT ![t] = 0]
    /\ uploads < MaxUploads
    /\ uploads' = uploads + 1
    /\ uploaded' = [uploaded EXCEPT ![c][p] = @ \cup {v}]
    /\ UNCHANGED <<blob, bindings, record, staging, clock, crashes, fhashes, fpos>>

\* The digest of the chunk the thread is storing.
Cur(t) == ver[t][sent[t] + 1]

(***************************************************************************)
(* MetadataDB row operations, each one SQLite statement.                   *)
(***************************************************************************)
\* insertChunk: INSERT OR REPLACE INTO chunks, keyed by (file_path, chunk_index).
insertChunk(c, p, i, d) == bindings' = [bindings EXCEPT ![c][p][i] = d]

\* insertOrUpdateFile: INSERT OR REPLACE INTO files, keyed by path.
insertOrUpdateFile(c, p, r) == record' = [record EXCEPT ![c][p] = r]

\* MetadataDB::deleteFile: UPDATE files SET deleted = 1 WHERE path = ?
tombstone(c, p) ==
    record' = IF record[c][p] = NoRecord THEN record
              ELSE [record EXCEPT ![c][p].deleted = TRUE]

\* StorageManager::getChunk: the whole file as it is now, or nothing when it
\* cannot be opened; a file of size 0 reads as nothing too.
NoData == <<NoChunk, "none">>
getChunk(d) == IF blob[d] \in {"absent", "empty"} THEN NoData ELSE <<d, blob[d]>>

-----------------------------------------------------------------------------
\* storeChunk: std::filesystem::exists(chunk_path).
storeChunkExists(t) ==
    /\ pc[t] = "check"
    /\ Goto(t, IF blob[Cur(t)] = "absent" THEN "open" ELSE "bind")
    /\ UNCHANGED <<blob, bindings, record, staging, clock, crashes, uploads, uploaded,
                   cl, pa, ver, sent, fhashes, fpos>>

\* storeChunk: std::ofstream file(chunk_path) creates or truncates the file;
\* if it cannot be opened storeChunk returns false and UploadFile answers
\* "Failed to store chunk" without finalizing.
storeChunkOpen(t) ==
    /\ pc[t] = "open"
    /\ \/ /\ blob' = [blob EXCEPT ![Cur(t)] = "empty"]
          /\ Goto(t, "write")
          /\ UNCHANGED <<cl, pa, ver, sent, fhashes, fpos>>
       \/ /\ Return(t)
          /\ UNCHANGED blob
    /\ UNCHANGED <<bindings, record, staging, clock, crashes, uploads, uploaded>>

\* storeChunk: file.write(...) puts the bytes into the file in place.  Over
\* a blob another writer already completed the same bytes are rewritten.
storeChunkWrite(t) ==
    /\ pc[t] = "write"
    /\ blob' = [blob EXCEPT ![Cur(t)] = IF @ = "full" THEN "full" ELSE "partial"]
    /\ Goto(t, "close")
    /\ UNCHANGED <<bindings, record, staging, clock, crashes, uploads, uploaded,
                   cl, pa, ver, sent, fhashes, fpos>>

\* storeChunk: the ofstream is closed at the end of its scope, then
\* getClientDB and insertChunk, whose failure fails the RPC.  UploadFile
\* then reads the next message: the next chunk, or the end of the stream,
\* after which it finalizes.
storeChunkBind(t) ==
    /\ pc[t] \in {"close", "bind"}
    /\ blob' = IF pc[t] = "close" THEN [blob EXCEPT ![Cur(t)] = "full"] ELSE blob
    /\ LET i == sent[t]  done == i + 1 = Len(ver[t]) IN
       \/ /\ insertChunk(cl[t], pa[t], i, Cur(t))
          /\ sent' = [sent EXCEPT ![t] = i + 1]
          /\ \/ /\ ~done
                /\ Goto(t, "check")
             \/ /\ done \/ ClientMayDisconnect
                /\ Goto(t, "finalize")
          /\ UNCHANGED <<cl, pa, ver, fhashes, fpos>>
       \/ /\ Return(t)         \* the INSERT failed
          /\ UNCHANGED bindings
    /\ UNCHANGED <<record, staging, clock, crashes, uploads, uploaded>>

-----------------------------------------------------------------------------
(* finalizeFile(client_id, filepath, total_chunks).                        *)

\* getClientDB and getFileChunks; a count different from total_chunks is
\* an incomplete upload and finalizeFile returns false.
finalizeFileBegin(t) ==
    /\ pc[t] = "finalize"
    /\ LET hs == getFileChunks(cl[t], pa[t]) IN
       \/ /\ Len(hs) # Len(ver[t])
          /\ Return(t)
       \/ /\ Len(hs) = Len(ver[t])
          /\ fhashes' = [fhashes EXCEPT ![t] = hs]
          /\ Goto(t, "reopen")
          /\ UNCHANGED <<cl, pa, ver, sent, fpos>>
    /\ UNCHANGED <<blob, bindings, record, staging, clock, crashes, uploads, uploaded>>

\* std::ofstream on the staging path truncates it; if it cannot be opened
\* finalizeFile returns false.  No lock is held: another finalize of the
\* same client and path may be writing the file at this moment.
finalizeFileOpen(t) ==
    /\ pc[t] = "reopen"
    /\ \/ /\ staging' = [staging EXCEPT ![cl[t]][pa[t]] = <<>>]
          /\ fpos' = [fpos EXCEPT ![t] = 1]
          /\ Goto(t, "append")
          /\ UNCHANGED <<cl, pa, ver, sent, fhashes>>
       \/ /\ Return(t)
          /\ UNCHANGED staging
    /\ UNCHANGED <<blob, bindings, record, clock, crashes, uploads, uploaded>>

\* Mutant: an empty read of a chunk is not treated as a failure.
finalizeFileAppendNoEmptyCheck(t) ==
    /\ pc[t] = "append"
    /\ LET c == cl[t]  p == pa[t]  data == getChunk(fhashes[t][fpos[t]]) IN
       /\ staging' = [staging EXCEPT ![c][p] = WriteAt(@, fpos[t], data)]
       /\ fpos' = [fpos EXCEPT ![t] = @ + 1]
       /\ Goto(t, IF fpos[t] = Len(fhashes[t]) THEN "commit" ELSE "append")
    /\ UNCHANGED <<blob, bindings, record, clock, crashes, uploads, uploaded,
                   cl, pa, ver, sent, fhashes>>

\* One iteration of the reconstruction loop: getChunk, and an empty result
\* makes finalizeFile return false with the staging file left as written
\* so far; otherwise the data is written at the thread's own offset.
finalizeFileAppend(t) ==
    /\ pc[t] = "append"
    /\ LET c == cl[t]  p == pa[t]  data == getChunk(fhashes[t][fpos[t]]) IN
       \/ /\ data = NoData
          /\ Return(t)
          /\ UNCHANGED staging
       \/ /\ data # NoData
          /\ staging' = [staging EXCEPT ![c][p] = WriteAt(@, fpos[t], data)]
          /\ fpos' = [fpos EXCEPT ![t] = @ + 1]
          /\ Goto(t, IF fpos[t] = Len(fhashes[t]) THEN "commit" ELSE "append")
          /\ UNCHANGED <<cl, pa, ver, sent, fhashes>>
    /\ UNCHANGED <<blob, bindings, record, clock, crashes, uploads, uploaded>>

\* Close, file_size and sha256File of the staging file as it is now, then
\* insertOrUpdateFile with version 1; the statement may fail.
finalizeFileCommit(t) ==
    /\ pc[t] = "commit"
    /\ \/ insertOrUpdateFile(cl[t], pa[t],
              [hash |-> staging[cl[t]][pa[t]], version |-> 1,
               deleted |-> FALSE, mtime |-> clock])
       \/ UNCHANGED record
    /\ Return(t)
    /\ UNCHANGED <<blob, bindings, staging, clock, crashes, uploads, uploaded>>

-----------------------------------------------------------------------------
\* StorageManager::deleteFile, a request served by an idle thread.
deleteFile(t, c, p) ==
    /\ pc[t] = "idle"
    /\ tombstone(c, p)
    /\ UNCHANGED <<blob, bindings, staging, clock, crashes, uploads, uploaded, threadVars>>

\* The wall clock advances by one second.
Tick ==
    /\ clock < MaxClock
    /\ clock' = clock + 1
    /\ UNCHANGED <<blob, bindings, record, staging, crashes, uploads, uploaded, threadVars>>

\* The server process dies and is restarted: every RPC in flight is lost;
\* what is on disk (blobs, staging files, committed SQLite rows) survives.
\* A blob whose writer had not closed it keeps what reached the disk.
Crash ==
    /\ crashes < MaxCrashes
    /\ crashes' = crashes + 1
    /\ pc' = [t \in Threads |-> "idle"]
    /\ UNCHANGED <<blob, bindings, record, staging, clock, uploads, uploaded,
                   cl, pa, ver, sent, fhashes, fpos>>

-----------------------------------------------------------------------------
Init ==
    /\ blob = [d \in Digests |-> "absent"]
    /\ bindings = [c \in Clients |-> [p \in Paths |-> [i \in Idx |-> NoChunk]]]
    /\ record = [c \in Clients |-> [p \in Paths |-> NoRecord]]
    /\ staging = [c \in Clients |-> [p \in Paths |-> <<>>]]
    /\ clock = 0
    /\ crashes = 0
    /\ uploads = 0
    /\ uploaded = [c \in Clients |-> [p \in Paths |-> {}]]
    /\ pc = [t \in Threads |-> "idle"]
    /\ cl = [t \in Threads |-> CHOOSE c \in Clients : TRUE]
    /\ pa = [t \in Threads |-> CHOOSE p \in Paths : TRUE]
    /\ ver = [t \in Threads |-> CHOOSE v \in Versions : TRUE]
    /\ sent = [t \in Threads |-> 0]
    /\ fhashes = [t \in Threads |-> <<>>]
    /\ fpos = [t \in Threads |-> 1]

Next ==
    \/ \E t \in Threads :
          \/ \E c \in Clients, p \in Paths, v \in Versions : UploadFile(t, c, p, v)
          \/ \E c \in Clients, p \in Paths : deleteFile(t, c, p)
          \/ storeChunkExists(t)
          \/ storeChunkOpen(t)
          \/ storeChunkWrite(t)
          \/ storeChunkBind(t)
          \/ finalizeFileBegin(t)
          \/ finalizeFileOpen(t)
          \/ finalizeFileAppend(t)
          \/ finalizeFileCommit(t)
    \/ Tick
    \/ Crash

Spec == Init /\ [][Next]_vars

-----------------------------------------------------------------------------
TypeOK ==
    /\ blob \in [Digests -> BlobStates]
    /\ bindings \in [Clients -> [Paths -> [Idx -> Digests \cup {NoChunk}]]]
    /\ record \in [Clients -> [Paths -> FileRecord \cup {NoRecord}]]
    /\ staging \in [Clients -> [Paths -> Content]]
    /\ clock \in 0 .. MaxClock
    /\ crashes \in 0 .. MaxCrashes
    /\ uploads \in 0 .. MaxUploads
    /\ uploaded \in [Clients -> [Paths -> SUBSET Versions]]
    /\ pc \in [Threads -> {"idle", "check", "open", "write", "close", "bind",
                           "finalize", "reopen", "append", "commit"}]
    /\ sent \in [Threads -> 0 .. MaxChunks]

-----------------------------------------------------------------------------
(* Properties.                                                             *)

\* Spec 3 (FileRecord: the digest is that of the chunk bytes in index
\* order) and spec 5 (same-path finalizes are serialized): every chunk of a
\* FileRecord's content is, at its index, the chunk some UploadFile RPC for
\* that client and path sent at that index, even when two uploads of the
\* same path overlap, as a client retrying after a timeout makes them.
RecordChunksAligned ==
    \A c \in Clients, p \in Paths :
        record[c][p] # NoRecord =>
            \A k \in DOMAIN record[c][p].hash :
                \E v \in uploaded[c][p] :
                    k <= Len(v) /\ v[k] = record[c][p].hash[k][1]

\* Spec 7: a FileRecord describes exactly a version that an UploadFile RPC
\* for that client and path carried, every chunk complete; "a partial
\* reconstruction never produces a FileRecord".
RecordMatchesUpload ==
    \A c \in Clients, p \in Paths :
        record[c][p] # NoRecord =>
            \E v \in uploaded[c][p] : record[c][p].hash = Intended(v)

\* Spec 4.5: a reader of a blob gets the bytes whose digest is its name;
\* no FileRecord is built from a blob read before it was complete.
RecordIntact ==
    \A c \in Clients, p \in Paths :
        record[c][p] # NoRecord =>
            \A k \in DOMAIN record[c][p].hash : record[c][p].hash[k][2] = "full"

\* An UploadFile RPC that delivered every chunk of its version, with no
\* other RPC on the same client and path in flight, is not rejected by
\* finalizeFile as incomplete: the chunks table then holds exactly that
\* many bindings for the path.
Uncontended(t) ==
    \A u \in Threads \ {t} : pc[u] # "idle" => <<cl[u], pa[u]>> # <<cl[t], pa[t]>>

CompleteUploadNotRejected ==
    \A t \in Threads :
        (pc[t] = "finalize" /\ sent[t] = Len(ver[t]) /\ Uncontended(t))
            => Len(getFileChunks(cl[t], pa[t])) = Len(ver[t])

=============================================================================
