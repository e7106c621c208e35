# TLA+ models of dropbox-lite

This directory holds TLA+ models of the dropbox-lite server (`src/`), the TLC
configurations that check them, and `PROJECT.json`. `PROJECT.json` lists the
components, runs, mutants, the source lines each definition models (`map`),
findings and hazards.

## The system

A client uploads a file as a stream of content-defined chunks to the gRPC
`SyncService` (`src/src/server/sync_service.cpp`). Each RPC runs on its own
server thread. `UploadFile` hands every chunk to `StorageManager::storeChunk`
(`src/src/server/storage_manager.cpp`):
- the chunk's bytes go to a blob file named by their SHA-256 in a chunk store
  that all clients share;
- a `(path, index) -> digest` row goes into the client's SQLite `MetadataDB`
  (`src/src/core/metadata_db.cpp`).

When the stream ends, `finalizeFile` does the rest:
1. it reads the chunk rows back;
2. it checks their count against `total_chunks`;
3. it concatenates the blobs into a staging file, hashes it, and upserts the
   `files` row.

`Sync` lists a client's live files and diffs them against the client's list.
`DownloadFile` looks the path up with `getFileMetadata` and answers NOT_FOUND
or OK. It is a stub and streams no chunk.

Beside this path sit several libraries:
- `Chunker` and `RollingHash` (content-defined chunking);
- `DeltaEngine` (splits chunks into new and existing; writes a chunk list's
  bytes to a file);
- `ThreadPool`;
- a token-bucket `RateLimiter`;
- a `Metrics` registry;
- `ConflictResolver`.

These libraries share no state with the storage path. The threads that use
them interact only through each library's own mutex and condition variables.

## Modules

| Module | Models | State ↔ code |
|---|---|---|
| `StorageManager` | storeChunk, getChunk, finalizeFile, deleteFile, the UploadFile handler, MetadataDB row operations, server crash | `blob` (per digest: absent/empty/partial/full, i.e. the blob file as other threads see it while it is written in place); `bindings` (chunks table); `record` (files table); `staging`; per-thread `pc` and upload state. Each SQLite statement is one step; a blob write is three (open-and-truncate, write, close). finalizeFile is `finalizeFileBegin` (getFileChunks and the count check), `finalizeFileOpen` (the ofstream that truncates the staging file), one `finalizeFileAppend` per chunk, and the commit: no lock is held between them. `SerialPerPath` chooses whether clients may overlap two uploads of one path; every run here sets it FALSE, since a client that retries after a timeout does overlap them. |
| `TaskQueue` | the abstract promise of ThreadPool: a FIFO queue whose tasks each start once and finish | `queue`, `started`, `finished` |
| `ThreadPool` | worker loop, `enqueue`, `wait`, destructor, spurious wakeups | `tasks` (tasks_), `stop`, `active` (active_tasks_), per-worker `wpc`, owner `opc`. Refines `TaskQueue` via `INSTANCE ... WITH` (`ImplementsTaskQueue`). |
| `RollingHash` | `append` as an operator | no state of its own |
| `Chunker` | `chunkData`, one loop iteration per step: scan, cut (statistics, chunk start, hash reset), empty input, return | `data`, `i`, `chunk_start`, `h` (rolling_hash.hash_), `chunks`, min/max/total, `last_stats_` |
| `DeltaEngine` | `computeDelta` (a FoldLeft over the local chunks) and `applyDelta` (open/truncate, per-chunk write, short-buffer failure, return) | `delta`, the `file` written, loop position `k`, `data_offset`, `result` |
| `RateLimiter` | `acquire`'s retry loop, `tryAcquire` with `refill`, the size_t wait computation, `setRate`, the clock | `tokens`, `rate`, `burst`, `elapsed` (now - last_refill_), per-thread `pc`/`want` |
| `SyncProbe` | the `Sync` RPC composed with `StorageManager`: listing with computeChanges (MODIFIED/CREATED) as one read, then the reply with server_time; the client sends that back as last_sync_time. `DownloadFile` through `getFileMetadata` and `getFile`, which does not filter tombstones; on OK the client holds the server's content (the spec's download path, since the RPC is a stub) | extends StorageManager with `spc`, the client's `local` list, `changes`, `lastSync`, and a history `reported` |
| `Metrics` | every operation under `mutex_`, and `toString` up to its call of `getBytesPerSecond`; no run checks it (see What is not modelled) | `owner` of mutex_, per-thread `pc`, the four maps |

Data are abstracted to what the properties tell apart:
- a chunk is a digest model value, or its payload;
- SHA-256 is an injective function;
- sizes, the mask, the modulus and the clock are scaled down.

The `MC_*` modules only declare the model values and symmetry sets.

## Runs

Every property is stated in a comment in its module. Passing runs:

| Run | Checks | Bounds |
|---|---|---|
| `sm_concurrent` | TypeOK, over every interleaving of the storage path; with `tp_pool` and the others it fires every action and branch | 2 clients sharing chunk digests, 2 threads, 1 path, 3 uploads that may overlap, 1 crash, clock 0..1, streams that may end early |
| `tp_pool` | TypeOK; `DrainedOnExit`; `ImplementsTaskQueue` (refinement); `NoTaskLost`; `DestroyCompletes` | 2 workers, 3 tasks, owner enqueues/waits/destroys in any order |
| `ch_chunk` | TypeOK; `Partition`; `SizeBounds`; `StatsMatch` | every input of up to 7 bytes over {0,1,2}; MIN 2, AVG 4, MAX 5, 2 mask bits, so hash cuts, forced cuts and tail chunks all happen |
| `de_delta` | TypeOK; `DeltaSplit` (checked against SelectSeq); `ApplyWritesChunks`; `FailedApplyLeavesPrefix` (a failure after the open leaves exactly the whole chunks before the failing one, taken from the start of the buffer: the old content is gone and no chunk is torn) | every list of up to 3 chunks from 3 payloads; every server set; buffers that are exact, one byte short, or one byte long |

Violation runs. Each one checks one property that the code breaks:

| Run | Property | What TLC shows |
|---|---|---|
| `sm_stale_mix` | `RecordMatchesUpload` | A stream that ends early is still finalized. Bindings from the earlier upload fill the gap, so the committed file mixes two versions (sync_service.cpp:71). |
| `sm_shrink_rejected` | `CompleteUploadNotRejected` | Bindings beyond the new chunk count are never deleted. Once a file shrinks, every complete upload of it fails (storage_manager.cpp:84). |
| `sm_torn_read` | `RecordIntact` | storeChunk writes a blob in place and treats an existing path as complete. A concurrent finalize deduplicates against the half-written blob and commits it (storage_manager.cpp:30). |
| `tp_wait_early` | `WaitMeansAllDone` | A task that has been popped is not yet counted in active_tasks_. wait() returns before it runs (thread_pool.cpp:25). |
| `tp_wait_hang` | `WaitReturns` | notify_all without the mutex falls between wait()'s check and its block. wait() sleeps forever (thread_pool.cpp:29). |
| `rl_wrap` | `AcquireReturns` | Another thread's refill can raise tokens_ above `bytes`. `bytes - available()` then wraps in size_t, and the thread sleeps for centuries (rate_limiter.cpp:16). |
| `sp_missed` | `NoMissedFile` | The probe lists the files; an upload then commits with mtime equal to the current second; the reply stamps that same second as server_time. The next probe's strict `mtime > last_sync_time` (sync_service.cpp:163) never reports the file. The spec's probe rule has the same comparison. |
| `sm_overlap` | `RecordChunksAligned` | Two uploads of one client path finalize at once. The second one's ofstream truncates the staging file while the first writes its second chunk at its own offset, so the first commits a file whose first chunk is a zero-filled hole (storage_manager.cpp:94). Spec section 5 says same-path finalizes are serialized; the code takes no lock. One client, 1 path, 2 threads, 2 uploads. |

Every property of a passing run has a mutant in `PROJECT.json`. A mutant is a
plausible bug in a mapped definition (a dropped guard, an off-by-one, a
missing reset), and TLC must find the property violated under the run's cfg.

## Bounds and fairness

The bounds are the smallest that make the interesting interleavings happen:
- two threads race on one path or one shared blob;
- a version shrinks;
- a crash comes between a blob write and its row;
- a chunk reaches MAX;
- a buffer has a byte too many or too few.

Every counter that grows is capped by a named constant, and every cap sits in
a guard.

`CHECK_DEADLOCK FALSE` is set only where the bounded environment simply stops:
- the clients have sent all their requests;
- chunkData has returned;
- the pool has been destroyed.

ThreadPool's fairness is weak fairness on every worker step and on the owner
steps inside a call. The code can promise no more: a runnable thread is
eventually scheduled. Spurious wakeups are allowed but finitely many
(`<>[][~SpuriousWakeup]`).

StorageManager has no fair specification. Its handler steps never block,
but checking their liveness needs a model without symmetry sets; see Open
items.

RateLimiter's fair specification (used by `rl_wrap`) is weak fairness on the clock
and on each thread's steps inside acquire. Metrics has the same form of fair
specification, over toString, but no run uses it.

## What is not modelled

- **`detectConflict`, `StreamSync`, `ResolveConflict`, `Heartbeat`.**
  detectConflict has no caller. The three RPCs are stubs that change no
  state: they log, echo the path, or return the clock. computeChanges emits
  only MODIFIED and CREATED; the code has no DELETED branch.
- **`ConflictResolver`.** It has no caller. Its two defects are listed as
  hazards:
  - version 0 hides a divergence;
  - conflict-copy names collide within a second, because the client id is the
    literal `"local"`.
- **Failures outside the model's data.** Two hazards are listed without a
  run:
  - applyDelta never checks `file.write`, so a failed write still returns
    true. The model's writes always succeed.
  - storeChunk trusts the digest the client sends and never recomputes it.
    The model names a chunk by its digest, so a mislabelled chunk cannot be
    expressed.
- **The rate acquire reads to size its sleep.** The length of a sleep is
  abstracted, except the wrapped one that never ends. So the unlocked read
  of `bytes_per_second_` in acquire, and the infinite wait after
  `setRate(0)`, are listed as a hazard without a run.
- **`RollingHash::update` and `Chunker::isChunkBoundary`.** Neither is ever
  called. Because only `append` is called, the boundary hash covers the whole
  chunk prefix, not the spec's 48-byte trailing window. Chunker models the
  hash as the code computes it.
- **MetadataDB code with no caller.** The Transaction class
  (beginTransaction, commit, rollback), `sync_state`
  (updateLastSyncTime, getLastSyncTime), getModifiedSince and hasChunk are
  never called in `src/`. No server behaviour reaches them. Every statement
  the server runs is autocommit, which is what StorageManager models.
- **Metrics, unchecked.** The module is kept, but no run checks it: only a
  benchmark includes metrics.h, so no server behaviour reaches it. Its one
  defect is listed as a hazard: toString holds mutex_ and calls
  getBytesPerSecond, which locks it again, a self-deadlock once any
  throughput entry exists (metrics.cpp:119).
- **`error.h`.** ErrorCode, its category and `Result<T>` are value types. A
  module models a failed call by the branch its caller takes.
- **Read-only queries** (getStats, Metrics getters) and the `files.last_sync_time` and `version` columns, which no code
  reads back. finalizeFile always writes version 1.
- **Logger, Compression, `main`.** These are I/O and argument parsing.

## Open items

These are the next checks worth a run. Each needs a model of its own:
- **RateLimiter token accounting:** a grant never exceeds the burst in
  force.
- **Tombstoned paths:** DownloadFile answers OK for a deleted path, and a
  delete racing an upload is undone by the finalize. Both are listed as
  hazards without a run.
- **StorageManager liveness:** every UploadFile RPC returns. The check needs
  a model without SYMMETRY. Over sm_concurrent's bounds that is 1.1 million
  states and about four minutes of liveness checking, so it would need
  smaller bounds of its own.
- **ConflictResolver,** if a caller appears.
