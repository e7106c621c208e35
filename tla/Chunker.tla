------------------------------- MODULE Chunker -------------------------------
(***************************************************************************)
(* Chunker::chunkData (src/src/common/chunker.cpp): the content-defined    *)
(* chunking loop.  Each step of the loop (one byte) is an action; the      *)
(* input is any byte string up to MaxLen over Bytes, and the sizes and     *)
(* mask are scaled-down constants (the code's are 4 KiB / 64 KiB / 1 MiB   *)
(* and 16 mask bits).  A chunk's SHA-256 digest is abstracted to its       *)
(* payload, which is what an injective digest names.                       *)
(***************************************************************************)
EXTENDS Naturals, Sequences, SequencesExt, Bitwise

CONSTANTS
    Bytes, MaxLen,                               \* the inputs
    MinChunkSize, AvgChunkSize, MaxChunkSize,    \* kMin/kAvg/kMaxChunkSize
    MaskBits,                                    \* kMaskBits
    Prime, Mod                                   \* RollingHash

RH == INSTANCE RollingHash

kMask == 2^MaskBits - 1
normalized_chunk_size == MinChunkSize + (AvgChunkSize - MinChunkSize) \div 2

VARIABLES
    data,          \* the input vector
    i,             \* the loop index: bytes consumed so far
    chunk_start,
    h,             \* rolling_hash.hash_
    chunks,        \* the ChunkInfo vector built so far
    min_size, max_size, total_size,
    last_stats_,   \* count, min, max and total (avg = total / count)
    pc             \* "loop" inside chunkData, "done" once it returned

vars == <<data, i, chunk_start, h, chunks, min_size, max_size, total_size, last_stats_, pc>>

ChunkInfo == [offset : Nat, size : Nat, hash : Seq(Bytes)]

Stats(n, mn, mx, tot) == [count |-> n, min |-> mn, max |-> mx, total |-> tot]

\* The hash after appending data[i + 1], and the size of the chunk it ends.
NextHash == RH!appendHash(h, data[i + 1])
chunk_size == i + 1 - chunk_start

is_boundary ==
    \/ /\ chunk_size >= MinChunkSize /\ chunk_size < normalized_chunk_size
       /\ (NextHash & (kMask \div 2)) = 0
    \/ chunk_size >= normalized_chunk_size /\ (NextHash & kMask) = 0

\* Mutant: the maximum size is only enforced one byte late.
max_size_reachedLate == chunk_size > MaxChunkSize

max_size_reached == chunk_size >= MaxChunkSize
is_last_byte == i + 1 = Len(data)

Cut == is_boundary \/ max_size_reached \/ is_last_byte

-----------------------------------------------------------------------------
Init ==
    /\ data \in BoundedSeq(Bytes, MaxLen)
    /\ i = 0
    /\ chunk_start = 0
    /\ h = 0
    /\ chunks = <<>>
    /\ min_size = 0 /\ max_size = 0 /\ total_size = 0
    /\ last_stats_ = Stats(0, 0, 0, 0)
    /\ pc = "loop"

\* An empty input returns at once with zero statistics.
chunkDataEmpty ==
    /\ pc = "loop" /\ data = <<>>
    /\ last_stats_' = Stats(0, 0, 0, 0)
    /\ pc' = "done"
    /\ UNCHANGED <<data, i, chunk_start, h, chunks, min_size, max_size, total_size>>

\* A byte that does not end a chunk only advances the rolling hash.
chunkScan ==
    /\ pc = "loop" /\ i < Len(data) /\ ~Cut
    /\ h' = NextHash
    /\ i' = i + 1
    /\ UNCHANGED <<data, chunk_start, chunks, min_size, max_size, total_size, last_stats_, pc>>

\* Mutant: the statistics forget that min_size = 0 means "no chunk yet".
new_min_sizeStuck == IF chunk_size < min_size THEN chunk_size ELSE min_size

new_min_size == IF min_size = 0 \/ chunk_size < min_size THEN chunk_size ELSE min_size
\* Mutant: max_size accumulates like total_size.
new_max_sizeSum == max_size + chunk_size

new_max_size == IF chunk_size > max_size THEN chunk_size ELSE max_size

hash_after_cut == 0   \* rolling_hash.reset()

\* Mutant: the next chunk starts at the cut byte instead of after it.
next_chunk_startOffByOne == i

next_chunk_start == i + 1

\* A byte that ends a chunk: emit it, update the statistics, reset the hash.
chunkCut ==
    /\ pc = "loop" /\ i < Len(data) /\ Cut
    /\ chunks' = Append(chunks, [offset |-> chunk_start, size |-> chunk_size,
                                 hash |-> SubSeq(data, chunk_start + 1, i + 1)])
    /\ min_size' = new_min_size
    /\ max_size' = new_max_size
    /\ total_size' = total_size + chunk_size
    /\ chunk_start' = next_chunk_start
    /\ h' = hash_after_cut
    /\ i' = i + 1
    /\ UNCHANGED <<data, last_stats_, pc>>

\* After the last byte the statistics are stored and the vector returned.
chunkDataReturn ==
    /\ pc = "loop" /\ data # <<>> /\ i = Len(data)
    /\ last_stats_' = Stats(Len(chunks), min_size, max_size, total_size)
    /\ pc' = "done"
    /\ UNCHANGED <<data, i, chunk_start, h, chunks, min_size, max_size, total_size>>

Next == chunkDataEmpty \/ chunkScan \/ chunkCut \/ chunkDataReturn

Spec == Init /\ [][Next]_vars

-----------------------------------------------------------------------------
TypeOK ==
    /\ data \in BoundedSeq(Bytes, MaxLen)
    /\ i \in 0 .. Len(data) /\ chunk_start \in 0 .. i
    /\ h \in 0 .. Mod - 1
    /\ chunks \in Seq(ChunkInfo)
    /\ {min_size, max_size} \subseteq 0 .. MaxChunkSize
    /\ total_size \in 0 .. MaxLen
    /\ pc \in {"loop", "done"}

Sizes == {chunks[k].size : k \in DOMAIN chunks}

\* The returned chunks partition the input: their payloads, in order,
\* concatenate to the input, and each offset is where the previous chunk
\* ended (spec property "Partition").
Partition ==
    pc = "done" =>
        /\ FlattenSeq([k \in DOMAIN chunks |-> chunks[k].hash]) = data
        /\ \A k \in DOMAIN chunks :
               /\ chunks[k].size = Len(chunks[k].hash)
               /\ chunks[k].offset = IF k = 1 THEN 0
                                     ELSE chunks[k - 1].offset + chunks[k - 1].size

\* Every chunk has between one and MaxChunkSize bytes, and every chunk but
\* the last at least MinChunkSize (spec property "Size bounds").
SizeBounds ==
    pc = "done" =>
        \A k \in DOMAIN chunks :
            /\ chunks[k].size \in 1 .. MaxChunkSize
            /\ k < Len(chunks) => chunks[k].size >= MinChunkSize

\* The statistics chunkData stores describe the chunks it returned.
StatsMatch ==
    pc = "done" /\ data # <<>> =>
        last_stats_ = Stats(Len(chunks), Min(Sizes), Max(Sizes),
                            FoldLeft(LAMBDA acc, k : acc + chunks[k].size, 0,
                                     [n \in 1 .. Len(chunks) |-> n]))

=============================================================================
