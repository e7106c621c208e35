----------------------------- MODULE DeltaEngine -----------------------------
(***************************************************************************)
(* DeltaEngine (src/src/core/delta_engine.cpp): computeDelta splits a file's   *)
(* chunks into those the server lacks and those it has; applyDelta writes  *)
(* a chunk list's bytes, taken in order from one buffer, to a file.        *)
(*                                                                         *)
(* A chunk is named by its payload (SHA-256 abstracted as injective); the  *)
(* local chunk list is any short sequence of payloads, which covers every  *)
(* list chunkFile can return for the bytes they concatenate to.  The file  *)
(* applyDelta writes is a variable, so a failure part-way is visible.      *)
(***************************************************************************)
EXTENDS Naturals, Sequences, SequencesExt

CONSTANTS
    Bytes,          \* byte values
    Payloads,       \* the chunk payloads a list is built from
    MaxChunks,      \* longest local chunk list
    NoFile          \* the target path does not exist

VARIABLES
    local,          \* chunker_.chunkFile(filepath): the local chunk list
    server,         \* server_chunk_hashes, as the set convertToSet builds
    delta,          \* the DeltaInfo computeDelta returned, or <<>> before
    chunk_data,     \* the buffer passed to applyDelta
    file,           \* contents of the target path
    k,              \* applyDelta's loop position in the chunk list
    data_offset,
    result,         \* applyDelta's return value, read once pc = "done"
    pc

vars == <<local, server, delta, chunk_data, file, k, data_offset, result, pc>>

Concat(cs) == FlattenSeq(cs)
SizeSum(cs) == Len(Concat(cs))

\* The buffers a caller may pass: the right one, one byte short, one extra.
Buffers(cs) ==
    LET b == Concat(cs)
    IN  {b} \cup {b \o <<x>> : x \in Bytes} \cup (IF b = <<>> THEN {} ELSE {Front(b)})

-----------------------------------------------------------------------------
(* computeDelta, lines 22-31: one pass over the local chunks.             *)

\* Mutant: bytes_to_transfer counts the chunks the server already has.
DeltaStepWrongCount(d, c) ==
    IF c \notin server
    THEN [d EXCEPT !.new_chunks = Append(@, c)]
    ELSE [d EXCEPT !.existing_chunks = Append(@, c), !.bytes_to_transfer = @ + Len(c)]

DeltaStep(d, c) ==
    IF c \notin server
    THEN [d EXCEPT !.new_chunks = Append(@, c), !.bytes_to_transfer = @ + Len(c)]
    ELSE [d EXCEPT !.existing_chunks = Append(@, c)]

EmptyDelta == [new_chunks |-> <<>>, existing_chunks |-> <<>>, bytes_to_transfer |-> 0]

computeDelta ==
    /\ pc = "compute"
    /\ delta' = FoldLeft(DeltaStep, EmptyDelta, local)
    /\ pc' = "apply"
    /\ UNCHANGED <<local, server, chunk_data, file, k, data_offset, result>>

-----------------------------------------------------------------------------
(* applyDelta(filepath, local, chunk_data).                               *)

\* Mutant: the target is opened for appending (std::ios::app), so what it
\* held is kept in front of the new bytes.
applyOpenAppend ==
    /\ pc = "apply"
    /\ \/ /\ file' = IF file = NoFile THEN <<>> ELSE file
          /\ k' = 1 /\ data_offset' = 0
          /\ pc' = "write"
          /\ UNCHANGED result
       \/ /\ result' = FALSE
          /\ pc' = "done"
          /\ UNCHANGED <<file, k, data_offset>>
    /\ UNCHANGED <<local, server, delta, chunk_data>>

\* std::ofstream truncates the target; opening may fail and return false.
applyOpen ==
    /\ pc = "apply"
    /\ \/ /\ file' = <<>>
          /\ k' = 1 /\ data_offset' = 0
          /\ pc' = "write"
          /\ UNCHANGED result
       \/ /\ result' = FALSE
          /\ pc' = "done"
          /\ UNCHANGED <<file, k, data_offset>>
    /\ UNCHANGED <<local, server, delta, chunk_data>>

\* Mutant: data_offset is not advanced, every chunk reads the buffer's start.
applyWriteNoAdvance ==
    /\ pc = "write" /\ k <= Len(local)
    /\ data_offset + Len(local[k]) <= Len(chunk_data)
    /\ file' = file \o SubSeq(chunk_data, data_offset + 1, data_offset + Len(local[k]))
    /\ k' = k + 1
    /\ UNCHANGED <<local, server, delta, chunk_data, data_offset, result, pc>>

\* Mutant: data_offset skips one byte past each chunk.
applyWriteSkip ==
    /\ pc = "write" /\ k <= Len(local)
    /\ data_offset + Len(local[k]) <= Len(chunk_data)
    /\ file' = file \o SubSeq(chunk_data, data_offset + 1, data_offset + Len(local[k]))
    /\ data_offset' = data_offset + Len(local[k]) + 1
    /\ k' = k + 1
    /\ UNCHANGED <<local, server, delta, chunk_data, result, pc>>

\* One chunk: fail if the buffer is too short, else write its bytes.
applyWrite ==
    /\ pc = "write" /\ k <= Len(local)
    /\ data_offset + Len(local[k]) <= Len(chunk_data)
    /\ file' = file \o SubSeq(chunk_data, data_offset + 1, data_offset + Len(local[k]))
    /\ data_offset' = data_offset + Len(local[k])
    /\ k' = k + 1
    /\ UNCHANGED <<local, server, delta, chunk_data, result, pc>>

applyShort ==
    /\ pc = "write" /\ k <= Len(local)
    /\ data_offset + Len(local[k]) > Len(chunk_data)
    /\ result' = FALSE
    /\ pc' = "done"
    /\ UNCHANGED <<local, server, delta, chunk_data, file, k, data_offset>>

applyReturn ==
    /\ pc = "write" /\ k > Len(local)
    /\ result' = TRUE
    /\ pc' = "done"
    /\ UNCHANGED <<local, server, delta, chunk_data, file, k, data_offset>>

-----------------------------------------------------------------------------
Init ==
    /\ local \in BoundedSeq(Payloads, MaxChunks)
    /\ server \in SUBSET Payloads
    /\ delta = <<>>
    /\ chunk_data \in Buffers(local)
    /\ file \in {NoFile} \cup Payloads
    /\ k = 0 /\ data_offset = 0
    /\ result = FALSE
    /\ pc = "compute"

Next == computeDelta \/ applyOpen \/ applyWrite \/ applyShort \/ applyReturn

Spec == Init /\ [][Next]_vars

-----------------------------------------------------------------------------
TypeOK ==
    /\ local \in BoundedSeq(Payloads, MaxChunks)
    /\ server \subseteq Payloads
    /\ file \in {NoFile} \cup Seq(Bytes)
    /\ data_offset \in 0 .. Len(chunk_data)
    /\ result \in BOOLEAN
    /\ pc \in {"compute", "apply", "write", "done"}

\* computeDelta splits the local chunks, in order, into those whose digest
\* the server lacks and those it has, and bytes_to_transfer is the size of
\* the first part (spec 4.6).
DeltaSplit ==
    pc # "compute" =>
        /\ delta.new_chunks = SelectSeq(local, LAMBDA c : c \notin server)
        /\ delta.existing_chunks = SelectSeq(local, LAMBDA c : c \in server)
        /\ delta.bytes_to_transfer = SizeSum(delta.new_chunks)

\* When applyDelta succeeds the buffer held every declared byte and the file
\* holds them, cut by the declared chunk sizes, in order: for the buffer a
\* sender builds, exactly the concatenated chunks.
ApplyWritesChunks ==
    pc = "done" /\ result =>
        /\ SizeSum(local) <= Len(chunk_data)
        /\ file = SubSeq(chunk_data, 1, SizeSum(local))
        /\ chunk_data = Concat(local) => file = Concat(local)


\* applyDelta writes in place and can fail part-way (a buffer too short for
\* the next chunk).  A failure after the target was opened leaves neither
\* the old content nor a torn chunk: exactly the chunks before the failing
\* one, taken from the start of the buffer, and fewer bytes than the full
\* list, so a caller that checks the size can tell.
FailedApplyLeavesPrefix ==
    pc = "done" /\ ~result /\ k > 0 =>
        /\ data_offset = SizeSum(SubSeq(local, 1, k - 1))
        /\ file = SubSeq(chunk_data, 1, data_offset)
        /\ data_offset < SizeSum(local)

=============================================================================
