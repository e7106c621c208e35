\* computeDelta and applyDelta on every local list of up to three chunks from
\* three payloads, every server set, and buffers that are right, one byte
\* short or one byte long; the target is absent or holds older content.
CONSTANTS
    Bytes = {0, 1}
    Payloads <- MCPayloads
    MaxChunks = 3
    NoFile = NoFile
SPECIFICATION Spec
\* Both calls return; nothing runs after them.
CHECK_DEADLOCK FALSE
INVARIANT TypeOK
INVARIANT DeltaSplit
INVARIANT ApplyWritesChunks
INVARIANT FailedApplyLeavesPrefix
