\* chunkData on every input of up to 7 bytes over {0, 1, 2}, with sizes
\* MIN 2 / AVG 4 (NORMAL 3) / MAX 5, a 2-bit mask and the real P and M:
\* hash cuts, forced cuts at MAX and tail chunks all occur.
CONSTANTS
    Bytes <- MCBytes
    MaxLen = 7
    MinChunkSize = 2
    AvgChunkSize = 4
    MaxChunkSize = 5
    MaskBits = 2
    Prime = 31
    Mod = 1000000009
SPECIFICATION Spec
\* chunkData returns once the input is consumed.
CHECK_DEADLOCK FALSE
INVARIANT TypeOK
INVARIANT Partition
INVARIANT SizeBounds
INVARIANT StatsMatch
