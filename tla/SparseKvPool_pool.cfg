\* Two buffers of up to three tiles on two heaps of two, rows that straddle
\* tiles, and a command in flight on each buffer.
CONSTANTS
    Buffers = {b1, b2}
    MaxHeaps = 2
    TilesPerHeap = 2
    RowBytes = 3
    TileBytes = 4
    Capacity = 3
    MaxFlight = 1
    TileProofs = FALSE
SYMMETRY BufferSymmetry
SPECIFICATION Spec
INVARIANTS
    TypeOK
    InUseKept
    LedgerExact
    ValidMapped
    OneSpareHeap
