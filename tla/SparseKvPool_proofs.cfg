\* One buffer of two tiles; a proof only covers the tiles that are released.
CONSTANTS
    Buffers = {b1}
    MaxHeaps = 1
    TilesPerHeap = 2
    RowBytes = 3
    TileBytes = 4
    Capacity = 2
    MaxFlight = 2
    TileProofs = TRUE
SPECIFICATION Spec
INVARIANTS
    InUseKept
