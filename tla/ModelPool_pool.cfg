\* Three models, two of them with MTP, in a pool of two: a model must go whenever the
\* third is asked for.  Two jobs wait behind a batch of up to three.
CONSTANTS
    NumModels = 3
    MtpModels = {1, 2}
    LruEnabled = TRUE
    PoolSize = 2
    QueueDepth = 2
    MaxStreams = 3
    MaxBlocks = 2
    MaxOwn = 1
SPECIFICATION FairSpec
INVARIANTS
    ModelKept
    CheapestFirst
PROPERTIES
    TurnsEnd
