\* Four clients over two models, a queue of three, batches of two and bodies of
\* which two large ones do not fit together: every cap can be reached while others
\* wait, jobs are set aside, batches are full, and clients come back.
CONSTANTS
    Conns = {c1, c2, c3, c4}
    Models = {m1, m2}
    NoModel = NoModel
    BodySizes = {0, 2}
    MaxConnections = 3
    MaxInflightBytes = 3
    QueueDepth = 3
    MaxStreams = 2
SYMMETRY Clients
SPECIFICATION Spec
INVARIANTS
    TypeOK
    LineOrder
    CountersExact
    CapsHold
    HolderCanSend
    CleanStop
PROPERTIES
    AnsweredOnce
    DrainReachesAll
    BatchIsFirstOfModel
    ImplementsLine
