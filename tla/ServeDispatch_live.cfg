\* Three clients that come back for ever, under the fairness of the threads.
CONSTANTS
    Conns = {c1, c2, c3}
    Models = {m1}
    NoModel = NoModel
    BodySizes = {1}
    MaxConnections = 2
    MaxInflightBytes = 3
    QueueDepth = 2
    MaxStreams = 2
SPECIFICATION FairSpec
PROPERTIES
    JobsServed
    ThreadsEnd
    ShutdownEnds
    ImplementsFairLine
