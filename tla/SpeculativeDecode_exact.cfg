\* Eleven configurations of a generation, five new tokens of three.
CONSTANTS
    MaxNew = 5
    Tokens = {"a", "b", "eos"}
    StopIds = {"eos"}
    StopSeqs <- MCStopSeqs
    Seeded = 2
    Modes <- MCModes
SPECIFICATION Spec
INVARIANTS
    TypeOK
    StateExact
    HistoryExact
PROPERTIES
    ImplementsGreedy
