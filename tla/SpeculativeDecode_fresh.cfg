\* The head attends its own drafts only, one or two of them each turn.
CONSTANTS
    MaxNew = 4
    Tokens = {"a", "b", "eos"}
    StopIds = {"eos"}
    StopSeqs <- MCStopSeqs
    Seeded = 2
    Modes <- FreshModes
SPECIFICATION Spec
INVARIANTS
    NoStaleRow
