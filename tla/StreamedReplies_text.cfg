\* Two clients, every kind of token, and budgets long enough to hold text back, show
\* it, and stop.
CONSTANTS
    N = 2
    MaxTokens = 3
    Stride = 2
    Kinds = {"text", "hold", "stop", "eos", "bad"}
SPECIFICATION FairSpec
INVARIANTS
    TypeOK
    WellFormed
    NothingLost
PROPERTIES
    JobsEnd
