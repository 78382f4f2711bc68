\* Three clients in one batch and its sub-batches: who gets what, when streams end
\* one by one, writes fail and the decoder fails.
CONSTANTS
    N = 3
    MaxTokens = 2
    Stride = 1
    Kinds = {"text", "eos"}
SPECIFICATION Spec
INVARIANTS
    OwnText
    StreamsAgree
    AllAnswered
PROPERTIES
    OutcomeFinal
