\* Two clients are enough for a write that fails at the end of an answer.
CONSTANTS
    N = 2
    MaxTokens = 1
    Stride = 1
    Kinds = {"text", "eos"}
SPECIFICATION Spec
INVARIANT ErrorNotWritten
