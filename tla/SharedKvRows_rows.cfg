\* Five views of two buffers of two rows, two writers: a prefill that publishes
\* has two old views, two new ones, and there is one that is longer or in between.
CONSTANTS
    Views = {v1, v2, v3, v4, v5}
    Writers = {w1, w2}
    Rows = 2
SYMMETRY Symmetric
SPECIFICATION Spec
INVARIANTS
    TypeOK
    RegistryExact
    ClaimExact
    Untouched
