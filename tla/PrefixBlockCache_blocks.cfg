\* Two sessions; prompts of up to three blocks that grow and branch.  A share of two
\* blocks, a capacity of three and a byte cap of two allocations are all reached.
CONSTANTS
    Sessions = {"s1", "s2"}
    Prompts <- MCPrompts
    Capacity = 3
    PerSession = 2
    MaxBytes = 2
    SnapshotBytes = 0
SPECIFICATION Spec
INVARIANTS
    CacheSound
    ServedOwn
