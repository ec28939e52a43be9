SPECIFICATION Spec
CONSTANTS
    NumRings = 2
    Objects = {o1}
    Threads = {t1, t2}
    Nobody = Nobody
    NoObject = NoObject
    Mod = 16
    FirstSeqnos = {14}
    RingRequests = 2
    SemaphoreModes = {TRUE}
    Cliprects = FALSE
    Hangcheck = FALSE
    TryReset = TRUE
    Ops = {"exec", "write", "throttle", "waitfor"}
    Signals = FALSE
    MaxBatches = 3
    MaxHangs = 0
INVARIANT RingsApart
PROPERTY WrapIdle
