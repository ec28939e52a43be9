SPECIFICATION Spec
CONSTANTS
    NumRings = 2
    Objects = {o1}
    Threads = {t1}
    Nobody = Nobody
    NoObject = NoObject
    Mod = 16
    FirstSeqnos = {15}
    RingRequests = 2
    SemaphoreModes = {TRUE}
    Cliprects = FALSE
    Hangcheck = FALSE
    TryReset = TRUE
    Ops = {"exec"}
    Signals = FALSE
    MaxBatches = 3
    MaxHangs = 0
INVARIANT RenderOrder
