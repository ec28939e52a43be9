SPECIFICATION LiveSpec
CONSTANTS
    NumRings = 2
    Objects = {o1}
    Threads = {t1}
    Nobody = Nobody
    NoObject = NoObject
    Mod = 16
    FirstSeqnos = {1}
    RingRequests = 2
    SemaphoreModes = {FALSE}
    Cliprects = TRUE
    Hangcheck = TRUE
    TryReset = TRUE
    Ops = {"exec", "unbind"}
    Signals = TRUE
    MaxBatches = 2
    MaxHangs = 1
INVARIANT ResetSafe
PROPERTY MutexReleased
PROPERTY GoesInactive
