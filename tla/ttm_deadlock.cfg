SPECIFICATION Spec
CONSTANTS
    Threads = {t1, t2, t3}
    None = None
    Validators = {t1, t2, t3}
    Nobody = Nobody
    Lists <- MCLists
    Files = {f1}
    Bases = {b1}
    Usage = Usage
    RefTypes = {Usage, Sync}
    MaxRefs = 2
    NumPages = 1
    AllocSize = 2
    MaxSize = 2
    Batch = 2
    MaxMem = 1
    SwapLimit = 0
    Retries = 1
    Plain = {}
    x = x
    y = y
    Buffers = {x, y}
    SeqMod = 16
    MaxStarts = 6
    Users = {u1}
    Worker = Worker
    Swapper = Swapper
    Ghosts = {g}
    Slots = 1
SYMMETRY Symmetric
CHECK_DEADLOCK FALSE
INVARIANT NoDeadlock
