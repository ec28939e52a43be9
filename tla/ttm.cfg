SPECIFICATION Spec
CONSTANTS
    Threads = {t1, t2, t3}
    None = None
    Validators = {t1, t2, t3}
    Nobody = Nobody
    Lists <- MCLists
    Files = {f1, f2}
    Bases = {b1}
    Usage = Usage
    RefTypes = {Usage, Sync}
    MaxRefs = 2
    NumPages = 2
    AllocSize = 2
    MaxSize = 2
    Batch = 2
    MaxMem = 1
    SwapLimit = 0
    Retries = 1
    Plain = {q1}
    x = x
    y = y
    Buffers = {x, y}
    SeqMod = 16
    MaxStarts = 4
    Users = {u1, u2}
    Worker = Worker
    Swapper = Swapper
    Ghosts = {g}
    Slots = 1
SYMMETRY Symmetric
CHECK_DEADLOCK FALSE
INVARIANTS TypeOK WaitersServed CountsExact ReserveSafe BoSafe
PROPERTY SharesLock
