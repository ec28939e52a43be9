------------------------------- MODULE TtmMem -------------------------------
(***************************************************************************)
(* Pages of TTM buffers: the accounting zones and their limits             *)
(* (drm/ttm/ttm_memory.c), the pool of uncached pages                      *)
(* (drm/ttm/ttm_page_alloc.c) and the page tables that are populated,      *)
(* bound and swapped out (drm/ttm/ttm_tt.c).                               *)
(*                                                                         *)
(* A page table belongs to the thread that has its buffer reserved, so it  *)
(* has its own program counter; the pool and the zones are shared and each *)
(* step is one critical section of their locks.  Only allocations below    *)
(* 4 GB fail: the others wait for memory.                                  *)
(***************************************************************************)
EXTENDS Integers, FiniteSetsExt

CONSTANTS
    Tts,        \* the page tables
    NumPages,   \* pages of each
    AllocSize,  \* options.alloc_size
    MaxSize,    \* options.max_size
    Batch,      \* NUM_PAGES_TO_ALLOC
    MaxMem,     \* max_mem of the zones; emer_mem is for privileged threads
    SwapLimit,  \* swap_limit of the zones
    Retries     \* TTM_MEMORY_ALLOC_RETRIES

MemAssumption == NumPages \in Nat \ {0} /\ AllocSize \in Nat \ {0} /\ MaxSize \in Nat
                 /\ Batch \in Nat \ {0} /\ MaxMem \in Nat /\ SwapLimit \in Nat /\ Retries \in Nat

VARIABLES
    dma32,    \* the pages come from below 4 GB
    tt,       \* the page tables
    pc, tries, \* where each thread is, and the retries it has left
    list, npages, filling, \* the pool: its pages, what it counts, fill_lock
    broken,   \* a fill of the pool has failed halfway
    used,     \* used_mem of the zones
    shrinking, \* the work is queued
    miscounted \* pages were uncounted that had not been counted

memVars == <<dma32, tt, pc, tries, list, npages, filling, broken, used, shrinking, miscounted>>
Zones == {"kernel", "dma32"}

\* data and storage: whether the pages, and the swap object, hold what the
\* client has written last
EmptyTt == [state |-> "unpopulated", caching |-> "cached", got |-> 0, accounted |-> 0,
            swapped |-> FALSE, storage |-> FALSE, data |-> TRUE, lost |-> FALSE]

MemInit ==
    /\ dma32 \in BOOLEAN
    /\ tt = [x \in Tts |-> EmptyTt]
    /\ pc = [x \in Tts |-> "idle"] /\ tries = [x \in Tts |-> 0]
    /\ list = 0 /\ npages = 0 /\ filling = FALSE /\ broken = FALSE
    /\ used = [z \in Zones |-> 0] /\ shrinking = FALSE
    /\ miscounted = FALSE

\* A call starts.  None does where the counts have gone wrong: the model stops.
Idle(x) == pc[x] = "idle" /\ ~broken /\ ~miscounted
Goto(x, p) == pc' = [pc EXCEPT ![x] = p]

\* Pages above 4 GB are accounted in the kernel zone only.
ZonesOf(low) == IF low THEN Zones ELSE {"kernel"}
Charge(n) == [z \in Zones |-> IF z \in ZonesOf(dma32) THEN used[z] + n ELSE used[z]]

-----------------------------------------------------------------------------
(* The pool                                                                *)

\* ttm_tt_bind of a table that is not bound: ttm_pool_populate page by page
StartBind(x) ==
    /\ Idle(x) /\ tt[x].state \in {"unpopulated", "unbound"}
    /\ Goto(x, IF tt[x].state = "unbound" THEN "bind" ELSE "page")
    /\ UNCHANGED <<dma32, miscounted, tt, tries, list, npages, filling, broken, used, shrinking>>

Got(x, n) == /\ tt' = [tt EXCEPT ![x].got = @ + n]
             /\ pc' = [pc EXCEPT ![x] = IF n = 1 THEN "account" ELSE "fail"]
             /\ tries' = [tries EXCEPT ![x] = Retries]

\* Cached pages, and what the pool cannot give, are allocated.
Alloc(x) == Got(x, 1) \/ (dma32 /\ Got(x, 0))

CachedPage(x) ==
    /\ pc[x] = "page" /\ tt[x].caching = "cached" /\ Alloc(x)
    /\ UNCHANGED <<dma32, miscounted, list, npages, filling, broken, used, shrinking>>

\* ttm_page_pool_get_pages: an empty pool is filled, by one thread at a time,
\* with the lock dropped.
StartFill(x) ==
    /\ pc[x] = "page" /\ tt[x].caching # "cached"
    /\ ~filling /\ npages = 0
    /\ filling' = TRUE /\ Goto(x, "fill")
    /\ UNCHANGED <<dma32, miscounted, tt, tries, list, npages, broken, used, shrinking>>

\* Mutant: the refill replaces the count
Refilled == AllocSize

\* npages after a fill
FilledCount == npages + AllocSize

\* What is left of a failed fill goes to the pool, but what is counted is the
\* pool itself.
Fill(x) ==
    /\ pc[x] = "fill" /\ filling' = FALSE
    /\ \/ list' = list + AllocSize /\ npages' = FilledCount /\ UNCHANGED broken
       \/ \E k \in 0 .. AllocSize - 1 :
             /\ dma32 /\ list' = list + k /\ npages' = npages + list
             /\ broken' = (list' # npages')
    /\ Goto(x, "take")
    /\ UNCHANGED <<dma32, miscounted, tt, tries, used, shrinking>>

TakePage(x) ==
    /\ ~broken
    /\ pc[x] = "take" \/ (pc[x] = "page" /\ tt[x].caching # "cached" /\ (filling \/ npages > 0))
   
    /\ IF npages > 0 THEN list' = list - 1 /\ npages' = npages - 1 /\ Got(x, 1)
       ELSE Alloc(x) /\ UNCHANGED <<list, npages>>
    /\ UNCHANGED <<dma32, miscounted, filling, broken, used, shrinking>>

\* ttm_put_pages and, over the limit, ttm_page_pool_free of at least one batch
Smaller(a, b) == IF a < b THEN a ELSE b
Larger(a, b)  == IF a > b THEN a ELSE b
Trim(n) == IF n > MaxSize THEN n - Smaller(n, Larger(n - MaxSize, Batch)) ELSE n
PutPages(caching, n) ==
    IF caching = "cached" \/ n = 0 THEN UNCHANGED <<list, npages>>
    ELSE list' = Trim(list + n) /\ npages' = Trim(npages + n)

\* ttm_pool_mm_shrink, when the kernel is low on memory
Lowmem ==
    /\ npages > 0 /\ list' = 0 /\ npages' = 0
    /\ UNCHANGED <<dma32, miscounted, tt, pc, tries, filling, broken, used, shrinking>>

-----------------------------------------------------------------------------
(* The zones                                                               *)

Above(limit) == \E z \in ZonesOf(dma32) : used[z] > limit
NeedsSwapping(u) == \E z \in Zones : u[z] > SwapLimit

\* Mutant: the limit is not looked at
NoLimit == FALSE

OverLimit == Above(MaxMem)

\* ttm_mem_global_reserve: the limit is tested before the page is added.
Account(x) ==
    /\ pc[x] = "account" /\ ~OverLimit
    /\ used' = Charge(1)
    /\ tt' = [tt EXCEPT ![x].accounted = @ + 1]
    /\ shrinking' = (shrinking \/ NeedsSwapping(used'))
    /\ Goto(x, IF tt[x].got = NumPages THEN "swapin" ELSE "page")
    /\ UNCHANGED <<dma32, miscounted, tries, list, npages, filling, broken>>

\* Another try, after the shrinker, or no more
AccountOver(x) ==
    /\ pc[x] = "account" /\ OverLimit
    /\ shrinking' = (shrinking \/ NeedsSwapping(used))
    /\ IF tries[x] = 0 THEN Goto(x, "fail") /\ UNCHANGED tries
       ELSE Goto(x, "shrink") /\ tries' = [tries EXCEPT ![x] = @ - 1]
    /\ UNCHANGED <<dma32, miscounted, tt, list, npages, filling, broken, used>>

\* Mutant: the pages go back, their accounting stays
KeepCharge(n) == used

Uncharge(n) == Charge(-n)

\* ttm_pool_unpopulate frees every page the table has, accounted or not.
Unpopulate(x, t) ==
    /\ used' = Uncharge(t.got) /\ miscounted' = (miscounted \/ t.got # t.accounted)
    /\ PutPages(t.caching, t.got)
    /\ tt' = [tt EXCEPT ![x] = [t EXCEPT !.state = "unpopulated", !.got = 0, !.accounted = 0]]

\* ttm_pool_populate fails.
PopulateFails(x) ==
    /\ pc[x] = "fail" /\ ~broken /\ Unpopulate(x, tt[x]) /\ Goto(x, "idle")
    /\ UNCHANGED <<dma32, tries, filling, broken, shrinking>>

\* ttm_tt_swapin copies the pages back; the pager may fail.
Swapin(x) ==
    LET t == tt[x]
    IN  /\ pc[x] = "swapin"
        /\ \/ /\ tt' = [tt EXCEPT ![x] = [t EXCEPT !.state = "unbound", !.swapped = FALSE,
                  !.data = IF t.swapped THEN t.storage ELSE t.data]]
              /\ Goto(x, "bind")
           \/ t.swapped /\ Goto(x, "fail") /\ UNCHANGED tt
        /\ UNCHANGED <<dma32, miscounted, tries, list, npages, filling, broken, used, shrinking>>

\* The driver's bind may fail, which leaves the table populated.
Bind(x) ==
    /\ pc[x] = "bind" /\ Goto(x, "idle")
    /\ tt' \in {tt, [tt EXCEPT ![x].state = "bound"]}
    /\ UNCHANGED <<dma32, miscounted, tries, list, npages, filling, broken, used, shrinking>>

Write(x) ==
    /\ Idle(x) /\ tt[x].state = "bound"
    /\ tt' = [tt EXCEPT ![x].data = TRUE, ![x].storage = FALSE]
    /\ UNCHANGED <<dma32, miscounted, pc, tries, list, npages, filling, broken, used, shrinking>>

\* ttm_tt_unbind and ttm_tt_set_caching, for a move between domains
Unbind(x, caching) ==
    /\ Idle(x) /\ (tt[x].state # "unpopulated" \/ tt[x].caching # caching)
    /\ tt' = [tt EXCEPT ![x].caching = caching,
                        ![x].state = IF @ = "bound" THEN "unbound" ELSE @]
    /\ UNCHANGED <<dma32, miscounted, pc, tries, list, npages, filling, broken, used, shrinking>>

\* Mutant: the copy is not made
Uncopied(t) == t.storage

\* What a swap-out leaves in the storage.  A table that is swapped out already
\* has no pages: its new storage is empty, and the old one is forgotten.
Stored(t) == t.data /\ ~t.swapped

\* ttm_bo_swapout takes a buffer that is idle, makes it cached system memory,
\* and swaps its table out.
Swapout(y) ==
    LET t == [tt[y] EXCEPT !.caching = "cached", !.swapped = TRUE, !.storage = Stored(tt[y]),
                           !.lost = tt[y].lost \/ tt[y].swapped]
    IN  Idle(y) /\ Unpopulate(y, t)

\* ttm_shrink, called by a thread that is over the limit, until it is not, or
\* until there is nothing to swap out
Shrink(x) ==
    /\ pc[x] = "shrink"
    /\ \/ Above(MaxMem) /\ (\E y \in Tts \ {x} : Swapout(y)) /\ UNCHANGED pc
       \/ Goto(x, "account") /\ UNCHANGED <<tt, used, miscounted, list, npages>>
    /\ UNCHANGED <<dma32, tries, filling, broken, shrinking>>

\* ttm_shrink_work
ShrinkWork ==
    /\ shrinking
    /\ \/ NeedsSwapping(used) /\ (\E y \in Tts : Swapout(y)) /\ UNCHANGED shrinking
       \/ shrinking' = FALSE /\ UNCHANGED <<tt, used, miscounted, list, npages>>
    /\ UNCHANGED <<dma32, pc, tries, filling, broken>>

\* ttm_tt_destroy, and a new table
Destroy(x) ==
    /\ Idle(x)
    /\ used' = Uncharge(tt[x].got) /\ PutPages(tt[x].caching, tt[x].got)
    /\ tt' = [tt EXCEPT ![x] = EmptyTt]
    /\ UNCHANGED <<dma32, pc, tries, filling, broken, shrinking, miscounted>>

MemNext ==
    \/ \E x \in Tts : \/ StartBind(x) \/ CachedPage(x) \/ StartFill(x) \/ Fill(x) \/ TakePage(x)
                      \/ Account(x) \/ AccountOver(x) \/ PopulateFails(x) \/ Swapin(x) \/ Bind(x)
                      \/ Write(x)
                      \/ (\E c \in {"cached", "wc"} : Unbind(x, c))
                      \/ Shrink(x) \/ Destroy(x)
    \/ Lowmem \/ ShrinkWork

-----------------------------------------------------------------------------
(* Properties                                                              *)

MemTypeOK ==
    /\ tt \in [Tts -> [state : {"unpopulated", "unbound", "bound"}, caching : {"cached", "wc"},
                       got : 0 .. NumPages, accounted : 0 .. NumPages, swapped : BOOLEAN,
                       storage : BOOLEAN, data : BOOLEAN, lost : BOOLEAN]]
    /\ tries \in [Tts -> 0 .. Retries] /\ list \in Nat /\ npages \in Nat
    /\ used \in [Zones -> Int]

\* What a failed fill has not broken: the pool holds as many pages as it
\* counts, whoever fills, takes, puts and trims in between.
PoolCounted == ~broken => npages = list /\ npages <= MaxSize + AllocSize

\* The zones account the pages that are populated, and no more than the limit
\* and the one page that was under way, until a populate fails over the limit.
Accounted == MapThenSumSet(LAMBDA x : tt[x].accounted, Tts)
UsedExact == ~miscounted =>
    \A z \in Zones : used[z] <= MaxMem + 1
                     /\ used[z] = IF z \in ZonesOf(dma32) THEN Accounted ELSE 0

\* What a client has written it reads again once its table is bound, however
\* often it was swapped out, unless it was swapped out while it was swapped out.
DataKept == \A x \in Tts :
    /\ tt[x].state = "bound" /\ ~tt[x].lost => tt[x].data
    /\ tt[x].swapped /\ ~tt[x].lost => tt[x].storage

MemSafe == PoolCounted /\ UsedExact /\ DataKept

\* "@npages: Number of pages in pool." (ttm_page_alloc.c)
PoolCountIsExact == ~broken

\* used_mem is what is accounted: it never goes below zero.
UsedNeverWraps == ~miscounted
=============================================================================
