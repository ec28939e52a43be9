------------------------------- MODULE DrmDma -------------------------------
(***************************************************************************)
(* The DMA buffers of the legacy interface: how drm_bufs.c cuts buffers    *)
(* out of AGP, scatter, frame buffer or PCI memory, gives them indices and *)
(* offsets in the one range that clients map, and how drm_dma.c takes the  *)
(* buffers of a client back.                                               *)
(*                                                                         *)
(* Grain: the ioctls and a close run under drm_global_mutex, so each is    *)
(* one step.  A page is 2^Shift units, so that small orders share a page.  *)
(***************************************************************************)
EXTENDS Integers, Sequences, FiniteSets, FiniteSetsExt

CONSTANTS Clients, NoClient,
          Shift,       \* PAGE_SHIFT
          Orders,      \* DRM_MIN_ORDER .. DRM_MAX_ORDER
          Counts,      \* bound: the numbers of buffers asked for
          Handed,      \* bound: the indices of the buffers that clients are given
          MaxSegments  \* bound: segments that an allocation gets before it fails

DmaAssumption ==
    /\ NoClient \notin Clients /\ Shift \in Nat /\ Orders \subseteq Nat /\ Counts \subseteq Nat
    /\ IsFiniteSet(Orders) /\ IsFiniteSet(Counts) /\ MaxSegments \in Nat /\ Handed \subseteq Nat

VARIABLES
    dma,       \* dev->dma exists
    entries,   \* dma->bufs: the count and segments of each order
    buflist,   \* dma->buflist
    pages,     \* dma->page_count
    bytes,     \* dma->byte_count, in units
    pagelist,  \* dma->pagelist: the order and segment of each page
    used,      \* dev->buf_use is not zero
    segments,  \* external: segments of bus memory that are allocated
    open,      \* external: the clients that have the device open
    stray      \* pages were copied from a page list that has fewer
dmaVars == <<dma, entries, buflist, pages, bytes, pagelist, used, segments, open, stray>>

Page == 2 ^ Shift
NoEntry == [o \in Orders |-> [count |-> 0, segs |-> 0]]
DmaInit ==
    /\ dma = FALSE /\ entries = NoEntry /\ buflist = <<>> /\ pages = 0 /\ bytes = 0
    /\ pagelist = <<>> /\ used = FALSE /\ segments = 0 /\ open = {} /\ stray = FALSE

\* A request: its order, how many buffers, page alignment.
Size(o) == 2 ^ o
PageOrder(o) == IF o > Shift THEN o - Shift ELSE 0
Total(o) == Page * 2 ^ PageOrder(o)
Alignment(o, aligned) == IF aligned /\ Size(o) < Page THEN Page ELSE Size(o)
\* Buffers that one segment holds.
PerSegment(o, aligned) == Cardinality({i \in 0 .. Total(o) : i * Alignment(o, aligned) + Size(o) <= Total(o)})

\* The first open sets the buffers up, with no use of them yet.
drm_setup ==
    /\ \E c \in Clients \ open :
           /\ open' = open \cup {c}
           /\ IF open = {} THEN dma' = TRUE /\ used' = FALSE ELSE UNCHANGED <<dma, used>>
    /\ UNCHANGED <<entries, buflist, pages, bytes, pagelist, segments, stray>>

MayAdd(o) == dma /\ open # {} /\ ~used /\ entries[o].count = 0
Buf(o, at, n) == [order |-> o, offset |-> at, total |-> n, owner |-> NoClient, list |-> "none"]

\* AGP, scatter and frame buffer memory: one stretch, cut at the alignment.
drm_addbufs_agp ==
    /\ \E o \in Orders, n \in Counts, aligned \in BOOLEAN :
           /\ MayAdd(o)
           /\ buflist' = buflist \o [i \in 1 .. n |->
                  Buf(o, bytes + (i - 1) * Alignment(o, aligned), Alignment(o, aligned))]
           /\ entries' = [entries EXCEPT ![o].count = n]
           /\ pages' = pages + ((n * Total(o)) \div Page)
           /\ bytes' = bytes + n * Total(o)
    /\ UNCHANGED <<dma, pagelist, used, segments, open, stray>>

\* PCI memory: segments of whole pages, each cut into as many buffers as fit.
\* Not the code: one segment's buffers are laid over another's.
OffsetInSegment(o, aligned, i) == bytes + (i % PerSegment(o, aligned)) * Alignment(o, aligned)
PciOffset(o, aligned, i) ==
    bytes + (i \div PerSegment(o, aligned)) * Total(o) + (i % PerSegment(o, aligned)) * Alignment(o, aligned)
SegCount(o, aligned, n) == (n + PerSegment(o, aligned) - 1) \div PerSegment(o, aligned)
drm_addbufs_pci ==
    /\ \E o \in Orders, n \in Counts, aligned \in BOOLEAN :
           LET segs == SegCount(o, aligned, n)
               per  == 2 ^ PageOrder(o)
           IN  /\ MayAdd(o)
               /\ buflist' = buflist \o [i \in 1 .. n |-> Buf(o, PciOffset(o, aligned, i - 1), Alignment(o, aligned))]
               /\ entries' = [entries EXCEPT ![o] = [count |-> n, segs |-> segs]]
               /\ segments' = segments + segs
               /\ pagelist' = pagelist \o [p \in 1 .. segs * per |-> <<o, (p - 1) \div per>>]
               /\ stray' = (stray \/ pages > Len(pagelist))
               /\ pages' = pages + segs * per
               /\ bytes' = bytes + Page * segs * per
    /\ UNCHANGED <<dma, used, open>>

\* Memory runs out: drm_cleanup_buf_error gives the segments back.
\* Not the code: the last segment, not yet counted, is forgotten.
ReturnedCounted(got) == got - 1
Returned(got) == got
drm_cleanup_buf_error ==
    /\ \E o \in Orders, got \in 1 .. MaxSegments :
           MayAdd(o) /\ segments' = segments + got - Returned(got)
    /\ UNCHANGED <<dma, entries, buflist, pages, bytes, pagelist, used, open, stray>>

\* drm_infobufs and drm_mapbufs: from now on there are no new buffers.
drm_mapbufs ==
    /\ dma /\ open # {} /\ ~used /\ used' = TRUE
    /\ UNCHANGED <<dma, entries, buflist, pages, bytes, pagelist, segments, open, stray>>

---------------------------------------------------------------------------
\* External: the driver's DMA ioctl hands a free buffer to a client, queues it,
\* and frees it when the hardware has done with it.
Take ==
    /\ \E c \in open, i \in DOMAIN buflist \cap Handed :
           used /\ buflist[i].owner = NoClient /\ buflist' = [buflist EXCEPT ![i].owner = c]
    /\ UNCHANGED <<dma, entries, pages, bytes, pagelist, used, segments, open, stray>>
Submit ==
    /\ \E i \in DOMAIN buflist :
           \/ /\ buflist[i].owner \in open /\ buflist[i].list = "none"
              /\ buflist' = [buflist EXCEPT ![i].list = "wait"]
           \/ /\ buflist[i].list = "wait" /\ buflist' = [buflist EXCEPT ![i].list = "pend"]
           \/ /\ buflist[i].list \in {"pend", "reclaim"}
              /\ buflist' = [buflist EXCEPT ![i].list = "none", ![i].owner = NoClient]
    /\ UNCHANGED <<dma, entries, pages, bytes, pagelist, used, segments, open, stray>>

\* A client frees a list of buffers: those before the first that is not its own
\* are freed.  Whether one is on its way to the hardware is not asked, and it
\* stays so, though it may be given to another client now.
drm_freebufs ==
    /\ \E c \in open, S \in SUBSET (DOMAIN buflist \cap Handed) :
           /\ S # {} /\ \A i \in S : buflist[i].owner = c
           /\ buflist' = [i \in DOMAIN buflist |->
                             IF i \in S THEN [buflist[i] EXCEPT !.owner = NoClient] ELSE buflist[i]]
    /\ UNCHANGED <<dma, entries, pages, bytes, pagelist, used, segments, open, stray>>

Reclaim(b) == CASE b.list = "none" -> [b EXCEPT !.owner = NoClient]
                [] b.list = "wait" -> [b EXCEPT !.list = "reclaim"]
                [] OTHER -> b
\* A close; the last one takes the buffers down.
drm_release ==
    /\ \E c \in open :
           /\ open' = open \ {c}
           /\ IF open = {c}
              THEN /\ buflist' = <<>> /\ entries' = NoEntry /\ pages' = 0 /\ bytes' = 0 /\ pagelist' = <<>>
                   /\ segments' = segments - MapThenSumSet(LAMBDA o : entries[o].segs, Orders)
                   /\ dma' = FALSE
              ELSE /\ buflist' = [i \in DOMAIN buflist |->
                                     IF buflist[i].owner = c THEN Reclaim(buflist[i]) ELSE buflist[i]]
                   /\ UNCHANGED <<dma, entries, pages, bytes, pagelist, segments>>
    /\ UNCHANGED <<used, stray>>

DmaNext ==
    /\ ~stray
    /\ \/ drm_setup \/ drm_addbufs_agp \/ drm_addbufs_pci \/ drm_cleanup_buf_error \/ drm_mapbufs
       \/ Take \/ Submit \/ drm_freebufs \/ drm_release
DmaSpec == DmaInit /\ [][DmaNext]_dmaVars

---------------------------------------------------------------------------
DmaTypeOK ==
    /\ dma \in BOOLEAN /\ used \in BOOLEAN /\ stray \in BOOLEAN /\ open \subseteq Clients
    /\ entries \in [Orders -> [count : Nat, segs : Nat]] /\ segments \in Nat
    /\ \A i \in DOMAIN buflist : /\ buflist[i].owner \in Clients \cup {NoClient}
                                 /\ buflist[i].list \in {"none", "wait", "pend", "reclaim"}
    /\ pages \in Nat /\ bytes \in Nat

Bytes(b) == b.offset .. b.offset + b.total - 1
\* No two buffers share a byte of the range that clients map, and all of them
\* lie in it (drm_mapbufs adds the offset to where it has mapped byte_count).
BuffersApart ==
    \A i, j \in DOMAIN buflist :
        /\ Bytes(buflist[i]) \subseteq 0 .. bytes - 1
        /\ i # j => Bytes(buflist[i]) \cap Bytes(buflist[j]) = {}

\* Where all buffers are PCI memory, the page that a client finds at a buffer's
\* offset is one of the segment the buffer was cut from (drm_vm.c, drm_bufs.c).
PagesServe ==
    pages = Len(pagelist) =>
        /\ bytes = Page * pages
        /\ \A i \in DOMAIN buflist :
               /\ pagelist[(buflist[i].offset \div Page) + 1][1] = buflist[i].order
               /\ pagelist[((buflist[i].offset + Size(buflist[i].order) - 1) \div Page) + 1]
                     \in {pagelist[(buflist[i].offset \div Page) + 1]}

\* The list has each order's buffers, and the bus memory is that of the orders.
CountsAgree ==
    /\ \A o \in Orders : Cardinality({i \in DOMAIN buflist : buflist[i].order = o}) = entries[o].count
    /\ segments = MapThenSumSet(LAMBDA o : entries[o].segs, Orders)

\* Who has closed keeps only buffers that the hardware still has or will get
\* (drm_dma.c:132).
OwnersKnown ==
    \A i \in DOMAIN buflist :
        buflist[i].owner \notin open \cup {NoClient} => buflist[i].list \in {"pend", "reclaim"}

DmaSafe == BuffersApart /\ PagesServe /\ CountsAgree /\ OwnersKnown
=============================================================================
