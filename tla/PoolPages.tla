------------------------------ MODULE PoolPages ------------------------------
(***************************************************************************)
(* The two kernel windows that are backed page by page from the supply:    *)
(* the pool window of ntoskrnl/xb/mm/poolpages.c (bitmap, run table,       *)
(* rotating hint) and the system-memory aperture of ntoskrnl/xb/mm/sysva.c *)
(* (no record but its page-table entries), with the transfers that hold    *)
(* their pages immovable: NxcPagingIo in cache.c, and the MDLs of          *)
(* MmProbeAndLockPages and MmUnlockPages.                                  *)
(*                                                                         *)
(* An entry is <<window, "pde" or "pte", index>>; "entry" gives the frame  *)
(* it maps.  The supply is the set of its free frames and the owner of     *)
(* each frame in use; which free frame it hands out is left open.  Every   *)
(* operation raises to DISPATCH_LEVEL on the one CPU and is one action; a  *)
(* transfer starts in one and ends in another.                             *)
(***************************************************************************)
EXTENDS Integers, FiniteSets, FiniteSetsExt, Functions

CONSTANTS
    NXPP_PAGES,    \* pages of the pool window
    SysPages,      \* pages of the aperture
    PtPages,       \* pages one page table maps
    Frames,        \* the machine's frames
    NoFrame,       \* an entry that is not present
    NoOwner,       \* a frame that may not be moved
    MaxRun,        \* bound: pages of one request
    Transfer,      \* transfers that can be in flight at once
    Overlap        \* whether two locked buffers may share a page

ASSUME SizeAssumption == NXPP_PAGES \in Nat \ {0} /\ SysPages \in Nat \ {0}
                         /\ PtPages \in Nat \ {0} /\ MaxRun \in Nat
ASSUME FrameAssumption == NoFrame \notin Frames /\ IsFiniteSet(Frames)

VARIABLES
    NxppUsedMap,   \* the pages whose bit is set
    NxppRunPages,  \* run length at a run's first page, 0 elsewhere
    NxppScanHint,  \* where the first-fit search starts
    NxppCommitted, \* the statistic
    entry,         \* entry -> frame or NoFrame
    owner,         \* frame -> the entry that may be retargeted, or NoOwner
    free,          \* frames on the supply's lists
    held,          \* frames of contiguous allocations
    runs,          \* what callers hold: <<window, first page, pages>>
    io             \* the transfers in flight

window == <<NxppUsedMap, NxppRunPages, NxppScanHint, NxppCommitted>>
supply == <<entry, owner, free, held>>
vars == <<window, supply, runs, io>>

Pages(w) == 0 .. (IF w = "pool" THEN NXPP_PAGES ELSE SysPages) - 1
Pte(w, i) == <<w, "pte", i>>
Pde(w, i) == <<w, "pde", i \div PtPages>>
Windows == {"pool", "sys"}
Entries == UNION {{Pte(w, i) : i \in Pages(w)} \cup {Pde(w, i) : i \in Pages(w)} : w \in Windows}

Span(s, n) == s .. s + n - 1
Mapped(w, i) == entry[Pte(w, i)] # NoFrame
FrameOf(w, i) == entry[Pte(w, i)]

NoIo == [kind |-> "none"]
\* A transfer: the pages it covers, the frames the device was given, and
\* the pages that have not been freed under it since.
Dma(kind, w, s, n) ==
    [kind |-> kind, w |-> w, pages |-> Span(s, n), live |-> Span(s, n),
     pfn |-> [i \in Span(s, n) |-> FrameOf(w, i)]]
InFlight == {d \in Transfer : io[d] # NoIo}

Init ==
    /\ NxppUsedMap = {}
    /\ NxppRunPages = [i \in Pages("pool") |-> 0]
    /\ NxppScanHint = 0
    /\ NxppCommitted = 0
    /\ entry = [e \in Entries |-> NoFrame]
    /\ owner = [f \in Frames |-> NoOwner]
    /\ free = Frames
    /\ held = {}
    /\ runs = {}
    /\ io = [d \in Transfer |-> NoIo]

-----------------------------------------------------------------------------
(* Backing a run: the page tables and the pages it needs, in the order in  *)
(* which they are taken.                                                   *)

Needed(w, s, n) ==
    {Pte(w, i) : i \in Span(s, n)} \cup {e \in {Pde(w, i) : i \in Span(s, n)} : entry[e] = NoFrame}

\* The pool takes each page table when it reaches the first page below it,
\* the aperture takes all page tables first.
Rank(w, s, e) ==
    CASE e[2] = "pte"               -> 2 * e[3] + 1
      [] e[2] = "pde" /\ w = "pool" -> 2 * Max({s, e[3] * PtPages})
      [] e[2] = "pde" /\ w = "sys"  -> e[3] - SysPages

Taken(w, s, n) ==
    LET need == Needed(w, s, n)
    IN  {e \in need : Cardinality({d \in need : Rank(w, s, d) < Rank(w, s, e)}) < Cardinality(free)}

Enough(w, s, n) == Taken(w, s, n) = Needed(w, s, n)

\* Mutant of Backed: the roll-back loop stops before the run's first page.
BackedFirst(w, s, n) ==
    IF Enough(w, s, n) THEN Needed(w, s, n)
    ELSE {e \in Taken(w, s, n) : e[2] = "pde" \/ e[3] = s}

\* The entries that stay filled: when the supply runs dry the pages go back
\* and the page tables stay.
Backed(w, s, n) ==
    IF Enough(w, s, n) THEN Needed(w, s, n)
    ELSE {e \in Taken(w, s, n) : e[2] = "pde"}

\* The pool's frames may be moved, the aperture's may not.
Back(w, s, n) ==
    \E f \in Injection(Backed(w, s, n), free) :
        LET at(g) == {e \in DOMAIN f : f[e] = g}
        IN  /\ entry' = [e \in Entries |-> IF e \in DOMAIN f THEN f[e] ELSE entry[e]]
            /\ owner' = [g \in Frames |->
                            IF at(g) = {} THEN owner[g]
                            ELSE IF w = "pool" THEN CHOOSE e \in at(g) : TRUE ELSE NoOwner]
            /\ free' = free \ {f[e] : e \in DOMAIN f}
            /\ UNCHANGED held

\* The frames of pages P go back to the supply, which forgets their owner.
Unback(w, P) ==
    LET gone == {FrameOf(w, i) : i \in {j \in P : Mapped(w, j)}}
    IN  /\ entry' = [e \in Entries |-> IF \E i \in P : e = Pte(w, i) THEN NoFrame ELSE entry[e]]
        /\ owner' = [f \in Frames |-> IF f \in gone THEN NoOwner ELSE owner[f]]
        /\ free' = free \cup gone
        /\ UNCHANGED held
        /\ io' = [d \in Transfer |->
                    IF io[d] # NoIo /\ io[d].w = w THEN [io[d] EXCEPT !.live = @ \ P] ELSE io[d]]

-----------------------------------------------------------------------------
(* poolpages.c                                                             *)

\* Mutant of NxppTestRange: the last page of the range is not tested.
NxppTestRangeShort(s, n) == Span(s, n - 1) \cap NxppUsedMap = {}

NxppTestRange(s, n) == Span(s, n) \cap NxppUsedMap = {}

\* First fit from the hint, then from the start.
Fits(n) == {s \in Pages("pool") : s + n <= NXPP_PAGES /\ NxppTestRange(s, n)}
FirstFit(n) == LET after == {s \in Fits(n) : s >= NxppScanHint}
               IN  Min(IF after # {} THEN after ELSE Fits(n))

NxPoolPagesAlloc(n) ==
    /\ Fits(n) # {}
    /\ LET s == FirstFit(n)
       IN  /\ Back("pool", s, n)
           /\ IF Enough("pool", s, n)
              THEN /\ NxppUsedMap' = NxppUsedMap \cup Span(s, n)
                   /\ NxppRunPages' = [NxppRunPages EXCEPT ![s] = n]
                   /\ NxppCommitted' = NxppCommitted + n
                   /\ NxppScanHint' = IF s + n >= NXPP_PAGES THEN 0 ELSE s + n
                   /\ runs' = runs \cup {<<"pool", s, n>>}
              ELSE UNCHANGED <<window, runs>>
    /\ UNCHANGED io

\* A block of the cache is referenced during its transfer, so its memory
\* stays; a buffer locked by an MDL may be freed under it.
Unused(w, P) == \A d \in InFlight : io[d].kind = "cache" => io[d].w # w \/ io[d].pages \cap P = {}

NxPoolPagesFree(s) ==
    /\ <<"pool", s, NxppRunPages[s]>> \in runs
    /\ LET P == Span(s, NxppRunPages[s])
       IN  /\ Unused("pool", P)
           /\ Unback("pool", P)
           /\ NxppUsedMap' = NxppUsedMap \ P
           /\ NxppCommitted' = NxppCommitted - NxppRunPages[s]
    /\ NxppRunPages' = [NxppRunPages EXCEPT ![s] = 0]
    /\ runs' = runs \ {<<"pool", s, NxppRunPages[s]>>}
    /\ UNCHANGED NxppScanHint

\* One word per frame, without a count.
NxPoolPagesSetMovable(P, movable) ==
    owner' = [f \in Frames |->
                LET at == {i \in P : FrameOf("pool", i) = f}
                IN  IF at = {} THEN owner[f]
                    ELSE IF movable THEN Pte("pool", CHOOSE i \in at : TRUE) ELSE NoOwner]

-----------------------------------------------------------------------------
(* sysva.c: first fit over the entries.                                    *)

SysFits(n) == {s \in Pages("sys") : s + n <= SysPages /\ \A i \in Span(s, n) : ~Mapped("sys", i)}

NxkSysVaAllocate(n) ==
    /\ SysFits(n) # {}
    /\ LET s == Min(SysFits(n))
       IN  /\ Back("sys", s, n)
           /\ runs' = IF Enough("sys", s, n) THEN runs \cup {<<"sys", s, n>>} ELSE runs
    /\ UNCHANGED <<window, io>>

\* The title passes the size it asked for.
NxkSysVaFree(s, n) ==
    /\ <<"sys", s, n>> \in runs
    /\ Unback("sys", Span(s, n))
    /\ runs' = runs \ {<<"sys", s, n>>}
    /\ UNCHANGED window

-----------------------------------------------------------------------------
(* Transfers.                                                              *)

\* A block of the cache has its pages to itself and is busy during its
\* transfer; two buffers that drivers lock may lie in one page.
Apart(c, kind, w, P) ==
    \/ io[c].w # w
    \/ io[c].pages \cap P = {}
    \/ Overlap /\ kind = "mdl" /\ io[c].kind = "mdl"

Start(d, kind, w, s, n) ==
    /\ io[d] = NoIo
    /\ \A i \in Span(s, n) : i \in Pages(w) /\ Mapped(w, i)
    /\ \A c \in InFlight : Apart(c, kind, w, Span(s, n))
    /\ io' = [io EXCEPT ![d] = Dma(kind, w, s, n)]
    /\ UNCHANGED <<entry, free, held, window, runs>>

\* NxcPagingIo on a block, a run of the pool.
NxcPagingIoStart(d, s, n) ==
    /\ <<"pool", s, n>> \in runs
    /\ Start(d, "cache", "pool", s, n)
    /\ NxPoolPagesSetMovable(Span(s, n), FALSE)

NxcPagingIoEnd(d) ==
    /\ io[d].kind = "cache"
    /\ NxPoolPagesSetMovable(io[d].pages, TRUE)
    /\ io' = [io EXCEPT ![d] = NoIo]
    /\ UNCHANGED <<entry, free, held, window, runs>>

\* Mutant of Locked: the pages keep their owner.
LockedMovable(w, P) == owner

Locked(w, P) == [f \in Frames |-> IF \E i \in P : FrameOf(w, i) = f THEN NoOwner ELSE owner[f]]

\* MmProbeAndLockPages: a call that meets an absent page locks those before
\* it and unlocks them at once, which is a shorter call and its end.
MmProbeAndLockPages(d, w, s, n) ==
    /\ Start(d, "mdl", w, s, n)
    /\ owner' = Locked(w, Span(s, n))

\* Mutant of StillMapped: whatever the entry maps now.
StillMappedAnyway(d) == {i \in io[d].pages : io[d].pfn[i] \notin free}

\* The pages of a transfer whose entry maps the frame the device was given.
StillMapped(d) == {i \in io[d].pages : FrameOf(io[d].w, i) = io[d].pfn[i]}

MmUnlockPages(d) ==
    /\ io[d].kind = "mdl"
    /\ owner' = [f \in Frames |->
                    LET at == {i \in StillMapped(d) : io[d].pfn[i] = f}
                    IN  IF at = {} THEN owner[f] ELSE Pte(io[d].w, CHOOSE i \in at : TRUE)]
    /\ io' = [io EXCEPT ![d] = NoIo]
    /\ UNCHANGED <<entry, free, held, window, runs>>

-----------------------------------------------------------------------------
(* The supply's other client, the contiguous allocator: it takes a free    *)
(* frame, or a frame with an owner whose page moves to a free one.         *)

NxkPageSupplyTakeRun(f) ==
    /\ f \in free
    /\ free' = free \ {f}
    /\ held' = held \cup {f}
    /\ UNCHANGED <<entry, owner, window, runs, io>>

NxkPageSupplyTakeRunRelocate(f, dest) ==
    /\ f \in Frames \ free
    /\ owner[f] # NoOwner
    /\ dest \in free
    /\ entry' = [entry EXCEPT ![owner[f]] = dest]
    /\ owner' = [owner EXCEPT ![dest] = owner[f], ![f] = NoOwner]
    /\ free' = free \ {dest}
    /\ held' = held \cup {f}
    /\ UNCHANGED <<window, runs, io>>

NxkPageSupplyReturn(f) ==
    /\ f \in held
    /\ free' = free \cup {f}
    /\ held' = held \ {f}
    /\ UNCHANGED <<entry, owner, window, runs, io>>

Next ==
    \/ \E n \in 1 .. MaxRun : NxPoolPagesAlloc(n) \/ NxkSysVaAllocate(n)
    \/ \E s \in Pages("pool") : NxPoolPagesFree(s)
    \/ \E s \in Pages("sys"), n \in 1 .. MaxRun : NxkSysVaFree(s, n)
    \/ \E d \in Transfer :
         \/ \E s \in Pages("pool"), n \in 1 .. MaxRun : NxcPagingIoStart(d, s, n)
         \/ \E w \in Windows : \E s \in Pages(w), n \in 1 .. MaxRun : MmProbeAndLockPages(d, w, s, n)
         \/ NxcPagingIoEnd(d)
         \/ MmUnlockPages(d)
    \/ \E f \in Frames : NxkPageSupplyTakeRun(f) \/ NxkPageSupplyReturn(f)
    \/ \E f, dest \in Frames : NxkPageSupplyTakeRunRelocate(f, dest)

Spec == Init /\ [][Next]_vars

-----------------------------------------------------------------------------
(* Properties.                                                             *)

\* Every variable has its type.
TypeOK ==
    /\ NxppUsedMap \subseteq Pages("pool")
    /\ NxppRunPages \in [Pages("pool") -> 0 .. NXPP_PAGES]
    /\ NxppScanHint \in Pages("pool")
    /\ NxppCommitted \in 0 .. NXPP_PAGES
    /\ entry \in [Entries -> Frames \cup {NoFrame}]
    /\ owner \in [Frames -> Entries \cup {NoOwner}]
    /\ free \subseteq Frames /\ held \subseteq Frames

Covered(w) == UNION {Span(r[2], r[3]) : r \in {q \in runs : q[1] = w}}

\* The records of a window agree with each other and with what callers
\* hold, whatever was freed, rolled back or moved in between: no two runs
\* overlap, exactly their pages are mapped (so a search that trusts the
\* bitmap, or the bare entries, never lands on a page in use), every mapped
\* page has its page table, and the bitmap, the run table and the statistic
\* of poolpages.c describe the same pages.
WindowExact ==
    /\ \A q, r \in runs : q # r /\ q[1] = r[1] => Span(q[2], q[3]) \cap Span(r[2], r[3]) = {}
    /\ \A w \in Windows : \A i \in Pages(w) :
          /\ Mapped(w, i) <=> i \in Covered(w)
          /\ Mapped(w, i) => entry[Pde(w, i)] # NoFrame
    /\ NxppUsedMap = Covered("pool")
    /\ NxppCommitted = Cardinality(NxppUsedMap)
    /\ \A s \in Pages("pool") : NxppRunPages[s] # 0 <=> <<"pool", s, NxppRunPages[s]>> \in runs
    /\ Cardinality({r \in runs : r[1] = "pool"}) = Cardinality({s \in Pages("pool") : NxppRunPages[s] # 0})

\* Every frame is in one place: free, in a contiguous allocation, or mapped
\* by one entry.  A roll-back that forgets a page, a free that returns one
\* twice or a page table dropped with its pages would break it.
FramesExact ==
    \A f \in Frames :
        Cardinality({e \in Entries : entry[e] = f})
          + (IF f \in free THEN 1 ELSE 0) + (IF f \in held THEN 1 ELSE 0) = 1

\* The owner of a frame is the entry that maps it: a relocation writes the
\* entry the owner names, and after a stale one it would retarget a page of
\* somebody else.  And a page of the pool that is under no transfer has its
\* owner: a pin that is not undone would hold the frame until it is freed
\* and make later contiguous requests fail.
OwnersExact ==
    /\ \A f \in Frames : owner[f] # NoOwner => entry[owner[f]] = f
    /\ \A i \in Pages("pool") :
          Mapped("pool", i) /\ (\A d \in InFlight : io[d].w = "pool" => i \notin io[d].pages)
              => owner[FrameOf("pool", i)] = Pte("pool", i)

\* As long as a transfer runs, each of its pages that has not been freed is
\* mapped to the frame the device was given.
DmaStill == \A d \in InFlight : \A i \in io[d].live : FrameOf(io[d].w, i) = io[d].pfn[i]
==============================================================================
