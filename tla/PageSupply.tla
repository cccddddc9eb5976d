------------------------------ MODULE PageSupply ------------------------------
(***************************************************************************)
(* The physical page supply of ntoskrnl/xb/mm/pagesupply.c (NXK_MM_PHYS):  *)
(* one link word per frame, two free lists (kernel-preferred and title),   *)
(* the spill hint, the two availability counters, and the relocating       *)
(* contiguous allocator, together with what the callers of the supply do   *)
(* with the frames it hands out:                                           *)
(*                                                                         *)
(*   singles    frames taken one by one and not (yet) mapped: page tables, *)
(*              pool pages, the kernel-image pages donated after boot;     *)
(*   pte        the frame each page-table entry maps (0: not present);     *)
(*   runs       the contiguous allocations that are recorded as live.      *)
(*                                                                         *)
(* Every operation runs under the PFN lock on the one CPU.  An operation   *)
(* that handles several frames keeps the lock from the first to the last;  *)
(* it is modelled frame by frame, with "op" saying how far it got, and     *)
(* nothing else runs until op is Idle again.                               *)
(*                                                                         *)
(* "mem" abstracts the contents of a frame to the entry whose data it      *)
(* holds, 0 standing for contents nobody relies on (a free frame, a frame  *)
(* not yet mapped, the run of a contiguous allocation).                    *)
(***************************************************************************)
EXTENDS Integers, FiniteSets

CONSTANTS
    HighestPfn,        \* NxpHighestPfn
    KernelLowPfn,      \* NxpKernelLowPfn, first frame of the kernel class
    KernelHighPfn,     \* NxpKernelHighPfn, last frame of the kernel class
    GenericFloorPfn,   \* NXP_GENERIC_FLOOR_PFN: frames below are pin-only
    BootFree,          \* frames the loader's free descriptors hand over
    BootHeld,          \* kernel-image frames that are donated after boot
    ClaimPages,        \* frames that are claimed one by one by number
    Ptes,              \* owner indexes (page-table entries that can map)
    Requests,          \* contiguous requests the clients make
    WordSize           \* 2^w for the unsigned PFN_NUMBER arithmetic

Pages == 1 .. HighestPfn

ASSUME HighestPfnAssumption == HighestPfn \in Nat \ {0}
ASSUME ClassAssumption == KernelLowPfn \in Nat /\ KernelHighPfn \in Nat
ASSUME FloorAssumption == GenericFloorPfn \in Nat \ {0}
ASSUME BootAssumption ==
    BootFree \subseteq Pages /\ BootHeld \subseteq Pages \ BootFree
ASSUME ClaimAssumption == ClaimPages \subseteq Pages
ASSUME PtesAssumption == Ptes \subseteq Nat \ {0}
ASSUME RequestsAssumption ==
    Requests \subseteq [pages : Nat \ {0}, low : Nat, high : Nat, align : Nat \ {0}]
ASSUME WordSizeAssumption == WordSize \in Nat /\ WordSize > HighestPfn

VARIABLES
    NxpLinks,          \* one entry per frame
    NxpFreeHead,       \* NxpFreeHeadKernel and NxpFreeHeadTitle (0: empty)
    NxpSpillHint,      \* where the upward scan for a free frame starts
    NxpGenericAvail,   \* free frames at or above the floor
    MmAvailablePages,  \* free frames
    pte, mem, singles, runs,
    op                 \* the multi-frame operation holding the PFN lock

supply == <<NxpLinks, NxpFreeHead, NxpSpillHint, NxpGenericAvail, MmAvailablePages>>
clients == <<pte, mem, singles, runs>>
vars == <<supply, clients, op>>

PfnOrZero == 0 .. HighestPfn
Classes == {"kernel", "title"}

\* A link word is either FREE|prev|next or the owner's index (0: immovable).
FreeEntry(prev, next) == [free |-> TRUE, prev |-> prev, next |-> next, owner |-> 0]
InUse(owner) == [free |-> FALSE, prev |-> 0, next |-> 0, owner |-> owner]
Entries == [free : BOOLEAN, prev : PfnOrZero, next : PfnOrZero, owner : Ptes \cup {0}]

IsFree(p) == NxpLinks[p].free
FreePages == {p \in Pages : IsFree(p)}
Generic(p) == p >= GenericFloorPfn
Window(base, n) == base .. (base + n - 1)

Idle == [kind |-> "idle", base |-> 0, pages |-> 0, done |-> 0]
Begin(kind, base, n) ==
    [kind |-> kind, base |-> base, pages |-> n, done |-> 0]
Current == op.base + op.done
\* Mutant of Advance: the loop bound is off by one.
AdvanceLate == IF op.done = op.pages THEN Idle ELSE [op EXCEPT !.done = @ + 1]

\* The operation moves on to its next frame, or drops the lock after the last.
Advance == IF op.done + 1 = op.pages THEN Idle ELSE [op EXCEPT !.done = @ + 1]

-----------------------------------------------------------------------------
(* The free lists.                                                         *)

NxpHeadFor(p) == IF KernelLowPfn <= p /\ p <= KernelHighPfn THEN "kernel" ELSE "title"

\* Mutant of NxpPushHead: the old head keeps prev = 0.
NxpPushHeadOneWay(p) ==
    /\ NxpLinks' = [NxpLinks EXCEPT ![p] = FreeEntry(0, NxpFreeHead[NxpHeadFor(p)])]
    /\ NxpFreeHead' = [NxpFreeHead EXCEPT ![NxpHeadFor(p)] = p]
    /\ MmAvailablePages' = MmAvailablePages + 1
    /\ NxpGenericAvail' = NxpGenericAvail + (IF Generic(p) THEN 1 ELSE 0)

NxpPushHead(p) ==
    LET head   == NxpFreeHead[NxpHeadFor(p)]
        pushed == [NxpLinks EXCEPT ![p] = FreeEntry(0, head)]
    IN  /\ NxpLinks' = IF head # 0
                       THEN [pushed EXCEPT ![head] = FreeEntry(p, @.next)]
                       ELSE pushed
        /\ NxpFreeHead' = [NxpFreeHead EXCEPT ![NxpHeadFor(p)] = p]
        /\ MmAvailablePages' = MmAvailablePages + 1
        /\ NxpGenericAvail' = NxpGenericAvail + (IF Generic(p) THEN 1 ELSE 0)

\* The link words after p is taken off its list.
Unlinked(p) ==
    LET prev   == NxpLinks[p].prev
        next   == NxpLinks[p].next
        before == IF prev # 0
                  THEN [NxpLinks EXCEPT ![prev] = FreeEntry(@.prev, next)]
                  ELSE NxpLinks
        after  == IF next # 0
                  THEN [before EXCEPT ![next] = FreeEntry(prev, @.next)]
                  ELSE before
    IN  [after EXCEPT ![p] = InUse(0)]

\* Mutant of UnlinkHead: the head moves on even when p is not the head.
UnlinkHeadAlways(p) ==
    /\ NxpFreeHead' = [NxpFreeHead EXCEPT ![NxpHeadFor(p)] = NxpLinks[p].next]
    /\ MmAvailablePages' = MmAvailablePages - 1
    /\ NxpGenericAvail' = NxpGenericAvail - (IF Generic(p) THEN 1 ELSE 0)

\* The rest of NxpUnlink: the list head and the counters.
UnlinkHead(p) ==
    /\ NxpFreeHead' = IF NxpLinks[p].prev = 0
                      THEN [NxpFreeHead EXCEPT ![NxpHeadFor(p)] = NxpLinks[p].next]
                      ELSE NxpFreeHead
    /\ MmAvailablePages' = MmAvailablePages - 1
    /\ NxpGenericAvail' = NxpGenericAvail - (IF Generic(p) THEN 1 ELSE 0)

NxpUnlink(p) == NxpLinks' = Unlinked(p) /\ UnlinkHead(p)

\* Mutant of NxkPageSupplyReturn: the hint is not lowered.
ReturnKeepsHint(p) ==
    /\ NxpPushHead(p)
    /\ NxpSpillHint' = NxpSpillHint
    /\ mem' = [mem EXCEPT ![p] = 0]

NxkPageSupplyReturn(p) ==
    /\ NxpPushHead(p)
    /\ NxpSpillHint' = IF p < NxpSpillHint THEN p ELSE NxpSpillHint
    /\ mem' = [mem EXCEPT ![p] = 0]

-----------------------------------------------------------------------------
(* Choosing a frame.                                                       *)

LowestOf(S) == IF S = {} THEN 0 ELSE CHOOSE p \in S : \A q \in S : p <= q
HighestOf(S) == IF S = {} THEN 0 ELSE CHOOSE p \in S : \A q \in S : p >= q

\* Where the upward scan of NxkPageSupplyTakeAny ends: the lowest free frame
\* at or above both the hint and the floor.
SpillPfn == LowestOf({p \in FreePages : p >= NxpSpillHint /\ Generic(p)})

\* The frame NxkPageSupplyTakeAny takes: the kernel list first, then the spill.
AnyPfn ==
    IF NxpFreeHead["kernel"] # 0 THEN NxpFreeHead["kernel"]
    ELSE IF NxpFreeHead["title"] = 0 THEN 0 ELSE SpillPfn

\* The frame NxkPageSupplyTakeAnyOutside takes: the head of the kernel list,
\* else the lowest free frame from the hint up (no floor here), else whatever
\* the two list walks find (the title walk skips pin-only frames).
OutsidePfn(low, high) ==
    LET out  == {p \in FreePages : p < low \/ p > high}
        up   == {p \in out : p >= NxpSpillHint}
        rest == {p \in out : NxpHeadFor(p) = "kernel" \/ Generic(p)}
    IN  IF NxpFreeHead["kernel"] \in out THEN NxpFreeHead["kernel"]
        ELSE IF up # {} THEN LowestOf(up)
        ELSE IF rest # {} THEN CHOOSE p \in rest : TRUE ELSE 0

\* Both run scans try aligned bases top down inside the clamped window, so
\* they find the highest one that fits.
LowOf(r) == IF r.low = 0 THEN 1 ELSE r.low
HighOf(r) == IF r.high > HighestPfn THEN HighestPfn ELSE r.high
Bases(r) == {b \in LowOf(r) .. HighOf(r) :
                b % r.align = 0 /\ b + r.pages - 1 <= HighOf(r)}
FreeRuns(r) == {b \in Bases(r) : Window(b, r.pages) \subseteq FreePages}

\* Mutant of PreFlight: counts the pin-only frames too.
PreFlightAll(free, movable) == (MmAvailablePages - free) % WordSize >= movable

\* Every frame of the window is free or has an owner, and the pre-flight
\* subtraction (unsigned) leaves enough frames to rehome the owned ones.
PreFlight(free, movable) == (NxpGenericAvail - free) % WordSize >= movable
RelocatableRuns(r) ==
    {b \in Bases(r) :
        LET w       == Window(b, r.pages)
            movable == {p \in w : ~IsFree(p) /\ NxpLinks[p].owner # 0}
        IN  /\ w \subseteq FreePages \cup movable
            /\ PreFlight(Cardinality(w \cap FreePages), Cardinality(movable))}

\* Displacing live pages is tried only when no free run fits.
RunBase(r) == IF FreeRuns(r) # {} THEN HighestOf(FreeRuns(r))
              ELSE HighestOf(RelocatableRuns(r))

-----------------------------------------------------------------------------
(* Boot: NxkPageSupplyInitialize leaves every frame in use; the walk of    *)
(* the loader's descriptors then returns the free ones in ascending order. *)

Init ==
    /\ NxpLinks = [p \in Pages |-> InUse(0)]
    /\ NxpFreeHead = [c \in Classes |-> 0]
    /\ NxpSpillHint = 1
    /\ NxpGenericAvail = 0
    /\ MmAvailablePages = 0
    /\ pte = [e \in Ptes |-> 0]
    /\ mem = [p \in Pages |-> 0]
    /\ singles = BootHeld
    /\ runs = {}
    /\ op = Begin("boot", 1, HighestPfn)

BootPage ==
    /\ op.kind = "boot"
    /\ IF Current \in BootFree THEN NxkPageSupplyReturn(Current) ELSE UNCHANGED <<supply, mem>>
    /\ op' = Advance
    /\ UNCHANGED <<pte, singles, runs>>

-----------------------------------------------------------------------------
(* Single frames.                                                          *)

\* NxkPageSupplyTakeAny, which NxkPageSupplyTakeZero calls before it zeroes.
TakeAny ==
    /\ op = Idle
    /\ AnyPfn # 0
    /\ NxpUnlink(AnyPfn)
    /\ NxpSpillHint' = IF NxpFreeHead["kernel"] = 0 THEN AnyPfn ELSE NxpSpillHint
    /\ singles' = singles \cup {AnyPfn}
    /\ UNCHANGED <<pte, mem, runs, op>>

\* A frame claimed by number is held like a run of one.
TakeSpecific(p) ==
    /\ op = Idle
    /\ IsFree(p)
    /\ NxpUnlink(p)
    /\ runs' = runs \cup {[base |-> p, pages |-> 1]}
    /\ UNCHANGED <<NxpSpillHint, pte, mem, singles, op>>

ReturnSingle(p) ==
    /\ op = Idle
    /\ NxkPageSupplyReturn(p)
    /\ singles' = singles \ {p}
    /\ UNCHANGED <<pte, runs, op>>

\* The owner of entry e maps a frame it took and puts its data there.
WritePte(e, p) ==
    /\ op = Idle
    /\ pte[e] = 0
    /\ pte' = [pte EXCEPT ![e] = p]
    /\ mem' = [mem EXCEPT ![p] = e]
    /\ singles' = singles \ {p}
    /\ UNCHANGED <<supply, runs, op>>

\* NxkPageSupplySetOwner on the frame entry e maps: with owner e it becomes
\* movable, with owner 0 it is pinned (for the life of a DMA transfer, say).
SetOwner(e, owner) ==
    /\ op = Idle
    /\ pte[e] # 0
    /\ ~IsFree(pte[e])
    /\ NxpLinks' = [NxpLinks EXCEPT ![pte[e]] = InUse(owner)]
    /\ UNCHANGED <<NxpFreeHead, NxpSpillHint, NxpGenericAvail, MmAvailablePages,
                   clients, op>>

\* Mutant of Unmap: the entry is not cleared.
UnmapKeepsPte(e) ==
    /\ op = Idle
    /\ pte[e] # 0
    /\ NxkPageSupplyReturn(pte[e])
    /\ UNCHANGED <<pte, singles, runs, op>>

\* The frame is read from the entry, disowned and returned under the PFN lock.
Unmap(e) ==
    /\ op = Idle
    /\ pte[e] # 0
    /\ NxkPageSupplyReturn(pte[e])
    /\ pte' = [pte EXCEPT ![e] = 0]
    /\ UNCHANGED <<singles, runs, op>>

-----------------------------------------------------------------------------
(* Contiguous runs.                                                        *)

ContigBegin(r) ==
    /\ op = Idle
    /\ RunBase(r) # 0
    /\ op' = Begin("take", RunBase(r), r.pages)
    /\ UNCHANGED <<supply, clients>>

\* The run is complete once its last frame is taken; its user writes to it.
ContigAdvance ==
    /\ op' = Advance
    /\ runs' = IF op.done + 1 = op.pages
               THEN runs \cup {[base |-> op.base, pages |-> op.pages]}
               ELSE runs

TakeWindowPage ==
    /\ op.kind = "take"
    /\ IsFree(Current)
    /\ NxpUnlink(Current)
    /\ ContigAdvance
    /\ UNCHANGED <<NxpSpillHint, pte, mem, singles>>

\* Mutant of MoveWindowPage: the entry is retargeted without the copy.
MoveWithoutCopy ==
    LET owner == NxpLinks[Current].owner
        dest  == OutsidePfn(op.base, op.base + op.pages - 1)
    IN  /\ op.kind = "take"
        /\ ~IsFree(Current)
        /\ dest # 0
        /\ NxpLinks' = [Unlinked(dest) EXCEPT ![dest] = InUse(owner),
                                              ![Current] = InUse(0)]
        /\ UnlinkHead(dest)
        /\ pte' = [pte EXCEPT ![owner] = dest]
        /\ mem' = [mem EXCEPT ![Current] = 0]
        /\ ContigAdvance
        /\ UNCHANGED <<NxpSpillHint, singles>>

\* Copy the frame, retarget its entry, hand the owner to the new frame.
MoveWindowPage ==
    LET owner == NxpLinks[Current].owner
        dest  == OutsidePfn(op.base, op.base + op.pages - 1)
    IN  /\ op.kind = "take"
        /\ ~IsFree(Current)
        /\ dest # 0
        /\ NxpLinks' = [Unlinked(dest) EXCEPT ![dest] = InUse(owner),
                                              ![Current] = InUse(0)]
        /\ UnlinkHead(dest)
        /\ pte' = [pte EXCEPT ![owner] = dest]
        /\ mem' = [mem EXCEPT ![dest] = mem[Current], ![Current] = 0]
        /\ ContigAdvance
        /\ UNCHANGED <<NxpSpillHint, singles>>

\* No frame to move to: the scan gives up where it stands.
AbandonWindow ==
    /\ op.kind = "take"
    /\ ~IsFree(Current)
    /\ OutsidePfn(op.base, op.base + op.pages - 1) = 0
    /\ op' = Idle
    /\ UNCHANGED <<supply, clients>>

ContigFree(r) ==
    /\ op = Idle
    /\ runs' = runs \ {r}
    /\ op' = Begin("return", r.base, r.pages)
    /\ UNCHANGED <<supply, pte, mem, singles>>

ReturnRunPage ==
    /\ op.kind = "return"
    /\ NxkPageSupplyReturn(Current)
    /\ op' = Advance
    /\ UNCHANGED <<pte, singles, runs>>

-----------------------------------------------------------------------------
Next ==
    \/ BootPage
    \/ TakeAny
    \/ \E p \in ClaimPages : TakeSpecific(p)
    \/ \E p \in singles : ReturnSingle(p)
    \/ \E e \in Ptes, p \in singles : WritePte(e, p)
    \/ \E e \in Ptes : SetOwner(e, e)
    \/ \E e \in Ptes : SetOwner(e, 0)
    \/ \E e \in Ptes : Unmap(e)
    \/ \E r \in Requests : ContigBegin(r)
    \/ TakeWindowPage
    \/ MoveWindowPage
    \/ AbandonWindow
    \/ \E r \in runs : ContigFree(r)
    \/ ReturnRunPage

Spec == Init /\ [][Next]_vars
-----------------------------------------------------------------------------
(* Properties.                                                             *)

Runs == {r \in [base : Pages, pages : Pages] : r.base + r.pages - 1 <= HighestPfn}
Ops == [kind : {"idle", "boot", "take", "return"}, base : PfnOrZero,
        pages : PfnOrZero, done : PfnOrZero]

\* Every variable has its type; a running operation stays inside the frames.
TypeOK ==
    /\ NxpLinks \in [Pages -> Entries]
    /\ NxpFreeHead \in [Classes -> PfnOrZero]
    /\ NxpSpillHint \in Pages
    /\ NxpGenericAvail \in Int
    /\ MmAvailablePages \in Int
    /\ pte \in [Ptes -> PfnOrZero]
    /\ mem \in [Pages -> Ptes \cup {0}]
    /\ singles \subseteq Pages
    /\ runs \subseteq Runs
    /\ op \in Ops
    /\ op = Idle \/ (op.done < op.pages /\ Window(op.base, op.pages) \subseteq Pages)
    /\ op.kind = "boot" => op.base = 1 /\ op.pages = HighestPfn

\* Links and heads agree with each other: a neighbour named by a free entry is
\* free, of the same class, and names the entry back, and a class's head is the
\* one entry of the class without a predecessor (pagesupply.c, NxpPushHead and
\* NxpUnlink).
LinksAgree ==
    /\ \A p \in FreePages :
          LET prev == NxpLinks[p].prev
              next == NxpLinks[p].next
          IN  /\ prev # 0 => /\ IsFree(prev) /\ NxpLinks[prev].next = p
                             /\ NxpHeadFor(prev) = NxpHeadFor(p)
              /\ next # 0 => /\ IsFree(next) /\ NxpLinks[next].prev = p
                             /\ NxpHeadFor(next) = NxpHeadFor(p)
              /\ prev = 0 => NxpFreeHead[NxpHeadFor(p)] = p
    /\ \A c \in Classes :
          LET head == NxpFreeHead[c]
          IN  head # 0 => IsFree(head) /\ NxpLinks[head].prev = 0 /\ NxpHeadFor(head) = c

\* The frames met when the list of class c is walked from its head, 0 once the
\* walk has ended.
WalkOf(c) ==
    LET walk[n \in PfnOrZero] ==
            IF n = 0 THEN NxpFreeHead[c]
            ELSE IF walk[n - 1] = 0 THEN 0 ELSE NxpLinks[walk[n - 1]].next
    IN  walk

\* Walking a class's list from its head meets exactly the free frames of the
\* class, each once, and ends: no free frame is unreachable and no list is
\* cyclic after any mix of pushes, mid-list unlinks and relocations.  And
\* MmAvailablePages counts the free frames and NxpGenericAvail those at or
\* above the floor, which is what the relocation pre-flight relies on.
ListsExact ==
    /\ \A c \in Classes :
          LET members == {p \in FreePages : NxpHeadFor(p) = c}
              walk    == WalkOf(c)
          IN  /\ {walk[n] : n \in PfnOrZero} \ {0} = members
              /\ walk[Cardinality(members)] = 0
    /\ MmAvailablePages = Cardinality(FreePages)
    /\ NxpGenericAvail = Cardinality({p \in FreePages : Generic(p)})

\* No generic free frame lies below the spill hint, so the upward scans of
\* TakeAny and TakeAnyOutside overlook none (and the list walks that follow
\* the scan in TakeAnyOutside never find one either).
SpillHintSound == \A p \in FreePages : Generic(p) => p >= NxpSpillHint

\* Owner words and page-table entries name each other: a frame with an owner is
\* the frame that entry maps, and a mapped frame is in use and is owned by its
\* entry or by nobody (a pinned frame).
OwnersAgree ==
    /\ \A p \in Pages : NxpLinks[p].owner # 0 => ~IsFree(p) /\ pte[NxpLinks[p].owner] = p
    /\ \A e \in Ptes : pte[e] # 0 => ~IsFree(pte[e]) /\ NxpLinks[pte[e]].owner \in {0, e}

\* Whatever frames relocation moves, every entry still maps the frame that
\* holds its own data.
ContentsFollow == \A e \in Ptes : pte[e] # 0 => mem[pte[e]] = e

Reserved == Pages \ (BootFree \cup BootHeld)

\* The frames of the running operation that are off the lists for its sake.
InFlight ==
    {p \in Pages : \/ op.kind = "boot" /\ p \in BootFree /\ p >= Current
                   \/ op.kind = "take" /\ p >= op.base /\ p < Current
                   \/ op.kind = "return" /\ p >= Current /\ p < op.base + op.pages}

\* In use, with no entry that owns it or maps it.
Unowned(p) == ~IsFree(p) /\ NxpLinks[p].owner = 0 /\ \A e \in Ptes : pte[e] # p
InRun(p, r) == p \in Window(r.base, r.pages)

\* No frame has two holders: none is free while somebody holds it, and no two
\* entries, runs, single takers or the running operation share one.  In
\* particular the double-free ASSERT of NxkPageSupplyReturn never fires.
NoFrameShared ==
    /\ \A e, f \in Ptes : pte[e] = pte[f] /\ pte[e] # 0 => e = f
    /\ \A p \in singles \cup InFlight \cup Reserved : Unowned(p) /\ \A r \in runs : ~InRun(p, r)
    /\ \A r \in runs : \A p \in Window(r.base, r.pages) : Unowned(p)
    /\ \A r, s \in runs : \A p \in Pages : InRun(p, r) /\ InRun(p, s) => r = s
    /\ singles \cap InFlight = {} /\ singles \cap Reserved = {} /\ InFlight \cap Reserved = {}

\* The frames that are neither free nor in anybody's hands.
Lost ==
    {p \in Pages : /\ ~IsFree(p)
                   /\ p \notin singles \cup InFlight \cup Reserved
                   /\ \A e \in Ptes : pte[e] # p
                   /\ \A r \in runs : ~InRun(p, r)}

\* A frame is lost in one case only: a relocation that runs out of destinations
\* leaves the frames it has taken so far, and it does so only for a window that
\* reaches below the floor.  A run that is begun anywhere else is finished.
NoFrameLost ==
    [][\A p \in Lost' \ Lost :
           op.kind = "take" /\ op.base < GenericFloorPfn /\ p \in Window(op.base, op.done)]_vars

\* While a window is being taken, each of its frames still to come is free or
\* movable: relocation targets never land inside it.
WindowOpen ==
    op.kind = "take" =>
        \A p \in Current .. (op.base + op.pages - 1) : IsFree(p) \/ NxpLinks[p].owner # 0

\* ASSERT(Dest != 0), "pre-flight counted": once a window is chosen there is a
\* frame to move each of its owned frames to.
DestFound ==
    op.kind = "take" /\ ~IsFree(Current) => OutsidePfn(op.base, op.base + op.pages - 1) # 0
=============================================================================
