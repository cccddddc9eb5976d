------------------------------ MODULE TitleVm ------------------------------
(***************************************************************************)
(* The title virtual-memory manager (ntoskrnl/xb/mm/vm.c): the sorted list *)
(* of reservations, the page-table entries that hold commitment and        *)
(* protection, and the two statistics, together with what the rest of the  *)
(* kernel does to the same entries and frames meanwhile.                   *)
(*                                                                         *)
(* NxvMutex is held through every call, so at most one call is under way   *)
(* ("op"; pc "idle" when nobody holds the mutex).  The mutex does not stop *)
(* other threads: between any two steps of a call they may take and return *)
(* frames, and a contiguous request may relocate title pages, all under    *)
(* the PFN lock, which vm.c does not hold when it changes an entry.  Each  *)
(* read of an entry and the write that depends on it are therefore two     *)
(* steps.                                                                  *)
(*                                                                         *)
(* Addresses are numbers below Modulus; "entry" maps the addresses of      *)
(* title pages to their PTEs and Modulus + i to the i-th PDE.              *)
(***************************************************************************)
EXTENDS Integers, FiniteSets, SequencesExt

CONSTANTS
  Frame,          \* frame numbers, an interval of positive numbers
  PageSize,
  Granularity,    \* NXV_GRANULARITY
  Lowest,         \* NXV_LOWEST
  Highest,        \* NXV_HIGHEST
  TableSpan,      \* bytes one page table maps
  Modulus,        \* 2^32
  Bases,          \* addresses the callers pass
  Sizes,          \* sizes the callers pass
  Protects,       \* protections the callers pass
  RunLength,      \* pages of a contiguous request
  Concurrent      \* contiguous requests may move the page a call is changing

ASSUME VmAssumption ==
  /\ {PageSize, Granularity, Lowest, Highest, TableSpan, Modulus} \subseteq Nat \ {0}
  /\ Granularity % PageSize = 0 /\ TableSpan % PageSize = 0
  /\ Lowest % Granularity = 0 /\ Highest % Granularity = 0 /\ Lowest < Highest /\ Highest < Modulus
  /\ Modulus % Granularity = 0
  /\ Frame \subseteq Nat \ {0} /\ IsFiniteSet(Frame)
  /\ Bases \cup Sizes \subseteq 0..Modulus - 1
  /\ Protects \subseteq {"noaccess", "readonly", "readwrite"}
  /\ RunLength \in Nat \ {0} /\ Concurrent \in BOOLEAN

VARIABLES
  regions,        \* NxvRegionList
  entry,          \* PTEs and PDEs
  owner,          \* owner word of each frame (0: none)
  free,           \* frames of the supply
  others,         \* frames other parts of the kernel have taken
  run,            \* frames of the live contiguous allocation
  NxvCommitted, NxvReserved,
  op              \* the call that holds NxvMutex

frames == <<owner, free, others, run>>
stats  == <<NxvCommitted, NxvReserved>>
vars   == <<regions, entry, owner, free, others, run, NxvCommitted, NxvReserved, op>>

Pages      == {v \in Lowest..Modulus - 1 : v % PageSize = 0}
PdeOf(v)   == Modulus + (v \div TableSpan)
Slots      == Pages \cup {PdeOf(v) : v \in Pages}

Zero            == [frame |-> 0, bits |-> "none", fresh |-> FALSE]
Entry(f, b, fr) == [frame |-> f, bits |-> b, fresh |-> fr]
HasTable(v)     == entry[PdeOf(v)] # Zero
Committed       == {v \in Pages : entry[v] # Zero}

RoundDown(n, g) == n - (n % g)
RoundUp(n, g)   == RoundDown((n + g - 1) % Modulus, g)
PagesIn(a, b)   == {v \in Pages : a <= v /\ v < b}

(* NxvProtectToPte: PAGE_NOACCESS keeps the frame in a software entry. *)
PteBits(protect) == CASE protect = "noaccess"  -> "software"
                      [] protect = "readonly"  -> "present"
                      [] protect = "readwrite" -> "writable"

-----------------------------------------------------------------------------
(* The region list. *)
Span(start, end) == (end - start) % Modulus
Region(b, end)   == [base |-> b, size |-> Span(b, end)]
EndOf(r)         == (r.base + r.size) % Modulus
Covering(v)      == {i \in DOMAIN regions : regions[i].base <= v /\ v < EndOf(regions[i])}

\* Mutant of NxvRangeOverlapsRegion: a region that starts inside is missed.
OverlapsAtStart(start, end) ==
  \E i \in DOMAIN regions : regions[i].base <= start /\ EndOf(regions[i]) > start

NxvRangeOverlapsRegion(start, end) ==
  \E i \in DOMAIN regions : regions[i].base < end /\ EndOf(regions[i]) > start

(* Before the first region with a larger base. *)
NxvInsertRegion(list, r) ==
  LET n == Cardinality({i \in DOMAIN list : list[i].base <= r.base})
  IN  SubSeq(list, 1, n) \o <<r>> \o SubSeq(list, n + 1, Len(list))

(* Region i of the list gives way to others, or to none. *)
Replaced(i, rest) == SubSeq(regions, 1, i - 1) \o rest \o SubSeq(regions, i + 1, Len(regions))

(* The lowest gap at the reserve granularity that holds size bytes: the    *)
(* cursor after i regions, and the regions it stops before.                *)
UpCursor[i \in 0..Len(regions)] ==
  IF i = 0 THEN Lowest
  ELSE IF EndOf(regions[i]) > UpCursor[i - 1] THEN RoundUp(EndOf(regions[i]), Granularity)
  ELSE UpCursor[i - 1]

GapUp(size) ==
  LET stops == {i \in DOMAIN regions : /\ regions[i].base >= UpCursor[i - 1]
                                       /\ regions[i].base - UpCursor[i - 1] >= size}
      last  == UpCursor[Len(regions)]
  IN  IF stops # {} THEN UpCursor[Min(stops) - 1]
      ELSE IF (last + size) % Modulus <= Highest THEN last ELSE 0

(* The highest one, from the last region down: below region i, or below    *)
(* Highest; the walk stops at the first region under the cursor, or when   *)
(* there is no room below the region it has come to.                       *)
GapDown(size) ==
  LET under(i) == RoundDown(((IF i > Len(regions) THEN Highest ELSE regions[i].base) - size) % Modulus,
                            Granularity)
      clear == {i \in DOMAIN regions : EndOf(regions[i]) <= under(i + 1)}
      full  == {i \in DOMAIN regions : regions[i].base < (size + Lowest) % Modulus}
      at    == IF clear \cup full = {} THEN 1 ELSE Max(clear \cup full) + 1
  IN  IF at - 1 \in full \ clear \/ under(at) < Lowest THEN 0 ELSE under(at)

NxvFindGap(size, topdown) == IF topdown THEN GapDown(size) ELSE GapUp(size)

-----------------------------------------------------------------------------
Idle == [pc |-> "idle", call |-> "none", start |-> 0, end |-> 0, va |-> 0, bits |-> "none",
         undo |-> FALSE, frame |-> 0, read |-> Zero, before |-> {}, list |-> << >>]

Init ==
  /\ regions = << >>
  /\ entry = [s \in Slots |-> Zero]
  /\ owner = [f \in Frame |-> 0]
  /\ free = Frame /\ others = {} /\ run = {}
  /\ NxvCommitted = 0 /\ NxvReserved = 0
  /\ op = Idle

(* A call enters its page loop; "before" and "list" remember the committed *)
(* pages and the regions it started from, for the properties only.         *)
Enter(call, start, end, bits, undo) ==
  op' = [Idle EXCEPT !.pc = call, !.call = call, !.start = start, !.end = end, !.va = start,
                     !.bits = bits, !.undo = undo, !.before = Committed, !.list = regions]

(* A reservation without commitment ends the call, one with it goes on to  *)
(* the pages, and is undone if they cannot be had.                         *)
Reserve(start, end, commit, protect) ==
  /\ regions' = NxvInsertRegion(regions, Region(start, end))
  /\ NxvReserved' = NxvReserved + Span(start, end)
  /\ IF commit THEN Enter("commit", start, end, PteBits(protect), TRUE) ELSE UNCHANGED op
  /\ UNCHANGED <<entry, frames, NxvCommitted>>

(* NxVmAllocateVirtualMemory with no base address. *)
AllocateAnywhere(size, topdown, commit, protect) ==
  LET rounded == RoundUp(size, PageSize)
      start   == NxvFindGap(rounded, topdown)
  IN  /\ op = Idle /\ size # 0
      /\ start # 0
      /\ Reserve(start, (start + rounded) % Modulus, commit, protect)

(* With a base address and MEM_RESERVE. *)
AllocateReserve(base, size, commit, protect) ==
  LET start == RoundDown(base, Granularity)
      end   == RoundUp((base + size) % Modulus, PageSize)
  IN  /\ op = Idle /\ size # 0
      /\ base >= Lowest /\ base < Highest
      /\ ~NxvRangeOverlapsRegion(start, end)
      /\ Reserve(start, end, commit, protect)

(* With a base address and MEM_COMMIT only: unreserved space is reserved   *)
(* too, and stays so whatever becomes of the pages.                        *)
AllocateCommit(base, size, protect) ==
  LET start  == RoundDown(base, PageSize)
      end    == RoundUp((base + size) % Modulus, PageSize)
      rstart == RoundDown(start, Granularity)
  IN  /\ op = Idle /\ size # 0
      /\ base >= Lowest /\ base < Highest
      /\ \/ /\ Covering(start) = {}
            /\ ~NxvRangeOverlapsRegion(rstart, end)
            /\ regions' = NxvInsertRegion(regions, Region(rstart, end))
            /\ NxvReserved' = NxvReserved + Span(rstart, end)
         \/ /\ \E i \in Covering(start) : end <= EndOf(regions[i])
            /\ UNCHANGED <<regions, NxvReserved>>
      /\ Enter("commit", start, end, PteBits(protect), FALSE)
      /\ UNCHANGED <<entry, frames, NxvCommitted>>

-----------------------------------------------------------------------------
(* NxvCommitRange, page by page.  CommitAt and ReadEntry are the steps of  *)
(* the loops; a contiguous request may come between any two of them.       *)
CommitAt(v) == op.pc = "commit" /\ op.va = v /\ v < op.end

Goto(pc) == op' = [op EXCEPT !.pc = pc]

\* Mutant of ReadEntry: the frame number is masked off with the bits.
ReadEntryBitsOnly(v, bits) ==
  /\ op' = [op EXCEPT !.pc = "write", !.va = v, !.read = Entry(0, bits, FALSE)]
  /\ UNCHANGED <<regions, entry, frames, stats>>

(* A loop reads entry v to write it back with other bits: until the write  *)
(* the value is held in a register.                                        *)
ReadEntry(v, bits) ==
  /\ op' = [op EXCEPT !.pc = "write", !.va = v, !.read = Entry(entry[v].frame, bits, FALSE)]
  /\ UNCHANGED <<regions, entry, frames, stats>>

(* The entry is written and the loop of the call goes on after it. *)
WriteEntry ==
  /\ op.pc = "write"
  /\ entry' = [entry EXCEPT ![op.va] = op.read]
  /\ op' = [op EXCEPT !.pc = op.call, !.va = op.va + PageSize, !.read = Zero]
  /\ UNCHANGED <<regions, frames, stats>>

(* NxvEnsurePageTable: the table is kept for good.  Until the owner word   *)
(* is set the frame is immovable, so that entry and owner word make one    *)
(* step.                                                                   *)
TakeTable(f) ==
  /\ CommitAt(op.va) /\ ~HasTable(op.va)
  /\ f \in free
  /\ free' = free \ {f}
  /\ op' = [op EXCEPT !.pc = "table", !.frame = f]
  /\ UNCHANGED <<regions, entry, owner, others, run, stats>>

WriteTable ==
  /\ op.pc = "table"
  /\ entry' = [entry EXCEPT ![PdeOf(op.va)] = Entry(op.frame, "writable", FALSE)]
  /\ owner' = [owner EXCEPT ![op.frame] = PdeOf(op.va)]
  /\ op' = [op EXCEPT !.pc = "commit", !.frame = 0]
  /\ UNCHANGED <<regions, free, others, run, stats>>

(* A page committed already keeps its frame. *)
Recommit ==
  /\ CommitAt(op.va) /\ HasTable(op.va)
  /\ entry[op.va] # Zero
  /\ ReadEntry(op.va, op.bits)

TakePage(f) ==
  /\ CommitAt(op.va) /\ HasTable(op.va)
  /\ entry[op.va] = Zero
  /\ f \in free
  /\ free' = free \ {f}
  /\ op' = [op EXCEPT !.pc = "map", !.frame = f]
  /\ UNCHANGED <<regions, entry, owner, others, run, stats>>

MapPage ==
  /\ op.pc = "map"
  /\ entry' = [entry EXCEPT ![op.va] = Entry(op.frame, op.bits, TRUE)]
  /\ owner' = [owner EXCEPT ![op.frame] = op.va]
  /\ NxvCommitted' = NxvCommitted + PageSize
  /\ op' = [op EXCEPT !.pc = "commit", !.va = op.va + PageSize, !.frame = 0]
  /\ UNCHANGED <<regions, free, others, run, NxvReserved>>

(* No frame for the page or for its table. *)
NoFrame ==
  /\ CommitAt(op.va)
  /\ ~HasTable(op.va) \/ entry[op.va] = Zero
  /\ free = {}
  /\ Goto("rollback")
  /\ UNCHANGED <<regions, entry, frames, stats>>

CommitEnd ==
  /\ op.pc = "commit" /\ op.va >= op.end
  /\ op' = [op EXCEPT !.pc = "clear", !.call = "clear", !.va = op.start]
  /\ UNCHANGED <<regions, entry, frames, stats>>

Fresh(a, b) == {v \in PagesIn(a, b) : entry[v].fresh}

(* The marks of the call are taken off. *)
ClearMark ==
  /\ op.pc = "clear"
  /\ Fresh(op.va, op.end) # {}
  /\ LET v == Min(Fresh(op.va, op.end)) IN ReadEntry(v, entry[v].bits)

ClearEnd ==
  /\ op.pc = "clear"
  /\ Fresh(op.va, op.end) = {}
  /\ op' = Idle
  /\ UNCHANGED <<regions, entry, frames, stats>>

-----------------------------------------------------------------------------
(* NxvFreePageAtPte, in the three steps between which others can run: the  *)
(* frame number is read, the entry is zeroed, and under the PFN lock the   *)
(* frame goes back.                                                        *)
FreeRead(v) ==
  /\ op' = [op EXCEPT !.pc = "freeread", !.va = v, !.frame = entry[v].frame]
  /\ UNCHANGED <<regions, entry, frames, stats>>

FreeZero ==
  /\ op.pc = "freeread"
  /\ entry' = [entry EXCEPT ![op.va] = Zero]
  /\ Goto("freezero")
  /\ UNCHANGED <<regions, frames, stats>>

\* Mutant of FreeReturn: a rolled-back page stays in the statistic.
FreeReturnUncounted ==
  /\ op.pc = "freezero"
  /\ owner' = [owner EXCEPT ![op.frame] = 0]
  /\ free' = free \cup {op.frame}
  /\ op' = [op EXCEPT !.pc = IF op.call = "commit" THEN "rollback" ELSE op.call,
                      !.frame = 0, !.va = IF op.call = "commit" THEN op.va ELSE op.va + PageSize]
  /\ NxvCommitted' = IF op.call = "commit" THEN NxvCommitted ELSE NxvCommitted - PageSize
  /\ UNCHANGED <<regions, entry, others, run, NxvReserved>>

FreeReturn ==
  /\ op.pc = "freezero"
  /\ owner' = [owner EXCEPT ![op.frame] = 0]
  /\ free' = free \cup {op.frame}
  /\ NxvCommitted' = NxvCommitted - PageSize
  /\ op' = IF op.call = "commit"
           THEN [op EXCEPT !.pc = "rollback", !.frame = 0]
           ELSE [op EXCEPT !.pc = op.call, !.frame = 0, !.va = op.va + PageSize]
  /\ UNCHANGED <<regions, entry, others, run, NxvReserved>>

\* Mutant of RollbackPage: every page of the range is dropped.
RollbackPageAny ==
  /\ op.pc = "rollback"
  /\ LET mine == PagesIn(op.start, op.va) \cap Committed IN mine # {} /\ FreeRead(Max(mine))

(* Downwards, this call's pages only. *)
RollbackPage ==
  /\ op.pc = "rollback"
  /\ Fresh(op.start, op.va) # {}
  /\ FreeRead(Max(Fresh(op.start, op.va)))

(* STATUS_NO_MEMORY: a reservation made by the same call goes too. *)
RollbackEnd ==
  /\ op.pc = "rollback"
  /\ Fresh(op.start, op.va) = {}
  /\ \/ /\ op.undo
        /\ regions' = Replaced(CHOOSE i \in DOMAIN regions : regions[i].base = op.start, << >>)
        /\ NxvReserved' = NxvReserved - Span(op.start, op.end)
     \/ /\ ~op.undo
        /\ UNCHANGED <<regions, NxvReserved>>
  /\ op' = Idle
  /\ UNCHANGED <<entry, frames, NxvCommitted>>

-----------------------------------------------------------------------------
(* NxVmFreeVirtualMemory: the range, page aligned, inside one region; no   *)
(* size means the whole region, for a release from its base only.          *)
Free(base, size, call) ==
  /\ op = Idle
  /\ \E i \in Covering(base) :
       LET r   == regions[i]
           end == IF size = 0 THEN EndOf(r) ELSE RoundUp((base + size) % Modulus, PageSize)
       IN  /\ call = "release" /\ size = 0 => base = r.base
           /\ end <= EndOf(r)
           /\ Enter(call, RoundDown(base, PageSize), end, "none", FALSE)
  /\ UNCHANGED <<regions, entry, frames, stats>>

DecommitPage ==
  /\ op.pc \in {"decommit", "release"}
  /\ LET mine == PagesIn(op.va, op.end) \cap Committed IN mine # {} /\ FreeRead(Min(mine))

DecommitEnd ==
  /\ op.pc = "decommit"
  /\ PagesIn(op.va, op.end) \cap Committed = {}
  /\ op' = Idle
  /\ UNCHANGED <<regions, entry, frames, stats>>

(* What is left of a region when [start, end) is carved out of it. *)
Remains(r, start, end) ==
  (IF start = r.base THEN << >> ELSE <<Region(r.base, start)>>)
    \o (IF end = EndOf(r) THEN << >> ELSE <<Region(end, EndOf(r))>>)

Carve ==
  /\ op.pc = "release"
  /\ PagesIn(op.va, op.end) \cap Committed = {}
  /\ LET i == Min(Covering(op.start))
     IN  regions' = Replaced(i, Remains(regions[i], op.start, op.end))
  /\ NxvReserved' = NxvReserved - Span(op.start, op.end)
  /\ op' = Idle
  /\ UNCHANGED <<entry, frames, NxvCommitted>>

(* A split needs a list node; without one the region stays whole, and its  *)
(* middle stays decommitted.                                               *)
CarveFails ==
  /\ op.pc = "release"
  /\ PagesIn(op.va, op.end) \cap Committed = {}
  /\ Len(Remains(regions[Min(Covering(op.start))], op.start, op.end)) = 2
  /\ op' = Idle
  /\ UNCHANGED <<regions, entry, frames, stats>>

-----------------------------------------------------------------------------
(* NxVmProtectVirtualMemory: every page of the range must be committed. *)
Protect(base, size, protect) ==
  LET start == RoundDown(base, PageSize)
      end   == RoundUp((base + size) % Modulus, PageSize)
  IN  /\ op = Idle /\ start < end
      /\ \E i \in Covering(start) : end <= EndOf(regions[i])
      /\ PagesIn(start, end) \subseteq Committed
      /\ Enter("protect", start, end, PteBits(protect), FALSE)
      /\ UNCHANGED <<regions, entry, frames, stats>>

(* NxVmSetAddressProtect: PAGE_NOACCESS is ignored, and inaccessible pages *)
(* are passed over.                                                        *)
SetAddressProtect(base, size, protect) ==
  /\ op = Idle /\ protect # "noaccess"
  /\ Enter("hint", RoundDown(base, PageSize), RoundUp((base + size) % Modulus, PageSize),
           PteBits(protect), FALSE)
  /\ UNCHANGED <<regions, entry, frames, stats>>

Protectable(a, b) ==
  {v \in PagesIn(a, b) : op.pc = "hint" => entry[v] # Zero /\ entry[v].bits # "software"}

ProtectPage ==
  /\ op.pc \in {"protect", "hint"}
  /\ Protectable(op.va, op.end) # {}
  /\ ReadEntry(Min(Protectable(op.va, op.end)), op.bits)

ProtectEnd ==
  /\ op.pc \in {"protect", "hint"}
  /\ Protectable(op.va, op.end) = {}
  /\ op' = Idle
  /\ UNCHANGED <<regions, entry, frames, stats>>

-----------------------------------------------------------------------------
(* The rest of the kernel, under the PFN lock, at any time. *)
OthersTake ==
  \E f \in free : /\ free' = free \ {f} /\ others' = others \cup {f}
                  /\ UNCHANGED <<regions, entry, owner, run, stats, op>>

OthersReturn ==
  \E f \in others : /\ free' = free \cup {f} /\ others' = others \ {f}
                    /\ UNCHANGED <<regions, entry, owner, run, stats, op>>

(* The frame whose entry the call has read and is about to write or free. *)
Racing == CASE op.pc = "write" -> {op.read.frame}
            [] op.pc \in {"freeread", "freezero"} -> {op.frame}
            [] OTHER -> {}

(* NxkPageSupplyTakeRunRelocate: the owned frames of the window go to free *)
(* ones outside it, and the entry each owner word names is made to point   *)
(* to the new frame, whatever else it holds.                               *)
ContigTake ==
  \E b \in Frame :
    LET window == b..(b + RunLength - 1)
        moved  == window \ free
    IN  /\ run = {}
        /\ window \subseteq Frame
        /\ \A f \in moved : owner[f] # 0
        /\ Cardinality(moved) <= Cardinality(free \ window)
        /\ Concurrent \/ Racing \cap window = {}
        /\ \E dest \in {d \in [moved -> free \ window] : IsInjective(d)} :
             LET goes(s) == {f \in moved : owner[f] = s}
                 from(g) == {f \in moved : dest[f] = g}
             IN  /\ entry' = [s \in Slots |-> IF goes(s) = {} THEN entry[s]
                                ELSE [entry[s] EXCEPT !.frame = dest[CHOOSE f \in goes(s) : TRUE]]]
                 /\ owner' = [g \in Frame |-> IF g \in window THEN 0
                                ELSE IF from(g) = {} THEN owner[g]
                                ELSE owner[CHOOSE f \in from(g) : TRUE]]
                 /\ free' = (free \ window) \ {dest[f] : f \in moved}
        /\ run' = window
        /\ UNCHANGED <<regions, others, stats, op>>

ContigFree ==
  /\ run # {}
  /\ free' = free \cup run
  /\ run' = {}
  /\ UNCHANGED <<regions, entry, owner, others, stats, op>>

-----------------------------------------------------------------------------
Call ==
  \/ \E n \in Sizes, top, commit \in BOOLEAN, p \in Protects : AllocateAnywhere(n, top, commit, p)
  \/ \E b \in Bases, n \in Sizes, p \in Protects :
       \/ \E commit \in BOOLEAN : AllocateReserve(b, n, commit, p)
       \/ AllocateCommit(b, n, p)
       \/ Protect(b, n, p)
       \/ SetAddressProtect(b, n, p)
  \/ \E b \in Bases, n \in Sizes \cup {0}, call \in {"release", "decommit"} : Free(b, n, call)

Continue ==
  \/ \E f \in free : TakeTable(f) \/ TakePage(f)
  \/ WriteTable \/ Recommit \/ WriteEntry \/ MapPage \/ NoFrame \/ CommitEnd \/ ClearMark \/ ClearEnd
  \/ FreeZero \/ FreeReturn \/ RollbackPage \/ RollbackEnd
  \/ DecommitPage \/ DecommitEnd \/ Carve \/ CarveFails
  \/ ProtectPage \/ ProtectEnd

Next == Call \/ Continue \/ OthersTake \/ OthersReturn \/ ContigTake \/ ContigFree

Spec == Init /\ [][Next]_vars

-----------------------------------------------------------------------------
(* Every variable has its type. *)
TypeOK ==
  /\ \A s \in Slots : entry[s].frame \in Frame \cup {0}
  /\ \A f \in Frame : owner[f] \in Slots \cup {0}
  /\ NxvCommitted \in Nat /\ NxvReserved \in Nat

(* The list is sorted, no region is empty and no two overlap, which every  *)
(* search of it relies on, and the statistic counts the bytes they cover.  *)
RegionsExact ==
  /\ \A i \in DOMAIN regions : regions[i].base \in Pages /\ regions[i].size # 0
  /\ \A i \in 1..Len(regions) - 1 : EndOf(regions[i]) <= regions[i + 1].base
  /\ NxvReserved = Cardinality({a \in Lowest..Modulus - 1 : Covering(a) # {}})

(* A committed page lies in a region, at every step of every call, and in  *)
(* a page table that is there.  The statistic counts the committed pages,  *)
(* a page on its way out included.                                         *)
CommittedExact ==
  /\ \A v \in Committed : Covering(v) # {} /\ HasTable(v)
  /\ NxvCommitted = PageSize * Cardinality(Committed \cup (IF op.pc = "freezero" THEN {op.va} ELSE {}))

(* Every frame has one user: the supply, the rest of the kernel, the       *)
(* contiguous run, the call under way, or the one entry that maps it; and  *)
(* the owner word names that entry, so that a relocation follows it.       *)
Mapped(f)    == {s \in Slots : entry[s].frame = f}
Carried      == IF op.pc \in {"table", "map", "freezero"} THEN {op.frame} ELSE {}
FramesExact ==
  \A f \in Frame :
    LET users == <<f \in free, f \in others, f \in run, f \in Carried, Mapped(f) # {}>>
    IN  /\ \E i \in 1..5 : users[i]
        /\ \A i, j \in 1..5 : users[i] /\ users[j] => i = j
        /\ Mapped(f) # {} => Mapped(f) = {owner[f]}

(* A commitment that runs out of frames takes back the pages it added and  *)
(* no other: after a failed or a finished call no page is marked, and the  *)
(* pages committed before the failed call still are.                       *)
RollbackExact ==
  /\ op.call \notin {"commit", "clear"} => Fresh(Lowest, Modulus) = {}
  /\ op.pc = "rollback" => Committed = op.before \cup Fresh(op.start, op.end)

(* "partial work rolled back": a failed allocation leaves the regions and  *)
(* the committed pages as it found them.                                   *)
FailureRestores ==
  [][op.pc = "rollback" /\ op' = Idle => regions' = op.list /\ Committed' = op.before]_vars

(* "pages passed to Return must have no remaining references": a frame     *)
(* that a call gives back is not in use by a contiguous allocation.        *)
ReturnedUnreferenced == [][(free' \ free) \cap run' = {}]_vars

=============================================================================
