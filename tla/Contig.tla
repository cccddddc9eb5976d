------------------------------- MODULE Contig -------------------------------
(***************************************************************************)
(* The contiguous-memory ordinals (ntoskrnl/xb/mm/contig.c): the tracking  *)
(* table of live runs, its growth, allocation with its reclaim-and-retry   *)
(* path, free, size query, and the claim of GPU instance memory.           *)
(*                                                                         *)
(* NxContigLock and the PFN lock are spin locks on one processor: what is  *)
(* done while one is held is one step, or, for the page loop of a claim,   *)
(* several steps during which no other thread moves.  Between the steps of *)
(* a call any other thread may run.  The page supply appears as the sets   *)
(* of frames it tells apart; module PageSupply models it in full.          *)
(***************************************************************************)
EXTENDS Integers, FiniteSets, FiniteSetsExt

CONSTANTS
  Thread,
  Allocator,      \* the threads that allocate
  Claimer,        \* the threads that claim GPU instance memory
  HighestPfn,     \* NxpHighestPfn
  GenericFloorPfn, \* NXP_GENERIC_FLOOR_PFN: frames below are pin-only
  PageBytes,      \* PAGE_SIZE
  WindowPages,    \* NXK_KSEG0_RAM_SIZE in pages
  InstanceBase,   \* NXK_NV2A_INSTANCE_BASE as a frame number
  HeapCeiling,    \* NXK_NV2A_HEAP_CEILING as a frame number
  AddressModulus, \* one past the highest machine address (2^32)
  InitialSlots,   \* NXK_CONTIG_INITIAL_SLOTS
  MaxSlots,       \* bound: the pool backs no larger table
  MaxLive,        \* bound on the allocations a title keeps
  MaxMapped,      \* bound on the frames mapped as title memory
  MaxBucket,      \* bound on the empty pool bucket pages
  Requests,       \* [bytes, low, high, align] records callers pass
  Claims,         \* byte counts passed to MmClaimGpuInstanceMemory
  BootFree        \* frames the supply owns after boot

Frame == 1..HighestPfn

ASSUME ContigAssumption ==
  /\ Allocator \subseteq Thread /\ Claimer \subseteq Thread
  /\ HighestPfn \in Nat /\ PageBytes \in Nat \ {0} /\ WindowPages \in Nat
  /\ InstanceBase \in Nat \ {0} /\ HeapCeiling \in Nat /\ AddressModulus \in Nat
  /\ GenericFloorPfn \in Nat /\ GenericFloorPfn <= InstanceBase
  /\ HighestPfn < AddressModulus
  /\ InstanceBase <= HeapCeiling /\ HeapCeiling <= WindowPages
  /\ WindowPages * PageBytes <= AddressModulus
  /\ InitialSlots \in Nat \ {0} /\ MaxSlots \in Nat
  /\ MaxLive \in Nat /\ MaxMapped \in Nat /\ MaxBucket \in Nat
  /\ Requests \subseteq [bytes : 0..AddressModulus - 1, low : 0..AddressModulus - 1,
                         high : 0..AddressModulus - 1, align : 0..AddressModulus - 1]
  /\ Claims \subseteq 0..AddressModulus - 1
  /\ BootFree \subseteq Frame

VARIABLES
  free,      \* frames on the supply's lists
  mapped,    \* frames of title memory
  bucket,    \* frames of empty pool bucket pages
  gpu,       \* frames a claim took
  abandoned, \* windows a relocation gave up, with the frames it had taken
  table,     \* NxContigTable
  hint,      \* NxContigHint
  claimed,   \* NxkNv2aInstanceBytes, in pages
  live,      \* allocations in titles' hands: [base, req] records
  pc,        \* control point of each thread
  local      \* its local variables

supply == <<free, mapped, bucket, gpu, abandoned>>
vars   == <<free, mapped, bucket, gpu, abandoned, table, hint, claimed, live, pc, local>>

NoEntry == [alias |-> 0, pages |-> {}, size |-> 0]
Slots   == Cardinality(DOMAIN table)        \* NxContigSlots

Idle == [req |-> [bytes |-> 0, low |-> 0, high |-> 0, align |-> 0],
         slot |-> 0, old |-> 0, run |-> {}, newLow |-> 0, oldLow |-> 0]

-----------------------------------------------------------------------------
(* The request, as the code computes it in unsigned arithmetic. *)

RunPages(r) == (((r.bytes + PageBytes - 1) % AddressModulus) \div PageBytes)

ClampedHigh(r) ==
  LET h == Min({r.high, WindowPages * PageBytes - 1})
  IN  IF r.low < InstanceBase * PageBytes /\ h >= InstanceBase * PageBytes
      THEN InstanceBase * PageBytes - 1
      ELSE h

\* Mutant of HighPfn: the frame after the window is taken for its last.
HighPfnLate(r) == (ClampedHigh(r) + 1) \div PageBytes

LowPfn(r)  == ((r.low + PageBytes - 1) % AddressModulus) \div PageBytes
HighPfn(r) == (((ClampedHigh(r) + 1) \div PageBytes) - 1) % AddressModulus
Align(r)   == IF r.align <= PageBytes THEN 1 ELSE r.align \div PageBytes

(* The frames of every window the supply's run scans consider; alignments  *)
(* are powers of two.                                                      *)
Windows(r) ==
  LET lo == Max({1, LowPfn(r)})
      hi == Min({HighestPfn, HighPfn(r)})
  IN  {w \in {b..(b + RunPages(r) - 1) : b \in {c \in Frame : c % Align(r) = 0}} :
         w \subseteq lo..hi}

\* Mutant of FreeWindows: a frame with an owner passes for a free one.
FreeWindowsOwned(r) == {w \in Windows(r) : w \subseteq free \cup mapped}

FreeWindows(r) == {w \in Windows(r) : w \subseteq free}

(* Title pages and pool pages have an owning entry, so they may be moved. *)
Movable == mapped \cup bucket

(* The frames a single page may be taken from (NxkPageSupplyTakeAny), and  *)
(* that NxpGenericAvail counts.                                            *)
GenericFree == {f \in free : f >= GenericFloorPfn}

\* Mutant of PreFlight: the pin-only frames are counted as well.
PreFlightAll(w) ==
  (Cardinality(free) - Cardinality(free \cap w)) % AddressModulus >= Cardinality(w \cap Movable)

(* Are there frames outside w for its owned frames?  The free frames of w  *)
(* are subtracted, pin-only ones included, in unsigned arithmetic.         *)
PreFlight(w) ==
  (Cardinality(GenericFree) - Cardinality(free \cap w)) % AddressModulus
    >= Cardinality(w \cap Movable)

MovableWindows(r) == {w \in Windows(r) : w \subseteq free \cup Movable /\ PreFlight(w)}

Highest(ws) == CHOOSE w \in ws : \A v \in ws : Max(v) <= Max(w)

(* NxkPageSupplyTakeRun: the highest free window leaves the supply. *)
TakeRun(r, w) ==
  /\ FreeWindows(r) # {}
  /\ w = Highest(FreeWindows(r))
  /\ free' = free \ w
  /\ UNCHANGED <<mapped, bucket, abandoned>>

(* The frames of part leave the lists, and its owned frames are moved to   *)
(* free frames outside the window w.                                       *)
MoveOut(part, w) ==
  \E m \in kSubset(Cardinality(part \cap mapped), free \ w) :
    \E b \in kSubset(Cardinality(part \cap bucket), free \ (w \cup m)) :
      /\ free' = free \ (part \cup m \cup b)
      /\ mapped' = (mapped \ part) \cup m
      /\ bucket' = (bucket \ part) \cup b

(* NxkPageSupplyTakeRunRelocate: the highest movable window is emptied. *)
TakeRunRelocate(r, w) ==
  /\ FreeWindows(r) = {} /\ MovableWindows(r) # {}
  /\ w = Highest(MovableWindows(r))
  /\ MoveOut(w, w)
  /\ UNCHANGED abandoned

(* The same when there is no destination for the owned frame p: the search *)
(* always finds a generic frame, a pin-only one if the spill hint is below *)
(* it.  The frames of w before p stay taken, and nobody is told of them.   *)
AbandonRun(r) ==
  /\ FreeWindows(r) = {} /\ MovableWindows(r) # {}
  /\ LET w == Highest(MovableWindows(r))
     IN  \E p \in w \cap Movable :
           LET part == {f \in w : f < p}
           IN  /\ MoveOut(part, w)
               /\ GenericFree' \subseteq w
               /\ abandoned' = abandoned \cup {[base |-> Min(w), pages |-> part]}

NoRun(r) == FreeWindows(r) = {} /\ MovableWindows(r) = {}

(* Neither way gives a run. *)
RunFails(r) == (NoRun(r) /\ UNCHANGED <<free, mapped, bucket, abandoned>>) \/ AbandonRun(r)

-----------------------------------------------------------------------------
(* The tracking table. *)

FreeSlots == {s \in DOMAIN table : table[s].alias = 0}

(* Steps of the wrapping scan from the hint to slot s. *)
Distance(s) == (s - hint + Slots) % Slots

NxpContigFindFreeSlotLocked ==
  CHOOSE s \in FreeSlots : \A u \in FreeSlots : Distance(s) <= Distance(u)

HintAfter(s) == IF s + 1 < Slots THEN s + 1 ELSE 0

(* NxpRecordHeapContigLocked. *)
Recorded(s, w, r) ==
  [table EXCEPT ![s] = [alias |-> Min(w), pages |-> w, size |-> r.bytes]]

-----------------------------------------------------------------------------
Init == /\ free = BootFree
        /\ mapped = {} /\ bucket = {} /\ gpu = {} /\ abandoned = {}
        /\ table = [s \in 0..InitialSlots - 1 |-> NoEntry]
        /\ hint = 0
        /\ claimed = 0
        /\ live = {}
        /\ pc = [t \in Thread |-> "idle"]
        /\ local = [t \in Thread |-> Idle]

(* No thread is inside the page loop of a claim, or t itself is. *)
MayRun(t) == \A u \in Thread \ {t} : pc[u] # "claiming"

Goto(t, p)  == pc' = [pc EXCEPT ![t] = p]
Done(t)     == pc' = [pc EXCEPT ![t] = "idle"] /\ local' = [local EXCEPT ![t] = Idle]
Calls       == Cardinality(live) + Cardinality({t \in Thread : pc[t] # "idle"})

(* Title memory is committed and decommitted, and pool pages become empty  *)
(* bucket pages, on single frames of the supply.                           *)
CommitPage(t) ==
  /\ MayRun(t) /\ pc[t] = "idle" /\ Cardinality(mapped) < MaxMapped
  /\ \E f \in GenericFree : free' = free \ {f} /\ mapped' = mapped \cup {f}
  /\ UNCHANGED <<bucket, gpu, abandoned, table, hint, claimed, live, pc, local>>

DecommitPage(t) ==
  /\ MayRun(t) /\ pc[t] = "idle"
  /\ \E f \in mapped : free' = free \cup {f} /\ mapped' = mapped \ {f}
  /\ UNCHANGED <<bucket, gpu, abandoned, table, hint, claimed, live, pc, local>>

EmptyBucketPage(t) ==
  /\ MayRun(t) /\ pc[t] = "idle" /\ Cardinality(bucket) < MaxBucket
  /\ \E f \in GenericFree : free' = free \ {f} /\ bucket' = bucket \cup {f}
  /\ UNCHANGED <<mapped, gpu, abandoned, table, hint, claimed, live, pc, local>>

(* NxMmAllocateContiguousMemoryEx up to NxpContigTakeSlot: a request of no *)
(* pages returns NULL at once.                                             *)
AllocBegin(t, r) ==
  /\ MayRun(t) /\ pc[t] = "idle" /\ t \in Allocator /\ Calls < MaxLive
  /\ RunPages(r) # 0
  /\ local' = [local EXCEPT ![t].req = r]
  /\ Goto(t, "takeslot")
  /\ UNCHANGED <<supply, table, hint, claimed, live>>

(* Record the run in the reserved slot and return its alias. *)
Got(t, w, s) ==
  LET r == local[t].req
  IN  /\ table' = Recorded(s, w, r)
      /\ live' = live \cup {[base |-> Min(w), req |-> r]}
      /\ Done(t)
      /\ UNCHANGED <<gpu, claimed>>

(* A free slot is found and, in the same section, a run is taken. *)
AllocRun(t) ==
  /\ MayRun(t) /\ pc[t] = "takeslot" /\ FreeSlots # {}
  /\ LET s == NxpContigFindFreeSlotLocked
         r == local[t].req
     IN  /\ hint' = HintAfter(s)
         /\ \E w \in Windows(r) : (TakeRun(r, w) \/ TakeRunRelocate(r, w)) /\ Got(t, w, s)

(* No run: NxContigLock is released and the slot number kept. *)
AllocNoRun(t) ==
  /\ MayRun(t) /\ pc[t] = "takeslot" /\ FreeSlots # {}
  /\ RunFails(local[t].req)
  /\ LET s == NxpContigFindFreeSlotLocked
     IN  hint' = HintAfter(s) /\ local' = [local EXCEPT ![t].slot = s]
  /\ Goto(t, "reclaim")
  /\ UNCHANGED <<gpu, table, claimed, live>>

(* Every slot is taken: the lock is released and the size remembered. *)
AllocTableFull(t) ==
  /\ MayRun(t) /\ pc[t] = "takeslot" /\ FreeSlots = {}
  /\ local' = [local EXCEPT ![t].old = Slots]
  /\ Goto(t, "grow")
  /\ UNCHANGED <<supply, table, hint, claimed, live>>

(* NxpContigGrow: the pool backs a table of twice the size, or fails and   *)
(* the allocation returns NULL.                                            *)
GrowAllocate(t) ==
  /\ MayRun(t) /\ pc[t] = "grow"
  /\ \/ local[t].old * 2 <= MaxSlots /\ Goto(t, "swap") /\ UNCHANGED local
     \/ Done(t)
  /\ UNCHANGED <<supply, table, hint, claimed, live>>

(* Copy and swap under the lock, unless somebody grew the table first. *)
GrowSwap(t) ==
  /\ MayRun(t) /\ pc[t] = "swap"
  /\ LET old == local[t].old
     IN  IF Slots = old
         THEN /\ table' = [s \in 0..(old * 2) - 1 |-> IF s < old THEN table[s] ELSE NoEntry]
              /\ hint' = old
         ELSE UNCHANGED <<table, hint>>
  /\ Goto(t, "takeslot")
  /\ UNCHANGED <<supply, claimed, live, local>>

(* NxpReclaimEmptyBucketPages, called with neither lock held: nothing to   *)
(* sweep fails the allocation.                                             *)
Reclaim(t) ==
  /\ MayRun(t) /\ pc[t] = "reclaim"
  /\ free' = free \cup bucket
  /\ bucket' = {}
  /\ IF bucket = {} THEN Done(t) ELSE Goto(t, "retry") /\ UNCHANGED local
  /\ UNCHANGED <<mapped, gpu, abandoned, table, hint, claimed, live>>

(* The second attempt records into the slot found before the lock was      *)
(* released.                                                               *)
RetryRun(t) ==
  /\ MayRun(t) /\ pc[t] = "retry"
  /\ \E w \in Windows(local[t].req) :
       /\ TakeRun(local[t].req, w) \/ TakeRunRelocate(local[t].req, w)
       /\ Got(t, w, local[t].slot)
  /\ UNCHANGED hint

RetryFails(t) ==
  /\ MayRun(t) /\ pc[t] = "retry"
  /\ RunFails(local[t].req)
  /\ Done(t)
  /\ UNCHANGED <<gpu, table, hint, claimed, live>>

-----------------------------------------------------------------------------
(* NxMmFreeContiguousMemory: the title gives its allocation up. *)
EntryOf(a) == {s \in DOMAIN table : table[s].alias = a.base}

\* Mutant of FreeClear: the frames go back before the entry is cleared.
FreeReturnFirst(t, a) ==
  /\ MayRun(t) /\ pc[t] = "idle"
  /\ EntryOf(a) # {}
  /\ live' = live \ {a}
  /\ free' = free \cup table[Min(EntryOf(a))].pages
  /\ local' = [local EXCEPT ![t].run = {}]
  /\ Goto(t, "return")
  /\ UNCHANGED <<mapped, bucket, gpu, abandoned, table, hint, claimed>>

(* The first entry with the alias is cleared under NxContigLock; an alias  *)
(* that is not in the table is only reported.                              *)
FreeClear(t, a) ==
  /\ MayRun(t) /\ pc[t] = "idle"
  /\ live' = live \ {a}
  /\ IF EntryOf(a) = {}
     THEN UNCHANGED <<table, pc, local>>
     ELSE LET s == Min(EntryOf(a))
          IN  /\ local' = [local EXCEPT ![t].run = table[s].pages]
              /\ table' = [table EXCEPT ![s] = NoEntry]
              /\ Goto(t, "return")
  /\ UNCHANGED <<supply, hint, claimed>>

(* Then its frames go back to the supply under the PFN lock. *)
FreeReturn(t) ==
  /\ MayRun(t) /\ pc[t] = "return"
  /\ free' = free \cup local[t].run
  /\ Done(t)
  /\ UNCHANGED <<mapped, bucket, gpu, abandoned, table, hint, claimed, live>>

(* NxMmQueryAllocationSize: what a title is told about an allocation. *)
NxMmQueryAllocationSize(a) ==
  IF EntryOf(a) = {} THEN 0 ELSE table[Min(EntryOf(a))].size

-----------------------------------------------------------------------------
(* NxMmClaimGpuInstanceMemory: rounded up, capped to the region. *)
ClaimPages(c) == Min({((c + PageBytes - 1) % AddressModulus) \div PageBytes,
                      HeapCeiling - InstanceBase})

(* The highest byte count asks for the claim and changes nothing. *)
ClaimBegin(t, c) ==
  /\ MayRun(t) /\ pc[t] = "idle" /\ t \in Claimer
  /\ c # AddressModulus - 1
  /\ local' = [local EXCEPT ![t].newLow = HeapCeiling - ClaimPages(c),
                            ![t].oldLow = HeapCeiling - claimed]
  /\ Goto(t, "claiming")
  /\ UNCHANGED <<supply, table, hint, claimed, live>>

(* A newly claimed frame leaves the supply, its user moved elsewhere; one  *)
(* that can neither be taken nor moved is only reported.                   *)
ClaimPage(t) ==
  /\ pc[t] = "claiming" /\ local[t].newLow < local[t].oldLow
  /\ LET p == local[t].oldLow - 1
     IN  /\ local' = [local EXCEPT ![t].oldLow = p]
         /\ \/ /\ p \in free \/ (p \in Movable /\ PreFlight({p}))
               /\ MoveOut({p}, {p})
               /\ gpu' = gpu \cup {p} /\ UNCHANGED abandoned
            \/ /\ p \notin free /\ (p \notin Movable \/ ~PreFlight({p}))
               /\ UNCHANGED supply
  /\ UNCHANGED <<table, hint, claimed, live, pc>>

\* Mutant of UnclaimPage: a shrinking claim forgets to give frames back.
UnclaimPageForgets(t) ==
  /\ pc[t] = "claiming" /\ local[t].newLow > local[t].oldLow
  /\ local' = [local EXCEPT ![t].oldLow = @ + 1]
  /\ UNCHANGED <<supply, table, hint, claimed, live, pc>>

(* A frame the shrunken claim no longer covers goes back to the supply. *)
UnclaimPage(t) ==
  /\ pc[t] = "claiming" /\ local[t].newLow > local[t].oldLow
  /\ free' = free \cup {local[t].oldLow}
  /\ gpu' = gpu \ {local[t].oldLow}
  /\ local' = [local EXCEPT ![t].oldLow = @ + 1]
  /\ UNCHANGED <<mapped, bucket, abandoned, table, hint, claimed, live, pc>>

(* The PFN lock is released; the claim is stored after it. *)
ClaimUnlock(t) ==
  /\ pc[t] = "claiming" /\ local[t].newLow = local[t].oldLow
  /\ Goto(t, "claimstore")
  /\ UNCHANGED <<supply, table, hint, claimed, live, local>>

ClaimStore(t) ==
  /\ MayRun(t) /\ pc[t] = "claimstore"
  /\ claimed' = HeapCeiling - local[t].newLow
  /\ Done(t)
  /\ UNCHANGED <<supply, table, hint, live>>

-----------------------------------------------------------------------------
Next == \E t \in Thread :
          \/ CommitPage(t) \/ DecommitPage(t) \/ EmptyBucketPage(t)
          \/ \E r \in Requests : AllocBegin(t, r)
          \/ AllocRun(t) \/ AllocNoRun(t) \/ AllocTableFull(t)
          \/ GrowAllocate(t) \/ GrowSwap(t)
          \/ Reclaim(t) \/ RetryRun(t) \/ RetryFails(t)
          \/ \E a \in live : FreeClear(t, a)
          \/ FreeReturn(t)
          \/ \E c \in Claims : ClaimBegin(t, c)
          \/ ClaimPage(t) \/ UnclaimPage(t) \/ ClaimUnlock(t) \/ ClaimStore(t)

Spec == Init /\ [][Next]_vars

-----------------------------------------------------------------------------
(* Every variable has its type. *)
TypeOK ==
  /\ free \subseteq Frame /\ mapped \subseteq Frame
  /\ bucket \subseteq Frame /\ gpu \subseteq Frame
  /\ abandoned \subseteq [base : Frame, pages : SUBSET Frame]
  /\ DOMAIN table = 0..Slots - 1
  /\ hint \in DOMAIN table
  /\ \A t \in Thread : local[t].slot \in DOMAIN table
  /\ claimed \in 0..HeapCeiling - InstanceBase

AllocFrames(a) == a.base..(a.base + RunPages(a.req) - 1)

(* What a thread is giving back. *)
Returning == UNION {local[t].run : t \in Thread}

(* No frame has two users: the supply, title memory, the pool, the GPU and *)
(* every live allocation hold disjoint frames.                             *)
NoFrameShared ==
  /\ \A a, b \in live : a # b => AllocFrames(a) \cap AllocFrames(b) = {}
  /\ LET held == (UNION {AllocFrames(a) : a \in live}) \cup Returning
         users == <<free, mapped, bucket, gpu, held>>
     IN  \A i, j \in 1..5 : i < j => users[i] \cap users[j] = {}

(* And none is lost: every frame of the supply has a user, but for those a *)
(* relocation had taken when it ran out of destinations, which it does for *)
(* a window that reaches below the floor only.                             *)
NoFrameLost ==
  /\ BootFree = free \cup mapped \cup bucket \cup gpu \cup Returning
                  \cup (UNION {AllocFrames(a) : a \in live})
                  \cup (UNION {w.pages : w \in abandoned})
  /\ \A w \in abandoned : w.base < GenericFloorPfn

(* The table records live allocations: each has exactly one entry with its *)
(* frames, and there is no other entry.  Free depends on it, and a query,  *)
(* which answers with the size the title asked for.  The hint, and a slot  *)
(* number kept across a release of the lock, are slots although the table  *)
(* grows under them.                                                       *)
Tracked ==
  /\ \A a \in live : \E s \in DOMAIN table : EntryOf(a) = {s} /\ table[s].pages = AllocFrames(a)
  /\ Cardinality(DOMAIN table \ FreeSlots) = Cardinality(live)
  /\ \A a \in live : NxMmQueryAllocationSize(a) = a.req.bytes
  /\ hint \in DOMAIN table /\ \A t \in Thread : local[t].slot \in DOMAIN table

(* A run lies in the caller's window, and only a request whose low bound  *)
(* lies inside the instance region gets a frame of that region or above.   *)
WithinWindow ==
  \A a \in live : /\ a.base * PageBytes >= a.req.low
                  /\ (a.base + RunPages(a.req)) * PageBytes - 1 <= a.req.high
                  /\ a.req.low < InstanceBase * PageBytes => Max(AllocFrames(a)) < InstanceBase

(* Once a claim has been stored the GPU holds exactly the claimed tail of  *)
(* the region.                                                             *)
ClaimHolds ==
  (\A t \in Thread : pc[t] \notin {"claiming", "claimstore"}) =>
     gpu = (HeapCeiling - claimed)..(HeapCeiling - 1)

=============================================================================
