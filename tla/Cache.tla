-------------------------------- MODULE Cache --------------------------------
(***************************************************************************)
(* The file cache, ntoskrnl/xb/mm/cache.c: a fixed pool of block buffers   *)
(* keyed by (file, offset), clean-first LRU eviction, write-back without a *)
(* lazy writer, the write-back reserve, pins, and the map of a file from   *)
(* its first cached use to its last close.                                 *)
(*                                                                         *)
(* NxcMutex guards the table and is never held across I/O.  "mutex" is its *)
(* holder: a thread keeps it from one action to the next while the code    *)
(* does, and lets go of it where the code does, that is around a transfer, *)
(* in NxcShortWait and at the end of a call.  A thread's calls nest (a     *)
(* transfer re-enters the file system, which maps the FAT through the      *)
(* cache), so each thread has a stack of frames.  NxcShortWait gives up    *)
(* the mutex and looks again a millisecond later: here the thread lets go  *)
(* of the mutex and goes on once looking again would find something to do. *)
(*                                                                         *)
(* A block holds one abstract value; a file is a run of blocks, of which   *)
(* FileSize covers the first and AllocationSize, in whole clusters, some   *)
(* more.  The second stream is the FAT, cached from mount to dismount.     *)
(* Calls with Wait = FALSE either are a hit, like the waiting call, or     *)
(* change nothing, and are not modelled separately.                        *)
(***************************************************************************)
EXTENDS Integers, Sequences, FiniteSets, FiniteSetsExt, SequencesExt

CONSTANTS
  Thread,
  NoThread,         \* the mutex is free
  NXC_MAX_BLOCKS,   \* title-visible slots
  NXC_MIN_BLOCKS,   \* how many of them are always active, and are at boot
  NXC_WB_RESERVE,   \* slots set aside for write-backs
  FileBlocks,       \* blocks the file has at most
  ClusterBlocks,    \* blocks per cluster, 1 for clusters of a block or less
  FatBlocks,        \* blocks of the FAT
  FatOf,            \* the FAT block that maps each block of the file
  Maps,             \* where in the pool a map of the file can be
  MaxOpen,          \* bound on the handles with a private cache map
  Value,            \* the contents each block can be given
  IoFails,          \* the transfers that can fail: <<"read" or "write", block>>
  Calls             \* the entry points each thread calls

Data    == {<<"file", i>> : i \in 0 .. FileBlocks - 1}
Fat     == {<<"fat", i>> : i \in 0 .. FatBlocks - 1}
Key     == Data \cup Fat
NoKey   == <<"none", 0>>      \* Map == NULL
Visible == 0 .. NXC_MAX_BLOCKS - 1
Reserve == NXC_MAX_BLOCKS .. NXC_MAX_BLOCKS + NXC_WB_RESERVE - 1
Slots   == Visible \cup Reserve
NoSlot  == -1
Sizes   == 0 .. FileBlocks

ASSUME CacheAssumption ==
  /\ NXC_MAX_BLOCKS \in Nat /\ NXC_WB_RESERVE \in Nat
  /\ NXC_MIN_BLOCKS \in 1 .. NXC_MAX_BLOCKS
  /\ FileBlocks \in Nat \ {0} /\ FatBlocks \in Nat \ {0} /\ MaxOpen \in Nat
  /\ ClusterBlocks \in Nat \ {0} /\ FileBlocks % ClusterBlocks = 0
  /\ Maps \subseteq Nat /\ Maps # {}
  /\ FatOf \in [0 .. FileBlocks - 1 -> 0 .. FatBlocks - 1]
  /\ NoThread \notin Thread /\ DOMAIN Value = Key /\ \A k \in Key : 0 \in Value[k]
  /\ IoFails \subseteq {"read", "write"} \X Key

VARIABLES
  block,    \* NxcBlocks
  lru,      \* NxcLruList, oldest first
  active,   \* NxcActiveBlocks
  depth,    \* NxcWbDepth
  mutex,    \* holder of NxcMutex
  opens,    \* OpenCount of the file's map
  mapped,   \* the file has a map
  map,      \* where it is, or was last
  size,     \* FileSize of the file, in blocks
  alloc,    \* AllocationSize of the file, in blocks
  disk,     \* what the medium holds
  stack     \* the calls each thread is in, innermost last

vars == <<block, lru, active, depth, mutex, opens, mapped, map, size, alloc, disk, stack>>

-------------------------------------------------------------------------------
(* Frames *)

\* b: the block the call works on; m: the block a nested call returned;
\* ks: the blocks the call is about; todo: those it has not come to yet.
Frame(fn, pc, ks) ==
  [fn |-> fn, pc |-> pc, ks |-> ks, todo |-> ks, b |-> NoSlot, m |-> NoSlot, ok |-> TRUE]

Busy(t) == stack[t] # <<>>
Top(t)  == Last(stack[t])
Call(t) == Head(stack[t])           \* the entry point t called
In(t, fn, pcs) == Busy(t) /\ Top(t).fn = fn /\ Top(t).pc \in pcs
CanLock(t) == mutex \in {NoThread, t}

Replace(t, fs)   == stack' = [stack EXCEPT ![t] = Front(@) \o fs]   \* the top frame by fs
SetTop(t, f)     == Replace(t, <<f>>)
Push(t, f, g)    == Replace(t, <<f, g>>)
Pop(t)           == Replace(t, <<>>)
Return(t, m, ok) ==                 \* to the frame below, which sees m and ok
  stack' = [stack EXCEPT ![t] =
              LET s == Front(@) IN [s EXCEPT ![Len(s)].m = m, ![Len(s)].ok = ok]]
Unlock  == mutex' = NoThread
Lock(t) == mutex' = t

-------------------------------------------------------------------------------
(* The table *)

\* unsaved is history, no code reads it: the block passes for clean, but its
\* contents never went to the medium.
EmptyBlock == [live |-> TRUE, key |-> NoKey, data |-> 0, ref |-> 0,
               valid |-> FALSE, dirty |-> FALSE, busy |-> FALSE, unsaved |-> FALSE]
\* Data == NULL.  Contents nobody can read any more are 0 in the model.
RetiredBlock == [EmptyBlock EXCEPT !.live = FALSE]

NxcLookupBlock(k) == {b \in Slots : block[b].key = k}
Blocks(ks)        == {b \in Slots : block[b].key \in ks}
\* Mutant for RefsExact: a referenced block passes for unused.
IdleUnlessBusy(b) == ~block[b].busy
Idle(b)           == block[b].ref = 0 /\ ~block[b].busy

\* The list without B: the others keep their order.
Unlinked(B) ==
  LET kept     == {i \in DOMAIN lru : lru[i] \notin B}
      Place(i) == Cardinality({j \in kept : j <= i})
  IN  [n \in 1 .. Cardinality(kept) |-> lru[CHOOSE i \in kept : Place(i) = n]]

\* Offset < FileEnd: there is something to transfer.
Inside(k, n) == k \in Fat \/ (k \in Data /\ k[2] < n)
InFile(k)    == Inside(k, size)
FatKey(k)    == <<"fat", FatOf[k[2]]>>

\* What is allocated for n blocks: whole clusters.
Clusters(n) == {a \in Sizes : a % ClusterBlocks = 0 /\ n <= a /\ a < n + ClusterBlocks}

Init ==
  /\ block = [b \in Slots |-> IF b < NXC_MIN_BLOCKS \/ b \in Reserve
                              THEN EmptyBlock ELSE RetiredBlock]
  /\ lru = <<>> /\ active = NXC_MIN_BLOCKS /\ depth = 0 /\ mutex = NoThread
  /\ opens = 0 /\ mapped = FALSE
  /\ map \in Maps
  /\ size \in Sizes /\ alloc \in Clusters(size)
  /\ disk = [k \in Key |-> 0]
  /\ stack = [t \in Thread |-> <<>>]

-------------------------------------------------------------------------------
(* Transfers.  The file system serves a paging transfer of a file block by *)
(* mapping the FAT block that locates it, and one of the FAT directly.     *)

Transfers == {"NxcGetBlock", "NxcFlushBlock"}
OwnKey(t) == block[Top(t).b].key

\* The frames of a transfer f of block k: for a block of the file the FSD
\* first maps the FAT block of its cluster (CcMapData).
Transfer(f, k) ==
  IF k \in Data
  THEN <<[f EXCEPT !.pc = "mapped"], Frame("NxcGetBlock", "look", {FatKey(k)})>>
  ELSE <<[f EXCEPT !.pc = "io"]>>

\* The FSD unmaps it (CcUnpinData) and goes to the device.
FsdUnmap(t) ==
  /\ Busy(t) /\ Top(t).fn \in Transfers /\ Top(t).pc = "mapped"
  /\ mutex = NoThread
  /\ block' = IF Top(t).ok THEN [block EXCEPT ![Top(t).m].ref = @ - 1] ELSE block
  /\ SetTop(t, [Top(t) EXCEPT !.pc = "io", !.m = NoSlot])
  /\ UNCHANGED <<lru, active, depth, mutex, opens, mapped, map, size, alloc, disk>>

\* Outcomes of the transfer itself, which fails if mapping the FAT did.
Outcomes(t, io) == {o \in BOOLEAN : IF o THEN Top(t).ok ELSE <<io, OwnKey(t)>> \in IoFails \/ ~Top(t).ok}

\* NxcFlushBlock, from the marking its callers do to the release of the
\* mutex.  A block past the end of the file has nothing to write: it is
\* clean at once.  f is the caller's frame as the flush will find it.
StartFlush(t, b, f) ==
  IF InFile(block[b].key)
  THEN /\ block' = [block EXCEPT ![b].ref = @ + 1, ![b].busy = TRUE]
       /\ depth' = depth + 1
       /\ Replace(t, <<f>> \o Transfer([Frame("NxcFlushBlock", "io", {}) EXCEPT !.b = b],
                                      block[b].key))
       /\ Unlock
  ELSE /\ block' = [block EXCEPT ![b].dirty = FALSE, ![b].unsaved = TRUE]
       /\ SetTop(t, f)
       /\ Lock(t)
       /\ UNCHANGED depth

\* The device writes the block, or fails to.
NxcFlushIo(t) ==
  /\ In(t, "NxcFlushBlock", {"io"})
  /\ \E o \in Outcomes(t, "write") :
       /\ disk' = IF o THEN [disk EXCEPT ![OwnKey(t)] = block[Top(t).b].data] ELSE disk
       /\ SetTop(t, [Top(t) EXCEPT !.pc = "done", !.ok = o])
  /\ UNCHANGED <<block, lru, active, depth, mutex, opens, mapped, map, size, alloc>>

\* Mutant for RefinesFileStore: a failed write counts as done.
NeverDirty(t) == FALSE
\* Dirty is cleared after the transfer, unless it failed.
StillDirty(t) == block[Top(t).b].dirty /\ ~Top(t).ok

\* The end of NxcFlushBlock, and the caller's RefCount--.
NxcFlushBlock(t) ==
  /\ In(t, "NxcFlushBlock", {"done"}) /\ mutex = NoThread
  /\ block' = [block EXCEPT ![Top(t).b].busy = FALSE, ![Top(t).b].ref = @ - 1,
                            ![Top(t).b].dirty = StillDirty(t)]
  /\ depth' = depth - 1
  /\ Pop(t)
  /\ Lock(t)
  /\ UNCHANGED <<lru, active, opens, mapped, map, size, alloc, disk>>

-------------------------------------------------------------------------------
(* NxcClaimSlot and NxcGetBlock *)

FreeVisible == {b \in Visible : block[b].live /\ block[b].key = NoKey}
\* The places in the LRU list of the blocks to be had.
CleanLru    == {i \in DOMAIN lru : lru[i] \in Visible /\ Idle(lru[i]) /\ ~block[lru[i]].dirty}
DirtyLru    == {i \in DOMAIN lru : lru[i] \in Visible /\ Idle(lru[i]) /\ block[lru[i]].dirty}

\* Mutant for CallsReturn: there is no reserve.
NoReserve == NoSlot
\* A free reserve slot, else a clean unreferenced one.
NxcClaimReserve ==
  LET free  == {b \in Reserve : block[b].key = NoKey}
      clean == {b \in Reserve : Idle(b) /\ ~block[b].dirty}
  IN  IF free # {} THEN Min(free) ELSE IF clean # {} THEN Min(clean) ELSE NoSlot

\* The slot a pass of the claim loop ends with, NoSlot if it ends with none.
NxcClaimSlot ==
  IF FreeVisible # {} THEN Min(FreeVisible)
  ELSE IF CleanLru # {} THEN lru[Min(CleanLru)]
  ELSE IF DirtyLru = {} /\ depth > 0 THEN NxcClaimReserve
  ELSE NoSlot

GetKey(t) == CHOOSE k \in Top(t).ks : TRUE
Missing(t) == Top(t).pc = "claim" \/ NxcLookupBlock(GetKey(t)) = {}

\* CcCopyRead and CcCopyWrite go on with the mutex, a mapping or pinning
\* caller gets its block without it.
Keeps(f) == f.fn \in {"CcCopyRead", "CcCopyWrite"}
Below(t) == stack[t][Len(stack[t]) - 1]
Got(t, b) ==
  /\ Return(t, b, TRUE)
  /\ mutex' = IF Keeps(Below(t)) THEN t ELSE NoThread

\* NxcReadBlock on the block bs[b], from the marking to the release of the
\* mutex; past the end of the file there is nothing to read but zeroes.
StartRead(t, b, bs) ==
  LET k == bs[b].key IN
  IF InFile(k)
  THEN /\ block' = [bs EXCEPT ![b].busy = TRUE]
       /\ Replace(t, Transfer([Top(t) EXCEPT !.b = b], k))
       /\ Unlock
  ELSE /\ block' = [bs EXCEPT ![b].valid = TRUE]
       /\ Got(t, b)

\* A valid block: reference it, make it the youngest.
GetHit(t) ==
  /\ In(t, "NxcGetBlock", {"look"}) /\ CanLock(t)
  /\ \E b \in NxcLookupBlock(GetKey(t)) :
       /\ ~block[b].busy /\ block[b].valid
       /\ block' = [block EXCEPT ![b].ref = @ + 1]
       /\ lru' = Append(Unlinked({b}), b)
       /\ Got(t, b)
  /\ UNCHANGED <<active, depth, opens, mapped, map, size, alloc, disk>>

\* A block an earlier read failed on: read it again.
GetRetry(t) ==
  /\ In(t, "NxcGetBlock", {"look"}) /\ CanLock(t)
  /\ \E b \in NxcLookupBlock(GetKey(t)) :
       /\ ~block[b].busy /\ ~block[b].valid
       /\ StartRead(t, b, [block EXCEPT ![b].ref = @ + 1])
  /\ UNCHANGED <<lru, active, depth, opens, mapped, map, size, alloc, disk>>

\* Mutant for TableExact: no second lookup after the claim.
NeverRaced(k, b) == FALSE
Raced(k, b) == NxcLookupBlock(k) \ {b} # {}

\* A slot could be claimed.  Somebody may have brought the block in while
\* the claim had the mutex released: then the slot goes back.
GetClaim(t) ==
  /\ In(t, "NxcGetBlock", {"look", "claim"}) /\ CanLock(t) /\ Missing(t)
  /\ NxcClaimSlot # NoSlot
  /\ LET b == NxcClaimSlot
         k == GetKey(t) IN
     IF Raced(k, b)
     THEN /\ block' = [block EXCEPT ![b] = EmptyBlock]
          /\ lru' = Unlinked({b})
          /\ SetTop(t, [Top(t) EXCEPT !.pc = "look"])
          /\ Lock(t)
     ELSE /\ StartRead(t, b, [block EXCEPT ![b] = [EmptyBlock EXCEPT !.key = k, !.ref = 1]])
          /\ lru' = Append(Unlinked({b}), b)
  /\ UNCHANGED <<active, depth, opens, mapped, map, size, alloc, disk>>

\* Only dirty blocks to be had: write the oldest one back and look again.
GetEvict(t) ==
  /\ In(t, "NxcGetBlock", {"look", "claim"}) /\ CanLock(t) /\ Missing(t)
  /\ FreeVisible = {} /\ CleanLru = {} /\ DirtyLru # {}
  /\ StartFlush(t, lru[Min(DirtyLru)], [Top(t) EXCEPT !.pc = "claim"])
  /\ UNCHANGED <<lru, active, opens, mapped, map, size, alloc, disk>>

\* The transfer of NxcReadBlock and what follows it under the mutex.  A
\* failed read leaves the block invalid in the table and raises: to the FSD,
\* which fails the transfer it maps the FAT for, or out of the call.
NxcReadBlock(t) ==
  /\ In(t, "NxcGetBlock", {"io"}) /\ mutex = NoThread
  /\ LET b == Top(t).b IN
     \E o \in Outcomes(t, "read") :
       IF o
       THEN /\ block' = [block EXCEPT ![b].data = disk[block[b].key],
                                      ![b].valid = TRUE, ![b].busy = FALSE]
            /\ Got(t, b)
       ELSE /\ block' = [block EXCEPT ![b].busy = FALSE, ![b].ref = @ - 1]
            /\ IF Len(stack[t]) = 2
               THEN stack' = [stack EXCEPT ![t] = <<>>]
               ELSE Return(t, NoSlot, FALSE)
            /\ UNCHANGED mutex
  /\ UNCHANGED <<lru, active, depth, opens, mapped, map, size, alloc, disk>>

\* No slot is to be had; the block is being transferred.
ClaimBlocked(t) ==
  In(t, "NxcGetBlock", {"look", "claim"}) /\ Missing(t) /\ NxcClaimSlot = NoSlot /\ DirtyLru = {}
GetBlocked(t) ==
  /\ In(t, "NxcGetBlock", {"look"})
  /\ \E b \in NxcLookupBlock(GetKey(t)) : block[b].busy

-------------------------------------------------------------------------------
(* NxcFlushMap over the blocks of ks: pc "flush" or, to discard, "drop".   *)
(* b is where the map is.  A flush does not keep others from closing the   *)
(* file; once its map is freed it finds blocks only if the next one is in  *)
(* the same place.                                                         *)

Flushing(pc, ks) == [Frame("NxcFlushMap", pc, ks) EXCEPT !.b = map]
Reach(f) == IF f.b = map \/ f.ks \cap Data = {} THEN f.ks ELSE {}

\* Mutant for FlushDurable: blocks being written are passed over.
InTheWayIdle(ks) == {b \in Blocks(ks) : ~block[b].busy /\ block[b].dirty /\ block[b].valid}
\* The first block in the way: busy, or still to be written.
InTheWay(ks) == {b \in Blocks(ks) : block[b].busy \/ (block[b].dirty /\ block[b].valid)}

FlushMapWrite(t) ==
  /\ In(t, "NxcFlushMap", {"flush"}) /\ CanLock(t)
  /\ InTheWay(Reach(Top(t))) # {}
  /\ LET b == Min(InTheWay(Reach(Top(t)))) IN ~block[b].busy /\ StartFlush(t, b, Top(t))
  /\ UNCHANGED <<lru, active, opens, mapped, map, size, alloc, disk>>

\* Unreferenced blocks in front of the first busy one are dropped.
Droppable(ks) ==
  {b \in Blocks(ks) : block[b].ref = 0 /\ \A c \in Blocks(ks) : block[c].busy => b < c}

FlushMapDrop(t) ==
  /\ In(t, "NxcFlushMap", {"drop"}) /\ CanLock(t)
  /\ Droppable(Top(t).ks) # {}
  /\ block' = [b \in Slots |-> IF b \in Droppable(Top(t).ks) THEN EmptyBlock ELSE block[b]]
  /\ lru' = Unlinked(Droppable(Top(t).ks))
  /\ Lock(t)
  /\ UNCHANGED <<active, depth, opens, mapped, map, size, alloc, disk, stack>>

Dropped(ks) == Droppable(ks) = {} /\ \A b \in Blocks(ks) : ~block[b].busy

\* Nothing left in the range: back to the caller, or out of CcFlushCache,
\* of CcSetFileSizes and of a write that went through.
FlushMapDone(t) ==
  /\ \/ In(t, "NxcFlushMap", {"flush"}) /\ InTheWay(Reach(Top(t))) = {}
     \/ In(t, "NxcFlushMap", {"drop"}) /\ Dropped(Top(t).ks)
  /\ CanLock(t)
  /\ IF Len(stack[t]) = 1 \/ Keeps(Below(t))
     THEN stack' = [stack EXCEPT ![t] = <<>>] /\ Unlock
     ELSE Pop(t) /\ Lock(t)
  /\ UNCHANGED <<block, lru, active, depth, opens, mapped, map, size, alloc, disk>>

FlushBlocked(t) ==
  \/ /\ In(t, "NxcFlushMap", {"flush"}) /\ InTheWay(Reach(Top(t))) # {}
     /\ block[Min(InTheWay(Reach(Top(t))))].busy
  \/ /\ In(t, "NxcFlushMap", {"drop"}) /\ Droppable(Top(t).ks) = {}
     /\ \E b \in Blocks(Top(t).ks) : block[b].busy

\* A thread with nothing to do lets others at the table.  One that waits for
\* a slot has seen that its block is missing and does not look again.
NxcShortWait(t) ==
  /\ CanLock(t)
  /\ \/ ClaimBlocked(t) /\ SetTop(t, [Top(t) EXCEPT !.pc = "claim"])
     \/ (GetBlocked(t) \/ FlushBlocked(t)) /\ UNCHANGED stack
  /\ Unlock
  /\ UNCHANGED <<block, lru, active, depth, opens, mapped, map, size, alloc, disk>>

-------------------------------------------------------------------------------
(* Entry points.  The FSD holds the file's resource shared for a read and   *)
(* exclusively for whatever changes the file; nothing holds it for the      *)
(* write-backs of an eviction, for NxcFlushAll or for the Fsc calls, and    *)
(* the flush that makes a set-information or a create durable comes after   *)
(* the release.                                                             *)

OnFile(u) == /\ Busy(u) /\ Call(u).ks \cap Data # {}
             /\ ~(Call(u).fn = "NxcFlushMap" /\ Call(u).pc = "flush")
Shared(t) == \A u \in Thread \ {t} : OnFile(u) => Call(u).fn = "CcCopyRead"
Exclusive(t) == \A u \in Thread \ {t} : ~OnFile(u)

\* The FSD holds the FAT resource to update the FAT.  A flush of the FAT does
\* not take it.
PinsFat(u) == Busy(u) /\ Call(u).fn = "CcPinRead"
MayPin(t) == \A u \in Thread \ {t} : ~PinsFat(u)

Enter(t, fn) == fn \in Calls[t] /\ ~Busy(t)
Begin(t, s)  == stack' = [stack EXCEPT ![t] = s]
Ranges(K)    == {ks \in SUBSET K : ks # {} /\
                   \A j, k \in ks, l \in K : j[2] <= l[2] /\ l[2] <= k[2] => l \in ks}
First(ks)    == CHOOSE k \in ks : \A j \in ks : k[2] <= j[2]
Getting(ks)  == Frame("NxcGetBlock", "look", {First(ks)})

\* A read opens the file's map too.
CcInitializeCacheMap(t) ==
  /\ Enter(t, "CcInitializeCacheMap") /\ Shared(t) /\ mutex = NoThread
  /\ opens < MaxOpen
  /\ mapped' = TRUE /\ opens' = opens + 1
  /\ map' \in IF mapped THEN {map} ELSE Maps
  /\ UNCHANGED <<block, lru, active, depth, mutex, size, alloc, disk, stack>>

\* pc says what is still to do once the transfer is over: a file opened for
\* write-through is flushed.  CcZeroData is a write of zeroes.
CcCopyRead(t) ==
  /\ Enter(t, "CcCopyRead") /\ Shared(t) /\ mapped
  /\ \E ks \in Ranges({k \in Data : InFile(k)}) :
       Begin(t, <<Frame("CcCopyRead", "copy", ks), Getting(ks)>>)
  /\ UNCHANGED <<block, lru, active, depth, mutex, opens, mapped, map, size, alloc, disk>>

CcCopyWrite(t) ==
  /\ Enter(t, "CcCopyWrite") /\ Exclusive(t) /\ mapped
  /\ \E ks \in Ranges({k \in Data : InFile(k)}), pc \in {"copy", "through"} :
       Begin(t, <<Frame("CcCopyWrite", pc, ks), Getting(ks)>>)
  /\ UNCHANGED <<block, lru, active, depth, mutex, opens, mapped, map, size, alloc, disk>>

\* One block has been got: copy, release it, get the next one.
CopyBlock(t) ==
  /\ Busy(t) /\ Keeps(Top(t)) /\ mutex = t
  /\ LET f    == Top(t)
         rest == f.todo \ {First(f.todo)}
         g    == [f EXCEPT !.todo = rest, !.m = NoSlot] IN
     /\ \E v \in IF f.fn = "CcCopyWrite" THEN Value[First(f.todo)] ELSE {block[f.m].data} :
          block' = [block EXCEPT ![f.m].ref = @ - 1, ![f.m].data = v,
                                 ![f.m].dirty = @ \/ f.fn = "CcCopyWrite",
                                 ![f.m].unsaved = @ /\ f.fn # "CcCopyWrite"]
     /\ \/ rest # {} /\ Push(t, g, Getting(rest)) /\ Lock(t)
        \/ rest = {} /\ f.pc = "copy" /\ Pop(t) /\ Unlock
        \/ rest = {} /\ f.pc = "through" /\ Push(t, g, Flushing("flush", f.ks)) /\ Unlock
  /\ UNCHANGED <<lru, active, depth, opens, mapped, map, size, alloc, disk>>

\* The caller's buffer faults: the call raises.  A write has changed part of
\* the block by then and does not get to mark it dirty.
CopyFault(t) ==
  /\ Busy(t) /\ Keeps(Top(t)) /\ mutex = t
  /\ LET f == Top(t) IN
     \E v \in IF f.fn = "CcCopyWrite" THEN Value[First(f.todo)] ELSE {block[f.m].data} :
       block' = [block EXCEPT ![f.m].ref = @ - 1, ![f.m].data = v,
                              ![f.m].unsaved = @ \/ (f.fn = "CcCopyWrite" /\ ~block[f.m].dirty)]
  /\ Pop(t) /\ Unlock
  /\ UNCHANGED <<lru, active, depth, opens, mapped, map, size, alloc, disk>>

\* CcPinRead of a FAT block by the FSD, to be updated.
CcPinRead(t) ==
  /\ Enter(t, "CcPinRead") /\ MayPin(t)
  /\ \E k \in Fat : Begin(t, <<Frame("CcPinRead", "pinned", {k}), Getting({k})>>)
  /\ UNCHANGED <<block, lru, active, depth, mutex, opens, mapped, map, size, alloc, disk>>

\* The FSD changes the pinned buffer, without the mutex ...
PinnedWrite(t) ==
  /\ In(t, "CcPinRead", {"pinned"})
  /\ \E v \in Value[GetKey(t)] : block' = [block EXCEPT ![Top(t).m].data = v]
  /\ SetTop(t, [Top(t) EXCEPT !.pc = "changed"])
  /\ UNCHANGED <<lru, active, depth, mutex, opens, mapped, map, size, alloc, disk>>

\* ... and says so, without the mutex either.
CcSetDirtyPinnedData(t) ==
  /\ In(t, "CcPinRead", {"changed"})
  /\ block' = [block EXCEPT ![Top(t).m].dirty = TRUE]
  /\ SetTop(t, [Top(t) EXCEPT !.pc = "dirtied"])
  /\ UNCHANGED <<lru, active, depth, mutex, opens, mapped, map, size, alloc, disk>>

CcUnpinData(t) ==
  /\ In(t, "CcPinRead", {"pinned", "dirtied"}) /\ mutex = NoThread
  /\ block' = [block EXCEPT ![Top(t).m].ref = @ - 1]
  /\ Pop(t)
  /\ UNCHANGED <<lru, active, depth, mutex, opens, mapped, map, size, alloc, disk>>

CcFlushCache(t) ==
  /\ Enter(t, "CcFlushCache")
  /\ \/ mapped /\ Begin(t, <<Flushing("flush", Data)>>)
     \/ Begin(t, <<Flushing("flush", Fat)>>)
  /\ UNCHANGED <<block, lru, active, depth, mutex, opens, mapped, map, size, alloc, disk>>

\* Set-EOF and an overwrite give the file n blocks, in as few clusters as
\* possible; so does giving space back.  Space allocated ahead leaves the
\* end of the file where it is.
Resizes(n, a) ==
  /\ a \in Clusters(n) \/ (n = size /\ a > alloc /\ a % ClusterBlocks = 0)
  /\ n # size \/ a # alloc

\* Blocks that clusters are added for hold whatever these held.  The map drops
\* what the allocation loses: blocks past the end of the file may stay.
CcSetFileSizes(t) ==
  /\ Enter(t, "CcSetFileSizes") /\ Exclusive(t) /\ mutex = NoThread
  /\ \E n, a \in Sizes :
       /\ Resizes(n, a)
       /\ size' = n /\ alloc' = a
       /\ disk' \in [Key -> UNION {Value[k] : k \in Key}]
       /\ \A k \in Key : IF Inside(k, a) /\ ~Inside(k, alloc) THEN disk'[k] \in Value[k]
                         ELSE disk'[k] = disk[k]
       /\ IF mapped /\ a < alloc
          THEN /\ Begin(t, <<Flushing("drop", {k \in Data : ~Inside(k, a)})>>)
               /\ Lock(t)
          ELSE UNCHANGED <<stack, mutex>>
  /\ UNCHANGED <<block, lru, active, depth, opens, mapped, map>>

\* With UninitializeCacheMaps the purge is CcUninitializeCacheMap on each
\* handle instead.
CcPurgeCacheSection(t) ==
  /\ Enter(t, "CcPurgeCacheSection") /\ Exclusive(t) /\ mapped
  /\ \E ks \in Ranges(Data) : Begin(t, <<Frame("CcPurgeCacheSection", "purge", ks)>>)
  /\ UNCHANGED <<block, lru, active, depth, mutex, opens, mapped, map, size, alloc, disk>>

PurgeBlocks(t) ==
  /\ In(t, "CcPurgeCacheSection", {"purge"}) /\ mutex = NoThread
  /\ LET B == Blocks(Top(t).ks) IN
     IF \A b \in B : Idle(b)
     THEN /\ block' = [b \in Slots |-> IF b \in B THEN EmptyBlock ELSE block[b]]
          /\ lru' = Unlinked(B)
     ELSE UNCHANGED <<block, lru>>
  /\ Pop(t)
  /\ UNCHANGED <<active, depth, mutex, opens, mapped, map, size, alloc, disk>>

\* Closing a handle: blocks past the end go; the last handle writes all
\* blocks back, drops them, and then the map.
CcUninitializeCacheMap(t) ==
  /\ Enter(t, "CcUninitializeCacheMap") /\ Exclusive(t) /\ opens > 0
  /\ Begin(t, <<Frame("CcUninitializeCacheMap", "close", Data),
                Flushing("drop", {k \in Data : ~InFile(k)})>>)
  /\ UNCHANGED <<block, lru, active, depth, mutex, opens, mapped, map, size, alloc, disk>>

\* Mutant for NoOrphan: the second pass of the close flushes again.
LastPassKeeps == "flush"
LastPass == "drop"

Uninitialize(t) ==
  /\ Busy(t) /\ Top(t).fn = "CcUninitializeCacheMap" /\ mutex = t
  /\ LET At(pc)  == [Top(t) EXCEPT !.pc = pc]
         Map(pc) == Flushing(pc, Data) IN
     \/ /\ Top(t).pc = "close"
        /\ opens' = opens - 1
        /\ IF opens > 1 THEN Pop(t) /\ Unlock ELSE Push(t, At("drop"), Map("flush")) /\ Lock(t)
        /\ UNCHANGED mapped
     \/ /\ Top(t).pc = "drop"
        /\ Push(t, At("free"), Map(LastPass)) /\ Lock(t)
        /\ UNCHANGED <<opens, mapped>>
     \/ /\ Top(t).pc = "free"
        /\ mapped' = FALSE
        /\ Pop(t) /\ Unlock
        /\ UNCHANGED opens
  /\ UNCHANGED <<block, lru, active, depth, map, size, alloc, disk>>

\* NxcFlushAll, of shutdown and of CcWaitForCurrentLazyWriterActivity.
NxcFlushAll(t) ==
  /\ Enter(t, "NxcFlushAll")
  /\ Begin(t, <<Frame("NxcFlushAll", "scan", {})>>)
  /\ UNCHANGED <<block, lru, active, depth, mutex, opens, mapped, map, size, alloc, disk>>

FlushAllMaps(t) ==
  /\ In(t, "NxcFlushAll", {"scan"}) /\ CanLock(t)
  /\ \/ \E K \in {Data, Fat} :
          /\ \E b \in Blocks(K) : block[b].dirty
          /\ Push(t, Top(t), Flushing("flush", K)) /\ Lock(t)
     \/ (\A b \in Blocks(Key) : ~block[b].dirty) /\ Pop(t) /\ Unlock
  /\ UNCHANGED <<block, lru, active, depth, opens, mapped, map, size, alloc, disk>>

\* FscSetCacheSize: slots are activated while memory lasts; to shrink, the
\* first slots in reach are retired, after a write-back where needed.
FscSetCacheSize(t) ==
  /\ Enter(t, "FscSetCacheSize") /\ mutex = NoThread
  /\ \E target \in NXC_MIN_BLOCKS .. NXC_MAX_BLOCKS \ {active} :
       IF target > active
       THEN \E B \in SUBSET {b \in Visible : ~block[b].live} :
              /\ B # {} /\ Cardinality(B) <= target - active
              /\ \A b \in B, c \in Visible \ B : ~block[c].live => b < c
              /\ block' = [b \in Slots |-> IF b \in B THEN EmptyBlock ELSE block[b]]
              /\ active' = active + Cardinality(B)
              /\ UNCHANGED <<stack, mutex>>
       ELSE /\ Begin(t, <<[Frame("FscSetCacheSize", "shrink", {}) EXCEPT !.b = target]>>)
            /\ Lock(t)
            /\ UNCHANGED <<block, active>>
  /\ UNCHANGED <<lru, depth, opens, mapped, map, size, alloc, disk>>

ShrinkCache(t) ==
  /\ In(t, "FscSetCacheSize", {"shrink"}) /\ mutex = t
  /\ LET idle == {b \in Visible : block[b].live /\ Idle(b)}
         b    == Min(idle) IN
     \/ /\ active > Top(t).b /\ idle # {} /\ block[b].dirty /\ block[b].valid
        /\ StartFlush(t, b, Top(t))
        /\ UNCHANGED <<lru, active>>
     \/ /\ active > Top(t).b /\ idle # {} /\ ~(block[b].dirty /\ block[b].valid)
        /\ block' = [block EXCEPT ![b] = RetiredBlock]
        /\ lru' = Unlinked({b})
        /\ active' = active - 1
        /\ UNCHANGED <<stack, mutex, depth>>
     \/ /\ active <= Top(t).b \/ idle = {}
        /\ Pop(t) /\ Unlock
        /\ UNCHANGED <<block, lru, active, depth>>
  /\ UNCHANGED <<opens, mapped, map, size, alloc, disk>>

FscInvalidateIdleBlocks(t) ==
  /\ Enter(t, "FscInvalidateIdleBlocks") /\ mutex = NoThread
  /\ LET B == {b \in Blocks(Key) : Idle(b) /\ ~block[b].dirty} IN
     /\ block' = [b \in Slots |-> IF b \in B THEN EmptyBlock ELSE block[b]]
     /\ lru' = Unlinked(B)
  /\ UNCHANGED <<active, depth, mutex, opens, mapped, map, size, alloc, disk, stack>>

-------------------------------------------------------------------------------
Enters(t) ==
  \/ CcInitializeCacheMap(t) \/ CcUninitializeCacheMap(t) \/ CcSetFileSizes(t)
  \/ CcCopyRead(t) \/ CcCopyWrite(t) \/ CcPinRead(t) \/ CcFlushCache(t)
  \/ CcPurgeCacheSection(t) \/ NxcFlushAll(t)
  \/ FscSetCacheSize(t) \/ FscInvalidateIdleBlocks(t)

Continues(t) ==
  \/ GetHit(t) \/ GetRetry(t) \/ GetClaim(t) \/ GetEvict(t) \/ NxcReadBlock(t)
  \/ FsdUnmap(t) \/ NxcFlushIo(t) \/ NxcFlushBlock(t)
  \/ FlushMapWrite(t) \/ FlushMapDrop(t) \/ FlushMapDone(t) \/ NxcShortWait(t)
  \/ CopyBlock(t) \/ CopyFault(t) \/ PinnedWrite(t) \/ CcSetDirtyPinnedData(t) \/ CcUnpinData(t)
  \/ PurgeBlocks(t) \/ Uninitialize(t) \/ FlushAllMaps(t) \/ ShrinkCache(t)

Next == \E t \in Thread : Enters(t) \/ Continues(t)

Spec == Init /\ [][Next]_vars

\* A thread inside the cache runs on: the mutex is free again after finitely
\* many steps, a millisecond's wait ends, the device answers.
FairSpec == Spec /\ \A t \in Thread : WF_vars(Continues(t))

-------------------------------------------------------------------------------
(* Properties *)

Frames == UNION {{t} \X DOMAIN stack[t] : t \in Thread}
At(f)  == stack[f[1]][f[2]]
TransfersOf(b) == {f \in Frames : At(f).fn \in Transfers /\ At(f).b = b}
UsersOf(b)     == {f \in Frames : At(f).m = b}

\* The slot table, the LRU list and the size counter say the same: no block
\* of a file is cached twice, the list holds each block in use once, free
\* and retired slots are not referenced, the counter is the number of active
\* visible slots, and a dirty block has contents to write.
TableExact ==
  /\ \A b, c \in Slots : block[b].key = block[c].key /\ b # c => block[b].key = NoKey
  /\ ToSet(lru) = Blocks(Key) /\ IsInjective(lru)
  /\ \A b \in Slots \ Blocks(Key) : block[b] \in {EmptyBlock, RetiredBlock}
  /\ active = Cardinality({b \in Visible : block[b].live})
  /\ \A b \in Slots : block[b].dirty => block[b].valid

\* RefCount counts the pins and transfers there are, a block is Busy while
\* exactly one transfer is on it, and NxcWbDepth counts the write-backs.
RefsExact ==
  /\ \A b \in Slots :
       /\ block[b].ref = Cardinality(TransfersOf(b)) + Cardinality(UsersOf(b))
       /\ Cardinality(TransfersOf(b)) = IF block[b].busy THEN 1 ELSE 0
  /\ depth = Cardinality({f \in Frames : At(f).fn = "NxcFlushBlock"})

\* A file that has no map has no block in the cache: the close that frees
\* the map outlasts every transfer on it.
NoOrphan == ~mapped => Blocks(Data) = {}

Cached(k) == {b \in NxcLookupBlock(k) : block[b].valid}
Content == [k \in Key |-> IF ~InFile(k) THEN 0
                          ELSE IF Cached(k) # {} THEN block[CHOOSE b \in Cached(k) : TRUE].data
                          ELSE disk[k]]
Durable == [k \in Key |-> IF InFile(k) THEN disk[k] ELSE 0]
Purging == UNION {Call(t).ks : t \in {u \in Thread : In(u, "CcPurgeCacheSection", {"purge"})}}

\* A caller has the buffer of a block in hand and is about to change it.
Writing ==
  {First(Top(t).todo) : t \in {u \in Thread : Busy(u) /\ Top(u).fn = "CcCopyWrite"}}
  \cup UNION {Top(t).ks : t \in {u \in Thread : In(u, "CcPinRead", {"pinned"})}}

Unsaved == {block[b].key : b \in {c \in Slots : block[c].unsaved}}

Store == INSTANCE FileStore WITH content <- Content, durable <- Durable, unsaved <- Unsaved,
                                 writing <- Writing, purging <- Purging

\* Evictions, flushes, resizes of the cache, failed transfers and races
\* between them are invisible: what a file reads back changes only by a
\* write, a resize of the file, a purge, or back to what the medium holds
\* if a failed write changed it or it was cut off while dirty.
RefinesFileStore == Store!Spec

\* When a flush of a range returns, or a flush of everything, the medium
\* holds what the files read back, whoever else was writing blocks back,
\* resizing or closing the file, but for blocks left unsaved.
FlushDurable ==
  [][\A t \in Thread :
       Busy(t) /\ Len(stack'[t]) < Len(stack[t]) =>
         /\ In(t, "NxcFlushMap", {"flush"}) =>
              \A k \in Reach(Top(t)) \ Unsaved : Content[k] = Durable[k]
         /\ In(t, "NxcFlushAll", {"scan"}) => \A k \in Key \ Unsaved : Content[k] = Durable[k]]_vars

\* Every call returns, however many of the blocks are dirty: a write-back
\* finds a slot for the FAT block it has to map.
CallsReturn == \A t \in Thread : Busy(t) ~> ~Busy(t)

\* "These extra blocks are handed out only to a re-entrant metadata read
\* issued from inside a write-back (NxcWbDepth > 0); the data-fill path never
\* touches them" (NXC_WB_RESERVE, cache.c).
ReserveForMetadata == \A b \in Reserve : block[b].key \notin Data

\* A clean block has been written: no copy that faults and no cut of the file
\* leaves one whose contents the medium never got.
NothingUnsaved == Unsaved = {}
===============================================================================
