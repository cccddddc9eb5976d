# Verification of the nxkrnl memory manager, file cache, lock and lists

nxkrnl (Roswell) is an open kernel for the original Xbox, forked from ReactOS.
Its own code is `ntoskrnl/xb/`: a physical page supply, a pool, the title's
virtual memory, the contiguous-memory ordinals, a file cache, the XBE loader and
a number of ABI adapters. This project models the parts of it that keep shared
state, checks them with TLC on small instances, and proves the safety of the page
supply, the contiguous ordinals, the pool and its page layer, the title VM, the
cache, the read/write lock and the interlocked lists with TLAPS, for every size of
memory and every set of threads.

All of the code runs on one processor. Its concurrency is preemption: a spin
lock raises the IRQL and makes its section one step, a fast mutex excludes only
the callers of the same component, and every point outside a spin lock is a
point where another thread may run. The models have exactly these points as
separate steps.

## 1. The system

| Part | State | Operations | Talks to |
|---|---|---|---|
| Page supply, `mm/pagesupply.c` | one word per frame (list links or owner), two list heads, spill hint, two counters | take any, take specific, return, set owner, take a run, take a run with relocation | page tables of the owners; every other part takes frames here, under the PFN lock |
| Contiguous ordinals, `mm/contig.c` | table of live allocations, slot hint, GPU claim | allocate in a window, free, size query, claim GPU instance memory | supply (runs, relocation), pool (sweep before a retry, table growth) |
| Pool, `mm/pool.c` | class lists, byte of state per page, block headers, table of whole-page blocks | allocate, free, refill, sweep, size query | page layer `mm/poolpages.c` |
| Title VM, `mm/vm.c` | sorted region list, page-table entries, two statistics | reserve, commit, decommit, release, protect, query | supply (frames, owner words), pool (list nodes) |
| Read/write lock, `rwlock.c` | lock word, three counts, an event, a semaphore | acquire exclusive and shared, release | the inherited kernel's wait objects |
| File cache, `mm/cache.c` | blocks (valid, dirty, busy, references), maps, LRU, write-back depth | map, pin, copy, flush, purge, resize | file systems, which call back into it |
| Pool page layer, `mm/poolpages.c` | bitmap, run table, hint, statistic, entries | allocate, free, make immovable for a transfer | supply; the cache and the MDL code pin its pages |
| System-memory aperture, `mm/sysva.c` | page-table entries only | allocate, free | supply |
| Interlocked lists, `xbe.c` and the inherited `ExInterlockedFlushSList` | an 8-byte header, a link in every entry | pop, push, flush | the title's threads |
| XBE loader, `xbe.c` | sections and their reference counts | load, unload | title VM, file system |
| Others | boot code, device bring-up, crypto, EEPROM, ABI adapters, drivers, HAL, the inherited executive | | |

What is hard in this code:

* **Relocation.** A contiguous request may move any frame that has an owner
  word, at any moment at which the PFN lock is free. Whoever reads an entry
  outside that lock works with a value that may be stale when it is used.
* **Locks released in the middle of an operation**: the contiguous table's lock
  for growth and for the sweep, the pool's lock for a refill, the cache mutex
  for every IO, the interrupt flag of the read/write lock before every wait.
* **Bookkeeping spread over several words**: list links, class heads, hints and
  counters of the supply; headers, lists and counts of the pool; entries, owner
  words and statistics of the VM. Each step must keep them in agreement, and a
  disagreement shows much later.
* **Failure half way**: a run that cannot be emptied, a commitment that runs out
  of frames, a region that cannot be split, a claim over a pinned page.
* **Re-entry.** A cache fill or a write-back calls the file system, which calls
  the cache again for the FAT, and may find every block taken by the very data
  that is being written.
* **Devices that know frames, not addresses.** A page under a transfer must not
  be moved, and the mark that says so is one word without a count.
* **Unsigned arithmetic** on windows, counts and sizes.

What makes each part correct: the supply neither shares nor loses a frame and
relocation is invisible to owners; the contiguous table records exactly the live
runs, each in its window; the pool hands out disjoint blocks that are large
enough, and gives away only empty pages; the VM's list, entries, owner words and
statistics describe one state, also after a failed call; the lock excludes, and
starves nobody; what a file reads back from the cache changes only by a write, a
resize or a purge, and every call returns; both kernel windows map exactly the
pages callers hold, and none of them moves under a device; an interlocked list is
a stack whose operations take effect at one moment each.

## 2. The modules

### PageSupply (`MCPageSupply`, `PageSupplyProofs`)

State: `NxpLinks` (a record per frame for the packed word), `NxpFreeHead` for the
two heads, `NxpSpillHint`, `NxpGenericAvail`, `MmAvailablePages`, and the
clients: frames held singly, the entries, the runs, and `mem`, which entry's data
a frame holds. The PFN lock is held through every operation; an operation over
many frames is modelled frame by frame with `op` saying how far it got, and
nothing else runs meanwhile. The downward and upward scans are written as what
they find (the lowest or highest frame or base that fits), the unlink and push
operations word by word. Arithmetic of the pre-flight test is modulo `WordSize`.

### Contig (`MCContig`, `ContigProofs`)

Addresses are small numbers with wrapping arithmetic, pages have two bytes. The
table is a function from slots to entries; it grows in the two steps of the code
(allocate outside the lock, swap inside). An allocation is: slot and run under
the lock; on failure the lock is released, the pool is swept, and the retry uses
the slot of before. A free clears the entry, then returns the frames. A claim
takes or returns its pages under the PFN lock, and is stored after it. The supply
appears as sets of frames: free, title pages and pool pages that can be moved,
GPU pages; `GenericFloorPfn` is the floor below which a frame is only ever taken
by name. `PreFlight` is the unsigned comparison of `pagesupply.c:451`, which
subtracts all free frames of the window from a count of the generic ones.
`AbandonRun` is the `return 0` of line 481, in the middle of emptying a window
that the comparison let pass: the frames before the one without a destination
have left the lists, and `abandoned` remembers them. Which of the free frames
outside the window a moved page goes to is left open, except that the search
does not fail while a generic one is left. The build with `NXK_MM_PHYS` is
modelled, not the arena of the other.

### Pool (`MCPool`, `PoolProofs`)

Class lists are sequences, headers exist for every possible block position so
that a header not yet written holds junk. Steps are the sections under `NxpLock`,
the header write after it, and each call of the page layer, which appears as a
set of window pages. `Walk` and `Unlinked` are the loop with which the sweep takes
the blocks of a page off their list.

### TitleVm (`TitleVmProofs`)

One call at a time holds `NxvMutex`, so `op` is that call. Its loops go page by
page, and a read of an entry and the write that depends on it are two steps: the
compiler may keep the value in a register, and in `NxvFreePageAtPte` it is two
statements. The rest of the kernel takes and returns frames and makes contiguous
requests between any two steps. `entry` holds PTEs and PDEs; page tables move
like other frames. The constant `Concurrent` says whether a contiguous request
may also move the very page whose entry the call has read and not yet written.
Refused calls and `MEM_RESET` change nothing and are stutters; the queries are
left out, as they change nothing. The entry and the owner word of a new page are
written in one step: between them the frame has no owner and cannot be moved, as
before.

### RwLock (`RwLockProofs`)

The section with interrupts off is one step; counting and blocking, deciding and
waking are separate ones. The event is a synchronization event with a queue, the
semaphore a count with a queue; `KeSetEvent`, `KeReleaseSemaphore` and
`KiWaitTest` are translated as far as these two objects reach them.

### Cache and FileStore (`MCCache`, `CacheProofs`)

`Cache` has the slot table `NxcBlocks` (visible slots and the write-back
reserve), the LRU list, `NxcActiveBlocks`, `NxcWbDepth`, the holder of
`NxcMutex`, one file with its map and its open count, the FAT as the second
stream, and the medium. A thread keeps the mutex from action to action as the
code does and gives it up where the code does: around a transfer, in
`NxcShortWait`, at the end of a call. Calls nest, so `stack` holds each thread's
frames: an eviction inside a fill inside a write-back is four of them. A transfer
of a file block maps its FAT block through the cache, goes to the device, and
finishes under the mutex, three steps between which everything else may happen;
it may fail, if `IoFails` says so, or because the FAT could not be mapped. A wait
of a millisecond followed by another look is the guard of the step that finds
something to do; one inside `NxcClaimSlot` goes on with the claim and does not
look the block up again (`pc` "claim"). A copy may fault on the caller's buffer
(`CopyFault`): a write has then changed the block and does not mark it dirty.

The file has two sizes, `size` for `FileSize`, which reads and write-backs test,
and `alloc` for `AllocationSize`, in clusters of `ClusterBlocks`. vfatfs moves the
first without the second when a cluster is larger than a block, and the second
ahead of the first for `FileAllocationInformation` (`Resizes`). `CcSetFileSizes`
drops blocks only where the allocation shrinks, so a block past the end of the
file may stay cached; if it is dirty its write-back marks it clean and writes
nothing, and it can come back with a later growth. `unsaved` marks the blocks that
pass for clean in one of these two ways, after a fault or past the end. It is
history: no action reads it, and the properties name it.

The callers' locks are those of vfatfs: the file's resource shared for reads and
for the map a read creates, exclusive for what changes the file (`Shared`,
`Exclusive`), the FAT resource for updates of the FAT (`MayPin`). Evictions,
`NxcFlushAll`, `FscSetCacheSize` and flushes hold neither: the flush that makes a
set-information or a create durable (`finfo.c:1754`, `create.c:1147`) runs after
the release and beside anything, the last close included. A flush remembers where
the map was (`Reach`), and once that map is freed it finds blocks again only if the
next map is in the same place.

A block's contents are one value. Every property is about each block for itself,
so the instances tell the contents of one block apart and not those of the rest.

`FileStore` is what a cached volume promises: contents, and a copy on the medium
that only ever catches up. It knows nothing of blocks, slots or mutexes.
`Cache` implements it (`RefinesFileStore`) with `content` as the valid block if
there is one and the medium otherwise, `durable` as the medium, the unsaved
blocks, and two windows that belong to the callers: a block whose buffer a writer
has in hand, and a range being purged. The store says what becomes of an unsaved
block: it keeps its contents until the cache forgets it, and then reads as the
medium has it. A block that was cut off and is added again within the allocation
reads as either; one in newly allocated space reads as the medium has it.

Left out of `Cache`: `CcZeroData` on a file without a map, which goes past the
cache; `CcPinMappedData`, `CcPreparePinWrite` and `CcRepinBcb`, which no file
system of the image calls; the stubs and queries. Calls with `Wait = FALSE` are a
hit, which is modelled, or change nothing. The transfers' own locks in vfatfs are
left out too: they take the file's `PagingIoResource` and the FAT resource shared.
`VfatCleanupFile` holds `PagingIoResource` exclusively while the flush it started
waits for a busy block, and another thread's eviction of that block waits for the
same resource; `CallsReturn` says nothing about this cycle.

### PoolPages (`MCPoolPages`, `PoolPagesProofs`)

The pool window and the system-memory aperture over one supply, with relocation
and with transfers. Every operation runs at `DISPATCH_LEVEL` on the one processor
and is one action; a transfer starts in one (`NxcPagingIoStart`,
`MmProbeAndLockPages`) and ends in another. `Rank` is the order in which a
request takes its page tables and pages, `Taken` those it gets before the supply
is dry, `Backed` those that stay after the roll-back. The supply is its free set
and the owner of each frame; which frame it hands out is left open, so frames are
interchangeable and a symmetry set. `Overlap` says whether two locked buffers may
share a page.

### SList and Stack (`SListProofs`)

Every memory access of an attempt is a step: the two 4-byte loads of the header
(in either order for the C code, high half first in the assembly), the load or
store of a link, the compare-and-swap. Whoever has an entry may write anything
into its link. `Stack` is the promise: a sequence, its exact depth, and who has
each entry; `RefinesStack` maps the words to it, with the successful swap as the
moment of effect. The sequence is what the links spell from the header (`Spells`,
`Chain`). Two bounds: `NoWrap`, the sequence (16 bits in the code) does
not come round to a value that a thread has loaded within its attempt, and
`FlushAlone`, a flush and a pop do not overlap.

## 3. The runs

| Run | Result | What it shows |
|---|---|---|
| `supply` | pass | Links, back links and heads agree, a walk of each list meets each free frame of the class once, counters and hint are exact, no frame is in two hands, every entry keeps its data, also when a relocation is abandoned half way; and a frame is lost only by that, in a window below the floor. |
| `contig_two` | pass | Two threads allocate, free and grow the table at once, in windows above and across the floor; a frame is lost only to a relocation given up below the floor. |
| `contig_sweep` | pass | One allocating thread sweeps and retries while another claims and frees. |
| `contig_stale_slot` | violation | `Tracked`: finding 1. |
| `pool` | pass | Two threads allocate, free and sweep. |
| `vm` | pass | All calls of the title, frames running out, relocation of every page but the one a call is changing. |
| `vm_race` | violation | `ReturnedUnreferenced`: finding 2. |
| `rwlock` | pass | Five threads: exclusion, exact counts, one hand-over at a time; no waiting writer or reader starves. |
| `cache` | pass | One thread opens, writes, resizes and closes a file and flushes everything while the other reads and purges it, flushes it without its resource and resizes the cache; transfers fail, copies fault, and `FileSize` moves inside one cluster: no block is cached twice, references and busy marks count what is there, a close outlasts every transfer, a flush that returns has everything on the medium but the unsaved blocks, and the cache implements `FileStore`. |
| `cache_progress` | pass | Every call returns, with a cache full of dirty blocks too. |
| `poolpages` | pass | Bitmap, run table, statistic, entries, page tables and callers agree, every frame is in one place, owners name the entry that maps the frame, and no page moves under a transfer. |
| `slist` | pass | Two threads pop, push and flush, and write over links: the list is a stack, its depth is exact, and calls keep returning. |

Bounds, and why they are enough:

* `supply`: eight frames, two of them below the floor, one reserved, two in the
  kernel class, two entries, five contiguous requests above, below and across the
  floor. Enough for a mid-list unlink in both lists, a window of three frames with
  a free, an owned and an aligned one, for the lists to run dry and for the
  pre-flight test to wrap. The theorems of section 5 hold for every instance.
* `contig_*`: up to seven frames (in `contig_two` two of them below the floor), two
  threads, a table of one slot that may grow to four,
  two or three live runs (`MaxLive`), at most one mapped and one swept page
  (`MaxMapped`, `MaxBucket`). Two threads suffice for every race on one slot or
  one swap.
* `pool`: three pages of 64 bytes with two classes (two blocks, or one block per
  page), one table entry, four blocks out (`MaxHeld`), sizes at the class
  boundary, zero and above the largest class. The table overflows, a class runs
  dry, and a swept page is used again for the other class.
* `vm`: four frames, pages of two bytes, a range of four pages plus what a long
  reservation reaches beyond it, two page tables, runs of two frames. Frames run
  out in the middle of a commitment, a region is carved at both ends and split.
* `rwlock`: five threads, all states, so two writers and three readers or any
  other mix can wait at once.

* `cache`: `NXC_MAX_BLOCKS` is 2, `NXC_MIN_BLOCKS` 1, `NXC_WB_RESERVE` 1, a file
  of at most two blocks in one cluster, one FAT block, two threads. A write-back
  finds every slot dirty or busy, takes the reserve, and meets a second write-back
  and a fill of the same block by the other thread; the file is cut to one block
  and grows again with its second block still cached. `Maps` has one place, so the
  map that follows a freed one is always where that was, the case in which a flush
  that outlived its map finds blocks of the next. Every transfer can fail but a
  read of the FAT (`MostFail`); `cache_full.cfg`, beside the runs, has that too, the
  same properties, 1.6 million states and no error.
* `cache_progress`: three slots, two always active, so that the file's two dirty
  blocks and the FAT compete for two or three, and up to two handles. One thread
  makes every call, the other empties the cache.
* `poolpages`: two windows of three pages, page tables of two, five frames,
  requests of up to two pages, two transfers. A request straddles two page
  tables, runs dry at a page table or at a page, and meets what an earlier failed
  one left behind.
* `slist`: two threads, two entries, `UShort` 3. Enough for the top entry to be
  popped, its successor popped, and the first one pushed again inside one attempt
  of the other thread.

Deadlock checking is off in `cache` only: with two or three slots two threads that
fill blocks can hold all of them, each waiting for a slot, which the 4 to 32
slots of the real cache make unlikely and not impossible. `cache_progress` checks
it, with one thread that fills blocks.

**Fairness.** In `rwlock`: weak fairness of every thread's steps inside the lock's
code, as the scheduler runs every ready thread again, and of the release, as an
owner leaves the lock, which is the callers' contract. In `cache_progress`: weak
fairness of a thread inside the cache. The mutex is free again after finitely
many steps, a wait of a millisecond ends, the device answers. Transfers succeed
there: a flush and an eviction start over after a failed write
(`cache.c:630`, `:408`), so with a device that keeps failing `CallsReturn` does
not hold. In `slist`: weak fairness of a thread inside a call. Nothing is assumed
of threads outside, and no safety property uses fairness.

## 4. Findings

Each is a run that TLC refutes, next to the line of the repository it refutes.

1. `contig.c:552`. The slot number survives the release of the lock for the
   sweep; another thread may have filled the slot, whose entry is overwritten.
2. `vm.c:165`. `NxvFreePageAtPte` reads the frame number before it takes the PFN
   lock. If the page is relocated in between, it returns a frame that now belongs
   to the contiguous run. The run `vm` shows that this window and the
   read-modify-writes of entries (lines 302, 324, 766, 831) are the only places
   where relocation and the VM conflict.

Further instances, kept as configurations beside the runs, each refuting one
property:

* `poolpages_pin.cfg`, `DmaStill` (`poolpages.c:301`). A page is immovable as long
  as its frame has no owner, and there is one owner word per frame. Of two locked
  buffers that share a page the first unlock gives the owner back, and a
  contiguous request moves the page while the other device still has its frame;
  `docs/field-notes.md:88` says that locked frames must not move.
* `slist_flush.cfg`, `RefinesStack` (`xbe.c:1376`). Pop advances the sequence, push
  does not (the assembly's push does), and the flush that ordinal 56 is bound to
  keeps it. After a flush and as many pushes the header can be what it was when a
  pop loaded it, with other entries below, and the pop's swap succeeds with a link
  that is no longer on the list.
* `supply_dest.cfg`, `DestFound` (`pagesupply.c:451`). The pre-flight subtracts
  the free frames of the window, pin-only ones included, from a count that
  excludes them. For a window below the floor it wraps, and the relocation starts
  with no destination to go to. `NoFrameLost` bounds what follows.
* `contig_unclaim_pin.cfg`, `NoFrameShared` (`contig.c:826`). A claim over a page
  that a pinned run holds is stored although the page was not taken; a smaller
  claim then returns the run's page.
* `vm_rollback.cfg`, `FailureRestores` (`vm.c:509`). A failed commit of unreserved
  space leaves it reserved.
* `cache_pin.cfg`, `RefinesFileStore` (`cache.c:278`). An update of the FAT through
  a pin, made while a flush transfers that block, is marked clean when the
  transfer ends and never written. `cache.c:25` relies on the file systems'
  resources, and the flush (`vfatfs/flush.c:186`) does not take the FAT resource.
* `cache_reserve.cfg`, `ReserveForMetadata` (`cache.c:425`). The reserve is opened
  by a global depth, so a data fill of another thread may take it during a
  write-back, against `cache.c:80`.
* `cache_unsaved.cfg`, `NothingUnsaved` (`cache.c:925`). A write that faults half
  way leaves its block changed and clean, so that no flush writes it and an eviction
  undoes it. With clusters of two blocks a dirty block past a new end of file is
  cleaned unwritten as well (`cache.c:278`).

Seen while modelling, without a run of their own: the upward
scan for a relocation destination and the run scans do not test the floor
(`pagesupply.c:290`, `:368`); window bounds inside the first or the last page of
the address space wrap (`contig.c:525`, `:527`), as do the ends of title ranges
(`vm.c:447`); `pool.c:17` says that pages are never returned, which the sweep
does.

## 5. What is proved

Eight modules prove theorems about their components for every value of the
constants: every number of frames, pages, slots and threads, every table of
classes, every set of requests. The assumptions on the constants are the named
`ASSUME`s of the component modules, which TLC evaluates on every run. Each
argument is one inductive invariant, checked with TLC before it was proved, with
one lemma per action. The sections below say what the invariant needs beyond the
property, which is where the design of the code shows.

**PageSupplyProofs.** `SupplyTypeOK` (types, and an operation never leaves its
window), `SupplyLinksAgree` (links, back links and heads agree, so that unlinking
in the middle of a list is always correct), `SupplySpillHintSound` (no generic
free frame lies below the hint), `SupplyNoFrameShared` (no frame is free and
held, or held twice), `SupplyRelocationTransparent` (owner words and entries name
each other, and every entry maps the frame with its own data). None is inductive
alone. Pushing a frame keeps the lists in agreement only if the frame is in use,
which is `NoFrameShared`. That survives a relocation only because the frames of
the window still to come are free or owned, which is `WindowOpen`, and because
the entry that is retargeted is the one that maps the frame. `WindowOpen` in turn
holds because destinations are taken outside the window. The effects of unlink,
push and return on the words (`UnlinkedWords`, `LeftAgrees`, `PushedAgrees`,
`ReturnPushes`) are proved once. These theorems hold also when the pre-flight
wraps: the abandoned window loses frames but shares none.

`SupplyListsExact` adds that a walk from a head meets every free frame of the
class, once, and ends, and that both counters are exact. Links that agree do not
give this: a ring of free frames beside the list would agree too. `Grounded` rules
the ring out (every set of free frames has a member whose predecessor is outside
it) and is inductive; a set of frames the walk misses would contradict it. Every
step puts one frame on the lists, takes one off, or leaves them alone (`ListStep`),
which settles the counters. `SupplyDestFound` is the `ASSERT(Dest != 0)` of
`pagesupply.c:480` for windows at or above the floor: there the pre-flight
subtraction does not wrap, since the counter is exact and every free frame of the
window is counted in it, and each move uses up one frame to move and at most one
destination (`TargetsSuffice`). `SupplyNoFrameLost` follows: only a window that
reaches below the floor is ever given up, and nothing but that loses a frame.

**RwLockProofs.** `MutualExclusion`, `CountersAreExact`, `HandOversUnique` and
types, for every finite set of threads. The invariant states the four counters as
numbers of threads at each control point (`Counters`), at most one hand-over or
writer (`OneWriter`), at most one releaser on its way to the semaphore, and only
while that is at zero (`OneBatch`), that readers wait beside readers only because
of a writer (`WritersAhead`: without it a leaving reader could admit nobody), and
that nobody sleeps on an object that holds a signal. `Permits` and `Carried` of
`RwLock` count the permits that a releaser has decided on and not yet released.

**PoolPagesProofs.** `WindowsAreExact`, `FramesAreExact`, `OwnersAreExact`, and
`DmaStaysStill` under the hypothesis `~Overlap`, no two locked buffers share a
page; `poolpages_pin.cfg` shows that it is needed. The invariant has the supply
side (a frame is free, held or mapped by one entry; a page of the pool has its
owner unless a transfer has taken it away) and the window side (bitmap, run table
and entries cover the same runs). The first fit is a least element, the roll-back
a set of entries that go back to what they were.

**SListProofs.** `ImplementsStack`: every step of the lock-free list is a step of
`Stack` or a stutter, under `FlushAlone`, which `slist_flush.cfg` shows to be
needed. The words of the list spell one sequence (`Items`, the `Chain` of the
links from the header: the only sequence of entries that the links spell). The
invariant says that whatever a pop has read, if the header is still the one it
read then so is the link (`PopFollows`): pops advance the sequence, and while it
stands still the depth has only grown, so a header that came back has the same
entries below it. That is the argument against ABA, and it is the depth and not
the sequence that makes a push without a sequence step harmless.

**ContigProofs.** Three invariants. `Shape` gives `RunsWithinWindow`, under
`BoundsFit`: the bounds of the window do not wrap when they are rounded to
pages. The attempt to prove it without found that `contig.c:525-527` wrap for
bounds in the first or the last page of the address space. `Safe` gives
`NoFrameIsShared` and `ClaimIsHeld`, where there is one claimer and no page of
its claim is passed over (`OneClaimer`, `Served`); `contig_unclaim_pin.cfg` shows
why. `WithoutClaims` states what needs none of this where nobody claims. `Exact`
gives `TableIsExact` and `NoFrameIsLost`, where a slot found free is not taken
while its finder reclaims pool pages (`SlotKept`): finding 1 is what happens
otherwise. That only windows below the floor are given up is the arithmetic of the
pre-flight: above it every free frame of the window is in the count, the
difference does not wrap and is the number of generic frames outside, and each
page moved before uses up one of these at most.

**PoolProofs.** `BlocksAreDisjoint`, `BucketsAreExact`, `PagesArePartitioned`,
`BigTableIsExact`, `BlocksFit`, and `CountsAreTyped`: the byte-sized counts stay
within what a page can have. The invariant says that the blocks of a bucket page
are those of one class and all of them out or listed, each once, and that their
headers say so except for the blocks a thread has taken and not yet written the
header of (`Pending`). So the class in the first header of an empty page is the
page's class: were it junk, its block would be out and the page not empty. This
is what makes it sound to write headers outside the lock and to read them in the
sweep. Pages need their four places and the hands of each thread; the table needs
that an address has one entry, which follows from pages being in one place.
Lemmas about the model's operators: the class map gives a class that fits
(`ClassOfFits`), carving chains each block but the first once (`ChainFacts`), the
walk that unlinks a page leaves the other blocks (`UnlinkedFacts`).

**TitleVmProofs.** `RegionsAreExact`, `FramesAreExact`, `CommittedIsExact`,
`RollbackIsExact`, `ReturnsAreClean` and types. The invariant has three parts.
`Layout` is the region list with the reserved statistic, and which region the call
in progress works in; it says nothing of frames, so `RegionsAreExact` holds
whatever contiguous requests do. `Frames` is who uses each frame, what its owner
word names, and that what the call has read of an entry is still so. `Pagewise` is
how far the call has come: the marked pages are the ones this commitment added,
which is what makes a roll-back exact, a release has left no page behind it in the
region it is about to remove, and the statistic counts a page on its way out until
its frame is returned. Two hypotheses. `TitleRanges`: the sizes asked for are at most
`Highest` and ranges end below `Modulus - Highest - Granularity`. With the
code's values (`NXV_HIGHEST` 0x7FFE0000, `NXV_GRANULARITY` 0x10000) that is
0x80010000, so that it only excludes ranges that come near the top of the address
space, where the ends computed at `vm.c:447` wrap. `~Concurrent`, for all but the
region list: no contiguous request moves the page a call is changing, which is
what finding 2 shows to be needed.

**CacheProofs.** `TableIsExact`, `RefsAreExact`, `NoBlockIsOrphaned`, for any
number of threads, slots and blocks, any depth of nested calls, and any transfers
failing. That counts equal what the frames of all threads hold is inductive only
together with what those frames look like. `Formed` says which slots a frame can
name at which point; `Waits` which call can be below which, and that a call with
another above it has no block in hand; `Running` that the innermost call has the
block it asked for unless getting it failed; `Linked` that a block named by a
frame has a key, is valid if it was handed out, and that only a copy is handed a
block of the file. A referenced block keeps its key, since every step that empties
or reuses a slot has found it idle, so what a frame knows of its block stays true
while other threads work on the table. Steps are classified by what they do to a
stack (`OneStep`, `TwoStep`, `ThreeStep`, `NoneStep`, `BackStep`, `ClearStep`,
`EnterStep`, `StaysStep`) and to a slot (`SoundModified`, `SoundClaimed`,
`SoundEmptied`, `SoundRetired`, `SoundGrown`), and each action is one of each.
`UnlinkedList` shows that taking blocks off the LRU list keeps the others, each
once. `NoBlockIsOrphaned` needs in addition `FileHeld` (`FileIsHeld`): which of the
calls under the file's resource can be on it at once and how far the last close is.
A flush without the resource is not among them; it holds no block of the file but
the one it transfers, which is busy. The last pass of the close ends when
no block is busy and none can be dropped (`DroppedAll`); a block left over would
be referenced, its user a copy of the file, and no copy runs beside a close.

`FlushIsDurable` adds the contents of blocks. Its invariant, `DiskInv`
(`CleanIsSaved`), says that a block that is clean and not unsaved has what the
medium has, past the end of the file too, which is not inductive alone. A
write-back that went through has saved its block until its thread marks it clean,
for which nobody may change the block in between: a copy has the mutex and a block
that is not busy in hand (`AtTop`), so it never has one in transfer. New clusters
hold anything, so no block past the allocation may survive in the cache until they
are added: every call asks for blocks before the end of the file only (`AsksAll`),
the allocation covers the file, and a cut of the allocation drops what is past it
before anybody else is let in (`Dropping`). A cut of `FileSize` alone drops nothing;
the blocks it leaves stay as they are, and those cleaned there are unsaved. The
hypothesis is that no thread calls `CcPinRead`: a pinned FAT block changes without
the mutex, between a write-back and the mark, so that the FAT can be flushed and
stale until `CcSetDirtyPinnedData`. `FlushedFileIsDurable` has no hypothesis and
says the same of the blocks of the file. Both speak of the blocks the flush can
reach (`Reach`) that are not unsaved.

What a recursive function computes is proved by taking the least input for which
it would be wrong: `WFMin` gives that element, and one unfolding refutes it
(`UnlinkedFacts`, `WalkInside`, and the chains of `SListProofs`).

Every invariant the runs check is stated by a theorem.

**Only model-checked**: the refinement of `FileStore` by `Cache`, each step of which
would have to be shown to change what the file reads back as one step of the store
does; and all liveness (`WaitersServed`, `CallsReturn`, `LockFree`), which needs
fairness and `ENABLED` and is outside the prover's reach.

## 6. Plan

1. Proofs: `RefinesFileStore`, from `DiskInv`: a step that drops, evicts or reads in
   a clean block leaves what the file reads back as it was.
2. `FramePool`, an abstract allocator (a set of free frames and holders), which
   `PageSupply` implements, first with TLC and then as a theorem.
3. Section reference counts of the XBE loader; XDVDFS as a client of the cache.

Not planned, because nothing in them interleaves or can fail half way: boot
initialisation (its outcome is the initial state here), address conversion, the
ciphers, device bring-up, the boot loader, the HAL. The executive inherited from
ReactOS is third-party code and appears through the wait objects and locks the
modelled parts use.
