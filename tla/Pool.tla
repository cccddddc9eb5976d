-------------------------------- MODULE Pool --------------------------------
(***************************************************************************)
(* The pool (ntoskrnl/xb/mm/pool.c): size classes carved out of whole      *)
(* pages, the per-page live counts, the sweep of empty bucket pages, and   *)
(* the table of whole-page blocks behind the size query.                   *)
(*                                                                         *)
(* NxpLock covers the lists, the counts and the table, but not the block   *)
(* headers, and it is never held across a call to the page layer.  Each    *)
(* section under the lock, each header write and each call to the page     *)
(* layer is one step; threads interleave between them.  The page layer     *)
(* (poolpages.c) appears as the set of window pages it has left.           *)
(***************************************************************************)
EXTENDS Integers, Sequences, FiniteSets, FiniteSetsExt, SequencesExt

CONSTANTS
  Thread,
  NxpClassSize,   \* block sizes, header included, ascending
  PageSize,       \* PAGE_SIZE
  HeaderSize,     \* sizeof(NXP_HEADER)
  SmallMax,       \* NXP_SMALL_MAX
  Granule,        \* 16, the step of the class map
  Pages,          \* number of pages of the pool window
  BigEntries,     \* NXP_BIG_ENTRIES
  Sizes,          \* byte counts callers ask for
  MaxHeld         \* bound on the blocks callers hold or wait for

Page    == 1..Pages
Class   == DOMAIN NxpClassSize
Offset  == 0..PageSize - 1
NotBucket == -1   \* NXP_NOT_BUCKET
NoClass   == 0    \* class of a header that was never written

ASSUME PoolAssumption ==
  /\ PageSize \in Nat \ {0} /\ Pages \in Nat \ {0} /\ MaxHeld \in Nat /\ BigEntries \in Nat
  /\ HeaderSize \in Nat /\ SmallMax \in Nat /\ Granule \in Nat \ {0}
  /\ NxpClassSize \in Seq(1..PageSize) /\ Len(NxpClassSize) > 0
  /\ \A c, d \in Class : c < d => NxpClassSize[c] < NxpClassSize[d]
  /\ SmallMax + HeaderSize <= NxpClassSize[Len(NxpClassSize)]
  /\ Sizes \subseteq Nat

VARIABLES
  lists,      \* NxpFreeLists: blocks of each class, first out first
  state,      \* NxpPageState: live blocks of a bucket page, or NotBucket
  header,     \* class and magic in front of every possible block
  big,        \* NxpBigTable: [va, pages], va = 0 when the entry is empty
  window,     \* pages the page layer has left
  held,       \* small blocks in callers' hands: [page, offset, bytes]
  runs,       \* whole-page blocks in callers' hands: [page, pages]
  pc,
  local

vars == <<lists, state, header, big, window, held, runs, pc, local>>

Block(p, o) == [page |-> p, offset |-> o]
NoBlock == Block(1, 0)
Idle    == [bytes |-> 0, class |-> 1, block |-> NoBlock, idx |-> 1, freed |-> 0, pages |-> 0]
Junk    == [class |-> NoClass, magic |-> "junk"]

-----------------------------------------------------------------------------
(* InitializePool: every granule maps to the smallest class that fits it,  *)
(* or to the last.                                                         *)
NxpClassMap(u) ==
  Min({c \in Class : NxpClassSize[c] >= u * Granule} \cup {Len(NxpClassSize)})

\* Mutant of ClassOf: the block size is rounded down to a granule.
ClassOfTruncated(n) ==
  NxpClassMap((Max({n, 1}) + HeaderSize) \div Granule)

ClassOf(n) ==
  NxpClassMap((Max({n, 1}) + HeaderSize + Granule - 1) \div Granule)

Offsets(c) == {i * NxpClassSize[c] : i \in 0..(PageSize \div NxpClassSize[c]) - 1}

BytesToPages(n) == (n + PageSize - 1) \div PageSize

Init == /\ lists = [c \in Class |-> << >>]
        /\ state = [p \in Page |-> NotBucket]
        /\ header = [p \in Page |-> [o \in Offset |-> Junk]]
        /\ big = [i \in 1..BigEntries |-> [va |-> 0, pages |-> 0]]
        /\ window = Page
        /\ held = {} /\ runs = {}
        /\ pc = [t \in Thread |-> "idle"]
        /\ local = [t \in Thread |-> Idle]

Goto(t, p) == pc' = [pc EXCEPT ![t] = p]
Done(t)    == pc' = [pc EXCEPT ![t] = "idle"] /\ local' = [local EXCEPT ![t] = Idle]
Load       == Cardinality(held) + Cardinality(runs)
                + Cardinality({t \in Thread : pc[t] # "idle"})

-----------------------------------------------------------------------------
(* ExAllocatePoolWithTag, requests up to NXP_SMALL_MAX. *)

(* The class has a free block. *)
PopBlock(t, n) ==
  LET c == ClassOf(n)
  IN  /\ pc[t] = "idle" /\ Load < MaxHeld
      /\ n <= SmallMax /\ lists[c] # << >>
      /\ local' = [local EXCEPT ![t].bytes = n, ![t].class = c, ![t].block = Head(lists[c])]
      /\ lists' = [lists EXCEPT ![c] = Tail(@)]
      /\ state' = [state EXCEPT ![Head(lists[c]).page] = @ + 1]
      /\ Goto(t, "header")
      /\ UNCHANGED <<header, big, window, held, runs>>

(* It has none: the lock is dropped to get a page. *)
RefillBegin(t, n) ==
  LET c == ClassOf(n)
  IN  /\ pc[t] = "idle" /\ Load < MaxHeld
      /\ n <= SmallMax /\ lists[c] = << >>
      /\ local' = [local EXCEPT ![t].bytes = n, ![t].class = c, ![t].pages = 1]
      /\ Goto(t, "pages")
      /\ UNCHANGED <<lists, state, header, big, window, held, runs>>

(* Requests above NXP_SMALL_MAX get whole pages. *)
BigBegin(t, n) ==
  /\ pc[t] = "idle" /\ Load < MaxHeld
  /\ n > SmallMax
  /\ local' = [local EXCEPT ![t].bytes = n, ![t].pages = BytesToPages(n)]
  /\ Goto(t, "pages")
  /\ UNCHANGED <<lists, state, header, big, window, held, runs>>

(* NxPoolPagesAlloc: a run of window pages, with whatever they hold. *)
PageRun(p, n)   == p..(p + n - 1)
TakePages(t, n) ==
  \E p \in window :
    /\ PageRun(p, n) \subseteq window
    /\ window' = window \ PageRun(p, n)
    /\ header' = [q \in Page |-> IF q \in PageRun(p, n) THEN [o \in Offset |-> Junk]
                                 ELSE header[q]]
    /\ local' = [local EXCEPT ![t].block = Block(p, 0)]

AfterPages(t) == IF local[t].bytes > SmallMax THEN "record" ELSE "carve"

(* The first attempt; a failure (no run in the window, or the page supply     *)
(* dry half way and what was mapped rolled back) starts a sweep.              *)
GetPages(t) ==
  /\ pc[t] = "pages"
  /\ TakePages(t, local[t].pages)
  /\ Goto(t, AfterPages(t))
  /\ UNCHANGED <<lists, state, big, held, runs>>

GetPagesFails(t) ==
  /\ pc[t] = "pages"
  /\ Goto(t, "sweep")
  /\ UNCHANGED <<lists, state, header, big, window, held, runs, local>>

(* The second, made only when the sweep freed something; it can fail too. *)
RetryPages(t) ==
  /\ pc[t] = "retry" /\ local[t].freed # 0
  /\ TakePages(t, local[t].pages)
  /\ Goto(t, AfterPages(t))
  /\ UNCHANGED <<lists, state, big, held, runs>>

AllocFails(t) ==
  /\ pc[t] = "retry"
  /\ Done(t)
  /\ UNCHANGED <<lists, state, header, big, window, held, runs>>

\* Mutant of Carve: the chained blocks get no class in their headers.
CarveNoClass(t) ==
  LET c == local[t].class
      p == local[t].block.page
      rest == Offsets(c) \ {0}
  IN  /\ pc[t] = "carve"
      /\ state' = [state EXCEPT ![p] = 1]
      /\ lists' = [lists EXCEPT ![c] =
                     [i \in 1..Cardinality(rest) |->
                        Block(p, (Cardinality(rest) + 1 - i) * NxpClassSize[c])] \o @]
      /\ Goto(t, "header")
      /\ UNCHANGED <<header, big, window, held, runs, local>>

(* Block 0 is the caller's; the others are chained, the last one first. *)
Carve(t) ==
  LET c == local[t].class
      p == local[t].block.page
      rest == Offsets(c) \ {0}
  IN  /\ pc[t] = "carve"
      /\ state' = [state EXCEPT ![p] = 1]
      /\ header' = [header EXCEPT ![p] = [o \in Offset |->
                      IF o \in rest THEN [class |-> c, magic |-> "free"] ELSE @[o]]]
      /\ lists' = [lists EXCEPT ![c] =
                     [i \in 1..Cardinality(rest) |->
                        Block(p, (Cardinality(rest) + 1 - i) * NxpClassSize[c])] \o @]
      /\ Goto(t, "header")
      /\ UNCHANGED <<big, window, held, runs, local>>

(* The header is written after the lock is released. *)
WriteHeader(t) ==
  LET b == local[t].block
  IN  /\ pc[t] = "header"
      /\ header' = [header EXCEPT ![b.page][b.offset] =
                      [class |-> local[t].class, magic |-> "alloc"]]
      /\ held' = held \cup {[page |-> b.page, offset |-> b.offset, bytes |-> local[t].bytes]}
      /\ Done(t)
      /\ UNCHANGED <<lists, state, big, window, runs>>

EmptyEntries == {i \in 1..BigEntries : big[i].va = 0}

(* A whole-page block is entered in the table if an entry is left. *)
RecordBig(t) ==
  LET b == local[t].block.page
  IN  /\ pc[t] = "record"
      /\ big' = IF EmptyEntries = {} THEN big
                ELSE [big EXCEPT ![Min(EmptyEntries)] = [va |-> b, pages |-> local[t].pages]]
      /\ runs' = runs \cup {[page |-> b, pages |-> local[t].pages]}
      /\ Done(t)
      /\ UNCHANGED <<lists, state, header, window, held>>

-----------------------------------------------------------------------------
(* NxpReclaimEmptyBucketPages, from a failed allocation above or from the  *)
(* contiguous allocator.                                                   *)
SweepCall(t) ==
  /\ pc[t] = "idle" /\ Load < MaxHeld
  /\ Goto(t, "sweep")
  /\ UNCHANGED <<lists, state, header, big, window, held, runs, local>>

(* The walk over a list that unlinks the blocks of page p: what is left of *)
(* the first i blocks, and of all.                                         *)
Walk(s, p) ==
  LET left[i \in 0..Len(s)] == IF i = 0 THEN << >>
                               ELSE IF s[i].page = p THEN left[i - 1]
                               ELSE Append(left[i - 1], s[i])
  IN  left
Unlinked(s, p) == Walk(s, p)[Len(s)]

SweepSkip(t) ==
  /\ pc[t] = "sweep" /\ local[t].idx \in Page
  /\ state[local[t].idx] # 0
  /\ local' = [local EXCEPT ![t].idx = @ + 1]
  /\ UNCHANGED <<lists, state, header, big, window, held, runs, pc>>

\* Mutant of SweepTake: the page goes while its blocks stay on the list.
SweepTakeKeepsBlocks(t) ==
  LET p == local[t].idx
  IN  /\ pc[t] = "sweep" /\ p \in Page
      /\ state[p] = 0
      /\ state' = [state EXCEPT ![p] = NotBucket]
      /\ Goto(t, "sweepfree")
      /\ UNCHANGED <<lists, header, big, window, held, runs, local>>

\* Mutant of SweepTake: the page still reads as an empty bucket page.
SweepTakeKeepsState(t) ==
  LET p == local[t].idx
      c == header[p][0].class
  IN  /\ pc[t] = "sweep" /\ p \in Page
      /\ state[p] = 0
      /\ lists' = [d \in Class |-> IF d = c THEN Unlinked(lists[d], p) ELSE lists[d]]
      /\ Goto(t, "sweepfree")
      /\ UNCHANGED <<state, header, big, window, held, runs, local>>

(* Under the lock an empty page loses its blocks, found through the class  *)
(* in its first header.                                                    *)
SweepTake(t) ==
  LET p == local[t].idx
      c == header[p][0].class
  IN  /\ pc[t] = "sweep" /\ p \in Page
      /\ state[p] = 0
      /\ lists' = [d \in Class |-> IF d = c THEN Unlinked(lists[d], p) ELSE lists[d]]
      /\ state' = [state EXCEPT ![p] = NotBucket]
      /\ Goto(t, "sweepfree")
      /\ UNCHANGED <<header, big, window, held, runs, local>>

(* NxPoolPagesFree, with no lock of the pool held. *)
SweepFree(t) ==
  /\ pc[t] = "sweepfree"
  /\ window' = window \cup {local[t].idx}
  /\ local' = [local EXCEPT ![t].idx = @ + 1, ![t].freed = @ + 1]
  /\ Goto(t, "sweep")
  /\ UNCHANGED <<lists, state, header, big, held, runs>>

(* Back to the caller: an allocation that retries, or nobody's. *)
SweepEnd(t) ==
  /\ pc[t] = "sweep" /\ local[t].idx \notin Page
  /\ IF local[t].pages = 0 THEN Done(t) ELSE Goto(t, "retry") /\ UNCHANGED local
  /\ UNCHANGED <<lists, state, header, big, window, held, runs>>

-----------------------------------------------------------------------------
(* ExFreePoolWithTag.  Callers free what they hold, once. *)

(* The magic is tested and changed before the lock is taken. *)
FreeBegin(t, b) ==
  /\ pc[t] = "idle"
  /\ header[b.page][b.offset].magic = "alloc"
  /\ held' = held \ {b}
  /\ header' = [header EXCEPT ![b.page][b.offset].magic = "free"]
  /\ local' = [local EXCEPT ![t].block = Block(b.page, b.offset)]
  /\ Goto(t, "unheld")
  /\ UNCHANGED <<lists, state, big, window, runs>>

PushBlock(t) ==
  LET b == local[t].block
      c == header[b.page][b.offset].class
  IN  /\ pc[t] = "unheld"
      /\ lists' = [lists EXCEPT ![c] = <<b>> \o @]
      /\ state' = [state EXCEPT ![b.page] = @ - 1]
      /\ Done(t)
      /\ UNCHANGED <<header, big, window, held, runs>>

EntriesOf(r) == {i \in 1..BigEntries : big[i].va = r.page}

\* Mutant of FreeBig: the table keeps the block's entry.
FreeBigKeepsEntry(t, r) ==
  /\ pc[t] = "idle"
  /\ runs' = runs \ {r}
  /\ local' = [local EXCEPT ![t].block = Block(r.page, 0), ![t].pages = r.pages]
  /\ Goto(t, "bigfree")
  /\ UNCHANGED <<lists, state, header, big, window, held>>

(* A whole-page block leaves the table, if it is there ... *)
FreeBig(t, r) ==
  /\ pc[t] = "idle"
  /\ runs' = runs \ {r}
  /\ big' = IF EntriesOf(r) = {} THEN big
            ELSE [big EXCEPT ![Min(EntriesOf(r))] = [va |-> 0, pages |-> 0]]
  /\ local' = [local EXCEPT ![t].block = Block(r.page, 0), ![t].pages = r.pages]
  /\ Goto(t, "bigfree")
  /\ UNCHANGED <<lists, state, header, window, held>>

(* ... and then its pages go back to the page layer. *)
FreeBigPages(t) ==
  /\ pc[t] = "bigfree"
  /\ window' = window \cup PageRun(local[t].block.page, local[t].pages)
  /\ Done(t)
  /\ UNCHANGED <<lists, state, header, big, held, runs>>

(* ExQueryPoolBlockSize. *)
QueryBig(r)   == IF EntriesOf(r) = {} THEN 0 ELSE big[Min(EntriesOf(r))].pages * PageSize
QuerySmall(b) == NxpClassSize[header[b.page][b.offset].class] - HeaderSize

-----------------------------------------------------------------------------
Next == \E t \in Thread :
          \/ \E n \in Sizes : PopBlock(t, n) \/ RefillBegin(t, n) \/ BigBegin(t, n)
          \/ GetPages(t) \/ GetPagesFails(t) \/ RetryPages(t) \/ AllocFails(t)
          \/ Carve(t) \/ WriteHeader(t) \/ RecordBig(t)
          \/ SweepCall(t) \/ SweepSkip(t) \/ SweepTake(t) \/ SweepFree(t) \/ SweepEnd(t)
          \/ \E b \in held : FreeBegin(t, b)
          \/ PushBlock(t)
          \/ \E r \in runs : FreeBig(t, r)
          \/ FreeBigPages(t)

Spec == Init /\ [][Next]_vars

-----------------------------------------------------------------------------
(* The byte-sized live counts neither wrap below zero nor reach a value a  *)
(* full page cannot have.                                                  *)
TypeOK ==
  /\ \A p \in Page : state[p] \in {NotBucket} \cup 0..(PageSize \div NxpClassSize[1])
  /\ window \subseteq Page
  /\ \A c \in Class : \A i \in DOMAIN lists[c] : lists[c][i].page \in Page

(* Blocks that left a list and are not back: in a caller's hands, waiting  *)
(* for their header, or on the way back.                                   *)
InTransit == {local[t].block : t \in {u \in Thread : pc[u] \in {"header", "unheld"}}}
Out       == {Block(b.page, b.offset) : b \in held} \cup InTransit
Listed(c) == Range(lists[c])

(* Pages on their way between the page layer and the pool. *)
PagesMoving ==
  (UNION {PageRun(local[t].block.page, local[t].pages) :
            t \in {u \in Thread : pc[u] \in {"carve", "record", "bigfree"}}})
    \cup {local[t].idx : t \in {u \in Thread : pc[u] = "sweepfree"}}

Buckets == {p \in Page : state[p] # NotBucket}
RunPages == UNION {PageRun(r.page, r.pages) : r \in runs}

(* No block is handed out twice: it is out or listed, once, and the blocks *)
(* that exist do not overlap and lie in bucket pages only.                 *)
BlocksDisjoint ==
  /\ \A c \in Class : IsInjective(lists[c]) /\ Listed(c) \cap Out = {}
  /\ \A c, d \in Class : c # d => Listed(c) \cap Listed(d) = {}
  /\ Cardinality(Out) = Cardinality(held) + Cardinality({t \in Thread : pc[t] \in {"header", "unheld"}})
  /\ \A b \in Out \cup UNION {Listed(c) : c \in Class} : b.page \in Buckets

(* A block's header names the list it is on, and the first header of an    *)
(* empty page names the list that holds all its blocks: the sweep cannot   *)
(* leave one behind.  A block in a caller's hands has the magic of a live  *)
(* one, so that freeing it is no bug check.  The live count of a bucket    *)
(* page is the number of its blocks that are out: zero really means that   *)
(* nobody uses the page.                                                   *)
BucketsExact ==
  /\ \A p \in Buckets : state[p] = Cardinality({b \in Out : b.page = p})
  /\ \A c \in Class : \A b \in Listed(c) : header[b.page][b.offset] = [class |-> c, magic |-> "free"]
  /\ \A b \in held : header[b.page][b.offset].magic = "alloc"
  /\ \A p \in Buckets : state[p] = 0 =>
       LET c == header[p][0].class
       IN  c \in Class /\ {b.offset : b \in {x \in Listed(c) : x.page = p}} = Offsets(c)

(* Every window page has exactly one place: the page layer, a bucket, a    *)
(* whole-page block, or one thread's hands.                                *)
PagesPartitioned ==
  /\ Page = window \cup Buckets \cup RunPages \cup PagesMoving
  /\ LET place == <<window, Buckets, RunPages, PagesMoving>>
     IN  \A i, j \in 1..4 : i < j => place[i] \cap place[j] = {}

(* The size query never answers for a block that is gone, although the     *)
(* address may be in use again: a table entry belongs to a live block and  *)
(* has its size; a block that found the table full is answered with zero.  *)
BigTableExact ==
  /\ \A i \in 1..BigEntries : big[i].va # 0 => [page |-> big[i].va, pages |-> big[i].pages] \in runs
  /\ \A r \in runs : QueryBig(r) \in {0, r.pages * PageSize}

(* Every block is at least as large as its caller asked for. *)
BlockFits == \A b \in held : b.bytes <= QuerySmall(b)

=============================================================================
