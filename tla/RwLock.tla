------------------------------- MODULE RwLock -------------------------------
(***************************************************************************)
(* The executive read/write lock (ntoskrnl/xb/rwlock.c): a lock word and   *)
(* three counters changed with interrupts off, a synchronization event on  *)
(* which writers block and a counting semaphore on which readers block.    *)
(*                                                                         *)
(* On the one processor everything between KeDisableInterrupts and         *)
(* KeRestoreInterrupts is one step.  What follows is not: a thread that    *)
(* has counted itself as waiting may be preempted before it blocks on the  *)
(* event or the semaphore, and a releaser may be preempted between its     *)
(* decision to wake somebody and the wake-up call.  Each of those windows  *)
(* is a control point of its own here:                                     *)
(*                                                                         *)
(*   idle          does not use the lock                                   *)
(*   xcounted      writer, counted as waiting, not yet blocked             *)
(*   xblocked      writer, in the event's wait list                        *)
(*   xowner        owns the lock exclusively                               *)
(*   scounted, sblocked, sowner   the same for a reader                    *)
(*   wakewriter    releaser about to call KeSetEvent                       *)
(*   wakereaders   releaser about to call KeReleaseSemaphore               *)
(***************************************************************************)
EXTENDS Integers, Sequences, FiniteSets

CONSTANT Thread
ASSUME ThreadAssumption == IsFiniteSet(Thread)

VARIABLES
  LockCount,            \* -1 when free, else the users of the lock minus one
  WritersWaitingCount,
  ReadersWaitingCount,
  ReadersEntryCount,
  WriterEvent,          \* the event is signaled
  WriterQueue,          \* threads blocked on the event, oldest first
  ReaderSemaphore,      \* the semaphore's count
  ReaderQueue,          \* threads blocked on the semaphore, oldest first
  pc,                   \* control point of each thread
  batch                 \* readers a thread at "wakereaders" will release

words   == <<LockCount, WritersWaitingCount, ReadersWaitingCount, ReadersEntryCount>>
objects == <<WriterEvent, WriterQueue, ReaderSemaphore, ReaderQueue>>
vars    == <<LockCount, WritersWaitingCount, ReadersWaitingCount, ReadersEntryCount,
             WriterEvent, WriterQueue, ReaderSemaphore, ReaderQueue, pc, batch>>

Points == {"idle", "xcounted", "xblocked", "xowner", "scounted", "sblocked",
           "sowner", "wakewriter", "wakereaders"}

At(p)          == {t \in Thread : pc[t] = p}
Writers        == At("xowner")
Readers        == At("sowner")
WaitingWriters == At("xcounted") \cup At("xblocked")
WaitingReaders == At("scounted") \cup At("sblocked")

-----------------------------------------------------------------------------
(* ExInitializeReadWriteLock, and threads that do not use the lock yet. *)
Init == /\ LockCount = -1
        /\ WritersWaitingCount = 0
        /\ ReadersWaitingCount = 0
        /\ ReadersEntryCount = 0
        /\ WriterEvent = FALSE
        /\ WriterQueue = << >>
        /\ ReaderSemaphore = 0
        /\ ReaderQueue = << >>
        /\ pc = [t \in Thread |-> "idle"]
        /\ batch = [t \in Thread |-> 0]

Goto(t, p) == pc' = [pc EXCEPT ![t] = p]

\* Mutant of ExAcquireReadWriteLockExclusive: the wait is not counted.
AcquireExclusiveUncounted(t) ==
  /\ pc[t] = "idle"
  /\ LockCount' = LockCount + 1
  /\ Goto(t, IF LockCount' # 0 THEN "xcounted" ELSE "xowner")
  /\ UNCHANGED <<WritersWaitingCount, ReadersWaitingCount, ReadersEntryCount, objects, batch>>

(* The section with interrupts off; a contended writer goes on to Block. *)
ExAcquireReadWriteLockExclusive(t) ==
  /\ pc[t] = "idle"
  /\ LockCount' = LockCount + 1
  /\ \/ /\ LockCount' # 0
        /\ WritersWaitingCount' = WritersWaitingCount + 1
        /\ Goto(t, "xcounted")
     \/ /\ LockCount' = 0
        /\ UNCHANGED WritersWaitingCount
        /\ Goto(t, "xowner")
  /\ UNCHANGED <<ReadersWaitingCount, ReadersEntryCount, objects, batch>>

\* Mutant of MustWait: a reader joins whoever is inside unless a writer waits.
MustWaitForQueuedOnly == WritersWaitingCount # 0

\* Mutant of MustWait: readers inside let every fresh reader in.
MustWaitNoPriority == ReadersEntryCount = 0

(* A writer holds the lock, or one is queued ahead of the reader. *)
MustWait == \/ ReadersEntryCount = 0
            \/ WritersWaitingCount # 0

ExAcquireReadWriteLockShared(t) ==
  /\ pc[t] = "idle"
  /\ LockCount' = LockCount + 1
  /\ \/ /\ LockCount' # 0 /\ MustWait
        /\ ReadersWaitingCount' = ReadersWaitingCount + 1
        /\ UNCHANGED ReadersEntryCount
        /\ Goto(t, "scounted")
     \/ /\ ~(LockCount' # 0 /\ MustWait)
        /\ ReadersEntryCount' = ReadersEntryCount + 1
        /\ UNCHANGED ReadersWaitingCount
        /\ Goto(t, "sowner")
  /\ UNCHANGED <<WritersWaitingCount, objects, batch>>

-----------------------------------------------------------------------------
(* KeWaitForSingleObject.  A signaled event is consumed by the thread that *)
(* finds it, whoever it was set for; so is a unit of the semaphore.        *)
WaitWriterEvent(t) ==
  /\ pc[t] = "xcounted"
  /\ \/ /\ WriterEvent
        /\ WriterEvent' = FALSE
        /\ UNCHANGED WriterQueue
        /\ Goto(t, "xowner")
     \/ /\ ~WriterEvent
        /\ WriterQueue' = Append(WriterQueue, t)
        /\ UNCHANGED WriterEvent
        /\ Goto(t, "xblocked")
  /\ UNCHANGED <<words, ReaderSemaphore, ReaderQueue, batch>>

WaitReaderSemaphore(t) ==
  /\ pc[t] = "scounted"
  /\ \/ /\ ReaderSemaphore > 0
        /\ ReaderSemaphore' = ReaderSemaphore - 1
        /\ UNCHANGED ReaderQueue
        /\ Goto(t, "sowner")
     \/ /\ ReaderSemaphore = 0
        /\ ReaderQueue' = Append(ReaderQueue, t)
        /\ UNCHANGED ReaderSemaphore
        /\ Goto(t, "sblocked")
  /\ UNCHANGED <<words, WriterEvent, WriterQueue, batch>>

-----------------------------------------------------------------------------
(* ExReleaseReadWriteLock, one action per way through it.  The client's    *)
(* part of the contract is that only an owner releases.                    *)
Owns(t) == pc[t] \in {"xowner", "sowner"}

(* Last owner out: the lock is free. *)
ReleaseFree(t) ==
  /\ Owns(t)
  /\ LockCount = 0
  /\ LockCount' = LockCount - 1
  /\ ReadersEntryCount' = 0
  /\ Goto(t, "idle")
  /\ UNCHANGED <<WritersWaitingCount, ReadersWaitingCount, objects, batch>>

(* A writer is leaving and readers wait. *)
ReadersFirst == ReadersEntryCount = 0 /\ ReadersWaitingCount # 0

\* Mutant of ReleaseToReaders: the count of waiting readers is not reset.
ReleaseToReadersKeepsCount(t) ==
  /\ Owns(t)
  /\ LockCount # 0
  /\ LockCount' = LockCount - 1
  /\ ReadersFirst
  /\ ReadersEntryCount' = ReadersWaitingCount
  /\ batch' = [batch EXCEPT ![t] = ReadersWaitingCount]
  /\ Goto(t, "wakereaders")
  /\ UNCHANGED <<WritersWaitingCount, ReadersWaitingCount, objects>>

(* All the waiting readers enter as one batch. *)
ReleaseToReaders(t) ==
  /\ Owns(t)
  /\ LockCount # 0
  /\ LockCount' = LockCount - 1
  /\ ReadersFirst
  /\ ReadersEntryCount' = ReadersWaitingCount
  /\ ReadersWaitingCount' = 0
  /\ batch' = [batch EXCEPT ![t] = ReadersWaitingCount]
  /\ Goto(t, "wakereaders")
  /\ UNCHANGED <<WritersWaitingCount, objects>>

(* A reader leaves and others are still inside. *)
ReleaseEntry(t) ==
  /\ Owns(t)
  /\ LockCount # 0
  /\ LockCount' = LockCount - 1
  /\ ReadersEntryCount > 1
  /\ ReadersEntryCount' = ReadersEntryCount - 1
  /\ Goto(t, "idle")
  /\ UNCHANGED <<WritersWaitingCount, ReadersWaitingCount, objects, batch>>

\* Mutant of ReleaseToWriter: any leaving reader hands the lock to a writer.
ReleaseToWriterEarly(t) ==
  /\ Owns(t)
  /\ LockCount # 0
  /\ LockCount' = LockCount - 1
  /\ \/ ReadersEntryCount = 0 /\ ReadersWaitingCount = 0 /\ UNCHANGED ReadersEntryCount
     \/ ReadersEntryCount > 0 /\ WritersWaitingCount > 0 /\ ReadersEntryCount' = ReadersEntryCount - 1
  /\ WritersWaitingCount' = WritersWaitingCount - 1
  /\ Goto(t, "wakewriter")
  /\ UNCHANGED <<ReadersWaitingCount, objects, batch>>

(* The last reader of a batch leaves, or a writer with no reader waiting:  *)
(* the lock goes to the next writer.                                       *)
ReleaseToWriter(t) ==
  /\ Owns(t)
  /\ LockCount # 0
  /\ LockCount' = LockCount - 1
  /\ \/ ReadersEntryCount = 0 /\ ~ReadersFirst
     \/ ReadersEntryCount = 1
  /\ ReadersEntryCount' = 0
  /\ WritersWaitingCount' = WritersWaitingCount - 1
  /\ Goto(t, "wakewriter")
  /\ UNCHANGED <<ReadersWaitingCount, objects, batch>>

ExReleaseReadWriteLock(t) == \/ ReleaseFree(t)
                             \/ ReleaseToReaders(t)
                             \/ ReleaseEntry(t)
                             \/ ReleaseToWriter(t)

-----------------------------------------------------------------------------
(* A synchronization event releases one blocked thread or stays signaled. *)
KeSetEvent(t) ==
  /\ pc[t] = "wakewriter"
  /\ \/ /\ ~WriterEvent /\ WriterQueue # << >>
        /\ WriterQueue' = Tail(WriterQueue)
        /\ pc' = [pc EXCEPT ![t] = "idle", ![Head(WriterQueue)] = "xowner"]
        /\ UNCHANGED WriterEvent
     \/ /\ WriterEvent \/ WriterQueue = << >>
        /\ WriterEvent' = TRUE
        /\ Goto(t, "idle")
        /\ UNCHANGED WriterQueue
  /\ UNCHANGED <<words, ReaderSemaphore, ReaderQueue, batch>>

(* The blocked readers that n units release, oldest first. *)
Woken(n) == {ReaderQueue[i] : i \in {j \in 1..Len(ReaderQueue) : j <= n}}

(* Only a semaphore that was at zero is tested for threads to release. *)
KeReleaseSemaphore(t) ==
  /\ pc[t] = "wakereaders"
  /\ LET n == ReaderSemaphore + batch[t]
         k == IF ReaderSemaphore # 0 THEN 0 ELSE Cardinality(Woken(n))
     IN  /\ ReaderSemaphore' = n - k
         /\ ReaderQueue' = SubSeq(ReaderQueue, k + 1, Len(ReaderQueue))
         /\ pc' = [u \in Thread |-> CASE u = t -> "idle"
                                      [] u \in Woken(k) -> "sowner"
                                      [] OTHER -> pc[u]]
  /\ batch' = [batch EXCEPT ![t] = 0]
  /\ UNCHANGED <<words, WriterEvent, WriterQueue>>

-----------------------------------------------------------------------------
(* What a thread does once it has called into the lock. *)
Proceed(t) == \/ WaitWriterEvent(t)
              \/ WaitReaderSemaphore(t)
              \/ KeSetEvent(t)
              \/ KeReleaseSemaphore(t)

Next == \E t \in Thread : \/ ExAcquireReadWriteLockExclusive(t)
                          \/ ExAcquireReadWriteLockShared(t)
                          \/ Proceed(t)
                          \/ ExReleaseReadWriteLock(t)

Spec == Init /\ [][Next]_vars

(* The scheduler runs every ready thread again and again, and an owner     *)
(* releases the lock.  Nothing is assumed of a thread that does not use    *)
(* the lock.                                                               *)
Fairness == \A t \in Thread : WF_vars(Proceed(t)) /\ WF_vars(ExReleaseReadWriteLock(t))

FairSpec == Spec /\ Fairness

-----------------------------------------------------------------------------
(* Every counter stays in its unsigned range: the decrement of             *)
(* WritersWaitingCount, which the code does without testing it, never      *)
(* meets zero; only a releaser between its two halves carries a batch.     *)
TypeOK == /\ LockCount \in Nat \cup {-1}
          /\ WritersWaitingCount \in Nat
          /\ ReadersWaitingCount \in Nat
          /\ ReadersEntryCount \in Nat
          /\ WriterEvent \in BOOLEAN
          /\ WriterQueue \in Seq(Thread)
          /\ ReaderSemaphore \in Nat
          /\ ReaderQueue \in Seq(Thread)
          /\ pc \in [Thread -> Points]
          /\ batch \in [Thread -> Nat]
          /\ \A t \in Thread : (batch[t] # 0) <=> (pc[t] = "wakereaders")

(* A writer owns the lock alone. *)
Exclusion == /\ \A t, u \in Writers : t = u
             /\ Writers = {} \/ Readers = {}

(* Hand-overs to a writer in flight: decided and not yet signaled, or      *)
(* signaled and not yet consumed.                                          *)
HandOvers == Cardinality(At("wakewriter")) + (IF WriterEvent THEN 1 ELSE 0)

(* Read permits in flight: in the semaphore or in a releaser's hands, one  *)
(* pair for each that a releaser carries.                                  *)
Carried(b) == UNION {{t} \X (1 .. b[t]) : t \in Thread}
Permits == ReaderSemaphore + Cardinality(Carried(batch))

(* The counters describe the threads: the lock word counts everybody       *)
(* inside or waiting, each waiting count the waiters nobody has decided to *)
(* wake yet, the entry count the readers inside or admitted.               *)
CountersExact ==
  /\ LockCount + 1 = Cardinality(Writers \cup Readers \cup WaitingWriters \cup WaitingReaders)
  /\ WritersWaitingCount = Cardinality(WaitingWriters) - HandOvers
  /\ ReadersWaitingCount = Cardinality(WaitingReaders) - Permits
  /\ ReadersEntryCount = Cardinality(Readers) + Permits

(* A wake-up is never spent twice or lost: the event is never set while it *)
(* is signaled, a writer's hand-over excludes every other owner, and       *)
(* neither object holds a signal while a thread is blocked on it.          *)
HandOverUnique == /\ HandOvers + Cardinality(Writers) <= 1
                  /\ HandOvers > 0 => ReadersEntryCount = 0
                  /\ WriterEvent => WriterQueue = << >>
                  /\ ReaderSemaphore > 0 => ReaderQueue = << >>

(* Whoever waits is eventually inside.  The stream of readers does not     *)
(* starve a writer, because a queued writer holds fresh readers back, and  *)
(* that of writers does not starve a reader, because a releasing writer    *)
(* lets the waiting readers in before the next writer.                     *)
WaitersServed ==
  \A t \in Thread :
     /\ pc[t] \in {"xcounted", "xblocked"} ~> pc[t] = "xowner"
     /\ pc[t] \in {"scounted", "sblocked"} ~> pc[t] = "sowner"

=============================================================================
