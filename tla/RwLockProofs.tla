---------------------------- MODULE RwLockProofs ----------------------------
(* Theorems about the read/write lock, for every finite set of threads.    *)
EXTENDS RwLock, TLAPS, FiniteSetTheorems, SequenceTheorems

USE ThreadAssumption

-----------------------------------------------------------------------------
(* The inductive invariant.                                                *)

\* The number of threads at control point p.
N(f, p) == Cardinality({t \in Thread : f[t] = p})

XCounted == N(pc, "xcounted")
XBlocked == N(pc, "xblocked")
XOwner   == N(pc, "xowner")
SCounted == N(pc, "scounted")
SBlocked == N(pc, "sblocked")
SOwner   == N(pc, "sowner")
Wakers   == N(pc, "wakewriter")
Signaled == IF WriterEvent THEN 1 ELSE 0

\* CountersExact, in numbers of threads.
Counters ==
  /\ LockCount + 1 = XOwner + SOwner + XCounted + XBlocked + SCounted + SBlocked
  /\ WritersWaitingCount = XCounted + XBlocked - (Wakers + Signaled)
  /\ ReadersWaitingCount = SCounted + SBlocked - Permits
  /\ ReadersEntryCount = SOwner + Permits

\* At most one hand-over or writer, and then no reader is in or admitted.
OneWriter ==
  /\ Wakers + Signaled + XOwner <= 1
  /\ Wakers + Signaled + XOwner > 0 => ReadersEntryCount = 0

\* At most one releaser carries permits, and only while the semaphore is at
\* zero.
OneBatch ==
  /\ \A t, u \in Thread : batch[t] # 0 /\ batch[u] # 0 => t = u
  /\ \A t \in Thread : batch[t] # 0 => ReaderSemaphore = 0

\* Readers wait beside readers only because of a writer.
WritersAhead == ReadersEntryCount > 0 /\ ReadersWaitingCount > 0 => WritersWaitingCount > 0

\* The wait lists hold blocked threads, each once.
QueuesExact ==
  /\ \A i \in 1 .. Len(WriterQueue) : pc[WriterQueue[i]] = "xblocked"
  /\ \A i \in 1 .. Len(ReaderQueue) : pc[ReaderQueue[i]] = "sblocked"
  /\ \A i, j \in 1 .. Len(WriterQueue) : WriterQueue[i] = WriterQueue[j] => i = j
  /\ \A i, j \in 1 .. Len(ReaderQueue) : ReaderQueue[i] = ReaderQueue[j] => i = j

\* Nobody is blocked on an object that holds a signal.
NoMissedSignal ==
  /\ WriterEvent => WriterQueue = << >>
  /\ ReaderSemaphore > 0 => ReaderQueue = << >>

IInv == /\ TypeOK
        /\ Counters
        /\ OneWriter
        /\ OneBatch
        /\ WritersAhead
        /\ QueuesExact
        /\ NoMissedSignal

-----------------------------------------------------------------------------
(* Counting threads.                                                       *)

\* There are finitely many threads at a control point.
LEMMA CountIsNat ==
    ASSUME NEW f, NEW p
    PROVE  /\ IsFiniteSet({t \in Thread : f[t] = p})
           /\ N(f, p) \in Nat
<1>1. IsFiniteSet({t \in Thread : f[t] = p})
  BY FS_Subset
<1> QED
  BY <1>1, FS_CardinalityType DEF N

\* A control point somebody is at is counted, and one nobody is at is not.
LEMMA CountPositive ==
    ASSUME NEW f, NEW p
    PROVE  N(f, p) = 0 <=> \A t \in Thread : f[t] # p
<1>1. IsFiniteSet({t \in Thread : f[t] = p})
  BY CountIsNat
<1>2. N(f, p) = 0 <=> {t \in Thread : f[t] = p} = {}
  BY <1>1, FS_EmptySet DEF N
<1> QED
  BY <1>2

\* One thread moves from its control point to another one.
LEMMA MoveCounts ==
    ASSUME NEW f, NEW g, NEW t \in Thread, f[t] # g[t],
           \A u \in Thread : u # t => g[u] = f[u]
    PROVE  /\ N(g, g[t]) = N(f, g[t]) + 1
           /\ N(g, f[t]) = N(f, f[t]) - 1
           /\ \A p : p # g[t] /\ p # f[t] => N(g, p) = N(f, p)
<1> DEFINE S(h, p) == {u \in Thread : h[u] = p}
<1>1. \A p : IsFiniteSet(S(f, p)) /\ IsFiniteSet(S(g, p))
  BY CountIsNat
<1>2. S(g, g[t]) = S(f, g[t]) \cup {t} /\ t \notin S(f, g[t])
  OBVIOUS
<1>3. S(g, f[t]) = S(f, f[t]) \ {t} /\ t \in S(f, f[t])
  OBVIOUS
<1>4. \A p : p # g[t] /\ p # f[t] => S(g, p) = S(f, p)
  OBVIOUS
<1> HIDE DEF S
<1>5. Cardinality(S(g, g[t])) = Cardinality(S(f, g[t])) + 1
  BY <1>1, <1>2, FS_AddElement
<1>6. Cardinality(S(g, f[t])) = Cardinality(S(f, f[t])) - 1
  BY <1>1, <1>3, FS_RemoveElement
<1> QED
  BY <1>4, <1>5, <1>6 DEF N, S

\* The permits that releasers carry, when at most one of them carries any.
LEMMA CarriedCount ==
    ASSUME NEW b \in [Thread -> Nat], \A t, u \in Thread : b[t] # 0 /\ b[u] # 0 => t = u
    PROVE  /\ (\A t \in Thread : b[t] = 0) => Cardinality(Carried(b)) = 0
           /\ \A t \in Thread : b[t] # 0 => Cardinality(Carried(b)) = b[t]
           /\ Cardinality(Carried(b)) \in Nat
<1>1. ASSUME \A t \in Thread : b[t] = 0
      PROVE  Cardinality(Carried(b)) = 0
  <2>1. Carried(b) = {}
    BY <1>1 DEF Carried
  <2> QED
    BY <2>1, FS_EmptySet
<1>2. ASSUME NEW t \in Thread, b[t] # 0
      PROVE  Cardinality(Carried(b)) = b[t]
  <2>1. \A u \in Thread : u # t => b[u] = 0
    BY <1>2
  <2>2. Carried(b) = {t} \X (1 .. b[t])
    BY <2>1 DEF Carried
  <2>3. b[t] \in Nat
    OBVIOUS
  <2>4. IsFiniteSet(1 .. b[t]) /\ Cardinality(1 .. b[t]) = b[t]
    BY <2>3, FS_Interval
  <2>5. IsFiniteSet({t}) /\ Cardinality({t}) = 1
    BY FS_Singleton
  <2>6. Cardinality({t} \X (1 .. b[t])) = Cardinality({t}) * Cardinality(1 .. b[t])
    BY <2>4, <2>5, FS_Product
  <2> QED
    BY <2>2, <2>3, <2>4, <2>5, <2>6
<1>3. (\A t \in Thread : b[t] = 0) \/ (\E t \in Thread : b[t] # 0)
  OBVIOUS
<1>4. \A t \in Thread : b[t] # 0 => Cardinality(Carried(b)) = b[t]
  BY <1>2
<1>5. Cardinality(Carried(b)) \in Nat
  BY <1>1, <1>3, <1>4
<1> QED
  BY <1>1, <1>4, <1>5, Zenon

\* A truth value as a number.
Bit(b) == IF b THEN 1 ELSE 0

\* The numbers after one thread went from point a to point b.
Moved(a, b) ==
  /\ XCounted' = XCounted + Bit(b = "xcounted") - Bit(a = "xcounted")
  /\ XBlocked' = XBlocked + Bit(b = "xblocked") - Bit(a = "xblocked")
  /\ XOwner' = XOwner + Bit(b = "xowner") - Bit(a = "xowner")
  /\ SCounted' = SCounted + Bit(b = "scounted") - Bit(a = "scounted")
  /\ SBlocked' = SBlocked + Bit(b = "sblocked") - Bit(a = "sblocked")
  /\ SOwner' = SOwner + Bit(b = "sowner") - Bit(a = "sowner")
  /\ Wakers' = Wakers + Bit(b = "wakewriter") - Bit(a = "wakewriter")

\* Every count is a natural number, and at most one event is signaled.
Counted ==
  /\ XCounted \in Nat /\ XBlocked \in Nat /\ XOwner \in Nat
  /\ SCounted \in Nat /\ SBlocked \in Nat /\ SOwner \in Nat
  /\ Wakers \in Nat /\ Signaled \in 0 .. 1

\* The permits of a hand-over, posted or carried, are a natural number.
LEMMA PermitsAreNat ==
    ASSUME TypeOK, OneBatch
    PROVE  Permits \in Nat /\ Cardinality(Carried(batch)) \in Nat
<1>1. Cardinality(Carried(batch)) \in Nat
  BY CarriedCount DEF TypeOK, OneBatch
<1> QED
  BY <1>1 DEF TypeOK, Permits

\* The numbers are naturals in every state.
LEMMA Numbers ==
    Counted /\ Counted'
<1>1. \A f, p : N(f, p) \in Nat
  BY CountIsNat
<1>2. Counted
  BY <1>1 DEF Counted, XCounted, XBlocked, XOwner, SCounted, SBlocked, SOwner, Wakers, Signaled
<1>3. Counted'
  BY <1>1 DEF Counted, XCounted, XBlocked, XOwner, SCounted, SBlocked, SOwner, Wakers, Signaled
<1> QED
  BY <1>2, <1>3

\* The count of each point after a step of one thread.
LEMMA OneMoves ==
    ASSUME NEW f, NEW g, NEW t \in Thread, f[t] # g[t],
           \A u \in Thread : u # t => g[u] = f[u],
           NEW p
    PROVE  N(g, p) = N(f, p) + Bit(g[t] = p) - Bit(f[t] = p)
<1>1. N(f, p) \in Nat /\ N(g, p) \in Nat
  BY CountIsNat
<1>2. CASE p = g[t]
  <2>1. N(g, p) = N(f, p) + 1
    BY <1>2, MoveCounts
  <2> QED
    BY <1>1, <1>2, <2>1 DEF Bit
<1>3. CASE p = f[t]
  <2>1. N(g, p) = N(f, p) - 1
    BY <1>3, MoveCounts
  <2> QED
    BY <1>1, <1>3, <2>1 DEF Bit
<1>4. CASE p # g[t] /\ p # f[t]
  <2>1. N(g, p) = N(f, p)
    BY <1>4, MoveCounts
  <2> QED
    BY <1>1, <1>4, <2>1 DEF Bit
<1> QED
  BY <1>2, <1>3, <1>4

\* A step that changes the control point of one thread.
LEMMA StepMoves ==
    ASSUME NEW t \in Thread, pc[t] # pc'[t],
           \A u \in Thread : u # t => pc'[u] = pc[u]
    PROVE  Moved(pc[t], pc'[t])
<1>1. \A p : N(pc', p) = N(pc, p) + Bit(pc'[t] = p) - Bit(pc[t] = p)
  BY OneMoves
<1> QED
  BY <1>1 DEF Moved, XCounted, XBlocked, XOwner, SCounted, SBlocked, SOwner, Wakers

\* A step of a thread that is not blocked leaves the wait lists exact.
LEMMA QueuesKept ==
    ASSUME TypeOK, QueuesExact, NEW t \in Thread, pc[t] # "xblocked", pc[t] # "sblocked",
           UNCHANGED <<WriterQueue, ReaderQueue>>,
           \A u \in Thread : u # t => pc'[u] = pc[u]
    PROVE  QueuesExact'
<1>1. /\ \A i \in 1 .. Len(WriterQueue) : WriterQueue[i] \in Thread /\ WriterQueue[i] # t
      /\ \A i \in 1 .. Len(ReaderQueue) : ReaderQueue[i] \in Thread /\ ReaderQueue[i] # t
  BY DEF QueuesExact, TypeOK
<1> QED
  BY <1>1 DEF QueuesExact

-----------------------------------------------------------------------------
(* Each step preserves the invariant.                                      *)

\* A writer arrives: it owns a free lock or is counted as waiting.
LEMMA AcquireExclusiveStep ==
    ASSUME IInv, NEW t \in Thread, ExAcquireReadWriteLockExclusive(t)
    PROVE  IInv'
<1>0. TypeOK /\ Counters /\ OneWriter /\ OneBatch /\ WritersAhead /\ QueuesExact /\ NoMissedSignal
  BY DEF IInv
<1>1. /\ pc[t] = "idle" /\ LockCount' = LockCount + 1
      /\ UNCHANGED <<batch, WriterEvent, WriterQueue, ReaderSemaphore, ReaderQueue>>
      /\ UNCHANGED <<ReadersEntryCount, ReadersWaitingCount>>
      /\ Permits' = Permits /\ Signaled' = Signaled
  BY DEF ExAcquireReadWriteLockExclusive, objects, Permits, Signaled
<1>2. \/ /\ LockCount' # 0
         /\ WritersWaitingCount' = WritersWaitingCount + 1
         /\ pc' = [pc EXCEPT ![t] = "xcounted"]
      \/ /\ LockCount' = 0
         /\ WritersWaitingCount' = WritersWaitingCount
         /\ pc' = [pc EXCEPT ![t] = "xowner"]
  BY DEF ExAcquireReadWriteLockExclusive, Goto
<1>3. TypeOK'
  <2>1. pc' \in [Thread -> Points] /\ \A u \in Thread : pc'[u] = "wakereaders" <=> pc[u] = "wakereaders"
    BY <1>0, <1>1, <1>2 DEF TypeOK, Points
  <2> QED
    BY <1>0, <1>1, <1>2, <2>1 DEF TypeOK
<1>4. OneBatch' /\ NoMissedSignal'
  BY <1>0, <1>1 DEF OneBatch, NoMissedSignal
<1>5. QueuesExact'
  BY <1>0, <1>1, <1>2 DEF QueuesExact, TypeOK
<1>6. Permits \in Nat /\ Counted /\ Counted'
  BY <1>0, PermitsAreNat, Numbers
<1>7. LockCount \in Int /\ WritersWaitingCount \in Nat /\ ReadersWaitingCount \in Nat /\ ReadersEntryCount \in Nat
  BY <1>0 DEF TypeOK
<1>8. CASE /\ LockCount' # 0
           /\ WritersWaitingCount' = WritersWaitingCount + 1
           /\ pc' = [pc EXCEPT ![t] = "xcounted"]
  <2>1. Moved("idle", "xcounted")
    <3>1. pc'[t] = "xcounted" /\ \A u \in Thread : u # t => pc'[u] = pc[u]
      BY <1>0, <1>8 DEF TypeOK
    <3> QED
      BY <1>1, <3>1, StepMoves
  <2>2. Counters' /\ OneWriter' /\ WritersAhead'
    BY <1>0, <1>1, <1>6, <1>7, <1>8, <2>1
       DEF Counters, OneWriter, WritersAhead, Counted, Moved, Bit
  <2> QED
    BY <1>3, <1>4, <1>5, <2>2 DEF IInv
<1>9. CASE /\ LockCount' = 0
           /\ WritersWaitingCount' = WritersWaitingCount
           /\ pc' = [pc EXCEPT ![t] = "xowner"]
  <2>1. Moved("idle", "xowner")
    <3>1. pc'[t] = "xowner" /\ \A u \in Thread : u # t => pc'[u] = pc[u]
      BY <1>0, <1>9 DEF TypeOK
    <3> QED
      BY <1>1, <3>1, StepMoves
  <2>2. Counters' /\ OneWriter' /\ WritersAhead'
    BY <1>0, <1>1, <1>6, <1>7, <1>9, <2>1
       DEF Counters, OneWriter, WritersAhead, Counted, Moved, Bit
  <2> QED
    BY <1>3, <1>4, <1>5, <2>2 DEF IInv
<1> QED
  BY <1>2, <1>8, <1>9

\* A reader arrives: it joins the readers inside, owns a free lock, or is
\* counted as waiting.
LEMMA AcquireSharedStep ==
    ASSUME IInv, NEW t \in Thread, ExAcquireReadWriteLockShared(t)
    PROVE  IInv'
<1>0. TypeOK /\ Counters /\ OneWriter /\ OneBatch /\ WritersAhead /\ QueuesExact /\ NoMissedSignal
  BY DEF IInv
<1>1. /\ pc[t] = "idle" /\ LockCount' = LockCount + 1
      /\ UNCHANGED <<batch, WriterEvent, WriterQueue, ReaderSemaphore, ReaderQueue>>
      /\ UNCHANGED WritersWaitingCount
      /\ Permits' = Permits /\ Signaled' = Signaled
  BY DEF ExAcquireReadWriteLockShared, objects, Permits, Signaled
<1>2. \/ /\ LockCount' # 0 /\ MustWait
         /\ ReadersWaitingCount' = ReadersWaitingCount + 1
         /\ ReadersEntryCount' = ReadersEntryCount
         /\ pc' = [pc EXCEPT ![t] = "scounted"]
      \/ /\ ~(LockCount' # 0 /\ MustWait)
         /\ ReadersEntryCount' = ReadersEntryCount + 1
         /\ ReadersWaitingCount' = ReadersWaitingCount
         /\ pc' = [pc EXCEPT ![t] = "sowner"]
  BY DEF ExAcquireReadWriteLockShared, Goto
<1>3. TypeOK'
  <2>1. pc' \in [Thread -> Points] /\ \A u \in Thread : pc'[u] = "wakereaders" <=> pc[u] = "wakereaders"
    BY <1>0, <1>1, <1>2 DEF TypeOK, Points
  <2> QED
    BY <1>0, <1>1, <1>2, <2>1 DEF TypeOK
<1>4. OneBatch' /\ NoMissedSignal'
  BY <1>0, <1>1 DEF OneBatch, NoMissedSignal
<1>5. QueuesExact'
  BY <1>0, <1>1, <1>2 DEF QueuesExact, TypeOK
<1>6. Permits \in Nat /\ Counted /\ Counted'
  BY <1>0, PermitsAreNat, Numbers
<1>7. LockCount \in Int /\ WritersWaitingCount \in Nat /\ ReadersWaitingCount \in Nat /\ ReadersEntryCount \in Nat
  BY <1>0 DEF TypeOK
<1>8. CASE /\ LockCount' # 0 /\ MustWait
           /\ ReadersWaitingCount' = ReadersWaitingCount + 1
           /\ ReadersEntryCount' = ReadersEntryCount
           /\ pc' = [pc EXCEPT ![t] = "scounted"]
  <2>1. Moved("idle", "scounted")
    <3>1. pc'[t] = "scounted" /\ \A u \in Thread : u # t => pc'[u] = pc[u]
      BY <1>0, <1>8 DEF TypeOK
    <3> QED
      BY <1>1, <3>1, StepMoves
  <2>2. Counters' /\ OneWriter' /\ WritersAhead'
    BY <1>0, <1>1, <1>6, <1>7, <1>8, <2>1
       DEF Counters, OneWriter, WritersAhead, Counted, Moved, Bit, MustWait
  <2> QED
    BY <1>3, <1>4, <1>5, <2>2 DEF IInv
<1>9. CASE /\ ~(LockCount' # 0 /\ MustWait)
           /\ ReadersEntryCount' = ReadersEntryCount + 1
           /\ ReadersWaitingCount' = ReadersWaitingCount
           /\ pc' = [pc EXCEPT ![t] = "sowner"]
  <2>1. Moved("idle", "sowner")
    <3>1. pc'[t] = "sowner" /\ \A u \in Thread : u # t => pc'[u] = pc[u]
      BY <1>0, <1>9 DEF TypeOK
    <3> QED
      BY <1>1, <3>1, StepMoves
  <2>2. Counters' /\ OneWriter' /\ WritersAhead'
    BY <1>0, <1>1, <1>6, <1>7, <1>9, <2>1
       DEF Counters, OneWriter, WritersAhead, Counted, Moved, Bit, MustWait
  <2> QED
    BY <1>3, <1>4, <1>5, <2>2 DEF IInv
<1> QED
  BY <1>2, <1>8, <1>9

\* A counted writer consumes the signal or blocks.
LEMMA WaitWriterEventStep ==
    ASSUME IInv, NEW t \in Thread, WaitWriterEvent(t)
    PROVE  IInv'
<1>0. TypeOK /\ Counters /\ OneWriter /\ OneBatch /\ WritersAhead /\ QueuesExact /\ NoMissedSignal
  BY DEF IInv
<1>1. /\ pc[t] = "xcounted"
      /\ UNCHANGED <<batch, ReaderSemaphore, ReaderQueue>>
      /\ UNCHANGED <<LockCount, WritersWaitingCount, ReadersWaitingCount, ReadersEntryCount>>
      /\ Permits' = Permits
  BY DEF WaitWriterEvent, words, Permits
<1>2. \/ /\ WriterEvent /\ WriterEvent' = FALSE /\ WriterQueue' = WriterQueue
         /\ pc' = [pc EXCEPT ![t] = "xowner"]
      \/ /\ ~WriterEvent /\ WriterEvent' = WriterEvent /\ WriterQueue' = Append(WriterQueue, t)
         /\ pc' = [pc EXCEPT ![t] = "xblocked"]
  BY DEF WaitWriterEvent, Goto
<1>3. TypeOK'
  <2>1. pc' \in [Thread -> Points] /\ \A u \in Thread : pc'[u] = "wakereaders" <=> pc[u] = "wakereaders"
    BY <1>0, <1>1, <1>2 DEF TypeOK, Points
  <2>2. WriterQueue \in Seq(Thread) /\ Append(WriterQueue, t) \in Seq(Thread)
    BY <1>0, AppendProperties DEF TypeOK
  <2>3. WriterQueue' \in Seq(Thread)
    BY <1>2, <2>2
  <2>4. WriterEvent' \in BOOLEAN
    BY <1>0, <1>2 DEF TypeOK
  <2> QED
    BY <1>0, <1>1, <2>1, <2>3, <2>4 DEF TypeOK
<1>4. OneBatch' /\ NoMissedSignal'
  BY <1>0, <1>1, <1>2 DEF OneBatch, NoMissedSignal
<1>6. Permits \in Nat /\ Counted /\ Counted'
  BY <1>0, PermitsAreNat, Numbers
<1>7. LockCount \in Int /\ WritersWaitingCount \in Nat /\ ReadersWaitingCount \in Nat /\ ReadersEntryCount \in Nat
  BY <1>0 DEF TypeOK
<1>8. CASE /\ WriterEvent /\ WriterEvent' = FALSE /\ WriterQueue' = WriterQueue
           /\ pc' = [pc EXCEPT ![t] = "xowner"]
  <2>0. pc'[t] = "xowner" /\ \A u \in Thread : u # t => pc'[u] = pc[u]
    BY <1>0, <1>8 DEF TypeOK
  <2>1. Moved("xcounted", "xowner")
    BY <1>1, <2>0, StepMoves
  <2>2. Signaled = 1 /\ Signaled' = 0
    BY <1>8 DEF Signaled
  <2>3. Counters' /\ OneWriter' /\ WritersAhead'
    BY <1>0, <1>1, <1>6, <1>7, <2>1, <2>2
       DEF Counters, OneWriter, WritersAhead, Counted, Moved, Bit
  <2>4. QueuesExact'
    BY <1>0, <1>1, <1>8, <2>0, QueuesKept
  <2> QED
    BY <1>3, <1>4, <2>3, <2>4 DEF IInv
<1>9. CASE /\ ~WriterEvent /\ WriterEvent' = WriterEvent /\ WriterQueue' = Append(WriterQueue, t)
           /\ pc' = [pc EXCEPT ![t] = "xblocked"]
  <2>0. pc'[t] = "xblocked" /\ \A u \in Thread : u # t => pc'[u] = pc[u]
    BY <1>0, <1>9 DEF TypeOK
  <2>1. Moved("xcounted", "xblocked")
    BY <1>1, <2>0, StepMoves
  <2>2. Signaled' = Signaled
    BY <1>9 DEF Signaled
  <2>3. Counters' /\ OneWriter' /\ WritersAhead'
    BY <1>0, <1>1, <1>6, <1>7, <2>1, <2>2
       DEF Counters, OneWriter, WritersAhead, Counted, Moved, Bit
  <2>4. QueuesExact'
    <3>1. /\ WriterQueue \in Seq(Thread) /\ ReaderQueue \in Seq(Thread)
          /\ Len(WriterQueue) \in Nat
          /\ Len(WriterQueue') = Len(WriterQueue) + 1
          /\ WriterQueue'[Len(WriterQueue) + 1] = t
          /\ \A i \in 1 .. Len(WriterQueue) : WriterQueue'[i] = WriterQueue[i] /\ WriterQueue[i] # t
      BY <1>0, <1>1, <1>9 DEF TypeOK, QueuesExact
    <3>2. \A i \in 1 .. Len(WriterQueue) : WriterQueue[i] \in Thread
      BY <3>1
    <3>3. /\ \A i \in 1 .. Len(WriterQueue') : pc'[WriterQueue'[i]] = "xblocked"
          /\ \A i, j \in 1 .. Len(WriterQueue') : WriterQueue'[i] = WriterQueue'[j] => i = j
      BY <1>0, <2>0, <3>1, <3>2 DEF QueuesExact
    <3>4. /\ \A i \in 1 .. Len(ReaderQueue) : pc'[ReaderQueue[i]] = "sblocked"
          /\ \A i, j \in 1 .. Len(ReaderQueue) : ReaderQueue[i] = ReaderQueue[j] => i = j
      BY <1>0, <1>1, <2>0, <3>1 DEF QueuesExact
    <3> QED
      BY <1>1, <3>3, <3>4 DEF QueuesExact
  <2> QED
    BY <1>3, <1>4, <2>3, <2>4 DEF IInv
<1> QED
  BY <1>2, <1>8, <1>9

\* A counted reader takes a unit of the semaphore or blocks.
LEMMA WaitReaderSemaphoreStep ==
    ASSUME IInv, NEW t \in Thread, WaitReaderSemaphore(t)
    PROVE  IInv'
<1>0. TypeOK /\ Counters /\ OneWriter /\ OneBatch /\ WritersAhead /\ QueuesExact /\ NoMissedSignal
  BY DEF IInv
<1>1. /\ pc[t] = "scounted"
      /\ UNCHANGED <<batch, WriterEvent, WriterQueue>>
      /\ UNCHANGED <<LockCount, WritersWaitingCount, ReadersWaitingCount, ReadersEntryCount>>
      /\ Signaled' = Signaled
  BY DEF WaitReaderSemaphore, words, Signaled
<1>2. \/ /\ ReaderSemaphore > 0 /\ ReaderSemaphore' = ReaderSemaphore - 1 /\ ReaderQueue' = ReaderQueue
         /\ pc' = [pc EXCEPT ![t] = "sowner"]
      \/ /\ ReaderSemaphore = 0 /\ ReaderSemaphore' = ReaderSemaphore
         /\ ReaderQueue' = Append(ReaderQueue, t)
         /\ pc' = [pc EXCEPT ![t] = "sblocked"]
  BY DEF WaitReaderSemaphore, Goto
<1>3. TypeOK'
  <2>1. pc' \in [Thread -> Points] /\ \A u \in Thread : pc'[u] = "wakereaders" <=> pc[u] = "wakereaders"
    BY <1>0, <1>1, <1>2 DEF TypeOK, Points
  <2>2. ReaderQueue \in Seq(Thread) /\ Append(ReaderQueue, t) \in Seq(Thread)
    BY <1>0, AppendProperties DEF TypeOK
  <2>3. ReaderQueue' \in Seq(Thread)
    BY <1>2, <2>2
  <2>4. ReaderSemaphore' \in Nat
    BY <1>0, <1>2 DEF TypeOK
  <2> QED
    BY <1>0, <1>1, <2>1, <2>3, <2>4 DEF TypeOK
<1>4. OneBatch' /\ NoMissedSignal'
  BY <1>0, <1>1, <1>2 DEF OneBatch, NoMissedSignal, TypeOK
<1>6. Permits \in Nat /\ Cardinality(Carried(batch)) \in Nat /\ Counted /\ Counted'
  BY <1>0, PermitsAreNat, Numbers
<1>7. /\ LockCount \in Int /\ WritersWaitingCount \in Nat /\ ReadersWaitingCount \in Nat
      /\ ReadersEntryCount \in Nat /\ ReaderSemaphore \in Nat
  BY <1>0 DEF TypeOK
<1>8. CASE /\ ReaderSemaphore > 0 /\ ReaderSemaphore' = ReaderSemaphore - 1 /\ ReaderQueue' = ReaderQueue
           /\ pc' = [pc EXCEPT ![t] = "sowner"]
  <2>1. Moved("scounted", "sowner")
    <3>1. pc'[t] = "sowner" /\ \A u \in Thread : u # t => pc'[u] = pc[u]
      BY <1>0, <1>8 DEF TypeOK
    <3> QED
      BY <1>1, <3>1, StepMoves
  <2>2. Permits' = Permits - 1
    BY <1>1, <1>6, <1>7, <1>8 DEF Permits
  <2>3. Counters' /\ OneWriter' /\ WritersAhead'
    BY <1>0, <1>1, <1>6, <1>7, <2>1, <2>2
       DEF Counters, OneWriter, WritersAhead, Counted, Moved, Bit
  <2>4. QueuesExact'
    BY <1>0, <1>1, <1>8 DEF QueuesExact, TypeOK
  <2> QED
    BY <1>3, <1>4, <2>3, <2>4 DEF IInv
<1>9. CASE /\ ReaderSemaphore = 0 /\ ReaderSemaphore' = ReaderSemaphore
           /\ ReaderQueue' = Append(ReaderQueue, t)
           /\ pc' = [pc EXCEPT ![t] = "sblocked"]
  <2>0. pc'[t] = "sblocked" /\ \A u \in Thread : u # t => pc'[u] = pc[u]
    BY <1>0, <1>9 DEF TypeOK
  <2>1. Moved("scounted", "sblocked")
    BY <1>1, <2>0, StepMoves
  <2>2. Permits' = Permits
    BY <1>1, <1>9 DEF Permits
  <2>3. Counters' /\ OneWriter' /\ WritersAhead'
    BY <1>0, <1>1, <1>6, <1>7, <2>1, <2>2
       DEF Counters, OneWriter, WritersAhead, Counted, Moved, Bit
  <2>4. QueuesExact'
    <3>1. /\ WriterQueue \in Seq(Thread) /\ ReaderQueue \in Seq(Thread)
          /\ Len(ReaderQueue) \in Nat
          /\ Len(ReaderQueue') = Len(ReaderQueue) + 1
          /\ ReaderQueue'[Len(ReaderQueue) + 1] = t
          /\ \A i \in 1 .. Len(ReaderQueue) : ReaderQueue'[i] = ReaderQueue[i] /\ ReaderQueue[i] # t
      BY <1>0, <1>1, <1>9 DEF TypeOK, QueuesExact
    <3>2. \A i \in 1 .. Len(ReaderQueue) : ReaderQueue[i] \in Thread
      BY <3>1
    <3>3. /\ \A i \in 1 .. Len(ReaderQueue') : pc'[ReaderQueue'[i]] = "sblocked"
          /\ \A i, j \in 1 .. Len(ReaderQueue') : ReaderQueue'[i] = ReaderQueue'[j] => i = j
      BY <1>0, <2>0, <3>1, <3>2 DEF QueuesExact
    <3>4. /\ \A i \in 1 .. Len(WriterQueue) : pc'[WriterQueue[i]] = "xblocked"
          /\ \A i, j \in 1 .. Len(WriterQueue) : WriterQueue[i] = WriterQueue[j] => i = j
      BY <1>0, <1>1, <2>0, <3>1 DEF QueuesExact
    <3> QED
      BY <1>1, <3>3, <3>4 DEF QueuesExact
  <2> QED
    BY <1>3, <1>4, <2>3, <2>4 DEF IInv
<1> QED
  BY <1>2, <1>8, <1>9

\* A release by an owner who leaves the lock to nobody: a single step that
\* takes the thread from its owning point to "idle".
LEMMA ReleaseFreeStep ==
    ASSUME IInv, NEW t \in Thread, ReleaseFree(t)
    PROVE  IInv'
<1>0. TypeOK /\ Counters /\ OneWriter /\ OneBatch /\ WritersAhead /\ QueuesExact /\ NoMissedSignal
  BY DEF IInv
<1>1. /\ pc[t] \in {"xowner", "sowner"} /\ LockCount = 0 /\ LockCount' = LockCount - 1
      /\ ReadersEntryCount' = 0
      /\ UNCHANGED <<batch, WriterEvent, WriterQueue, ReaderSemaphore, ReaderQueue>>
      /\ UNCHANGED <<WritersWaitingCount, ReadersWaitingCount>>
      /\ Permits' = Permits /\ Signaled' = Signaled
  BY DEF ReleaseFree, Owns, objects, Permits, Signaled
<1>2. pc' \in [Thread -> Points] /\ pc'[t] = "idle" /\ \A u \in Thread : u # t => pc'[u] = pc[u]
  BY <1>0 DEF ReleaseFree, Goto, TypeOK, Points
<1>3. TypeOK'
  <2>1. \A u \in Thread : pc'[u] = "wakereaders" <=> pc[u] = "wakereaders"
    BY <1>1, <1>2
  <2> QED
    BY <1>0, <1>1, <1>2, <2>1 DEF TypeOK
<1>4. OneBatch' /\ NoMissedSignal'
  BY <1>0, <1>1 DEF OneBatch, NoMissedSignal
<1>5. QueuesExact'
  BY <1>0, <1>1, <1>2, QueuesKept
<1>6. Permits \in Nat /\ Counted /\ Counted'
  BY <1>0, PermitsAreNat, Numbers
<1>7. LockCount \in Int /\ WritersWaitingCount \in Nat /\ ReadersWaitingCount \in Nat /\ ReadersEntryCount \in Nat
  BY <1>0 DEF TypeOK
<1>8. Moved(pc[t], "idle")
  BY <1>1, <1>2, StepMoves
<1>9. CASE pc[t] = "xowner"
  <2>1. Moved("xowner", "idle")
    BY <1>8, <1>9
  <2> QED
    BY <1>0, <1>1, <1>3, <1>4, <1>5, <1>6, <1>7, <2>1
       DEF Counters, OneWriter, WritersAhead, Counted, Moved, Bit, IInv
<1>10. CASE pc[t] = "sowner"
  <2>1. Moved("sowner", "idle")
    BY <1>8, <1>10
  <2> QED
    BY <1>0, <1>1, <1>3, <1>4, <1>5, <1>6, <1>7, <2>1
       DEF Counters, OneWriter, WritersAhead, Counted, Moved, Bit, IInv
<1> QED
  BY <1>1, <1>9, <1>10

\* A reader leaves and others are inside.
LEMMA ReleaseEntryStep ==
    ASSUME IInv, NEW t \in Thread, ReleaseEntry(t)
    PROVE  IInv'
<1>0. TypeOK /\ Counters /\ OneWriter /\ OneBatch /\ WritersAhead /\ QueuesExact /\ NoMissedSignal
  BY DEF IInv
<1>1. /\ pc[t] \in {"xowner", "sowner"} /\ LockCount # 0 /\ LockCount' = LockCount - 1
      /\ ReadersEntryCount > 1 /\ ReadersEntryCount' = ReadersEntryCount - 1
      /\ UNCHANGED <<batch, WriterEvent, WriterQueue, ReaderSemaphore, ReaderQueue>>
      /\ UNCHANGED <<WritersWaitingCount, ReadersWaitingCount>>
      /\ Permits' = Permits /\ Signaled' = Signaled
  BY DEF ReleaseEntry, Owns, objects, Permits, Signaled
<1>2. pc' \in [Thread -> Points] /\ pc'[t] = "idle" /\ \A u \in Thread : u # t => pc'[u] = pc[u]
  BY <1>0 DEF ReleaseEntry, Goto, TypeOK, Points
<1>5. QueuesExact'
  BY <1>0, <1>1, <1>2, QueuesKept
<1>6. Permits \in Nat /\ Counted /\ Counted'
  BY <1>0, PermitsAreNat, Numbers
<1>7. /\ LockCount \in Int /\ LockCount >= -1 /\ WritersWaitingCount \in Nat
      /\ ReadersWaitingCount \in Nat /\ ReadersEntryCount \in Nat
  BY <1>0 DEF TypeOK
<1>8. pc[t] = "sowner" /\ Moved("sowner", "idle")
  <2>1. Moved(pc[t], "idle")
    BY <1>1, <1>2, StepMoves
  <2>2. ASSUME Moved("xowner", "idle")
        PROVE  FALSE
    BY <1>0, <1>1, <1>6, <1>7, <2>2 DEF OneWriter, Counted, Moved, Bit
  <2>3. pc[t] = "sowner"
    BY <1>1, <2>1, <2>2
  <2> QED
    BY <2>1, <2>3
<1>9. Counters' /\ OneWriter' /\ WritersAhead' /\ LockCount' \in Nat
  BY <1>0, <1>1, <1>6, <1>7, <1>8 DEF Counters, OneWriter, WritersAhead, Counted, Moved, Bit
<1>3. TypeOK'
  <2>1. \A u \in Thread : pc'[u] = "wakereaders" <=> pc[u] = "wakereaders"
    BY <1>1, <1>2
  <2> QED
    BY <1>0, <1>1, <1>2, <1>9, <2>1 DEF TypeOK
<1>4. OneBatch' /\ NoMissedSignal'
  BY <1>0, <1>1 DEF OneBatch, NoMissedSignal
<1> QED
  BY <1>3, <1>4, <1>5, <1>9 DEF IInv

\* The lock goes to the next writer: there is one, so the count of waiting
\* writers, which the code decrements without a test, is not zero.
LEMMA ReleaseToWriterStep ==
    ASSUME IInv, NEW t \in Thread, ReleaseToWriter(t)
    PROVE  IInv' /\ WritersWaitingCount > 0
<1>0. TypeOK /\ Counters /\ OneWriter /\ OneBatch /\ WritersAhead /\ QueuesExact /\ NoMissedSignal
  BY DEF IInv
<1>1. /\ pc[t] \in {"xowner", "sowner"} /\ LockCount # 0 /\ LockCount' = LockCount - 1
      /\ (ReadersEntryCount = 0 /\ ReadersWaitingCount = 0) \/ ReadersEntryCount = 1
      /\ ReadersEntryCount' = 0
      /\ WritersWaitingCount' = WritersWaitingCount - 1
      /\ UNCHANGED <<batch, WriterEvent, WriterQueue, ReaderSemaphore, ReaderQueue>>
      /\ UNCHANGED ReadersWaitingCount
      /\ Permits' = Permits /\ Signaled' = Signaled
  BY DEF ReleaseToWriter, ReadersFirst, Owns, objects, Permits, Signaled
<1>2. pc' \in [Thread -> Points] /\ pc'[t] = "wakewriter" /\ \A u \in Thread : u # t => pc'[u] = pc[u]
  BY <1>0 DEF ReleaseToWriter, Goto, TypeOK, Points
<1>5. QueuesExact'
  BY <1>0, <1>1, <1>2, QueuesKept
<1>6. Permits \in Nat /\ Counted /\ Counted'
  BY <1>0, PermitsAreNat, Numbers
<1>7. /\ LockCount \in Int /\ LockCount >= -1 /\ WritersWaitingCount \in Nat
      /\ ReadersWaitingCount \in Nat /\ ReadersEntryCount \in Nat
  BY <1>0 DEF TypeOK
<1>8. Moved("xowner", "wakewriter") \/ Moved("sowner", "wakewriter")
  <2>1. Moved(pc[t], "wakewriter")
    BY <1>1, <1>2, StepMoves
  <2> QED
    BY <1>1, <2>1
<1>9. WritersWaitingCount > 0
  <2>1. CASE Moved("xowner", "wakewriter")
    BY <1>0, <1>1, <1>6, <1>7, <2>1 DEF Counters, OneWriter, Counted, Moved, Bit
  <2>2. CASE Moved("sowner", "wakewriter")
    BY <1>0, <1>1, <1>6, <1>7, <2>2 DEF Counters, OneWriter, WritersAhead, Counted, Moved, Bit
  <2> QED
    BY <1>8, <2>1, <2>2
<1>10. Counters' /\ OneWriter' /\ WritersAhead' /\ LockCount' \in Nat
  <2>1. CASE Moved("xowner", "wakewriter")
    BY <1>0, <1>1, <1>6, <1>7, <1>9, <2>1
       DEF Counters, OneWriter, WritersAhead, Counted, Moved, Bit
  <2>2. CASE Moved("sowner", "wakewriter")
    BY <1>0, <1>1, <1>6, <1>7, <1>9, <2>2
       DEF Counters, OneWriter, WritersAhead, Counted, Moved, Bit
  <2> QED
    BY <1>8, <2>1, <2>2
<1>3. TypeOK'
  <2>1. \A u \in Thread : pc'[u] = "wakereaders" <=> pc[u] = "wakereaders"
    BY <1>1, <1>2
  <2>2. WritersWaitingCount' \in Nat
    BY <1>1, <1>7, <1>9
  <2> QED
    BY <1>0, <1>1, <1>2, <1>10, <2>1, <2>2 DEF TypeOK
<1>4. OneBatch' /\ NoMissedSignal'
  BY <1>0, <1>1 DEF OneBatch, NoMissedSignal
<1> QED
  BY <1>3, <1>4, <1>5, <1>9, <1>10 DEF IInv

\* A leaving writer admits the waiting readers.
LEMMA ReleaseToReadersStep ==
    ASSUME IInv, NEW t \in Thread, ReleaseToReaders(t)
    PROVE  IInv'
<1>0. TypeOK /\ Counters /\ OneWriter /\ OneBatch /\ WritersAhead /\ QueuesExact /\ NoMissedSignal
  BY DEF IInv
<1>1. /\ pc[t] \in {"xowner", "sowner"} /\ LockCount # 0 /\ LockCount' = LockCount - 1
      /\ ReadersEntryCount = 0 /\ ReadersWaitingCount # 0
      /\ ReadersEntryCount' = ReadersWaitingCount /\ ReadersWaitingCount' = 0
      /\ UNCHANGED <<WriterEvent, WriterQueue, ReaderSemaphore, ReaderQueue>>
      /\ UNCHANGED WritersWaitingCount
      /\ Signaled' = Signaled
  BY DEF ReleaseToReaders, ReadersFirst, Owns, objects, Signaled
<1>2. pc' \in [Thread -> Points] /\ pc'[t] = "wakereaders" /\ \A u \in Thread : u # t => pc'[u] = pc[u]
  BY <1>0 DEF ReleaseToReaders, Goto, TypeOK, Points
<1>5. QueuesExact'
  BY <1>0, <1>1, <1>2, QueuesKept
<1>6. Permits \in Nat /\ Cardinality(Carried(batch)) \in Nat /\ Counted /\ Counted'
  BY <1>0, PermitsAreNat, Numbers
<1>7. /\ LockCount \in Int /\ LockCount >= -1 /\ WritersWaitingCount \in Nat
      /\ ReadersWaitingCount \in Nat /\ ReadersEntryCount \in Nat /\ ReaderSemaphore \in Nat
  BY <1>0 DEF TypeOK
<1>8. Permits = 0 /\ ReaderSemaphore = 0 /\ Cardinality(Carried(batch)) = 0
  BY <1>0, <1>1, <1>6, <1>7 DEF Counters, Counted, Permits
<1>9. \A u \in Thread : batch[u] = 0
  <2>1. \A u \in Thread : batch[u] # 0 => Cardinality(Carried(batch)) = batch[u]
    BY <1>0, CarriedCount DEF TypeOK, OneBatch
  <2> QED
    BY <1>8, <2>1
<1>10. /\ batch' \in [Thread -> Nat]
       /\ batch'[t] = ReadersWaitingCount
       /\ \A u \in Thread : u # t => batch'[u] = 0
  BY <1>0, <1>9 DEF ReleaseToReaders, TypeOK
<1>11. OneBatch' /\ NoMissedSignal'
  BY <1>0, <1>1, <1>8, <1>10 DEF OneBatch, NoMissedSignal
<1>12. Permits' = ReadersWaitingCount
  <2>1. Cardinality(Carried(batch')) = batch'[t]
    <3>1. \A u, v \in Thread : batch'[u] # 0 /\ batch'[v] # 0 => u = v
      BY <1>10
    <3>2. batch'[t] # 0
      BY <1>1, <1>10
    <3> QED
      BY <1>10, <3>1, <3>2, CarriedCount
  <2> QED
    BY <1>1, <1>7, <1>8, <1>10, <2>1 DEF Permits
<1>13. Moved("xowner", "wakereaders")
  <2>1. Moved(pc[t], "wakereaders")
    BY <1>1, <1>2, StepMoves
  <2>2. ASSUME Moved("sowner", "wakereaders")
        PROVE  FALSE
    BY <1>0, <1>1, <1>6, <1>7, <2>2 DEF Counters, Counted, Moved, Bit
  <2> QED
    BY <1>1, <2>1, <2>2
<1>14. Counters' /\ OneWriter' /\ WritersAhead' /\ LockCount' \in Nat
  BY <1>0, <1>1, <1>6, <1>7, <1>8, <1>12, <1>13
     DEF Counters, OneWriter, WritersAhead, Counted, Moved, Bit
<1>15. TypeOK'
  <2>1. \A u \in Thread : batch'[u] # 0 <=> pc'[u] = "wakereaders"
    BY <1>0, <1>1, <1>2, <1>9, <1>10 DEF TypeOK
  <2>2. ReadersEntryCount' \in Nat /\ ReadersWaitingCount' \in Nat
    BY <1>1, <1>7
  <2> QED
    BY <1>0, <1>1, <1>2, <1>10, <1>14, <2>1, <2>2 DEF TypeOK
<1> QED
  BY <1>5, <1>11, <1>14, <1>15 DEF IInv

-----------------------------------------------------------------------------
(* The wake-up calls change the control points of several threads.         *)

\* A set of threads arrives at a control point.
LEMMA ManyArrive ==
    ASSUME NEW f, NEW g, NEW W, NEW p, W \subseteq Thread,
           \A u \in W : f[u] # p /\ g[u] = p,
           \A u \in Thread : u \notin W => (f[u] = p <=> g[u] = p)
    PROVE  N(g, p) = N(f, p) + Cardinality(W)
<1> DEFINE S(h) == {u \in Thread : h[u] = p}
<1>1. \A h : IsFiniteSet(S(h)) /\ Cardinality(S(h)) \in Nat
  BY CountIsNat, FS_CardinalityType
<1>2. IsFiniteSet(W) /\ Cardinality(W) \in Nat /\ Cardinality({}) = 0
  BY FS_Subset, FS_CardinalityType, FS_EmptySet
<1>3. S(g) = S(f) \cup W /\ S(f) \cap W = {}
  OBVIOUS
<1> HIDE DEF S
<1>4. Cardinality(S(f) \cup W) = Cardinality(S(f)) + Cardinality(W) - Cardinality(S(f) \cap W)
  BY <1>1, <1>2, FS_Union
<1>5. Cardinality(S(g)) = Cardinality(S(f) \cup W) /\ Cardinality(S(f) \cap W) = 0
  BY <1>2, <1>3, Zenon
<1>6. Cardinality(S(g)) = Cardinality(S(f)) + Cardinality(W)
  BY <1>1, <1>2, <1>4, <1>5
<1> QED
  BY <1>6 DEF N, S

\* A control point that is entered and left by nobody.
LEMMA NobodyMoves ==
    ASSUME NEW f, NEW g, NEW p, \A u \in Thread : f[u] = p <=> g[u] = p
    PROVE  N(g, p) = N(f, p)
<1>1. {u \in Thread : f[u] = p} = {u \in Thread : g[u] = p}
  OBVIOUS
<1> QED
  BY <1>1 DEF N

\* The number of distinct threads among the first n of a wait list.
LEMMA FirstOfQueue ==
    ASSUME NEW q \in Seq(Thread), \A i, j \in 1 .. Len(q) : q[i] = q[j] => i = j,
           NEW n \in Nat
    PROVE  Cardinality({q[i] : i \in {j \in 1 .. Len(q) : j <= n}}) = IF n <= Len(q) THEN n ELSE Len(q)
<1> DEFINE m == IF n <= Len(q) THEN n ELSE Len(q)
           W == {q[i] : i \in {j \in 1 .. Len(q) : j <= n}}
           f == [i \in 1 .. m |-> q[i]]
<1>1. Len(q) \in Nat /\ m \in Nat /\ m <= Len(q)
  OBVIOUS
<1>2. {j \in 1 .. Len(q) : j <= n} = 1 .. m
  BY <1>1
<1>3. W = {q[i] : i \in 1 .. m}
  BY <1>2
<1>4. f \in Bijection(1 .. m, W)
  <2>1. f \in [1 .. m -> W]
    BY <1>3
  <2>2. \A i, j \in 1 .. m : f[i] = f[j] => i = j
    BY <1>1
  <2>3. \A w \in W : \E i \in 1 .. m : f[i] = w
    BY <1>3
  <2> QED
    BY <2>1, <2>2, <2>3 DEF Bijection, Injection, Surjection, IsInjective
<1> HIDE DEF W, m, f
<1>5. IsFiniteSet(1 .. m) /\ Cardinality(1 .. m) = m
  BY <1>1, FS_Interval
<1>6. ExistsBijection(1 .. m, W)
  BY <1>4 DEF ExistsBijection
<1>7. Cardinality(W) = Cardinality(1 .. m)
  BY <1>5, <1>6, FS_Bijection
<1> QED
  BY <1>5, <1>7 DEF W, m

\* KeSetEvent: the oldest blocked writer gets the lock, or the event is set.
LEMMA KeSetEventStep ==
    ASSUME IInv, NEW t \in Thread, KeSetEvent(t)
    PROVE  IInv'
<1>0. TypeOK /\ Counters /\ OneWriter /\ OneBatch /\ WritersAhead /\ QueuesExact /\ NoMissedSignal
  BY DEF IInv
<1>1. /\ pc[t] = "wakewriter"
      /\ UNCHANGED <<batch, ReaderSemaphore, ReaderQueue>>
      /\ UNCHANGED <<LockCount, WritersWaitingCount, ReadersWaitingCount, ReadersEntryCount>>
      /\ Permits' = Permits
  BY DEF KeSetEvent, words, Permits
<1>2. Permits \in Nat /\ Counted /\ Counted'
  BY <1>0, PermitsAreNat, Numbers
<1>3. /\ LockCount \in Int /\ WritersWaitingCount \in Nat /\ ReadersWaitingCount \in Nat
      /\ ReadersEntryCount \in Nat
  BY <1>0 DEF TypeOK
<1>4. CASE /\ WriterEvent \/ WriterQueue = << >>
           /\ WriterEvent' = TRUE
           /\ pc' = [pc EXCEPT ![t] = "idle"]
           /\ WriterQueue' = WriterQueue
  <2>1. pc' \in [Thread -> Points] /\ pc'[t] = "idle" /\ \A u \in Thread : u # t => pc'[u] = pc[u]
    BY <1>0, <1>4 DEF TypeOK, Points
  <2>2. Moved("wakewriter", "idle")
    BY <1>1, <2>1, StepMoves
  <2>3. ~WriterEvent /\ WriterQueue = << >> /\ Signaled = 0 /\ Signaled' = 1
    <3>1. Signaled = 0
      BY <1>0, <1>2, <2>2 DEF OneWriter, Counted, Moved, Bit
    <3> QED
      BY <1>4, <3>1 DEF Signaled
  <2>4. Counters' /\ OneWriter' /\ WritersAhead'
    BY <1>0, <1>1, <1>2, <1>3, <2>2, <2>3 DEF Counters, OneWriter, WritersAhead, Counted, Moved, Bit
  <2>5. TypeOK'
    <3>1. \A u \in Thread : pc'[u] = "wakereaders" <=> pc[u] = "wakereaders"
      BY <1>1, <2>1
    <3> QED
      BY <1>0, <1>1, <1>4, <2>1, <3>1 DEF TypeOK
  <2>6. QueuesExact'
    BY <1>0, <1>1, <1>4, <2>1, QueuesKept
  <2>7. OneBatch' /\ NoMissedSignal'
    BY <1>0, <1>1, <1>4, <2>3 DEF OneBatch, NoMissedSignal
  <2> QED
    BY <2>4, <2>5, <2>6, <2>7 DEF IInv
<1>5. CASE /\ ~WriterEvent /\ WriterQueue # << >>
           /\ WriterQueue' = Tail(WriterQueue)
           /\ pc' = [pc EXCEPT ![t] = "idle", ![Head(WriterQueue)] = "xowner"]
           /\ WriterEvent' = WriterEvent
  <2> DEFINE w == Head(WriterQueue)
             h == [u \in Thread |-> IF u = t THEN "idle" ELSE pc[u]]
  <2>1. /\ WriterQueue \in Seq(Thread) /\ Len(WriterQueue) \in Nat /\ Len(WriterQueue) >= 1
        /\ w = WriterQueue[1] /\ w \in Thread
        /\ WriterQueue' \in Seq(Thread)
        /\ Len(WriterQueue') = Len(WriterQueue) - 1
        /\ \A i \in 1 .. Len(WriterQueue') : WriterQueue'[i] = WriterQueue[i + 1]
    <3>1. WriterQueue \in Seq(Thread) /\ WriterQueue # << >>
      BY <1>0, <1>5 DEF TypeOK
    <3>2. Len(WriterQueue) \in Nat /\ Len(WriterQueue) >= 1
      BY <3>1
    <3>3. w = WriterQueue[1] /\ w \in Thread
      BY <3>1, <3>2
    <3>4. /\ Tail(WriterQueue) \in Seq(Thread)
          /\ Len(Tail(WriterQueue)) = Len(WriterQueue) - 1
          /\ \A i \in 1 .. Len(Tail(WriterQueue)) : Tail(WriterQueue)[i] = WriterQueue[i + 1]
      BY <3>1, HeadTailProperties
    <3> QED
      BY <1>5, <3>1, <3>2, <3>3, <3>4
  <2>2. pc[w] = "xblocked" /\ w # t
    BY <1>0, <1>1, <2>1 DEF QueuesExact
  <2> HIDE DEF w
  <2>3. /\ pc' \in [Thread -> Points]
        /\ pc'[t] = "idle" /\ pc'[w] = "xowner"
        /\ \A u \in Thread : u # t /\ u # w => pc'[u] = pc[u]
    BY <1>0, <1>5, <2>1, <2>2 DEF TypeOK, Points, w
  <2>4. /\ h[t] = "idle" /\ h[w] = "xblocked" /\ \A u \in Thread : u # t => h[u] = pc[u]
        /\ \A u \in Thread : u # w => pc'[u] = h[u]
    BY <2>1, <2>2, <2>3
  <2> HIDE DEF h
  <2>5. \A p : N(h, p) = N(pc, p) + Bit(h[t] = p) - Bit(pc[t] = p)
    BY <1>1, <2>4, OneMoves
  <2>6. \A p : N(pc', p) = N(h, p) + Bit(pc'[w] = p) - Bit(h[w] = p)
    <3>1. w \in Thread /\ h[w] # pc'[w] /\ \A u \in Thread : u # w => pc'[u] = h[u]
      BY <2>1, <2>3, <2>4
    <3> QED
      BY <3>1, OneMoves
  <2>7. /\ XCounted' = XCounted /\ XBlocked' = XBlocked - 1 /\ XOwner' = XOwner + 1
        /\ SCounted' = SCounted /\ SBlocked' = SBlocked /\ SOwner' = SOwner /\ Wakers' = Wakers - 1
    <3>1. \A p : N(pc, p) \in Nat /\ N(h, p) \in Nat /\ N(pc', p) \in Nat
      BY CountIsNat
    <3> QED
      BY <1>1, <2>3, <2>4, <2>5, <2>6, <3>1
         DEF Bit, XCounted, XBlocked, XOwner, SCounted, SBlocked, SOwner, Wakers
  <2>8. Signaled' = Signaled
    BY <1>5 DEF Signaled
  <2>9. Counters' /\ OneWriter' /\ WritersAhead'
    BY <1>0, <1>1, <1>2, <1>3, <2>7, <2>8 DEF Counters, OneWriter, WritersAhead, Counted
  <2>10. TypeOK'
    <3>1. \A u \in Thread : pc'[u] = "wakereaders" <=> pc[u] = "wakereaders"
      BY <1>1, <2>2, <2>3
    <3> QED
      BY <1>0, <1>1, <1>5, <2>1, <2>3, <3>1 DEF TypeOK
  <2>11. QueuesExact'
    <3>1. /\ \A i \in 1 .. Len(WriterQueue') : pc'[WriterQueue'[i]] = "xblocked"
          /\ \A i, j \in 1 .. Len(WriterQueue') : WriterQueue'[i] = WriterQueue'[j] => i = j
      <4>1. ASSUME NEW i \in 1 .. Len(WriterQueue')
            PROVE  /\ i + 1 \in 1 .. Len(WriterQueue) /\ i + 1 # 1
                   /\ WriterQueue'[i] = WriterQueue[i + 1]
                   /\ WriterQueue[i + 1] \in Thread
        BY <2>1
      <4>2. ASSUME NEW i \in 1 .. Len(WriterQueue')
            PROVE  pc'[WriterQueue'[i]] = "xblocked"
        <5>1. pc[WriterQueue[i + 1]] = "xblocked" /\ WriterQueue[i + 1] # w
          BY <1>0, <2>1, <4>1 DEF QueuesExact
        <5> QED
          BY <1>1, <2>3, <4>1, <5>1
      <4>3. ASSUME NEW i \in 1 .. Len(WriterQueue'), NEW j \in 1 .. Len(WriterQueue'),
                   WriterQueue'[i] = WriterQueue'[j]
            PROVE  i = j
        <5>1. i + 1 = j + 1
          BY <1>0, <4>1, <4>3 DEF QueuesExact
        <5> QED
          BY <2>1, <5>1
      <4> QED
        BY <4>2, <4>3
    <3>2. \A i \in 1 .. Len(ReaderQueue) : pc'[ReaderQueue[i]] = "sblocked"
      <4>1. \A i \in 1 .. Len(ReaderQueue) : ReaderQueue[i] \in Thread /\ pc[ReaderQueue[i]] = "sblocked"
        BY <1>0 DEF QueuesExact, TypeOK
      <4> QED
        BY <1>1, <2>2, <2>3, <4>1
    <3> QED
      BY <1>0, <1>1, <3>1, <3>2 DEF QueuesExact
  <2>12. OneBatch' /\ NoMissedSignal'
    BY <1>0, <1>1, <1>5 DEF OneBatch, NoMissedSignal
  <2> QED
    BY <2>9, <2>10, <2>11, <2>12 DEF IInv
<1> QED
  BY <1>4, <1>5 DEF KeSetEvent, Goto

\* KeReleaseSemaphore: the oldest blocked readers get the permits, the rest
\* of the permits stay in the semaphore.
LEMMA KeReleaseSemaphoreStep ==
    ASSUME IInv, NEW t \in Thread, KeReleaseSemaphore(t)
    PROVE  IInv'
<1>0. TypeOK /\ Counters /\ OneWriter /\ OneBatch /\ WritersAhead /\ QueuesExact /\ NoMissedSignal
  BY DEF IInv
<1> DEFINE n == batch[t]
           k == IF n <= Len(ReaderQueue) THEN n ELSE Len(ReaderQueue)
           W == {ReaderQueue[i] : i \in 1 .. k}
           h == [u \in Thread |-> IF u = t THEN "idle" ELSE pc[u]]
<1>1. /\ pc[t] = "wakereaders"
      /\ UNCHANGED <<WriterEvent, WriterQueue>>
      /\ UNCHANGED <<LockCount, WritersWaitingCount, ReadersWaitingCount, ReadersEntryCount>>
      /\ Signaled' = Signaled
  BY DEF KeReleaseSemaphore, words, Signaled
<1>2. Permits \in Nat /\ Cardinality(Carried(batch)) \in Nat /\ Counted /\ Counted'
  BY <1>0, PermitsAreNat, Numbers
<1>3. /\ LockCount \in Int /\ WritersWaitingCount \in Nat /\ ReadersWaitingCount \in Nat
      /\ ReadersEntryCount \in Nat
  BY <1>0 DEF TypeOK
<1>4. n \in Nat /\ n # 0 /\ ReaderSemaphore = 0 /\ Cardinality(Carried(batch)) = n
  <2>1. n \in Nat /\ n # 0 /\ ReaderSemaphore = 0
    BY <1>0, <1>1 DEF TypeOK, OneBatch
  <2> QED
    BY <1>0, <2>1, CarriedCount DEF TypeOK, OneBatch
<1>5. /\ ReaderQueue \in Seq(Thread) /\ Len(ReaderQueue) \in Nat
      /\ k \in Nat /\ k <= n /\ k <= Len(ReaderQueue) /\ (k = n \/ k = Len(ReaderQueue))
  BY <1>0, <1>4 DEF TypeOK
<1>6. Woken(n) = W /\ Woken(k) = W
  BY <1>4, <1>5 DEF Woken
<1>7. Cardinality(W) = k
  <2>1. \A i, j \in 1 .. Len(ReaderQueue) : ReaderQueue[i] = ReaderQueue[j] => i = j
    BY <1>0 DEF QueuesExact
  <2>2. Cardinality({ReaderQueue[i] : i \in {j \in 1 .. Len(ReaderQueue) : j <= n}}) = k
    BY <1>4, <1>5, <2>1, FirstOfQueue
  <2> QED
    BY <1>6, <2>2 DEF Woken
<1>8. /\ ReaderSemaphore' = n - k
      /\ ReaderQueue' = SubSeq(ReaderQueue, k + 1, Len(ReaderQueue))
      /\ pc' = [u \in Thread |-> CASE u = t -> "idle" [] u \in W -> "sowner" [] OTHER -> pc[u]]
      /\ batch' = [batch EXCEPT ![t] = 0]
  <2> DEFINE N0 == ReaderSemaphore + batch[t]
             K0 == IF ReaderSemaphore # 0 THEN 0 ELSE Cardinality(Woken(N0))
  <2>1. /\ ReaderSemaphore' = N0 - K0
        /\ ReaderQueue' = SubSeq(ReaderQueue, K0 + 1, Len(ReaderQueue))
        /\ pc' = [u \in Thread |-> CASE u = t -> "idle" [] u \in Woken(K0) -> "sowner" [] OTHER -> pc[u]]
        /\ batch' = [batch EXCEPT ![t] = 0]
    BY Zenon DEF KeReleaseSemaphore
  <2>2. N0 = n
    BY <1>4
  <2>3. K0 = k
    BY <1>4, <1>6, <1>7, <2>2
  <2> HIDE DEF n, k, W, N0, K0
  <2>4. Woken(K0) = W
    BY <1>6, <2>3
  <2> QED
    BY <2>1, <2>2, <2>3, <2>4
<1> HIDE DEF n, k
<1>9. /\ W \in SUBSET Thread /\ \A u \in W : pc[u] = "sblocked" /\ u # t
      /\ pc' \in [Thread -> Points] /\ pc'[t] = "idle"
      /\ \A u \in W : pc'[u] = "sowner"
      /\ \A u \in Thread : u # t /\ u \notin W => pc'[u] = pc[u]
  <2>1. W \in SUBSET Thread /\ \A u \in W : pc[u] = "sblocked"
    BY <1>0, <1>5 DEF QueuesExact
  <2>2. \A u \in W : u # t
    BY <1>1, <2>1
  <2> HIDE DEF W
  <2> QED
    BY <1>0, <1>8, <2>1, <2>2 DEF TypeOK, Points
<1>10. /\ h[t] = "idle" /\ \A u \in Thread : u # t => h[u] = pc[u]
       /\ \A u \in W : h[u] = "sblocked" /\ pc'[u] = "sowner"
       /\ \A u \in Thread : u \notin W => pc'[u] = h[u]
  <2> HIDE DEF W
  <2> QED
    BY <1>9
<1> HIDE DEF W, h
<1>11. \A p : N(h, p) = N(pc, p) + Bit(h[t] = p) - Bit(pc[t] = p)
  BY <1>1, <1>10, OneMoves
<1>12. /\ N(pc', "sowner") = N(h, "sowner") + k
       /\ N(h, "sblocked") = N(pc', "sblocked") + k
       /\ \A p : p # "sowner" /\ p # "sblocked" => N(pc', p) = N(h, p)
  <2>1. W \subseteq Thread
    BY <1>9
  <2>2. /\ \A u \in W : h[u] # "sowner" /\ pc'[u] = "sowner"
        /\ \A u \in W : pc'[u] # "sblocked" /\ h[u] = "sblocked"
        /\ \A u \in Thread : u \notin W => pc'[u] = h[u]
    BY <1>10
  <2>3. N(pc', "sowner") = N(h, "sowner") + Cardinality(W)
    BY <2>1, <2>2, ManyArrive
  <2>4. N(h, "sblocked") = N(pc', "sblocked") + Cardinality(W)
    BY <2>1, <2>2, ManyArrive
  <2>5. ASSUME NEW p, p # "sowner", p # "sblocked"
        PROVE  N(pc', p) = N(h, p)
    <3>1. \A u \in Thread : h[u] = p <=> pc'[u] = p
      BY <2>2, <2>5
    <3> QED
      BY <3>1, NobodyMoves
  <2> QED
    BY <1>7, <2>3, <2>4, <2>5
<1>13. /\ XCounted' = XCounted /\ XBlocked' = XBlocked /\ XOwner' = XOwner
       /\ SCounted' = SCounted /\ SBlocked' = SBlocked - k /\ SOwner' = SOwner + k /\ Wakers' = Wakers
  <2>1. \A p : N(pc, p) \in Nat /\ N(h, p) \in Nat /\ N(pc', p) \in Nat
    BY CountIsNat
  <2>2. /\ N(h, "xcounted") = N(pc, "xcounted") /\ N(h, "xblocked") = N(pc, "xblocked")
        /\ N(h, "xowner") = N(pc, "xowner") /\ N(h, "scounted") = N(pc, "scounted")
        /\ N(h, "sblocked") = N(pc, "sblocked") /\ N(h, "sowner") = N(pc, "sowner")
        /\ N(h, "wakewriter") = N(pc, "wakewriter")
    BY <1>1, <1>10, <1>11, <2>1 DEF Bit
  <2>3. SBlocked' = SBlocked - k
    BY <1>5, <1>12, <2>1, <2>2 DEF SBlocked
  <2> QED
    BY <1>12, <2>2, <2>3 DEF XCounted, XBlocked, XOwner, SCounted, SOwner, Wakers
<1>14. /\ batch' \in [Thread -> Nat] /\ batch'[t] = 0
       /\ \A u \in Thread : u # t => batch'[u] = batch[u] /\ batch[u] = 0
  <2>1. batch \in [Thread -> Nat] /\ \A u \in Thread : u # t => batch[u] = 0
    BY <1>0, <1>4 DEF TypeOK, OneBatch, n
  <2> QED
    BY <1>8, <2>1
<1>15. Permits = n /\ Permits' = n - k
  <2>1. \A u \in Thread : batch'[u] = 0
    BY <1>14
  <2>2. Cardinality(Carried(batch')) = 0
    BY <1>14, <2>1, CarriedCount
  <2> QED
    BY <1>4, <1>5, <1>8, <2>2 DEF Permits
<1>16. Counters' /\ OneWriter' /\ WritersAhead'
  BY <1>0, <1>1, <1>2, <1>3, <1>4, <1>5, <1>13, <1>15 DEF Counters, OneWriter, WritersAhead, Counted
<1>17. /\ ReaderQueue' \in Seq(Thread)
       /\ Len(ReaderQueue') = Len(ReaderQueue) - k
       /\ \A i \in 1 .. Len(ReaderQueue') : ReaderQueue'[i] = ReaderQueue[i + k]
  <2>1. /\ SubSeq(ReaderQueue, k + 1, Len(ReaderQueue)) \in Seq(Thread)
        /\ Len(SubSeq(ReaderQueue, k + 1, Len(ReaderQueue))) = Len(ReaderQueue) - k
        /\ \A i \in 1 .. Len(ReaderQueue) - k :
              SubSeq(ReaderQueue, k + 1, Len(ReaderQueue))[i] = ReaderQueue[i + k]
    BY <1>5
  <2> QED
    BY <1>8, <2>1
<1>18. QueuesExact'
  <2>1. ASSUME NEW i \in 1 .. Len(ReaderQueue')
        PROVE  /\ i + k \in 1 .. Len(ReaderQueue) /\ i + k > k
               /\ ReaderQueue'[i] = ReaderQueue[i + k] /\ ReaderQueue[i + k] \in Thread
    BY <1>5, <1>17
  <2>2. ASSUME NEW i \in 1 .. Len(ReaderQueue')
        PROVE  pc'[ReaderQueue'[i]] = "sblocked"
    <3>1. pc[ReaderQueue[i + k]] = "sblocked"
      BY <1>0, <2>1 DEF QueuesExact
    <3>2. ReaderQueue[i + k] \notin W
      <4>1. \A j \in 1 .. k : j \in 1 .. Len(ReaderQueue) /\ j # i + k
        BY <1>5, <2>1
      <4> QED
        BY <1>0, <2>1, <4>1 DEF QueuesExact, W
    <3> QED
      BY <1>1, <1>9, <2>1, <3>1, <3>2
  <2>3. ASSUME NEW i \in 1 .. Len(ReaderQueue'), NEW j \in 1 .. Len(ReaderQueue'),
               ReaderQueue'[i] = ReaderQueue'[j]
        PROVE  i = j
    <3>1. i + k = j + k
      BY <1>0, <2>1, <2>3 DEF QueuesExact
    <3> QED
      BY <1>5, <1>17, <3>1
  <2>4. \A i \in 1 .. Len(WriterQueue) : pc'[WriterQueue[i]] = "xblocked"
    <3>1. \A i \in 1 .. Len(WriterQueue) : WriterQueue[i] \in Thread /\ pc[WriterQueue[i]] = "xblocked"
      BY <1>0 DEF QueuesExact, TypeOK
    <3> QED
      BY <1>1, <1>9, <3>1
  <2> QED
    BY <1>0, <1>1, <2>2, <2>3, <2>4 DEF QueuesExact
<1>19. OneBatch'
  BY <1>14 DEF OneBatch
<1>20. NoMissedSignal'
  <2>1. ReaderSemaphore' > 0 => Len(ReaderQueue') = 0
    BY <1>4, <1>5, <1>8, <1>17
  <2>2. Len(ReaderQueue') = 0 => ReaderQueue' = << >>
    BY <1>17
  <2> QED
    BY <1>0, <1>1, <2>1, <2>2 DEF NoMissedSignal
<1>21. TypeOK'
  <2>1. \A u \in Thread : batch'[u] # 0 <=> pc'[u] = "wakereaders"
    <3>1. \A u \in Thread : pc'[u] # "wakereaders"
      BY <1>0, <1>9, <1>14 DEF TypeOK
    <3> QED
      BY <1>14, <3>1
  <2>2. ReaderSemaphore' \in Nat
    BY <1>4, <1>5, <1>8
  <2> QED
    BY <1>0, <1>1, <1>9, <1>14, <1>17, <2>1, <2>2 DEF TypeOK
<1> QED
  BY <1>16, <1>18, <1>19, <1>20, <1>21 DEF IInv

-----------------------------------------------------------------------------
(* The theorems.                                                           *)

\* The lock as ExInitializeReadWriteLock leaves it satisfies the invariant.
LEMMA InitIInv == Init => IInv
<1> SUFFICES ASSUME Init
             PROVE  IInv
  OBVIOUS
<1> USE DEF Init
<1>1. TypeOK
  <2>1. << >> \in Seq(Thread) /\ -1 \in Nat \cup {-1} /\ "idle" \in Points
    BY DEF Points
  <2>2. pc \in [Thread -> Points] /\ batch \in [Thread -> Nat]
    BY <2>1
  <2>3. \A t \in Thread : (batch[t] # 0) <=> (pc[t] = "wakereaders")
    OBVIOUS
  <2> QED
    BY <2>1, <2>2, <2>3 DEF TypeOK
<1>2. \A p : p # "idle" => N(pc, p) = 0
  BY CountPositive
<1>3. /\ XCounted = 0 /\ XBlocked = 0 /\ XOwner = 0 /\ SCounted = 0
      /\ SBlocked = 0 /\ SOwner = 0 /\ Wakers = 0 /\ Signaled = 0
  BY <1>2 DEF XCounted, XBlocked, XOwner, SCounted, SBlocked, SOwner, Wakers, Signaled
<1>4. OneBatch
  BY DEF OneBatch
<1>5. Permits = 0
  <2>1. Cardinality(Carried(batch)) = 0
    BY <1>1, <1>4, CarriedCount DEF TypeOK, OneBatch
  <2> QED
    BY <2>1 DEF Permits
<1>6. Counters /\ OneWriter /\ WritersAhead
  BY <1>3, <1>5 DEF Counters, OneWriter, WritersAhead
<1>7. QueuesExact /\ NoMissedSignal
  BY DEF QueuesExact, NoMissedSignal
<1> QED
  BY <1>1, <1>4, <1>6, <1>7 DEF IInv

\* Every step of every thread preserves the invariant.
LEMMA NextIInv == IInv /\ [Next]_vars => IInv'
<1> SUFFICES ASSUME IInv, [Next]_vars
             PROVE  IInv'
  OBVIOUS
<1>1. ASSUME UNCHANGED vars
      PROVE  IInv'
  BY <1>1 DEF vars, IInv, TypeOK, Counters, OneWriter, OneBatch, WritersAhead, QueuesExact,
              NoMissedSignal, XCounted, XBlocked, XOwner, SCounted, SBlocked, SOwner, Wakers,
              Signaled, Permits
<1>2. ASSUME NEW t \in Thread, ExAcquireReadWriteLockExclusive(t)
      PROVE  IInv'
  BY <1>2, AcquireExclusiveStep
<1>3. ASSUME NEW t \in Thread, ExAcquireReadWriteLockShared(t)
      PROVE  IInv'
  BY <1>3, AcquireSharedStep
<1>4. ASSUME NEW t \in Thread, Proceed(t)
      PROVE  IInv'
  BY <1>4, WaitWriterEventStep, WaitReaderSemaphoreStep, KeSetEventStep, KeReleaseSemaphoreStep
     DEF Proceed
<1>5. ASSUME NEW t \in Thread, ExReleaseReadWriteLock(t)
      PROVE  IInv'
  BY <1>5, ReleaseFreeStep, ReleaseToReadersStep, ReleaseEntryStep, ReleaseToWriterStep
     DEF ExReleaseReadWriteLock
<1> QED
  BY <1>1, <1>2, <1>3, <1>4, <1>5 DEF Next

\* The invariant holds in every reachable state.
THEOREM Invariance == Spec => []IInv
  BY InitIInv, NextIInv, PTL DEF Spec

\* Every counter stays in its range: the decrement of WritersWaitingCount in
\* ExReleaseReadWriteLock, which the code does without testing it, never
\* meets zero.
THEOREM TypeCorrect == Spec => []TypeOK
<1>1. IInv => TypeOK
  BY DEF IInv
<1> QED
  BY <1>1, Invariance, PTL

\* A writer owns the lock alone, whoever was preempted between being counted
\* and blocking, or between the decision to wake somebody and the wake-up.
THEOREM MutualExclusion == Spec => []Exclusion
<1>1. ASSUME IInv
      PROVE  Exclusion
  <2>1. Permits \in Nat /\ Counted
    BY <1>1, PermitsAreNat, Numbers DEF IInv
  <2>2. XOwner <= 1 /\ (XOwner > 0 => SOwner = 0)
    BY <1>1, <2>1 DEF IInv, TypeOK, Counters, OneWriter, Counted
  <2>3. IsFiniteSet(Writers) /\ Cardinality(Writers) = XOwner
    BY CountIsNat DEF Writers, At, N, XOwner
  <2>4. \A t, u \in Writers : t = u
    <3>1. SUFFICES ASSUME NEW t \in Writers, NEW u \in Writers, t # u
                   PROVE  FALSE
      OBVIOUS
    <3>2. IsFiniteSet({t, u}) /\ Cardinality({t, u}) = 2
      <4>1. IsFiniteSet({t}) /\ Cardinality({t}) = 1
        BY FS_Singleton
      <4>2. IsFiniteSet({t} \cup {u}) /\ Cardinality({t} \cup {u}) = Cardinality({t}) + 1
        BY <3>1, <4>1, FS_AddElement
      <4>3. {t, u} = {t} \cup {u}
        OBVIOUS
      <4> QED
        BY <4>1, <4>2, <4>3
    <3>3. Cardinality({t, u}) <= Cardinality(Writers)
      BY <2>3, FS_Subset
    <3> QED
      BY <2>1, <2>2, <2>3, <3>2, <3>3 DEF Counted
  <2>5. Writers = {} \/ Readers = {}
    <3>1. Writers # {} => XOwner # 0
      BY CountPositive DEF Writers, At, XOwner
    <3>2. Readers # {} => SOwner # 0
      BY CountPositive DEF Readers, At, SOwner
    <3> QED
      BY <2>1, <2>2, <3>1, <3>2 DEF Counted
  <2> QED
    BY <2>4, <2>5 DEF Exclusion
<1> QED
  BY <1>1, Invariance, PTL

\* The lock word counts everybody inside or waiting, each waiting count the
\* waiters nobody has decided to wake, the entry count the readers inside or
\* admitted.
THEOREM CountersAreExact == Spec => []CountersExact
<1>1. ASSUME IInv
      PROVE  CountersExact
  <2> DEFINE A == At("xcounted")
             B == At("xblocked")
             C == At("scounted")
             D == At("sblocked")
             E == Writers
             F == Readers
  <2>1. /\ IsFiniteSet(A) /\ IsFiniteSet(B) /\ IsFiniteSet(C) /\ IsFiniteSet(D)
        /\ IsFiniteSet(E) /\ IsFiniteSet(F)
    BY CountIsNat DEF At, Writers, Readers
  <2>2. /\ Cardinality(A) = XCounted /\ Cardinality(B) = XBlocked
        /\ Cardinality(C) = SCounted /\ Cardinality(D) = SBlocked
        /\ Cardinality(E) = XOwner /\ Cardinality(F) = SOwner
        /\ HandOvers = Wakers + Signaled
    BY DEF At, Writers, Readers, N, XCounted, XBlocked, SCounted, SBlocked, XOwner, SOwner,
           HandOvers, Wakers, Signaled
  <2>3. /\ A \cap B = {} /\ C \cap D = {} /\ E \cap F = {}
        /\ (E \cup F) \cap (A \cup B) = {}
        /\ ((E \cup F) \cup (A \cup B)) \cap (C \cup D) = {}
    BY DEF At, Writers, Readers
  <2> HIDE DEF A, B, C, D, E, F
  <2>4. /\ Counted /\ Permits \in Nat
        /\ TypeOK /\ Counters
    BY <1>1, Numbers, PermitsAreNat DEF IInv
  <2>5. ASSUME NEW S, NEW T, IsFiniteSet(S), IsFiniteSet(T), S \cap T = {}
        PROVE  /\ IsFiniteSet(S \cup T)
               /\ Cardinality(S \cup T) = Cardinality(S) + Cardinality(T)
    <3>1. /\ IsFiniteSet(S \cup T)
          /\ Cardinality(S \cup T) = Cardinality(S) + Cardinality(T) - Cardinality(S \cap T)
      BY <2>5, FS_Union
    <3>2. Cardinality(S \cap T) = 0 /\ Cardinality(S) \in Nat /\ Cardinality(T) \in Nat
      BY <2>5, FS_EmptySet, FS_CardinalityType
    <3> QED
      BY <3>1, <3>2
  <2>6. IsFiniteSet(A \cup B) /\ Cardinality(A \cup B) = XCounted + XBlocked
    BY <2>1, <2>2, <2>3, <2>5
  <2>7. IsFiniteSet(C \cup D) /\ Cardinality(C \cup D) = SCounted + SBlocked
    BY <2>1, <2>2, <2>3, <2>5
  <2>8. IsFiniteSet(E \cup F) /\ Cardinality(E \cup F) = XOwner + SOwner
    BY <2>1, <2>2, <2>3, <2>5
  <2>9. /\ IsFiniteSet((E \cup F) \cup (A \cup B))
        /\ Cardinality((E \cup F) \cup (A \cup B)) = Cardinality(E \cup F) + Cardinality(A \cup B)
    BY <2>3, <2>5, <2>6, <2>8
  <2>10. Cardinality(((E \cup F) \cup (A \cup B)) \cup (C \cup D))
            = Cardinality((E \cup F) \cup (A \cup B)) + Cardinality(C \cup D)
    BY <2>3, <2>5, <2>7, <2>9
  <2>11. Writers \cup Readers \cup WaitingWriters \cup WaitingReaders
            = ((E \cup F) \cup (A \cup B)) \cup (C \cup D)
    BY DEF WaitingWriters, WaitingReaders, A, B, C, D, E, F
  <2>12. Cardinality(Writers \cup Readers \cup WaitingWriters \cup WaitingReaders)
            = (XOwner + SOwner) + (XCounted + XBlocked) + (SCounted + SBlocked)
    BY <2>4, <2>6, <2>7, <2>8, <2>9, <2>10, <2>11
  <2>13. LockCount + 1 = Cardinality(Writers \cup Readers \cup WaitingWriters \cup WaitingReaders)
    BY <2>4, <2>12 DEF Counters, Counted
  <2>14. /\ WritersWaitingCount = Cardinality(A \cup B) - HandOvers
         /\ ReadersWaitingCount = Cardinality(C \cup D) - Permits
         /\ ReadersEntryCount = Cardinality(F) + Permits
    <3>1. WritersWaitingCount = XCounted + XBlocked - (Wakers + Signaled)
      BY <2>4 DEF Counters
    <3>2. ReadersWaitingCount = SCounted + SBlocked - Permits /\ ReadersEntryCount = SOwner + Permits
      BY <2>4 DEF Counters
    <3>3. WritersWaitingCount = Cardinality(A \cup B) - HandOvers
      <4>1. (XCounted + XBlocked) - HandOvers = XCounted + XBlocked - (Wakers + Signaled)
        BY <2>2, <2>4 DEF Counted
      <4> QED
        BY <2>6, <3>1, <4>1, Zenon
    <3>4. ReadersWaitingCount = Cardinality(C \cup D) - Permits
      <4>1. (SCounted + SBlocked) - Permits = SCounted + SBlocked - Permits
        BY <2>4 DEF Counted
      <4> QED
        BY <2>7, <3>2, <4>1, Zenon
    <3>5. ReadersEntryCount = Cardinality(F) + Permits
      BY <2>2, <3>2, Zenon
    <3> QED
      BY <3>3, <3>4, <3>5
  <2> QED
    BY <2>13, <2>14 DEF CountersExact, WaitingWriters, WaitingReaders, A, B, C, D, F
<1> QED
  BY <1>1, Invariance, PTL

\* A wake-up is never spent twice or lost.
THEOREM HandOversUnique == Spec => []HandOverUnique
<1>1. ASSUME IInv
      PROVE  HandOverUnique
  <2>1. HandOvers = Wakers + Signaled /\ Cardinality(Writers) = XOwner /\ Counted
    BY Numbers DEF HandOvers, Wakers, Signaled, At, Writers, XOwner, N
  <2>2. HandOvers + Cardinality(Writers) <= 1 /\ (HandOvers > 0 => ReadersEntryCount = 0)
    BY <1>1, <2>1 DEF IInv, OneWriter, Counted
  <2> QED
    BY <1>1, <2>2 DEF IInv, NoMissedSignal, HandOverUnique
<1> QED
  BY <1>1, Invariance, PTL
=============================================================================
