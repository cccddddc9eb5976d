----------------------------- MODULE CacheProofs -----------------------------
(***************************************************************************)
(* Proofs about the file cache.  The table, the list and the counters are  *)
(* exact for any number of threads, slots, reserve slots and blocks, any   *)
(* interleaving, any transfers failing; a file without a map has no block  *)
(* in the cache; and what has been flushed is on the medium.               *)
(***************************************************************************)
EXTENDS Cache, TLAPS, FiniteSetTheorems, SequenceTheorems, WellFoundedInduction

-------------------------------------------------------------------------------
(* The invariant *)

Datum     == UNION {Value[k] : k \in Key}
BlockType == [live : BOOLEAN, key : Key \cup {NoKey}, data : Datum, ref : Int,
              valid : BOOLEAN, dirty : BOOLEAN, busy : BOOLEAN, unsaved : BOOLEAN]
CopyFns  == {"CcCopyRead", "CcCopyWrite"}
EntryFns == CopyFns \cup {"CcPinRead", "NxcFlushMap", "CcPurgeCacheSection",
                          "CcUninitializeCacheMap", "NxcFlushAll", "FscSetCacheSize"}
Fns      == EntryFns \cup Transfers
Points   == {"copy", "through", "pinned", "changed", "dirtied", "look", "claim", "mapped", "io",
             "done", "flush", "drop", "purge", "close", "free", "scan", "shrink"}

FrameType == [fn : Fns, pc : Points, ks : SUBSET Key, todo : SUBSET Key,
              b : Int, m : Slots \cup {NoSlot}, ok : BOOLEAN]

Types ==
  /\ block \in [Slots -> BlockType] /\ lru \in Seq(Slots)
  /\ active \in Int /\ depth \in Int /\ mutex \in Thread \cup {NoThread}
  /\ opens \in Int /\ mapped \in BOOLEAN /\ map \in Maps
  /\ size \in Sizes /\ alloc \in Sizes
  /\ disk \in [Key -> Datum]
  /\ stack \in [Thread -> Seq(FrameType)]

\* What a frame is like by itself: which slots it can name at which point.
Formed(f) ==
  /\ f.fn \in EntryFns \cup Transfers
  /\ f.fn \in CopyFns => f.ks # {} /\ f.ks \subseteq Data /\ f.todo \subseteq f.ks
  /\ f.fn = "CcPinRead" => \E k \in Fat : f.ks = {k}
  /\ f.fn = "NxcGetBlock" =>
       /\ \E k \in Key : f.ks = {k}
       /\ \/ f.pc \in {"look", "claim"} /\ f.b = NoSlot /\ f.m = NoSlot
          \/ f.pc = "io" /\ f.b \in Slots /\ f.m = NoSlot
          \/ f.pc = "mapped" /\ f.b \in Slots
  /\ f.fn = "NxcFlushBlock" =>
       \/ f.pc \in {"io", "done"} /\ f.b \in Slots /\ f.m = NoSlot
       \/ f.pc = "mapped" /\ f.b \in Slots
  /\ f.fn \in EntryFns \ (CopyFns \cup {"CcPinRead"}) => f.m = NoSlot
  /\ f.fn = "CcUninitializeCacheMap" => f.pc \in {"close", "drop", "free"} /\ f.ks = Data

\* The call f is waiting for the call g, and has no block in hand meanwhile.
Waits(f, g) ==
  /\ f.m = NoSlot
  /\ \/ f.fn \in CopyFns /\ f.todo # {} /\ g.fn = "NxcGetBlock"
     \/ f.fn \in CopyFns /\ g.fn = "NxcFlushMap"
     \/ f.fn = "CcPinRead" /\ g.fn = "NxcGetBlock" /\ g.ks \subseteq Fat
     \/ f.fn \in Transfers /\ f.pc = "mapped" /\ g.fn = "NxcGetBlock" /\ g.ks \subseteq Fat
     \/ f.fn = "NxcGetBlock" /\ f.pc = "claim" /\ g.fn = "NxcFlushBlock"
     \/ f.fn = "NxcFlushMap" /\ f.pc = "flush" /\ g.fn = "NxcFlushBlock"
     \/ f.fn = "CcUninitializeCacheMap" /\ g.fn = "NxcFlushMap"
        /\ (f.pc = "free" => g.pc = "drop" /\ g.ks = Data)
     \/ f.fn = "NxcFlushAll" /\ g.fn = "NxcFlushMap"
     \/ f.fn = "FscSetCacheSize" /\ g.fn = "NxcFlushBlock"

\* The innermost call has the block it asked for, unless getting it failed.
Running(f) ==
  /\ f.fn \in CopyFns \cup {"CcPinRead"} => f.m \in Slots
  /\ f.fn \in CopyFns => f.todo # {}
  /\ f.fn \in Transfers /\ f.pc = "mapped" => (f.ok = TRUE <=> f.m # NoSlot)

Shaped(s) ==
  /\ \A i \in DOMAIN s : Formed(s[i])
  /\ s # <<>> => s[1].fn \in EntryFns /\ Running(s[Len(s)])
  /\ \A i \in DOMAIN s : i > 1 => Waits(s[i - 1], s[i])

\* What a frame knows of the blocks it names.
Linked(bl, f) ==
  /\ f.m \in Slots =>
       /\ bl[f.m].key \in Key /\ bl[f.m].valid = TRUE
       /\ bl[f.m].key \in Data => f.fn \in CopyFns
  /\ f.fn \in Transfers /\ f.b \in Slots =>
       /\ bl[f.b].key \in Key
       /\ f.fn = "NxcGetBlock" => bl[f.b].key \in f.ks

Stacks == \A t \in Thread : Shaped(stack[t]) /\ \A i \in DOMAIN stack[t] : Linked(block, stack[t][i])

Live == \A b \in Slots : block[b].key \in Key \/ b \in Reserve => block[b].live = TRUE

Counted ==
  /\ \A b \in Slots : IsFiniteSet(TransfersOf(b)) /\ IsFiniteSet(UsersOf(b))
  /\ IsFiniteSet({f \in Frames : At(f).fn = "NxcFlushBlock"})
  /\ RefsExact

TableInv == Types /\ Stacks /\ Live /\ Counted /\ TableExact

\* t is in a call under the file's resource: any on the file but a flush of it.
OnIt(t) == /\ stack[t] # <<>> /\ stack[t][1].ks \cap Data # {}
           /\ ~(stack[t][1].fn = "NxcFlushMap" /\ stack[t][1].pc = "flush")

\* The calls on the file that its resource lets in together are reads; they find
\* a map; and the last close has dropped every block when it frees the map.
FileHeld ==
  /\ \A t, u \in Thread : t # u /\ OnIt(t) /\ OnIt(u) =>
       stack[t][1].fn = "CcCopyRead" /\ stack[u][1].fn = "CcCopyRead"
  /\ \A t \in Thread : OnIt(t) => mapped
  /\ opens \in Nat /\ (opens > 0 => mapped)
  /\ \A t \in Thread : stack[t] # <<>> /\ stack[t][1].fn = "CcUninitializeCacheMap" =>
       /\ stack[t][1].pc = "close" => opens > 0
       /\ stack[t][1].pc \in {"drop", "free"} => opens = 0
       /\ stack[t][1].pc = "free" /\ Len(stack[t]) = 1 => Blocks(Data) = {}

-------------------------------------------------------------------------------
(* Constants *)

\* Slots are naturals, so that NoSlot is none of them, and there are finitely
\* many.
LEMMA SlotFacts ==
    Slots \subseteq Nat /\ NoSlot \notin Slots /\ NoSlot \in Int /\ IsFiniteSet(Slots) /\ IsFiniteSet(Visible)
    /\ Visible \subseteq Slots /\ Reserve \subseteq Slots
<1>1. NXC_MAX_BLOCKS \in Nat /\ NXC_WB_RESERVE \in Nat
  BY CacheAssumption
<1>2. Slots \subseteq 0 .. NXC_MAX_BLOCKS + NXC_WB_RESERVE - 1
  BY <1>1 DEF Slots, Visible, Reserve
<1>3. IsFiniteSet(0 .. NXC_MAX_BLOCKS + NXC_WB_RESERVE - 1)
  BY <1>1, FS_Interval
<1>4. Visible \subseteq Slots /\ Reserve \subseteq Slots
  BY DEF Slots
<1>5. IsFiniteSet(Slots) /\ IsFiniteSet(Visible)
  BY <1>2, <1>3, <1>4, FS_Subset
<1>6. Slots \subseteq Nat
  BY <1>1, <1>2
<1>7. NoSlot \notin Nat /\ NoSlot \in Int
  BY DEF NoSlot
<1> QED
  BY <1>4, <1>5, <1>6, <1>7

\* The file has a block and the FAT has one, no block is both, and NoKey is
\* the key of neither.
LEMMA KeyFacts ==
    /\ Data \cap Fat = {} /\ Data # {} /\ Fat # {} /\ NoKey \notin Key
    /\ Data \subseteq Key /\ Fat \subseteq Key /\ Key = Data \cup Fat
    /\ \A k \in Key : k[2] \in Nat
<1>1. FileBlocks \in Nat \ {0} /\ FatBlocks \in Nat \ {0}
  BY CacheAssumption
<1>2. \A k \in Data : k[1] = "file" /\ k[2] \in Nat
  BY <1>1 DEF Data
<1>3. \A k \in Fat : k[1] = "fat" /\ k[2] \in Nat
  BY <1>1 DEF Fat
<1>4. Key = Data \cup Fat
  BY DEF Key
<1>5. NoKey[1] = "none"
  BY DEF NoKey
<1>6. <<"file", 0>> \in Data
  <2>1. 0 \in 0 .. FileBlocks - 1
    BY <1>1
  <2> QED
    BY <2>1 DEF Data
<1>7. <<"fat", 0>> \in Fat
  <2>1. 0 \in 0 .. FatBlocks - 1
    BY <1>1
  <2> QED
    BY <2>1 DEF Fat
<1>8. Data \cap Fat = {}
  BY <1>2, <1>3
<1>9. NoKey \notin Key
  BY <1>2, <1>3, <1>4, <1>5
<1> QED
  BY <1>2, <1>3, <1>4, <1>6, <1>7, <1>8, <1>9

\* An empty and a retired slot are blocks.
LEMMA EmptyFacts ==
    /\ 0 \in Datum /\ EmptyBlock \in BlockType /\ RetiredBlock \in BlockType
    /\ EmptyBlock.live = TRUE /\ RetiredBlock.live = FALSE
    /\ \A r \in {EmptyBlock, RetiredBlock} :
         /\ r.key = NoKey /\ r.ref = 0 /\ r.valid = FALSE /\ r.dirty = FALSE /\ r.busy = FALSE
         /\ r.unsaved = FALSE
<1>1. PICK k \in Key : TRUE
  BY KeyFacts
<1>2. 0 \in Value[k]
  BY <1>1, CacheAssumption
<1>3. 0 \in Datum
  BY <1>1, <1>2 DEF Datum
<1>4. EmptyBlock \in BlockType
  BY <1>3 DEF EmptyBlock, BlockType
<1>6. RetiredBlock \in BlockType
  BY <1>4 DEF RetiredBlock, BlockType
<1>7. /\ EmptyBlock.live = TRUE /\ EmptyBlock.key = NoKey /\ EmptyBlock.ref = 0
      /\ EmptyBlock.valid = FALSE /\ EmptyBlock.dirty = FALSE /\ EmptyBlock.busy = FALSE
      /\ EmptyBlock.unsaved = FALSE
  BY DEF EmptyBlock
<1>8. /\ RetiredBlock.live = FALSE /\ RetiredBlock.key = NoKey /\ RetiredBlock.ref = 0
      /\ RetiredBlock.valid = FALSE /\ RetiredBlock.dirty = FALSE /\ RetiredBlock.busy = FALSE
      /\ RetiredBlock.unsaved = FALSE
  BY <1>4, <1>7 DEF RetiredBlock, BlockType
<1> QED
  BY <1>3, <1>4, <1>6, <1>7, <1>8

\* A nonempty set of naturals has a least element.
LEMMA LeastOf ==
    ASSUME NEW S, S \subseteq Nat, S # {}
    PROVE  \E n \in S : \A m \in S : n <= m
<1> DEFINE R == {ss \in Nat \X Nat : ss[1] < ss[2]}
<1>1. IsWellFoundedOn(R, Nat)
  BY NatLessThanWellFounded, Zenon DEF OpToRel
<1>2. S \in SUBSET Nat
  OBVIOUS
<1>3. PICK n \in S : \A m \in S : ~(<<m, n>> \in R)
  BY <1>1, <1>2, WFMin, Zenon
<1>4. ASSUME NEW m \in S PROVE n <= m
  <2>1. n \in Nat /\ m \in Nat /\ ~(<<m, n>> \in R)
    BY <1>3
  <2> QED
    BY <2>1
<1> QED
  BY <1>4

\* The slot or place with the lowest number is one of those asked for.
LEMMA MinIn ==
    ASSUME NEW S, S \subseteq Nat, S # {}
    PROVE  Min(S) \in S
BY LeastOf DEF Min

\* The first block of a range is a block of it.
LEMMA FirstIn ==
    ASSUME NEW ks, ks \subseteq Key, ks # {}
    PROVE  First(ks) \in ks
<1> DEFINE S == {k[2] : k \in ks}
<1>1. S \subseteq Nat /\ S # {}
  BY KeyFacts
<1>2. PICK n \in S : \A m \in S : n <= m
  <2> HIDE DEF S
  <2> QED
    BY <1>1, LeastOf
<1>3. PICK k \in ks : k[2] = n
  BY <1>2
<1>4. \A j \in ks : k[2] <= j[2]
  BY <1>2, <1>3
<1> QED
  BY <1>3, <1>4 DEF First

-------------------------------------------------------------------------------
(* The LRU list *)

\* Every number up to the size of a finite set of naturals is the place of
\* exactly one of its members.
LEMMA Places ==
    ASSUME NEW K, IsFiniteSet(K), K \subseteq Nat
    PROVE  /\ Cardinality(K) \in Nat
           /\ \A i \in K : Cardinality({j \in K : j <= i}) \in 1 .. Cardinality(K)
           /\ \A n \in 1 .. Cardinality(K) : \E i \in K : Cardinality({j \in K : j <= i}) = n
<1> DEFINE L(i) == {j \in K : j <= i}
           C == Cardinality(K)
           f == [i \in K |-> Cardinality(L(i))]
<1>1. C \in Nat
  BY FS_CardinalityType
<1>2. ASSUME NEW i \in K
      PROVE  IsFiniteSet(L(i)) /\ Cardinality(L(i)) \in 1 .. C
  <2>1. L(i) \in SUBSET K
    OBVIOUS
  <2>2. IsFiniteSet(L(i)) /\ Cardinality(L(i)) <= C
    BY <2>1, FS_Subset
  <2>3. Cardinality(L(i)) \in Nat
    BY <2>2, FS_CardinalityType
  <2>4. i \in L(i)
    OBVIOUS
  <2>5. Cardinality(L(i)) # 0
    BY <2>2, <2>4, FS_EmptySet
  <2> QED
    BY <1>1, <2>2, <2>3, <2>5
<1>3. ASSUME NEW i \in K, NEW k \in K, Cardinality(L(i)) = Cardinality(L(k)), i < k
      PROVE  FALSE
  <2>0. i \in Nat /\ k \in Nat /\ \A j \in K : j \in Nat
    OBVIOUS
  <2>1. L(i) \in SUBSET L(k)
    <3>1. \A j \in K : j <= i => j <= k
      BY <1>3, <2>0
    <3> QED
      BY <3>1
  <2>2. L(i) = L(k)
    BY <1>2, <1>3, <2>1, FS_Subset
  <2>3. k \in L(k) /\ k \notin L(i)
    BY <1>3, <2>0
  <2> QED
    BY <2>2, <2>3
<1>4. f \in [K -> 1 .. C]
  BY <1>2
<1>5. ASSUME NEW i \in K, NEW k \in K, f[i] = f[k]
      PROVE  i = k
  <2>1. Cardinality(L(i)) = Cardinality(L(k))
    BY <1>5
  <2>2. ~(i < k) /\ ~(k < i)
    BY <1>3, <2>1
  <2>3. i \in Nat /\ k \in Nat
    OBVIOUS
  <2> QED
    BY <2>2, <2>3
<1>6. DOMAIN f = K
  OBVIOUS
<1>7. IsFiniteSet(1 .. C) /\ Cardinality(1 .. C) = C
  BY <1>1, FS_Interval
<1>8. f \in Surjection(K, 1 .. C)
  <2>1. f \in Injection(K, 1 .. C)
    <3> HIDE DEF f
    <3> QED
      BY <1>4, <1>5, <1>6, Zenon DEF Injection, IsInjective
  <2> HIDE DEF f
  <2> QED
    BY <1>7, <2>1, FS_Injection, Zenon
<1>9. \A n \in 1 .. C : \E i \in K : f[i] = n
  <2> HIDE DEF f
  <2> QED
    BY <1>8, Zenon DEF Surjection
<1>10. \A i \in K : f[i] = Cardinality(L(i))
  OBVIOUS
<1>11. \A n \in 1 .. C : \E i \in K : Cardinality(L(i)) = n
  <2> HIDE DEF f
  <2> QED
    BY <1>9, <1>10
<1> QED
  BY <1>1, <1>2, <1>11

\* Unlinking takes the blocks out of the list and leaves the others in it,
\* each once.
LEMMA UnlinkedList ==
    ASSUME lru \in Seq(Slots), IsInjective(lru), NEW B, NEW l, l = Unlinked(B)
    PROVE  /\ l \in Seq(Slots) /\ IsInjective(l)
           /\ ToSet(l) = ToSet(lru) \ B
<1> DEFINE n == Len(lru)
           K == {i \in DOMAIN lru : lru[i] \notin B}
           P(i) == Cardinality({j \in K : j <= i})
           C == Cardinality(K)
           h(m) == CHOOSE i \in K : P(i) = m
<1>1. n \in Nat /\ DOMAIN lru = 1 .. n /\ \A i \in 1 .. n : lru[i] \in Slots
  OBVIOUS
<1>2. IsFiniteSet(K) /\ K \subseteq Nat
  <2>1. K \in SUBSET (1 .. n)
    BY <1>1
  <2>2. IsFiniteSet(1 .. n)
    BY <1>1, FS_Interval
  <2> QED
    BY <1>1, <2>1, <2>2, FS_Subset
<1>3. C \in Nat /\ (\A i \in K : P(i) \in 1 .. C) /\ (\A m \in 1 .. C : \E i \in K : P(i) = m)
  BY <1>2, Places
<1>4. l = [m \in 1 .. C |-> lru[h(m)]]
  BY Zenon DEF Unlinked
<1> HIDE DEF C, P
<1>5. \A m \in 1 .. C : h(m) \in K /\ P(h(m)) = m
  BY <1>3
<1>6. \A i \in K : \E m \in 1 .. C : h(m) = i
  <2>1. SUFFICES ASSUME NEW i \in K
                 PROVE  \E m \in 1 .. C : h(m) = i
    OBVIOUS
  <2>2. P(i) \in 1 .. C
    BY <1>3
  <2>3. \A a, b \in K : P(a) = P(b) => a = b
    <3>1. SUFFICES ASSUME NEW a \in K, NEW b \in K, P(a) = P(b), a < b
                   PROVE  FALSE
      <4>1. \A a, b \in K : P(a) = P(b) => ~(a < b)
        BY <3>1
      <4>2. \A a \in K : a \in Nat
        BY <1>2
      <4> QED
        BY <4>1, <4>2
    <3>2. {j \in K : j <= a} \in SUBSET {j \in K : j <= b}
      BY <1>2, <3>1
    <3>3. IsFiniteSet({j \in K : j <= b})
      BY <1>2, FS_Subset
    <3>4. {j \in K : j <= a} = {j \in K : j <= b}
      BY <3>1, <3>2, <3>3, FS_Subset DEF P
    <3>5. b \in {j \in K : j <= b} /\ b \notin {j \in K : j <= a}
      BY <1>2, <3>1
    <3> QED
      BY <3>4, <3>5
  <2>4. h(P(i)) \in K /\ P(h(P(i))) = P(i)
    BY <1>5, <2>2
  <2>5. h(P(i)) = i
    BY <2>3, <2>4
  <2> QED
    BY <2>2, <2>5
<1> HIDE DEF h
<1>7. DOMAIN l = 1 .. C /\ \A m \in 1 .. C : l[m] = lru[h(m)]
  BY <1>4
<1>8. \A m \in 1 .. C : h(m) \in 1 .. n /\ lru[h(m)] \in Slots /\ lru[h(m)] \notin B
  BY <1>1, <1>5
<1>9. l \in Seq(Slots)
  <2>1. l \in [1 .. C -> Slots]
    BY <1>4, <1>8
  <2> QED
    BY <1>3, <2>1, SeqDef
<1>10. IsInjective(l)
  <2>1. SUFFICES ASSUME NEW a \in DOMAIN l, NEW b \in DOMAIN l, l[a] = l[b]
                 PROVE  a = b
    BY Zenon DEF IsInjective
  <2>2. a \in 1 .. C /\ b \in 1 .. C /\ lru[h(a)] = lru[h(b)]
    BY <1>7, <2>1
  <2>3. h(a) = h(b)
    BY <1>1, <1>8, <2>2 DEF IsInjective
  <2> QED
    BY <1>5, <2>2, <2>3
<1>11. ToSet(l) = ToSet(lru) \ B
  <2>1. ASSUME NEW x \in ToSet(l) PROVE x \in ToSet(lru) \ B
    BY <1>1, <1>7, <1>8 DEF ToSet
  <2>2. ASSUME NEW x \in ToSet(lru), x \notin B PROVE x \in ToSet(l)
    <3>1. PICK i \in DOMAIN lru : lru[i] = x
      BY DEF ToSet
    <3>2. i \in K
      BY <2>2, <3>1
    <3>3. PICK m \in 1 .. C : h(m) = i
      BY <1>6, <3>2
    <3> QED
      BY <1>7, <3>1, <3>3 DEF ToSet
  <2> QED
    BY <2>1, <2>2
<1> QED
  BY <1>9, <1>10, <1>11

\* A block that is not in the list goes to its end.
LEMMA AppendedList ==
    ASSUME NEW l, l \in Seq(Slots), IsInjective(l), NEW b \in Slots, b \notin ToSet(l),
           NEW r, r = Append(l, b)
    PROVE  r \in Seq(Slots) /\ IsInjective(r) /\ ToSet(r) = ToSet(l) \cup {b}
<1>1. Len(l) \in Nat /\ DOMAIN l = 1 .. Len(l)
  OBVIOUS
<1>2. /\ r \in Seq(Slots) /\ Len(r) = Len(l) + 1 /\ DOMAIN r = 1 .. Len(l) + 1
      /\ r[Len(l) + 1] = b /\ \A i \in 1 .. Len(l) : r[i] = l[i]
  <2>1. r \in Seq(Slots) /\ Len(r) = Len(l) + 1
    BY AppendProperties
  <2>2. r[Len(l) + 1] = b /\ \A i \in 1 .. Len(l) : r[i] = l[i]
    BY AppendProperties
  <2> QED
    BY <2>1, <2>2
<1>3. IsInjective(r)
  <2>1. SUFFICES ASSUME NEW i \in DOMAIN r, NEW j \in DOMAIN r, r[i] = r[j]
                 PROVE  i = j
    BY Zenon DEF IsInjective
  <2>2. \A k \in 1 .. Len(l) : l[k] # b
    BY <1>1 DEF ToSet
  <2> QED
    BY <1>1, <1>2, <2>1, <2>2 DEF IsInjective
<1>4. ToSet(r) = ToSet(l) \cup {b}
  BY <1>1, <1>2 DEF ToSet
<1> QED
  BY <1>2, <1>3, <1>4

-------------------------------------------------------------------------------
(* The table: what the actions do to it keeps it exact *)

TableOK ==
  /\ block \in [Slots -> BlockType] /\ lru \in Seq(Slots) /\ active \in Int
  /\ Live /\ TableExact

\* A slot without a key is idle and has nothing in it; one with a key is
\* active and in the list.
LEMMA SlotState ==
    ASSUME TableOK, NEW b \in Slots
    PROVE  /\ block[b] \in BlockType
           /\ block[b].key \in Key \/ block[b].key = NoKey
           /\ block[b].key \in Key => block[b].live = TRUE /\ b \in ToSet(lru)
           /\ block[b].key = NoKey => /\ block[b] \in {EmptyBlock, RetiredBlock}
                                      /\ block[b].ref = 0 /\ block[b].busy = FALSE
                                      /\ block[b].valid = FALSE /\ block[b].dirty = FALSE
           /\ block[b].live \in BOOLEAN /\ block[b].ref \in Int /\ block[b].busy \in BOOLEAN
           /\ block[b].valid \in BOOLEAN /\ block[b].dirty \in BOOLEAN /\ block[b].data \in Datum
           /\ block[b].unsaved \in BOOLEAN
<1>1. block[b] \in BlockType
  BY DEF TableOK
<1>2. block[b].key \in Key \/ block[b].key = NoKey
  BY <1>1 DEF BlockType
<1>3. block[b].key \in Key => block[b].live = TRUE /\ b \in ToSet(lru)
  BY DEF TableOK, Live, TableExact, Blocks
<1>4. block[b].key = NoKey => block[b] \in {EmptyBlock, RetiredBlock}
  BY KeyFacts DEF TableOK, TableExact, Blocks
<1>5. block[b].key = NoKey => /\ block[b].ref = 0 /\ block[b].busy = FALSE
                              /\ block[b].valid = FALSE /\ block[b].dirty = FALSE
  BY <1>4, EmptyFacts
<1>6. /\ block[b].live \in BOOLEAN /\ block[b].ref \in Int /\ block[b].busy \in BOOLEAN
      /\ block[b].valid \in BOOLEAN /\ block[b].dirty \in BOOLEAN /\ block[b].data \in Datum
      /\ block[b].unsaved \in BOOLEAN
  BY <1>1 DEF BlockType
<1> QED
  BY <1>1, <1>2, <1>3, <1>4, <1>5, <1>6

\* A block that stays in its slot may change in all but its key.
LEMMA Modified ==
    ASSUME TableOK, NEW b \in Slots, NEW r \in BlockType, block[b].key \in Key,
           r.key = block[b].key, r.live = TRUE, r.dirty = TRUE => r.valid = TRUE,
           block' = [block EXCEPT ![b] = r], lru' = lru, active' = active
    PROVE  TableOK'
<1>1. block' \in [Slots -> BlockType] /\ block'[b] = r /\ \A c \in Slots \ {b} : block'[c] = block[c]
  BY DEF TableOK
<1>2. \A c \in Slots : block'[c].key = block[c].key /\ block'[c].live = block[c].live
  BY <1>1, SlotState
<1>3. Live'
  BY <1>2 DEF TableOK, Live
<1>4. Blocks(Key)' = Blocks(Key)
  BY <1>2 DEF Blocks
<1>5. \A c, d \in Slots : block'[c].key = block'[d].key /\ c # d => block'[c].key = NoKey
  BY <1>2 DEF TableOK, TableExact
<1>6. ToSet(lru') = Blocks(Key)' /\ IsInjective(lru')
  BY <1>4 DEF TableOK, TableExact
<1>7. \A c \in Slots \ Blocks(Key)' : block'[c] \in {EmptyBlock, RetiredBlock}
  <2>1. b \in Blocks(Key)
    BY DEF Blocks
  <2> QED
    BY <1>1, <1>4, <2>1 DEF TableOK, TableExact
<1>8. {c \in Visible : block'[c].live} = {c \in Visible : block[c].live}
  BY <1>2, SlotFacts
<1>9. active' = Cardinality({c \in Visible : block'[c].live})
  BY <1>8 DEF TableOK, TableExact
<1>10. \A c \in Slots : block'[c].dirty => block'[c].valid
  <2>1. r.dirty \in BOOLEAN /\ r.valid \in BOOLEAN
    BY DEF BlockType
  <2> QED
    BY <1>1, <2>1 DEF TableOK, TableExact
<1>11. TableExact'
  BY <1>5, <1>6, <1>7, <1>9, <1>10 DEF TableExact
<1> QED
  BY <1>1, <1>3, <1>11 DEF TableOK

\* A key that no other slot has goes to an active slot, which becomes the
\* youngest.
LEMMA Claimed ==
    ASSUME TableOK, NEW b \in Slots, NEW r \in BlockType, block[b].live = TRUE,
           r.key \in Key, r.live = TRUE, r.dirty = TRUE => r.valid = TRUE,
           \A c \in Slots \ {b} : block[c].key # r.key,
           block' = [block EXCEPT ![b] = r], lru' = Append(Unlinked({b}), b), active' = active
    PROVE  TableOK'
<1>1. block' \in [Slots -> BlockType] /\ block'[b] = r /\ \A c \in Slots \ {b} : block'[c] = block[c]
  BY DEF TableOK
<1>2. PICK l : l = Unlinked({b})
  OBVIOUS
<1>3. l \in Seq(Slots) /\ IsInjective(l) /\ ToSet(l) = ToSet(lru) \ {b}
  BY <1>2, UnlinkedList DEF TableOK, TableExact
<1>4. lru' \in Seq(Slots) /\ IsInjective(lru') /\ ToSet(lru') = ToSet(l) \cup {b}
  BY <1>2, <1>3, AppendedList
<1>5. Live'
  BY <1>1 DEF TableOK, Live
<1>6. Blocks(Key)' = Blocks(Key) \cup {b}
  BY <1>1 DEF Blocks
<1>7. \A c, d \in Slots : block'[c].key = block'[d].key /\ c # d => block'[c].key = NoKey
  BY <1>1 DEF TableOK, TableExact
<1>8. ToSet(lru') = Blocks(Key)'
  BY <1>3, <1>4, <1>6 DEF TableOK, TableExact
<1>9. \A c \in Slots \ Blocks(Key)' : block'[c] \in {EmptyBlock, RetiredBlock}
  BY <1>1, <1>6 DEF TableOK, TableExact
<1>10. {c \in Visible : block'[c].live} = {c \in Visible : block[c].live}
  BY <1>1, SlotFacts
<1>11. active' = Cardinality({c \in Visible : block'[c].live})
  BY <1>10 DEF TableOK, TableExact
<1>12. \A c \in Slots : block'[c].dirty => block'[c].valid
  <2>1. r.dirty \in BOOLEAN /\ r.valid \in BOOLEAN
    BY DEF BlockType
  <2> QED
    BY <1>1, <2>1 DEF TableOK, TableExact
<1>13. TableExact'
  BY <1>4, <1>7, <1>8, <1>9, <1>11, <1>12 DEF TableExact
<1> QED
  BY <1>1, <1>4, <1>5, <1>13 DEF TableOK

\* Active slots are emptied and leave the list.
LEMMA Emptied ==
    ASSUME TableOK, NEW B, B \subseteq Slots, \A b \in B : block[b].live = TRUE,
           block' = [b \in Slots |-> IF b \in B THEN EmptyBlock ELSE block[b]],
           lru' = Unlinked(B), active' = active
    PROVE  TableOK'
<1>1. /\ block' \in [Slots -> BlockType] /\ \A b \in B : block'[b] = EmptyBlock
      /\ \A c \in Slots \ B : block'[c] = block[c]
  BY EmptyFacts DEF TableOK
<1>2. lru' \in Seq(Slots) /\ IsInjective(lru') /\ ToSet(lru') = ToSet(lru) \ B
  BY UnlinkedList DEF TableOK, TableExact
<1>3. EmptyBlock.key = NoKey /\ EmptyBlock.live = TRUE /\ EmptyBlock.dirty = FALSE /\ NoKey \notin Key
  BY EmptyFacts, KeyFacts
<1>4. Live'
  BY <1>1, <1>3 DEF TableOK, Live
<1>5. Blocks(Key)' = Blocks(Key) \ B
  BY <1>1, <1>3 DEF Blocks
<1>6. \A c, d \in Slots : block'[c].key = block'[d].key /\ c # d => block'[c].key = NoKey
  BY <1>1, <1>3 DEF TableOK, TableExact
<1>7. ToSet(lru') = Blocks(Key)'
  BY <1>2, <1>5 DEF TableOK, TableExact
<1>8. \A c \in Slots \ Blocks(Key)' : block'[c] \in {EmptyBlock, RetiredBlock}
  BY <1>1, <1>5 DEF TableOK, TableExact
<1>9. {c \in Visible : block'[c].live} = {c \in Visible : block[c].live}
  BY <1>1, <1>3, SlotFacts
<1>10. active' = Cardinality({c \in Visible : block'[c].live})
  BY <1>9 DEF TableOK, TableExact
<1>11. \A c \in Slots : block'[c].dirty => block'[c].valid
  BY <1>1, <1>3 DEF TableOK, TableExact
<1>12. TableExact'
  BY <1>2, <1>6, <1>7, <1>8, <1>10, <1>11 DEF TableExact
<1> QED
  BY <1>1, <1>2, <1>4, <1>12 DEF TableOK

\* A visible slot is retired.
LEMMA Retired ==
    ASSUME TableOK, NEW b \in Visible, block[b].live = TRUE,
           block' = [block EXCEPT ![b] = RetiredBlock],
           lru' = Unlinked({b}), active' = active - 1
    PROVE  TableOK'
<1>0. b \in Slots /\ b \notin Reserve
  BY CacheAssumption, SlotFacts DEF Visible, Reserve
<1>1. /\ block' \in [Slots -> BlockType] /\ block'[b] = RetiredBlock
      /\ \A c \in Slots \ {b} : block'[c] = block[c]
  BY <1>0, EmptyFacts DEF TableOK
<1>2. lru' \in Seq(Slots) /\ IsInjective(lru') /\ ToSet(lru') = ToSet(lru) \ {b}
  BY UnlinkedList DEF TableOK, TableExact
<1>3. /\ RetiredBlock.key = NoKey /\ RetiredBlock.live = FALSE /\ RetiredBlock.dirty = FALSE
      /\ NoKey \notin Key
  BY EmptyFacts, KeyFacts
<1>4. Live'
  BY <1>0, <1>1, <1>3 DEF TableOK, Live
<1>5. Blocks(Key)' = Blocks(Key) \ {b}
  BY <1>0, <1>1, <1>3 DEF Blocks
<1>6. \A c, d \in Slots : block'[c].key = block'[d].key /\ c # d => block'[c].key = NoKey
  BY <1>1, <1>3 DEF TableOK, TableExact
<1>7. ToSet(lru') = Blocks(Key)'
  BY <1>2, <1>5 DEF TableOK, TableExact
<1>8. \A c \in Slots \ Blocks(Key)' : block'[c] \in {EmptyBlock, RetiredBlock}
  BY <1>1, <1>5 DEF TableOK, TableExact
<1>9. {c \in Visible : block'[c].live} = {c \in Visible : block[c].live} \ {b}
  BY <1>1, <1>3, SlotFacts
<1>10. active' = Cardinality({c \in Visible : block'[c].live})
  <2> DEFINE V == {c \in Visible : block[c].live}
  <2>1. IsFiniteSet(V) /\ b \in V
    BY SlotFacts, FS_Subset
  <2>2. Cardinality(V \ {b}) = Cardinality(V) - 1
    BY <2>1, FS_RemoveElement
  <2> QED
    BY <1>9, <2>2 DEF TableOK, TableExact
<1>11. \A c \in Slots : block'[c].dirty => block'[c].valid
  BY <1>1, <1>3 DEF TableOK, TableExact
<1>12. TableExact'
  BY <1>2, <1>6, <1>7, <1>8, <1>10, <1>11 DEF TableExact
<1> QED
  BY <1>1, <1>2, <1>4, <1>12 DEF TableOK

\* Retired slots become active.
LEMMA Grown ==
    ASSUME TableOK, NEW B \in SUBSET {b \in Visible : ~block[b].live},
           block' = [b \in Slots |-> IF b \in B THEN EmptyBlock ELSE block[b]],
           lru' = lru, active' = active + Cardinality(B)
    PROVE  TableOK'
<1>0. B \subseteq Slots /\ B \subseteq Visible /\ \A b \in B : block[b].live # TRUE
  BY SlotFacts
<1>1. /\ block' \in [Slots -> BlockType] /\ \A b \in B : block'[b] = EmptyBlock
      /\ \A c \in Slots \ B : block'[c] = block[c]
  BY <1>0, EmptyFacts DEF TableOK
<1>2. \A b \in B : block[b].key = NoKey
  BY <1>0, SlotState
<1>3. EmptyBlock.key = NoKey /\ EmptyBlock.live = TRUE /\ EmptyBlock.dirty = FALSE /\ NoKey \notin Key
  BY EmptyFacts, KeyFacts
<1>4. Live'
  BY <1>1, <1>3 DEF TableOK, Live
<1>5. Blocks(Key)' = Blocks(Key)
  BY <1>0, <1>1, <1>2, <1>3 DEF Blocks
<1>6. \A c, d \in Slots : block'[c].key = block'[d].key /\ c # d => block'[c].key = NoKey
  BY <1>1, <1>3 DEF TableOK, TableExact
<1>7. ToSet(lru') = Blocks(Key)' /\ IsInjective(lru')
  BY <1>5 DEF TableOK, TableExact
<1>8. \A c \in Slots \ Blocks(Key)' : block'[c] \in {EmptyBlock, RetiredBlock}
  BY <1>1, <1>5 DEF TableOK, TableExact
<1> DEFINE V == {c \in Visible : block[c].live}
<1>9. {c \in Visible : block'[c].live} = V \cup B
  BY <1>0, <1>1, <1>3, SlotFacts
<1>10. Cardinality(V \cup B) = Cardinality(V) + Cardinality(B) /\ Cardinality(B) \in Nat
  <2>1. IsFiniteSet(V) /\ IsFiniteSet(B)
    BY <1>0, SlotFacts, FS_Subset
  <2>2. V \cap B = {}
    BY <1>0
  <2>3. Cardinality(V) \in Nat /\ Cardinality(B) \in Nat
    BY <2>1, FS_CardinalityType
  <2>4. Cardinality(V \cup B) = Cardinality(V) + Cardinality(B) - Cardinality(V \cap B)
    BY <2>1, FS_Union
  <2>5. Cardinality(V \cap B) = 0
    BY <2>2, FS_EmptySet
  <2> QED
    BY <2>3, <2>4, <2>5
<1>11. active' = Cardinality({c \in Visible : block'[c].live})
  BY <1>9, <1>10 DEF TableOK, TableExact
<1>12. \A c \in Slots : block'[c].dirty => block'[c].valid
  BY <1>1, <1>3 DEF TableOK, TableExact
<1>13. TableExact'
  BY <1>6, <1>7, <1>8, <1>11, <1>12 DEF TableExact
<1>14. active' \in Int
  BY <1>10 DEF TableOK
<1> QED
  BY <1>1, <1>4, <1>13, <1>14 DEF TableOK

-------------------------------------------------------------------------------
(* References: what the frames of a stack hold, place by place *)

SlotAt(s, i)  == IF i \in DOMAIN s /\ s[i].fn \in Transfers THEN s[i].b ELSE NoSlot
UserAt(s, i)  == IF i \in DOMAIN s THEN s[i].m ELSE NoSlot
WriteAt(s, i) == i \in DOMAIN s /\ s[i].fn = "NxcFlushBlock"
Bit(p)        == IF p THEN 1 ELSE 0
Place         == Nat \ {0}
Writes        == {f \in Frames : At(f).fn = "NxcFlushBlock"}

FramesOf(st)  == UNION {{t} \X DOMAIN st[t] : t \in Thread}

\* The frames on a slot, told by the places of the stacks.
LEMMA FramesByPlace ==
    ASSUME NEW st \in [Thread -> Seq(FrameType)]
    PROVE  /\ \A b \in Slots : {f \in FramesOf(st) : st[f[1]][f[2]].fn \in Transfers /\ st[f[1]][f[2]].b = b}
                               = {f \in Thread \X Place : SlotAt(st[f[1]], f[2]) = b}
           /\ \A b \in Slots : {f \in FramesOf(st) : st[f[1]][f[2]].m = b}
                               = {f \in Thread \X Place : UserAt(st[f[1]], f[2]) = b}
           /\ {f \in FramesOf(st) : st[f[1]][f[2]].fn = "NxcFlushBlock"}
                               = {f \in Thread \X Place : WriteAt(st[f[1]], f[2])}
<1>1. \A t \in Thread : DOMAIN st[t] \subseteq Place
  BY DEF Place
<1>2. FramesOf(st) = {f \in Thread \X Place : f[2] \in DOMAIN st[f[1]]}
  <2>1. ASSUME NEW f \in FramesOf(st)
        PROVE  f \in Thread \X Place /\ f[2] \in DOMAIN st[f[1]]
    <3>1. PICK t \in Thread : f \in {t} \X DOMAIN st[t]
      BY DEF FramesOf
    <3> QED
      BY <1>1, <3>1
  <2>2. ASSUME NEW f \in Thread \X Place, f[2] \in DOMAIN st[f[1]]
        PROVE  f \in FramesOf(st)
    <3>1. f \in {f[1]} \X DOMAIN st[f[1]] /\ f[1] \in Thread
      BY <2>2
    <3> QED
      BY <3>1 DEF FramesOf
  <2> QED
    BY <2>1, <2>2
<1>3. \A b \in Slots : b # NoSlot
  BY SlotFacts
<1>4. \A b \in Slots : {f \in FramesOf(st) : st[f[1]][f[2]].fn \in Transfers /\ st[f[1]][f[2]].b = b}
                       = {f \in Thread \X Place : SlotAt(st[f[1]], f[2]) = b}
  BY <1>2, <1>3 DEF SlotAt
<1>5. \A b \in Slots : {f \in FramesOf(st) : st[f[1]][f[2]].m = b}
                       = {f \in Thread \X Place : UserAt(st[f[1]], f[2]) = b}
  BY <1>2, <1>3 DEF UserAt
<1>6. {f \in FramesOf(st) : st[f[1]][f[2]].fn = "NxcFlushBlock"}
        = {f \in Thread \X Place : WriteAt(st[f[1]], f[2])}
  BY <1>2 DEF WriteAt
<1> QED
  BY <1>4, <1>5, <1>6

\* A finite set of which one member may go and may come counts accordingly.
LEMMA OneMoved ==
    ASSUME NEW S, IsFiniteSet(S), NEW T, NEW x, S \ {x} = T \ {x}
    PROVE  /\ IsFiniteSet(T)
           /\ Cardinality(T) = Cardinality(S) - Bit(x \in S) + Bit(x \in T)
<1>1. Cardinality(S) \in Nat
  BY FS_CardinalityType
<1> DEFINE R == S \ {x}
<1>2. IsFiniteSet(R) /\ Cardinality(R) = Cardinality(S) - Bit(x \in S)
  BY <1>1, FS_RemoveElement DEF Bit
<1>3. x \notin R
  OBVIOUS
<1>4. CASE x \in T
  <2>1. T = R \cup {x}
    BY <1>4
  <2>2. IsFiniteSet(R \cup {x}) /\ Cardinality(R \cup {x}) = Cardinality(R) + 1
    <3> HIDE DEF R
    <3> QED
      BY <1>2, <1>3, FS_AddElement
  <2>3. Bit(x \in T) = 1
    BY <1>4 DEF Bit
  <2> QED
    BY <1>2, <2>1, <2>2, <2>3
<1>5. CASE x \notin T
  <2>1. T = R
    BY <1>5
  <2>2. Bit(x \in T) = 0
    BY <1>5 DEF Bit
  <2>3. Cardinality(S) - Bit(x \in S) \in Int
    BY <1>1 DEF Bit
  <2> QED
    BY <1>2, <2>1, <2>2, <2>3
<1> QED
  BY <1>4, <1>5

\* The stack of t changes at place p in the slot it transfers, at q in the
\* slot it uses and at w in whether it is a write-back; reference counts, busy
\* marks and the depth change with it.
CountsMove(t, s, p, q, w) ==
  /\ \A i \in Place : i # p => SlotAt(s, i) = SlotAt(stack[t], i)
  /\ \A i \in Place : i # q => UserAt(s, i) = UserAt(stack[t], i)
  /\ \A i \in Place : i # w => WriteAt(s, i) = WriteAt(stack[t], i)
  /\ \A b \in Slots :
       /\ block'[b].ref = block[b].ref
                            - Bit(SlotAt(stack[t], p) = b) + Bit(SlotAt(s, p) = b)
                            - Bit(UserAt(stack[t], q) = b) + Bit(UserAt(s, q) = b)
       /\ Bit(block'[b].busy) = Bit(block[b].busy)
                                  - Bit(SlotAt(stack[t], p) = b) + Bit(SlotAt(s, p) = b)
  /\ depth' = depth - Bit(WriteAt(stack[t], w)) + Bit(WriteAt(s, w))

\* Reference counts that move with the frames stay exact.
LEMMA CountsKept ==
    ASSUME Counted, stack \in [Thread -> Seq(FrameType)], NEW t \in Thread, NEW s \in Seq(FrameType),
           stack' = [stack EXCEPT ![t] = s], block \in [Slots -> BlockType], depth \in Int,
           NEW p \in Place, NEW q \in Place, NEW w \in Place, CountsMove(t, s, p, q, w)
    PROVE  Counted'
<1>1. stack' \in [Thread -> Seq(FrameType)] /\ stack'[t] = s /\ \A u \in Thread \ {t} : stack'[u] = stack[u]
  OBVIOUS
<1>2. /\ \A b \in Slots : TransfersOf(b) = {f \in Thread \X Place : SlotAt(stack[f[1]], f[2]) = b}
      /\ \A b \in Slots : UsersOf(b) = {f \in Thread \X Place : UserAt(stack[f[1]], f[2]) = b}
      /\ Writes = {f \in Thread \X Place : WriteAt(stack[f[1]], f[2])}
  BY FramesByPlace, Zenon DEF TransfersOf, UsersOf, Writes, Frames, FramesOf, At
<1>3. /\ \A b \in Slots : TransfersOf(b)' = {f \in Thread \X Place : SlotAt(stack'[f[1]], f[2]) = b}
      /\ \A b \in Slots : UsersOf(b)' = {f \in Thread \X Place : UserAt(stack'[f[1]], f[2]) = b}
      /\ Writes' = {f \in Thread \X Place : WriteAt(stack'[f[1]], f[2])}
  BY <1>1, FramesByPlace, Zenon DEF TransfersOf, UsersOf, Writes, Frames, FramesOf, At
<1>4. ASSUME NEW b \in Slots
      PROVE  /\ IsFiniteSet(TransfersOf(b)')
             /\ Cardinality(TransfersOf(b)') = Cardinality(TransfersOf(b))
                  - Bit(SlotAt(stack[t], p) = b) + Bit(SlotAt(s, p) = b)
  <2>1. IsFiniteSet(TransfersOf(b))
    BY DEF Counted
  <2>2. <<t, p>> \in TransfersOf(b) <=> SlotAt(stack[t], p) = b
    BY <1>2
  <2>3. <<t, p>> \in TransfersOf(b)' <=> SlotAt(s, p) = b
    BY <1>1, <1>3
  <2>4. TransfersOf(b) \ {<<t, p>>} = TransfersOf(b)' \ {<<t, p>>}
    <3>1. \A f \in Thread \X Place : f # <<t, p>> => SlotAt(stack[f[1]], f[2]) = SlotAt(stack'[f[1]], f[2])
      BY <1>1 DEF CountsMove
    <3> QED
      BY <1>2, <1>3, <3>1
  <2>5. Bit(<<t, p>> \in TransfersOf(b)) = Bit(SlotAt(stack[t], p) = b)
    BY <2>2 DEF Bit
  <2>6. Bit(<<t, p>> \in TransfersOf(b)') = Bit(SlotAt(s, p) = b)
    BY <2>3 DEF Bit
  <2>7. PICK S, T : S = TransfersOf(b) /\ T = TransfersOf(b)'
    OBVIOUS
  <2>8. IsFiniteSet(T) /\ Cardinality(T) = Cardinality(S) - Bit(<<t, p>> \in S) + Bit(<<t, p>> \in T)
    BY <2>1, <2>4, <2>7, OneMoved
  <2> QED
    BY <2>5, <2>6, <2>7, <2>8
<1>5. ASSUME NEW b \in Slots
      PROVE  /\ IsFiniteSet(UsersOf(b)')
             /\ Cardinality(UsersOf(b)') = Cardinality(UsersOf(b))
                  - Bit(UserAt(stack[t], q) = b) + Bit(UserAt(s, q) = b)
  <2>1. IsFiniteSet(UsersOf(b))
    BY DEF Counted
  <2>2. <<t, q>> \in UsersOf(b) <=> UserAt(stack[t], q) = b
    BY <1>2
  <2>3. <<t, q>> \in UsersOf(b)' <=> UserAt(s, q) = b
    BY <1>1, <1>3
  <2>4. UsersOf(b) \ {<<t, q>>} = UsersOf(b)' \ {<<t, q>>}
    <3>1. \A f \in Thread \X Place : f # <<t, q>> => UserAt(stack[f[1]], f[2]) = UserAt(stack'[f[1]], f[2])
      BY <1>1 DEF CountsMove
    <3> QED
      BY <1>2, <1>3, <3>1
  <2>5. Bit(<<t, q>> \in UsersOf(b)) = Bit(UserAt(stack[t], q) = b)
    BY <2>2 DEF Bit
  <2>6. Bit(<<t, q>> \in UsersOf(b)') = Bit(UserAt(s, q) = b)
    BY <2>3 DEF Bit
  <2>7. PICK S, T : S = UsersOf(b) /\ T = UsersOf(b)'
    OBVIOUS
  <2>8. IsFiniteSet(T) /\ Cardinality(T) = Cardinality(S) - Bit(<<t, q>> \in S) + Bit(<<t, q>> \in T)
    BY <2>1, <2>4, <2>7, OneMoved
  <2> QED
    BY <2>5, <2>6, <2>7, <2>8
<1>6. /\ IsFiniteSet(Writes')
      /\ Cardinality(Writes') = Cardinality(Writes) - Bit(WriteAt(stack[t], w)) + Bit(WriteAt(s, w))
  <2>1. IsFiniteSet(Writes)
    BY DEF Counted, Writes
  <2>2. <<t, w>> \in Writes <=> WriteAt(stack[t], w)
    BY <1>2
  <2>3. <<t, w>> \in Writes' <=> WriteAt(s, w)
    BY <1>1, <1>3
  <2>4. Writes \ {<<t, w>>} = Writes' \ {<<t, w>>}
    <3>1. \A f \in Thread \X Place : f # <<t, w>> => WriteAt(stack[f[1]], f[2]) = WriteAt(stack'[f[1]], f[2])
      BY <1>1 DEF CountsMove
    <3> QED
      BY <1>2, <1>3, <3>1
  <2>5. Bit(<<t, w>> \in Writes) = Bit(WriteAt(stack[t], w))
    BY <2>2 DEF Bit
  <2>6. Bit(<<t, w>> \in Writes') = Bit(WriteAt(s, w))
    BY <2>3 DEF Bit
  <2>7. PICK S, T : S = Writes /\ T = Writes'
    OBVIOUS
  <2>8. IsFiniteSet(T) /\ Cardinality(T) = Cardinality(S) - Bit(<<t, w>> \in S) + Bit(<<t, w>> \in T)
    BY <2>1, <2>4, <2>7, OneMoved
  <2> QED
    BY <2>5, <2>6, <2>7, <2>8
<1>7. ASSUME NEW b \in Slots
      PROVE  /\ block'[b].ref = Cardinality(TransfersOf(b)') + Cardinality(UsersOf(b)')
             /\ Cardinality(TransfersOf(b)') = IF block'[b].busy THEN 1 ELSE 0
  <2>1. /\ block[b].ref = Cardinality(TransfersOf(b)) + Cardinality(UsersOf(b))
        /\ Cardinality(TransfersOf(b)) = Bit(block[b].busy)
    BY DEF Counted, RefsExact, Bit
  <2>2. Cardinality(TransfersOf(b)) \in Nat /\ Cardinality(UsersOf(b)) \in Nat
    BY FS_CardinalityType DEF Counted
  <2>3. /\ Bit(SlotAt(stack[t], p) = b) \in Int /\ Bit(SlotAt(s, p) = b) \in Int
        /\ Bit(UserAt(stack[t], q) = b) \in Int /\ Bit(UserAt(s, q) = b) \in Int
    BY DEF Bit
  <2>4. block'[b].ref = Cardinality(TransfersOf(b)') + Cardinality(UsersOf(b)')
    BY <1>4, <1>5, <2>1, <2>2, <2>3 DEF CountsMove
  <2>5. Cardinality(TransfersOf(b)') = Bit(block'[b].busy)
    BY <1>4, <2>1 DEF CountsMove
  <2> QED
    BY <2>4, <2>5 DEF Bit
<1>8. depth' = Cardinality(Writes')
  BY <1>6 DEF CountsMove, Counted, RefsExact, Writes
<1>9. RefsExact'
  BY <1>7, <1>8, Zenon DEF RefsExact, Writes
<1> QED
  BY <1>4, <1>5, <1>6, <1>9, Zenon DEF Counted, Writes

-------------------------------------------------------------------------------
(* Stacks *)

\* r is the stack s with its top frame replaced by the frames fs.
IsReplaced(s, fs, r) ==
  /\ DOMAIN s = 1 .. Len(s)
  /\ r \in Seq(FrameType) /\ Len(r) = Len(s) - 1 + Len(fs) /\ DOMAIN r = 1 .. Len(r)
  /\ \A i \in 1 .. Len(s) - 1 : r[i] = s[i]
  /\ \A j \in 1 .. Len(fs) : r[Len(s) - 1 + j] = fs[j]

\* What Replace does to a stack.
LEMMA Replaced ==
    ASSUME NEW s \in Seq(FrameType), Len(s) \in Place, NEW fs \in Seq(FrameType), NEW r, r = Front(s) \o fs
    PROVE  IsReplaced(s, fs, r)
<1>1. Len(s) \in Place /\ DOMAIN s = 1 .. Len(s)
  OBVIOUS
<1>2. PICK q : q = SubSeq(s, 1, Len(s) - 1)
  OBVIOUS
<1>3. r = q \o fs
  BY <1>2, Zenon DEF Front
<1>4. q \in Seq(FrameType) /\ Len(q) = Len(s) - 1 /\ \A i \in 1 .. Len(s) - 1 : q[i] = s[i]
  <2>1. Len(s) - 1 \in Nat /\ Len(s) - 1 \in Int /\ 1 \in Int
    BY <1>1 DEF Place
  <2>2. \A i \in 1 .. Len(s) - 1 : s[i] \in FrameType
    BY <1>1 DEF Place
  <2>3. /\ SubSeq(s, 1, Len(s) - 1) \in Seq(FrameType)
        /\ Len(SubSeq(s, 1, Len(s) - 1)) = IF 1 <= Len(s) - 1 THEN (Len(s) - 1) - 1 + 1 ELSE 0
        /\ \A i \in 1 .. (Len(s) - 1) - 1 + 1 : SubSeq(s, 1, Len(s) - 1)[i] = s[1 + i - 1]
    BY <2>1, <2>2, SubSeqProperties
  <2>4. q \in Seq(FrameType) /\ Len(q) = Len(s) - 1
    <3>1. PICK n \in Nat : n = Len(s) - 1
      BY <2>1
    <3>2. (IF 1 <= n THEN n - 1 + 1 ELSE 0) = n
      OBVIOUS
    <3> QED
      BY <1>2, <2>3, <3>1, <3>2
  <2>5. ASSUME NEW i \in 1 .. Len(s) - 1 PROVE q[i] = s[i]
    <3>1. i \in 1 .. (Len(s) - 1) - 1 + 1 /\ 1 + i - 1 = i
      BY <2>1
    <3> QED
      BY <1>2, <2>3, <3>1
  <2> QED
    BY <2>4, <2>5
<1>5. /\ r \in Seq(FrameType) /\ Len(r) = Len(q) + Len(fs)
      /\ \A i \in 1 .. Len(q) + Len(fs) : r[i] = IF i <= Len(q) THEN q[i] ELSE fs[i - Len(q)]
  BY <1>3, <1>4, ConcatProperties
<1>6. Len(fs) \in Nat
  OBVIOUS
<1>7. DOMAIN r = 1 .. Len(r)
  BY <1>5
<1>8. \A i \in 1 .. Len(s) - 1 : r[i] = s[i]
  <2>1. SUFFICES ASSUME NEW i \in 1 .. Len(s) - 1 PROVE r[i] = s[i]
    OBVIOUS
  <2>2. i \in 1 .. Len(q) + Len(fs) /\ i <= Len(q)
    BY <1>1, <1>4, <1>6 DEF Place, IsReplaced
  <2> QED
    BY <1>4, <1>5, <2>2
<1>9. \A j \in 1 .. Len(fs) : r[Len(s) - 1 + j] = fs[j]
  BY <1>1, <1>4, <1>5, <1>6 DEF Place, IsReplaced
<1> QED
  BY <1>1, <1>4, <1>5, <1>7, <1>8, <1>9 DEF IsReplaced

\* The same, spelt out for none, one, two and three frames.
TopNone(s, r) ==
  /\ r \in Seq(FrameType) /\ Len(r) = Len(s) - 1 /\ DOMAIN r = 1 .. Len(s) - 1
  /\ Len(s) \in Place /\ DOMAIN s = 1 .. Len(s)
  /\ \A i \in 1 .. Len(s) - 1 : r[i] = s[i]
TopOne(s, f, r) ==
  /\ r \in Seq(FrameType) /\ Len(r) = Len(s) /\ DOMAIN r = 1 .. Len(s)
  /\ Len(s) \in Place /\ DOMAIN s = 1 .. Len(s)
  /\ (\A i \in 1 .. Len(s) - 1 : r[i] = s[i]) /\ r[Len(s)] = f
TopTwo(s, f, g, r) ==
  /\ r \in Seq(FrameType) /\ Len(r) = Len(s) + 1 /\ DOMAIN r = 1 .. Len(s) + 1
  /\ Len(s) \in Place /\ DOMAIN s = 1 .. Len(s)
  /\ (\A i \in 1 .. Len(s) - 1 : r[i] = s[i]) /\ r[Len(s)] = f /\ r[Len(s) + 1] = g
TopThree(s, f, g, h, r) ==
  /\ r \in Seq(FrameType) /\ Len(r) = Len(s) + 2 /\ DOMAIN r = 1 .. Len(s) + 2
  /\ Len(s) \in Place /\ DOMAIN s = 1 .. Len(s)
  /\ (\A i \in 1 .. Len(s) - 1 : r[i] = s[i]) /\ r[Len(s)] = f
  /\ r[Len(s) + 1] = g /\ r[Len(s) + 2] = h

\* Replace by one frame,
LEMMA ReplacedByOne ==
    ASSUME NEW s \in Seq(FrameType), Len(s) \in Place, NEW f \in FrameType, NEW r, r = Front(s) \o <<f>>
    PROVE  TopOne(s, f, r)
<1>1. PICK fs : fs = <<f>>
  OBVIOUS
<1>2. fs \in Seq(FrameType) /\ Len(fs) = 1 /\ fs[1] = f
  BY <1>1
<1>3. r = Front(s) \o fs
  BY <1>1
<1>4. IsReplaced(s, fs, r)
  BY <1>2, <1>3, Replaced
<1>5. r[Len(s) - 1 + 1] = f /\ Len(s) - 1 + 1 = Len(s)
  <2>1. 1 \in 1 .. Len(fs)
    BY <1>2
  <2> QED
    BY <1>2, <1>4, <2>1 DEF Place, IsReplaced
<1> QED
  BY <1>2, <1>4, <1>5 DEF IsReplaced, TopOne

\* by two,
LEMMA ReplacedByTwo ==
    ASSUME NEW s \in Seq(FrameType), Len(s) \in Place, NEW f \in FrameType, NEW g \in FrameType,
           NEW r, r = Front(s) \o <<f, g>>
    PROVE  TopTwo(s, f, g, r)
<1>1. PICK fs : fs = <<f, g>>
  OBVIOUS
<1>2. fs \in Seq(FrameType) /\ Len(fs) = 2 /\ fs[1] = f /\ fs[2] = g
  BY <1>1
<1>3. r = Front(s) \o fs
  BY <1>1
<1>4. IsReplaced(s, fs, r)
  BY <1>2, <1>3, Replaced
<1>5. r[Len(s) - 1 + 1] = f /\ r[Len(s) - 1 + 2] = g
  <2>1. 1 \in 1 .. Len(fs) /\ 2 \in 1 .. Len(fs)
    BY <1>2
  <2> QED
    BY <1>2, <1>4, <2>1 DEF IsReplaced
<1>6. Len(s) - 1 + 1 = Len(s) /\ Len(s) - 1 + 2 = Len(s) + 1
  BY <1>4 DEF Place, IsReplaced
<1> QED
  BY <1>2, <1>4, <1>5, <1>6 DEF IsReplaced, TopTwo

\* by three,
LEMMA ReplacedByThree ==
    ASSUME NEW s \in Seq(FrameType), Len(s) \in Place, NEW f \in FrameType, NEW g \in FrameType,
           NEW h \in FrameType, NEW r, r = Front(s) \o <<f, g, h>>
    PROVE  TopThree(s, f, g, h, r)
<1>1. PICK fs : fs = <<f, g, h>>
  OBVIOUS
<1>2. fs \in Seq(FrameType) /\ Len(fs) = 3 /\ fs[1] = f /\ fs[2] = g /\ fs[3] = h
  BY <1>1
<1>3. r = Front(s) \o fs
  BY <1>1
<1>4. IsReplaced(s, fs, r)
  BY <1>2, <1>3, Replaced
<1>5. r[Len(s) - 1 + 1] = f /\ r[Len(s) - 1 + 2] = g /\ r[Len(s) - 1 + 3] = h
  BY <1>2, <1>4 DEF IsReplaced
<1>6. Len(s) - 1 + 1 = Len(s) /\ Len(s) - 1 + 2 = Len(s) + 1 /\ Len(s) - 1 + 3 = Len(s) + 2
  BY <1>4 DEF Place, IsReplaced
<1> QED
  BY <1>2, <1>4, <1>5, <1>6 DEF IsReplaced, TopThree

\* and by none.
LEMMA ReplacedByNone ==
    ASSUME NEW s \in Seq(FrameType), Len(s) \in Place, NEW r, r = Front(s) \o <<>>
    PROVE  TopNone(s, r)
<1>1. PICK fs : fs = <<>>
  OBVIOUS
<1>2. fs \in Seq(FrameType) /\ Len(fs) = 0
  BY <1>1
<1>3. r = Front(s) \o fs
  BY <1>1
<1>4. IsReplaced(s, fs, r)
  BY <1>2, <1>3, Replaced
<1>5. Len(s) - 1 + 0 = Len(s) - 1
  BY <1>4 DEF Place, IsReplaced
<1> QED
  BY <1>2, <1>4, <1>5 DEF IsReplaced, TopNone

\* Only an entry point is at the bottom of a stack, and none is above it.
LEMMA AboveBottom ==
    ASSUME NEW s \in Seq(FrameType), Shaped(s), NEW i \in DOMAIN s, i > 1
    PROVE  /\ i - 1 \in DOMAIN s /\ Waits(s[i - 1], s[i])
           /\ s[i].fn \in {"NxcGetBlock", "NxcFlushMap", "NxcFlushBlock"}
<1>1. Waits(s[i - 1], s[i])
  BY DEF Shaped
<1>2. i - 1 \in DOMAIN s
  OBVIOUS
<1> QED
  BY <1>1, <1>2 DEF Waits

\* A frame that stands where f stood, for the same call.
InPlaceOf(g, f) == g.fn = f.fn /\ g.ks = f.ks /\ (g.fn = "NxcFlushMap" => g.pc = f.pc)

\* What is below a frame waits for one that takes its place, too.
LEMMA WaitsStill ==
    ASSUME NEW e, NEW f, NEW g, Waits(e, f), InPlaceOf(g, f)
    PROVE  Waits(e, g)
BY DEF Waits, InPlaceOf

\* The top frame goes on.
LEMMA TopSet ==
    ASSUME NEW s \in Seq(FrameType), Shaped(s), Len(s) \in Place, NEW f \in FrameType,
           Formed(f), Running(f), InPlaceOf(f, s[Len(s)]), NEW r, r = Front(s) \o <<f>>
    PROVE  Shaped(r)
<1>1. /\ r \in Seq(FrameType) /\ Len(r) = Len(s) /\ DOMAIN r = 1 .. Len(s)
      /\ Len(s) \in Place /\ DOMAIN s = 1 .. Len(s)
      /\ (\A i \in 1 .. Len(s) - 1 : r[i] = s[i]) /\ r[Len(s)] = f
  <2>1. TopOne(s, f, r)
    BY ReplacedByOne
  <2> QED
    BY <2>1 DEF TopOne
<1>2. ASSUME NEW i \in DOMAIN s, i # Len(s) PROVE r[i] = s[i]
  <2>1. i \in 1 .. Len(s) - 1
    BY <1>1, <1>2 DEF Place
  <2> QED
    BY <1>1, <2>1
<1>3. \A i \in DOMAIN r : Formed(r[i])
  BY <1>1, <1>2 DEF Shaped
<1>4. s[1].fn \in EntryFns /\ 1 \in DOMAIN s /\ Len(s) \in DOMAIN s
  <2>1. s # <<>>
    BY DEF Place
  <2> QED
    BY <1>1, <2>1 DEF Shaped, Place
<1>5. r[1].fn \in EntryFns
  BY <1>1, <1>2, <1>4 DEF InPlaceOf
<1>6. ASSUME NEW i \in DOMAIN r, i > 1 PROVE Waits(r[i - 1], r[i])
  <2>1. i \in DOMAIN s /\ i - 1 \in DOMAIN s /\ i - 1 # Len(s)
    BY <1>1, <1>6 DEF Place
  <2>2. Waits(s[i - 1], s[i]) /\ r[i - 1] = s[i - 1]
    BY <1>2, <1>6, <2>1, AboveBottom
  <2>3. CASE i = Len(s)
    BY <1>1, <2>2, <2>3, WaitsStill
  <2>4. CASE i # Len(s)
    BY <1>2, <2>1, <2>2, <2>4
  <2> QED
    BY <2>3, <2>4
<1> QED
  BY <1>1, <1>3, <1>5, <1>6 DEF Shaped

\* The top frame calls.
LEMMA TopCalls ==
    ASSUME NEW s \in Seq(FrameType), Shaped(s), Len(s) \in Place,
           NEW f \in FrameType, NEW g \in FrameType, Formed(f), InPlaceOf(f, s[Len(s)]),
           Formed(g), Running(g), Waits(f, g), NEW r, r = Front(s) \o <<f, g>>
    PROVE  Shaped(r)
<1>1. /\ r \in Seq(FrameType) /\ Len(r) = Len(s) + 1 /\ DOMAIN r = 1 .. Len(s) + 1
      /\ Len(s) \in Place /\ DOMAIN s = 1 .. Len(s)
      /\ (\A i \in 1 .. Len(s) - 1 : r[i] = s[i]) /\ r[Len(s)] = f /\ r[Len(s) + 1] = g
  <2>1. TopTwo(s, f, g, r)
    BY ReplacedByTwo
  <2> QED
    BY <2>1 DEF TopTwo
<1>2. ASSUME NEW i \in DOMAIN s, i # Len(s) PROVE r[i] = s[i]
  <2>1. i \in 1 .. Len(s) - 1
    BY <1>1, <1>2 DEF Place
  <2> QED
    BY <1>1, <2>1
<1>3. ASSUME NEW i \in DOMAIN r PROVE Formed(r[i])
  <2>1. i \in DOMAIN s \/ i = Len(s) + 1
    BY <1>1 DEF Place
  <2> QED
    BY <1>1, <1>2, <2>1 DEF Shaped
<1>4. s[1].fn \in EntryFns /\ 1 \in DOMAIN s
  <2>1. s # <<>>
    BY DEF Place
  <2> QED
    BY <1>1, <2>1 DEF Shaped, Place
<1>5. r[1].fn \in EntryFns
  BY <1>1, <1>2, <1>4 DEF InPlaceOf
<1>6. ASSUME NEW i \in DOMAIN r, i > 1 PROVE Waits(r[i - 1], r[i])
  <2>1. CASE i = Len(s) + 1
    <3>1. i - 1 = Len(s)
      BY <1>1, <2>1 DEF Place
    <3> QED
      BY <1>1, <2>1, <3>1
  <2>2. CASE i # Len(s) + 1
    <3>1. i \in DOMAIN s /\ i - 1 \in DOMAIN s /\ i - 1 # Len(s)
      BY <1>1, <1>6, <2>2 DEF Place
    <3>2. Waits(s[i - 1], s[i]) /\ r[i - 1] = s[i - 1]
      BY <1>2, <1>6, <3>1, AboveBottom
    <3>3. CASE i = Len(s)
      BY <1>1, <3>2, <3>3, WaitsStill
    <3>4. CASE i # Len(s)
      BY <1>2, <3>1, <3>2, <3>4
    <3> QED
      BY <3>3, <3>4
  <2> QED
    BY <2>1, <2>2
<1> QED
  BY <1>1, <1>3, <1>5, <1>6 DEF Shaped

\* The top frame calls, and what it called calls in turn.
LEMMA TopCallsTwice ==
    ASSUME NEW s \in Seq(FrameType), Shaped(s), Len(s) \in Place,
           NEW f \in FrameType, NEW g \in FrameType, NEW h \in FrameType,
           Formed(f), InPlaceOf(f, s[Len(s)]), Formed(g), Waits(f, g),
           Formed(h), Running(h), Waits(g, h), NEW r, r = Front(s) \o <<f, g, h>>
    PROVE  Shaped(r)
<1>1. /\ r \in Seq(FrameType) /\ Len(r) = Len(s) + 2 /\ DOMAIN r = 1 .. Len(s) + 2
      /\ Len(s) \in Place /\ DOMAIN s = 1 .. Len(s)
      /\ (\A i \in 1 .. Len(s) - 1 : r[i] = s[i]) /\ r[Len(s)] = f
      /\ r[Len(s) + 1] = g /\ r[Len(s) + 2] = h
  <2>1. TopThree(s, f, g, h, r)
    BY ReplacedByThree
  <2> QED
    BY <2>1 DEF TopThree
<1>2. ASSUME NEW i \in DOMAIN s, i # Len(s) PROVE r[i] = s[i]
  <2>1. i \in 1 .. Len(s) - 1
    BY <1>1, <1>2 DEF Place
  <2> QED
    BY <1>1, <2>1
<1>3. ASSUME NEW i \in DOMAIN r PROVE Formed(r[i])
  <2>1. i \in DOMAIN s \/ i = Len(s) + 1 \/ i = Len(s) + 2
    BY <1>1 DEF Place
  <2> QED
    BY <1>1, <1>2, <2>1 DEF Shaped
<1>4. s[1].fn \in EntryFns /\ 1 \in DOMAIN s
  <2>1. s # <<>>
    BY DEF Place
  <2> QED
    BY <1>1, <2>1 DEF Shaped, Place
<1>5. r[1].fn \in EntryFns
  BY <1>1, <1>2, <1>4 DEF InPlaceOf
<1>6. ASSUME NEW i \in DOMAIN r, i > 1 PROVE Waits(r[i - 1], r[i])
  <2>1. CASE i = Len(s) + 1
    <3>1. i - 1 = Len(s)
      BY <1>1, <2>1 DEF Place
    <3> QED
      BY <1>1, <2>1, <3>1
  <2>2. CASE i = Len(s) + 2
    <3>1. i - 1 = Len(s) + 1
      BY <1>1, <2>2 DEF Place
    <3> QED
      BY <1>1, <2>2, <3>1
  <2>3. CASE i # Len(s) + 1 /\ i # Len(s) + 2
    <3>1. i \in DOMAIN s /\ i - 1 \in DOMAIN s /\ i - 1 # Len(s)
      BY <1>1, <1>6, <2>3 DEF Place
    <3>2. Waits(s[i - 1], s[i]) /\ r[i - 1] = s[i - 1]
      BY <1>2, <1>6, <3>1, AboveBottom
    <3>3. CASE i = Len(s)
      BY <1>1, <3>2, <3>3, WaitsStill
    <3>4. CASE i # Len(s)
      BY <1>2, <3>1, <3>2, <3>4
    <3> QED
      BY <3>3, <3>4
  <2> QED
    BY <2>1, <2>2, <2>3
<1> QED
  BY <1>1, <1>3, <1>5, <1>6 DEF Shaped

\* The top frame goes: the one below runs.
LEMMA TopGoes ==
    ASSUME NEW s \in Seq(FrameType), Shaped(s), Len(s) \in Place,
           Len(s) > 1 => Running(s[Len(s) - 1]), NEW r, r = Front(s) \o <<>>
    PROVE  Shaped(r)
<1>1. /\ r \in Seq(FrameType) /\ Len(r) = Len(s) - 1 /\ DOMAIN r = 1 .. Len(s) - 1
      /\ Len(s) \in Place /\ DOMAIN s = 1 .. Len(s)
      /\ \A i \in 1 .. Len(s) - 1 : r[i] = s[i]
  <2>1. TopNone(s, r)
    BY ReplacedByNone
  <2> QED
    BY <2>1 DEF TopNone
<1>2. \A i \in DOMAIN r : i \in DOMAIN s /\ r[i] = s[i]
  BY <1>1 DEF Place
<1>3. \A i \in DOMAIN r : Formed(r[i])
  BY <1>2 DEF Shaped
<1>4. ASSUME r # <<>> PROVE r[1].fn \in EntryFns /\ Running(r[Len(r)])
  <2>1. Len(r) # 0
    BY <1>1, <1>4, EmptySeq
  <2>2. Len(s) > 1 /\ 1 \in DOMAIN r /\ Len(r) \in DOMAIN r /\ s # <<>>
    BY <1>1, <2>1 DEF Place
  <2> QED
    BY <1>1, <1>2, <2>2 DEF Shaped
<1>5. ASSUME NEW i \in DOMAIN r, i > 1 PROVE Waits(r[i - 1], r[i])
  <2>1. i - 1 \in DOMAIN r
    BY <1>1, <1>5 DEF Place
  <2> QED
    BY <1>2, <1>5, <2>1 DEF Shaped
<1> QED
  BY <1>3, <1>4, <1>5 DEF Shaped

\* r is the stack s after its top frame has returned the block m, or failed.
TopBack(s, m, ok, r) ==
  /\ r \in Seq(FrameType) /\ Len(r) = Len(s) - 1 /\ DOMAIN r = 1 .. Len(s) - 1
  /\ Len(s) \in Place /\ DOMAIN s = 1 .. Len(s) /\ Len(s) - 1 \in DOMAIN s
  /\ (\A i \in 1 .. Len(s) - 2 : r[i] = s[i])
  /\ r[Len(s) - 1] = [s[Len(s) - 1] EXCEPT !.m = m, !.ok = ok]

\* What Return does to a stack.
LEMMA Returned ==
    ASSUME NEW s \in Seq(FrameType), Len(s) \in Place, Len(s) > 1,
           NEW m \in Slots \cup {NoSlot}, NEW ok \in BOOLEAN,
           NEW q, q = Front(s), NEW r, r = [q EXCEPT ![Len(q)].m = m, ![Len(q)].ok = ok]
    PROVE  TopBack(s, m, ok, r)
<1>1. /\ q \in Seq(FrameType) /\ Len(q) = Len(s) - 1 /\ DOMAIN q = 1 .. Len(s) - 1
      /\ DOMAIN s = 1 .. Len(s) /\ \A i \in 1 .. Len(s) - 1 : q[i] = s[i]
  <2>1. q \o <<>> = q
    <3>1. q = SubSeq(s, 1, Len(s) - 1)
      BY Zenon DEF Front
    <3>2. \A i \in 1 .. Len(s) - 1 : s[i] \in FrameType
      BY DEF Place
    <3>3. Len(s) - 1 \in Int
      BY DEF Place
    <3>4. q \in Seq(FrameType)
      BY <3>1, <3>2, <3>3, SubSeqProperties
    <3> QED
      BY <3>4, ConcatEmptySeq
  <2>2. q = Front(s) \o <<>>
    BY <2>1
  <2>3. TopNone(s, q)
    BY <2>2, ReplacedByNone
  <2> QED
    BY <2>3 DEF TopNone
<1>2. Len(q) \in DOMAIN q
  BY <1>1 DEF Place
<1> DEFINE e == [q[Len(q)] EXCEPT !.m = m, !.ok = ok]
<1>3. e \in FrameType
  <2>1. q[Len(q)] \in FrameType
    BY <1>1, <1>2
  <2> QED
    BY <2>1 DEF FrameType
<1>4. r = [q EXCEPT ![Len(q)] = e]
  BY <1>1, <1>2
<1>5. /\ r \in Seq(FrameType) /\ Len(r) = Len(q)
      /\ \A j \in 1 .. Len(q) : r[j] = IF j = Len(q) THEN e ELSE q[j]
  <2> HIDE DEF e
  <2>1. Len(q) \in 1 .. Len(q)
    BY <1>1, <1>2
  <2> QED
    BY <1>1, <1>3, <1>4, <2>1, ExceptSeq
<1>6. \A i \in 1 .. Len(s) - 2 : r[i] = s[i]
  <2>1. SUFFICES ASSUME NEW i \in 1 .. Len(s) - 2 PROVE r[i] = s[i]
    OBVIOUS
  <2>2. i \in 1 .. Len(q) /\ i # Len(q) /\ i \in 1 .. Len(s) - 1
    BY <1>1 DEF Place
  <2> QED
    BY <1>1, <1>5, <2>2
<1>7. r[Len(s) - 1] = e /\ q[Len(q)] = s[Len(s) - 1]
  BY <1>1, <1>2, <1>5
<1>8. DOMAIN r = 1 .. Len(s) - 1
  BY <1>1, <1>5
<1>9. Len(s) - 1 \in DOMAIN s
  BY <1>1 DEF Place
<1> QED
  BY <1>1, <1>5, <1>6, <1>7, <1>8, <1>9 DEF TopBack

\* A block got, or a read failed below another transfer: the frame that asked
\* for it runs.
LEMMA TopReturns ==
    ASSUME NEW s \in Seq(FrameType), Shaped(s), Len(s) \in Place, Len(s) > 1,
           s[Len(s)].fn = "NxcGetBlock", NEW m \in Slots \cup {NoSlot}, NEW ok \in BOOLEAN,
           \/ m \in Slots /\ ok = TRUE
           \/ m = NoSlot /\ ok = FALSE /\ Len(s) # 2,
           NEW r, TopBack(s, m, ok, r)
    PROVE  /\ Shaped(r)
           /\ s[Len(s) - 1].fn \in CopyFns \cup {"CcPinRead"} \cup Transfers
           /\ s[Len(s) - 1].m = NoSlot
           /\ s[Len(s) - 1].fn \notin CopyFns => s[Len(s)].ks \subseteq Fat
<1>1. /\ r \in Seq(FrameType) /\ Len(r) = Len(s) - 1 /\ DOMAIN r = 1 .. Len(s) - 1
      /\ Len(s) \in Place /\ DOMAIN s = 1 .. Len(s) /\ Len(s) - 1 \in DOMAIN s
      /\ (\A i \in 1 .. Len(s) - 2 : r[i] = s[i])
      /\ r[Len(s) - 1] = [s[Len(s) - 1] EXCEPT !.m = m, !.ok = ok]
  BY DEF TopBack
<1>2. PICK e \in FrameType : e = s[Len(s) - 1]
  BY <1>1
<1>3. PICK f \in FrameType : f = r[Len(s) - 1]
  BY <1>1
<1>4. /\ f.fn = e.fn /\ f.pc = e.pc /\ f.ks = e.ks /\ f.todo = e.todo /\ f.b = e.b
      /\ f.m = m /\ f.ok = ok
  BY <1>1, <1>2, <1>3 DEF FrameType
<1>5. Waits(e, s[Len(s)]) /\ Formed(e)
  BY <1>1, <1>2, AboveBottom DEF Shaped, Place
<1>6. /\ e.m = NoSlot
      /\ \/ e.fn \in CopyFns /\ e.todo # {}
         \/ e.fn = "CcPinRead" /\ s[Len(s)].ks \subseteq Fat
         \/ e.fn \in Transfers /\ e.pc = "mapped" /\ s[Len(s)].ks \subseteq Fat
  BY <1>5 DEF Waits
<1>7. e.fn \in CopyFns \cup {"CcPinRead"} => Len(s) = 2
  <2>1. SUFFICES ASSUME e.fn \in CopyFns \cup {"CcPinRead"}, Len(s) # 2 PROVE FALSE
    OBVIOUS
  <2>2. Len(s) - 1 > 1
    <3>1. PICK n \in Nat : n = Len(s)
      BY DEF Place
    <3>2. n > 1 /\ n # 2
      BY <2>1, <3>1
    <3>3. n - 1 > 1
      BY <3>2
    <3> QED
      BY <3>1, <3>3
  <2>3. e.fn \in {"NxcGetBlock", "NxcFlushMap", "NxcFlushBlock"}
    BY <1>1, <1>2, <2>2, AboveBottom
  <2> QED
    BY <2>1, <2>3 DEF CopyFns
<1>8. Formed(f)
  <2>1. e.fn \in CopyFns \cup {"CcPinRead"} \cup Transfers
    BY <1>6
  <2> QED
    BY <1>4, <1>5, <1>6, <2>1 DEF Formed, CopyFns, EntryFns, Transfers
<1>9. Running(f)
  <2>1. NoSlot \notin Slots
    BY SlotFacts
  <2>2. CASE m \in Slots /\ ok = TRUE
    BY <1>4, <1>6, <2>1, <2>2 DEF Running, CopyFns, Transfers
  <2>3. CASE m = NoSlot /\ ok = FALSE /\ Len(s) # 2
    <3>1. e.fn \notin CopyFns \cup {"CcPinRead"}
      BY <1>7, <2>3
    <3> QED
      BY <1>4, <2>3, <3>1 DEF Running
  <2> QED
    BY <2>2, <2>3
<1>10. InPlaceOf(f, e)
  BY <1>4 DEF InPlaceOf
<1>11. \A i \in DOMAIN r : i # Len(s) - 1 => r[i] = s[i] /\ i \in DOMAIN s
  <2>1. SUFFICES ASSUME NEW i \in DOMAIN r, i # Len(s) - 1 PROVE r[i] = s[i] /\ i \in DOMAIN s
    OBVIOUS
  <2>2. i \in 1 .. Len(s) - 2 /\ i \in DOMAIN s
    BY <1>1, <2>1 DEF Place
  <2> QED
    BY <1>1, <2>2
<1>12. \A i \in DOMAIN r : Formed(r[i])
  BY <1>3, <1>8, <1>11 DEF Shaped
<1>13. s[1].fn \in EntryFns /\ 1 \in DOMAIN r /\ Len(r) = Len(s) - 1
  <2>1. s # <<>>
    BY DEF Place
  <2> QED
    BY <1>1, <2>1 DEF Shaped, Place
<1>14. r[1].fn \in EntryFns
  BY <1>2, <1>3, <1>4, <1>11, <1>13
<1>15. ASSUME NEW i \in DOMAIN r, i > 1 PROVE Waits(r[i - 1], r[i])
  <2>1. i \in DOMAIN s /\ i - 1 \in DOMAIN r /\ i - 1 # Len(s) - 1
    BY <1>1, <1>15 DEF Place
  <2>2. Waits(s[i - 1], s[i]) /\ r[i - 1] = s[i - 1]
    BY <1>11, <1>15, <2>1, AboveBottom
  <2>3. CASE i = Len(s) - 1
    BY <1>2, <1>3, <1>10, <2>2, <2>3, WaitsStill
  <2>4. CASE i # Len(s) - 1
    BY <1>11, <2>2, <2>4
  <2> QED
    BY <2>3, <2>4
<1>16. Shaped(r)
  BY <1>3, <1>9, <1>12, <1>13, <1>14, <1>15 DEF Shaped
<1> QED
  BY <1>2, <1>6, <1>16

\* What a frame holds: a slot it transfers, a slot it uses, a write-back.
SlotOf(f)     == IF f.fn \in Transfers THEN f.b ELSE NoSlot
Same(s, r, i) == SlotAt(r, i) = SlotAt(s, i) /\ UserAt(r, i) = UserAt(s, i)
                 /\ WriteAt(r, i) = WriteAt(s, i)
Holds(s, i, f) == SlotAt(s, i) = SlotOf(f) /\ UserAt(s, i) = f.m
                  /\ WriteAt(s, i) = (f.fn = "NxcFlushBlock")
Bare(s, i)    == SlotAt(s, i) = NoSlot /\ UserAt(s, i) = NoSlot /\ WriteAt(s, i) = FALSE

\* A place holds what the frame in it holds, and nothing if there is none.
LEMMA PlaceHolds ==
    ASSUME NEW s, NEW i
    PROVE  /\ i \in DOMAIN s => Holds(s, i, s[i])
           /\ i \notin DOMAIN s => Bare(s, i)
BY DEF Holds, Bare, SlotAt, UserAt, WriteAt, SlotOf

\* Equal frames hold the same.
LEMMA PlaceSame ==
    ASSUME NEW s, NEW r, NEW i,
           \/ i \in DOMAIN s /\ i \in DOMAIN r /\ r[i] = s[i]
           \/ i \notin DOMAIN s /\ i \notin DOMAIN r
    PROVE  Same(s, r, i)
BY DEF Same, SlotAt, UserAt, WriteAt

\* What changes when the top frame goes on,
LEMMA HoldsOne ==
    ASSUME NEW s \in Seq(FrameType), NEW f, NEW r, TopOne(s, f, r)
    PROVE  /\ \A i \in Place : i # Len(s) => Same(s, r, i)
           /\ Holds(r, Len(s), f) /\ Holds(s, Len(s), s[Len(s)])
<1>1. /\ DOMAIN r = 1 .. Len(s) /\ Len(s) \in Place /\ DOMAIN s = 1 .. Len(s)
      /\ (\A i \in 1 .. Len(s) - 1 : r[i] = s[i]) /\ r[Len(s)] = f
  BY DEF TopOne
<1>2. ASSUME NEW i \in Place, i # Len(s) PROVE Same(s, r, i)
  <2>1. \/ i \in 1 .. Len(s) - 1 /\ i \in DOMAIN s /\ i \in DOMAIN r
        \/ i \notin DOMAIN s /\ i \notin DOMAIN r
    <3>1. PICK n \in Nat : n = Len(s)
      BY <1>1 DEF Place
    <3>a. i \in Nat /\ i # 0
      BY DEF Place
    <3>b. i > 0
      BY <3>a
    <3>c. DOMAIN s = 1 .. n /\ DOMAIN r = 1 .. n
      BY <1>1, <3>1, Zenon
    <3>d. i # n
      BY <1>2, <3>1, Zenon
    <3>2. DOMAIN s = 1 .. n /\ DOMAIN r = 1 .. n /\ i \in Nat /\ i > 0 /\ i # n
      BY <3>a, <3>b, <3>c, <3>d
    <3>3. \/ i \in 1 .. n - 1 /\ i \in 1 .. n /\ i \in 1 .. n
          \/ i \notin 1 .. n /\ i \notin 1 .. n
      BY <3>2
    <3> QED
      BY <3>1, <3>2, <3>3
  <2> QED
    BY <1>1, <2>1, PlaceSame
<1>3. Len(s) \in DOMAIN s /\ Len(s) \in DOMAIN r
  BY <1>1 DEF Place
<1>4. Holds(r, Len(s), r[Len(s)]) /\ Holds(s, Len(s), s[Len(s)])
  BY <1>3, PlaceHolds
<1> QED
  BY <1>1, <1>2, <1>4

\* when it goes,
LEMMA HoldsNone ==
    ASSUME NEW s \in Seq(FrameType), NEW r, TopNone(s, r)
    PROVE  /\ \A i \in Place : i # Len(s) => Same(s, r, i)
           /\ Bare(r, Len(s)) /\ Holds(s, Len(s), s[Len(s)])
<1>1. /\ DOMAIN r = 1 .. Len(s) - 1 /\ Len(s) \in Place /\ DOMAIN s = 1 .. Len(s)
      /\ (\A i \in 1 .. Len(s) - 1 : r[i] = s[i])
  BY DEF TopNone
<1>2. ASSUME NEW i \in Place, i # Len(s) PROVE Same(s, r, i)
  <2>1. \/ i \in 1 .. Len(s) - 1 /\ i \in DOMAIN s /\ i \in DOMAIN r
        \/ i \notin DOMAIN s /\ i \notin DOMAIN r
    <3>1. PICK n \in Nat : n = Len(s)
      BY <1>1 DEF Place
    <3>a. i \in Nat /\ i # 0
      BY DEF Place
    <3>b. i > 0
      BY <3>a
    <3>c. DOMAIN s = 1 .. n /\ DOMAIN r = 1 .. n - 1
      BY <1>1, <3>1, Zenon
    <3>d. i # n
      BY <1>2, <3>1, Zenon
    <3>2. DOMAIN s = 1 .. n /\ DOMAIN r = 1 .. n - 1 /\ i \in Nat /\ i > 0 /\ i # n
      BY <3>a, <3>b, <3>c, <3>d
    <3>3. \/ i \in 1 .. n - 1 /\ i \in 1 .. n /\ i \in 1 .. n - 1
          \/ i \notin 1 .. n /\ i \notin 1 .. n - 1
      BY <3>2
    <3> QED
      BY <3>1, <3>2, <3>3
  <2> QED
    BY <1>1, <2>1, PlaceSame
<1>3. Len(s) \in DOMAIN s /\ Len(s) \notin DOMAIN r
  BY <1>1 DEF Place
<1>4. Bare(r, Len(s)) /\ Holds(s, Len(s), s[Len(s)])
  BY <1>3, PlaceHolds
<1> QED
  BY <1>1, <1>2, <1>4

\* when it calls,
LEMMA HoldsTwo ==
    ASSUME NEW s \in Seq(FrameType), NEW f, NEW g, NEW r, TopTwo(s, f, g, r)
    PROVE  /\ \A i \in Place : i # Len(s) /\ i # Len(s) + 1 => Same(s, r, i)
           /\ Holds(r, Len(s), f) /\ Holds(s, Len(s), s[Len(s)])
           /\ Holds(r, Len(s) + 1, g) /\ Bare(s, Len(s) + 1) /\ Len(s) + 1 \in Place
<1>1. /\ DOMAIN r = 1 .. Len(s) + 1 /\ Len(s) \in Place /\ DOMAIN s = 1 .. Len(s)
      /\ (\A i \in 1 .. Len(s) - 1 : r[i] = s[i]) /\ r[Len(s)] = f /\ r[Len(s) + 1] = g
  BY DEF TopTwo
<1>2. ASSUME NEW i \in Place, i # Len(s), i # Len(s) + 1 PROVE Same(s, r, i)
  <2>1. \/ i \in 1 .. Len(s) - 1 /\ i \in DOMAIN s /\ i \in DOMAIN r
        \/ i \notin DOMAIN s /\ i \notin DOMAIN r
    <3>1. PICK n \in Nat : n = Len(s)
      BY <1>1 DEF Place
    <3>a. i \in Nat /\ i # 0
      BY DEF Place
    <3>b. i > 0
      BY <3>a
    <3>c. DOMAIN s = 1 .. n /\ DOMAIN r = 1 .. n + 1
      BY <1>1, <3>1, Zenon
    <3>d. i # n /\ i # n + 1
      BY <1>2, <3>1, Zenon
    <3>2. DOMAIN s = 1 .. n /\ DOMAIN r = 1 .. n + 1 /\ i \in Nat /\ i > 0 /\ i # n /\ i # n + 1
      BY <3>a, <3>b, <3>c, <3>d
    <3>3. \/ i \in 1 .. n - 1 /\ i \in 1 .. n /\ i \in 1 .. n + 1
          \/ i \notin 1 .. n /\ i \notin 1 .. n + 1
      BY <3>2
    <3> QED
      BY <3>1, <3>2, <3>3
  <2> QED
    BY <1>1, <2>1, PlaceSame
<1>3. /\ Len(s) \in DOMAIN s /\ Len(s) \in DOMAIN r
      /\ Len(s) + 1 \notin DOMAIN s /\ Len(s) + 1 \in DOMAIN r /\ Len(s) + 1 \in Place
  BY <1>1 DEF Place
<1>4. /\ Holds(r, Len(s), r[Len(s)]) /\ Holds(s, Len(s), s[Len(s)])
      /\ Holds(r, Len(s) + 1, r[Len(s) + 1]) /\ Bare(s, Len(s) + 1)
  BY <1>3, PlaceHolds
<1> QED
  BY <1>1, <1>2, <1>3, <1>4

\* when what it calls calls in turn,
LEMMA HoldsThree ==
    ASSUME NEW s \in Seq(FrameType), NEW f, NEW g, NEW h, NEW r, TopThree(s, f, g, h, r)
    PROVE  /\ \A i \in Place : i # Len(s) /\ i # Len(s) + 1 /\ i # Len(s) + 2 => Same(s, r, i)
           /\ Holds(r, Len(s), f) /\ Holds(s, Len(s), s[Len(s)])
           /\ Holds(r, Len(s) + 1, g) /\ Bare(s, Len(s) + 1) /\ Len(s) + 1 \in Place
           /\ Holds(r, Len(s) + 2, h) /\ Bare(s, Len(s) + 2)
<1>1. /\ DOMAIN r = 1 .. Len(s) + 2 /\ Len(s) \in Place /\ DOMAIN s = 1 .. Len(s)
      /\ (\A i \in 1 .. Len(s) - 1 : r[i] = s[i]) /\ r[Len(s)] = f
      /\ r[Len(s) + 1] = g /\ r[Len(s) + 2] = h
  BY DEF TopThree
<1>2. ASSUME NEW i \in Place, i # Len(s), i # Len(s) + 1, i # Len(s) + 2 PROVE Same(s, r, i)
  <2>1. \/ i \in 1 .. Len(s) - 1 /\ i \in DOMAIN s /\ i \in DOMAIN r
        \/ i \notin DOMAIN s /\ i \notin DOMAIN r
    <3>1. PICK n \in Nat : n = Len(s)
      BY <1>1 DEF Place
    <3>a. i \in Nat /\ i # 0
      BY DEF Place
    <3>b. i > 0
      BY <3>a
    <3>c. DOMAIN s = 1 .. n /\ DOMAIN r = 1 .. n + 2
      BY <1>1, <3>1, Zenon
    <3>d. i # n /\ i # n + 1 /\ i # n + 2
      BY <1>2, <3>1, Zenon
    <3>2. DOMAIN s = 1 .. n /\ DOMAIN r = 1 .. n + 2 /\ i \in Nat /\ i > 0 /\ i # n /\ i # n + 1 /\ i # n + 2
      BY <3>a, <3>b, <3>c, <3>d
    <3>3. \/ i \in 1 .. n - 1 /\ i \in 1 .. n /\ i \in 1 .. n + 2
          \/ i \notin 1 .. n /\ i \notin 1 .. n + 2
      BY <3>2
    <3> QED
      BY <3>1, <3>2, <3>3
  <2> QED
    BY <1>1, <2>1, PlaceSame
<1>3. /\ Len(s) \in DOMAIN s /\ Len(s) \in DOMAIN r
      /\ Len(s) + 1 \notin DOMAIN s /\ Len(s) + 1 \in DOMAIN r /\ Len(s) + 1 \in Place
      /\ Len(s) + 2 \notin DOMAIN s /\ Len(s) + 2 \in DOMAIN r
  BY <1>1 DEF Place
<1>4. /\ Holds(r, Len(s), r[Len(s)]) /\ Holds(s, Len(s), s[Len(s)])
      /\ Holds(r, Len(s) + 1, r[Len(s) + 1]) /\ Bare(s, Len(s) + 1)
      /\ Holds(r, Len(s) + 2, r[Len(s) + 2]) /\ Bare(s, Len(s) + 2)
  BY <1>3, PlaceHolds
<1> QED
  BY <1>1, <1>2, <1>3, <1>4

\* and when it returns.
LEMMA HoldsBack ==
    ASSUME NEW s \in Seq(FrameType), NEW m \in Slots \cup {NoSlot}, NEW ok \in BOOLEAN,
           NEW r, TopBack(s, m, ok, r)
    PROVE  /\ \A i \in Place : i # Len(s) /\ i # Len(s) - 1 => Same(s, r, i)
           /\ Bare(r, Len(s)) /\ Holds(s, Len(s), s[Len(s)])
           /\ Len(s) - 1 \in Place
           /\ SlotAt(r, Len(s) - 1) = SlotAt(s, Len(s) - 1)
           /\ WriteAt(r, Len(s) - 1) = WriteAt(s, Len(s) - 1)
           /\ UserAt(r, Len(s) - 1) = m /\ UserAt(s, Len(s) - 1) = s[Len(s) - 1].m
<1>1. /\ DOMAIN r = 1 .. Len(s) - 1 /\ Len(s) \in Place /\ DOMAIN s = 1 .. Len(s)
      /\ Len(s) - 1 \in DOMAIN s /\ (\A i \in 1 .. Len(s) - 2 : r[i] = s[i])
      /\ r[Len(s) - 1] = [s[Len(s) - 1] EXCEPT !.m = m, !.ok = ok]
  BY DEF TopBack
<1>2. ASSUME NEW i \in Place, i # Len(s), i # Len(s) - 1 PROVE Same(s, r, i)
  <2>1. \/ i \in 1 .. Len(s) - 2 /\ i \in DOMAIN s /\ i \in DOMAIN r
        \/ i \notin DOMAIN s /\ i \notin DOMAIN r
    BY <1>1, <1>2 DEF Place
  <2> QED
    BY <1>1, <2>1, PlaceSame
<1>3. /\ Len(s) \in DOMAIN s /\ Len(s) \notin DOMAIN r
      /\ Len(s) - 1 \in DOMAIN r /\ Len(s) - 1 \in Place
  BY <1>1 DEF Place
<1>4. Bare(r, Len(s)) /\ Holds(s, Len(s), s[Len(s)])
  BY <1>3, PlaceHolds
<1>5. /\ r[Len(s) - 1].fn = s[Len(s) - 1].fn /\ r[Len(s) - 1].b = s[Len(s) - 1].b
      /\ r[Len(s) - 1].m = m
  <2>1. s[Len(s) - 1] \in FrameType
    BY <1>1
  <2> QED
    BY <1>1, <2>1 DEF FrameType
<1>6. /\ SlotAt(r, Len(s) - 1) = SlotAt(s, Len(s) - 1)
      /\ WriteAt(r, Len(s) - 1) = WriteAt(s, Len(s) - 1)
      /\ UserAt(r, Len(s) - 1) = m /\ UserAt(s, Len(s) - 1) = s[Len(s) - 1].m
  BY <1>1, <1>3, <1>5 DEF SlotAt, UserAt, WriteAt
<1> QED
  BY <1>2, <1>3, <1>4, <1>6

-------------------------------------------------------------------------------
(* The step *)

\* A block that a frame uses or transfers is referenced; one in transfer is
\* busy.
LEMMA HeldBlock ==
    ASSUME TableInv, NEW t \in Thread, NEW i \in DOMAIN stack[t]
    PROVE  /\ stack[t][i].m \in Slots => block[stack[t][i].m].ref > 0
           /\ stack[t][i].fn \in Transfers /\ stack[t][i].b \in Slots =>
                block[stack[t][i].b].ref > 0 /\ block[stack[t][i].b].busy = TRUE
<1>1. <<t, i>> \in Frames
  <2>1. <<t, i>> \in {t} \X DOMAIN stack[t]
    OBVIOUS
  <2> QED
    BY <2>1 DEF Frames
<1>2. \A b \in Slots : /\ IsFiniteSet(TransfersOf(b)) /\ IsFiniteSet(UsersOf(b))
                       /\ Cardinality(TransfersOf(b)) \in Nat /\ Cardinality(UsersOf(b)) \in Nat
  BY FS_CardinalityType DEF TableInv, Counted
<1>3. ASSUME NEW b \in Slots, <<t, i>> \in UsersOf(b) PROVE block[b].ref > 0
  <2>1. Cardinality(UsersOf(b)) # 0
    BY <1>2, <1>3, FS_EmptySet
  <2>2. block[b].ref = Cardinality(TransfersOf(b)) + Cardinality(UsersOf(b))
    BY DEF TableInv, Counted, RefsExact
  <2> QED
    BY <1>2, <2>1, <2>2
<1>4. ASSUME NEW b \in Slots, <<t, i>> \in TransfersOf(b)
      PROVE  block[b].ref > 0 /\ block[b].busy = TRUE
  <2>1. Cardinality(TransfersOf(b)) # 0
    BY <1>2, <1>4, FS_EmptySet
  <2>2. /\ block[b].ref = Cardinality(TransfersOf(b)) + Cardinality(UsersOf(b))
        /\ Cardinality(TransfersOf(b)) = IF block[b].busy THEN 1 ELSE 0
    BY DEF TableInv, Counted, RefsExact
  <2>3. block[b].busy \in BOOLEAN
    BY DEF TableInv, Types, BlockType
  <2> QED
    BY <1>2, <2>1, <2>2, <2>3
<1>5. stack[t][i].m \in Slots => <<t, i>> \in UsersOf(stack[t][i].m)
  BY <1>1 DEF UsersOf, At
<1>6. stack[t][i].fn \in Transfers => <<t, i>> \in TransfersOf(stack[t][i].b)
  BY <1>1 DEF TransfersOf, At
<1> QED
  BY <1>3, <1>4, <1>5, <1>6

\* A referenced block keeps its key and stays valid.
BlocksHeld ==
  \A b \in Slots : block[b].ref > 0 =>
    block'[b].key = block[b].key /\ (block[b].valid = TRUE => block'[b].valid = TRUE)

\* A frame of the same call on the same slots, or on fewer.
Like(g, f) == g.fn = f.fn /\ g.ks = f.ks /\ g.b = f.b /\ (g.m = f.m \/ g.m = NoSlot)

\* What frames know of their blocks stays so.
LEMMA LinkedStill ==
    ASSUME TableInv, BlocksHeld, NEW t \in Thread, NEW i \in DOMAIN stack[t],
           NEW g, Like(g, stack[t][i])
    PROVE  Linked(block', g)
<1>1. Linked(block, stack[t][i])
  BY DEF TableInv, Stacks
<1>2. NoSlot \notin Slots
  BY SlotFacts
<1>3. PICK f : f = stack[t][i]
  OBVIOUS
<1>4. /\ f.m \in Slots => block[f.m].ref > 0
      /\ f.fn \in Transfers /\ f.b \in Slots => block[f.b].ref > 0
  BY <1>3, HeldBlock
<1>5. Linked(block, f) /\ Like(g, f)
  BY <1>1, <1>3
<1>6. g.m \in Slots =>
        /\ block'[g.m].key \in Key /\ block'[g.m].valid = TRUE
        /\ block'[g.m].key \in Data => g.fn \in CopyFns
  BY <1>2, <1>4, <1>5 DEF Linked, Like, BlocksHeld
<1>7. g.fn \in Transfers /\ g.b \in Slots =>
        block'[g.b].key \in Key /\ (g.fn = "NxcGetBlock" => block'[g.b].key \in g.ks)
  BY <1>4, <1>5 DEF Linked, Like, BlocksHeld
<1> QED
  BY <1>6, <1>7 DEF Linked

\* What a step that changes the stack of t to s has to show of it.
StackStep(t, s) ==
  /\ s \in Seq(FrameType) /\ Shaped(s) /\ stack' = [stack EXCEPT ![t] = s]
  /\ \A i \in DOMAIN s : \/ i \in DOMAIN stack[t] /\ Like(s[i], stack[t][i])
                         \/ Linked(block', s[i])

\* A step that does right by the table, the counts and one stack keeps the
\* invariant.
LEMMA Step ==
    ASSUME TableInv, TableOK', BlocksHeld, NEW t \in Thread, NEW s, StackStep(t, s),
           NEW p \in Place, NEW q \in Place, NEW w \in Place, CountsMove(t, s, p, q, w),
           mutex' \in Thread \cup {NoThread}, opens' \in Int, mapped' \in BOOLEAN,
           map' \in Maps, size' \in Sizes, alloc' \in Sizes, disk' \in [Key -> Datum]
    PROVE  TableInv'
<1>1. stack \in [Thread -> Seq(FrameType)] /\ block \in [Slots -> BlockType] /\ depth \in Int
  BY DEF TableInv, Types
<1>2. s \in Seq(FrameType) /\ Shaped(s) /\ stack' = [stack EXCEPT ![t] = s]
  BY DEF StackStep
<1>3. Counted'
  BY <1>1, <1>2, CountsKept DEF TableInv
<1>4. stack' \in [Thread -> Seq(FrameType)] /\ stack'[t] = s /\ \A u \in Thread \ {t} : stack'[u] = stack[u]
  BY <1>1, <1>2
<1>5. depth' \in Int
  <2>1. Bit(WriteAt(stack[t], w)) \in Int /\ Bit(WriteAt(s, w)) \in Int
    BY DEF Bit
  <2> QED
    BY <1>1, <2>1 DEF CountsMove
<1>6. Types'
  BY <1>4, <1>5 DEF Types, TableOK
<1>7. ASSUME NEW u \in Thread, NEW i \in DOMAIN stack'[u]
      PROVE  Linked(block', stack'[u][i])
  <2>1. CASE u = t
    <3>1. i \in DOMAIN s /\ stack'[u][i] = s[i]
      BY <1>4, <2>1
    <3>2. CASE i \in DOMAIN stack[t] /\ Like(s[i], stack[t][i])
      BY <3>1, <3>2, LinkedStill
    <3>3. CASE Linked(block', s[i])
      BY <3>1, <3>3
    <3> QED
      BY <3>1, <3>2, <3>3 DEF StackStep
  <2>2. CASE u # t
    <3>1. stack'[u] = stack[u]
      BY <1>4, <2>2
    <3>2. Like(stack[u][i], stack[u][i])
      BY DEF Like
    <3> QED
      BY <3>1, <3>2, LinkedStill
  <2> QED
    BY <2>1, <2>2
<1>8. ASSUME NEW u \in Thread PROVE Shaped(stack'[u])
  BY <1>2, <1>4 DEF TableInv, Stacks
<1>9. Stacks'
  BY <1>7, <1>8, Zenon DEF Stacks
<1> QED
  BY <1>3, <1>6, <1>9 DEF TableInv, TableOK

\* What is not in the table, the counts or the stacks.
Rest == /\ mutex \in Thread \cup {NoThread} /\ opens \in Int /\ mapped \in BOOLEAN
        /\ map \in Maps /\ size \in Sizes /\ alloc \in Sizes /\ disk \in [Key -> Datum]

\* References and busy marks move from the slots x, in transfer, and u, in use,
\* to the slots y and v.
Delta(x, y, u, v) ==
  \A b \in Slots :
    /\ block'[b].ref = block[b].ref - Bit(x = b) + Bit(y = b) - Bit(u = b) + Bit(v = b)
    /\ Bit(block'[b].busy) = Bit(block[b].busy) - Bit(x = b) + Bit(y = b)

\* A step from a good state does right by everything but the stacks.
Sound == TableInv /\ TableOK' /\ BlocksHeld /\ Rest'

\* The step of a thread whose top frame goes on as f.
LEMMA OneStep ==
    ASSUME Sound, NEW t \in Thread, Len(stack[t]) \in Place,
           NEW e, e = stack[t][Len(stack[t])], NEW f \in FrameType, SetTop(t, f),
           Formed(f), Running(f), InPlaceOf(f, e), Like(f, e) \/ Linked(block', f),
           Delta(SlotOf(e), SlotOf(f), e.m, f.m), depth' = depth
    PROVE  TableInv'
<1> DEFINE s == stack[t]
           r == Front(s) \o <<f>>
           n == Len(s)
<1>1. stack \in [Thread -> Seq(FrameType)] /\ s \in Seq(FrameType) /\ Shaped(s) /\ depth \in Int
      /\ TableInv /\ TableOK' /\ BlocksHeld /\ Rest'
  BY DEF Sound, TableInv, Types, Stacks
<1>2. TopOne(s, f, r)
  BY <1>1, ReplacedByOne
<1>3. Shaped(r)
  BY <1>1, TopSet
<1>4. stack' = [stack EXCEPT ![t] = r]
  BY <1>1, Zenon DEF SetTop, Replace
<1> HIDE DEF r
<1>5. r \in Seq(FrameType) /\ DOMAIN r = 1 .. n /\ DOMAIN s = 1 .. n /\ n \in Place
      /\ (\A i \in 1 .. n - 1 : r[i] = s[i]) /\ r[n] = f
  BY <1>2 DEF TopOne
<1>6. ASSUME NEW i \in DOMAIN r
      PROVE  (i \in DOMAIN s /\ Like(r[i], s[i])) \/ Linked(block', r[i])
  <2>1. CASE i = n
    BY <1>5, <2>1
  <2>2. CASE i # n
    <3>1. i \in 1 .. n - 1
      BY <1>5, <2>2 DEF Place
    <3> QED
      BY <1>5, <3>1 DEF Like
  <2> QED
    BY <2>1, <2>2
<1>7. StackStep(t, r)
  BY <1>3, <1>4, <1>5, <1>6, Zenon DEF StackStep
<1>8. /\ \A i \in Place : i # n => Same(s, r, i)
      /\ Holds(r, n, f) /\ Holds(s, n, e)
  BY <1>1, <1>2, HoldsOne
<1>9. CountsMove(t, r, n, n, n)
  <2>1. /\ SlotAt(r, n) = SlotOf(f) /\ UserAt(r, n) = f.m /\ SlotAt(s, n) = SlotOf(e)
        /\ UserAt(s, n) = e.m /\ WriteAt(r, n) = WriteAt(s, n)
    BY <1>8 DEF Holds, InPlaceOf
  <2>2. depth' = depth - Bit(WriteAt(s, n)) + Bit(WriteAt(r, n))
    BY <1>1, <2>1 DEF Bit
  <2> HIDE DEF s, n
  <2> QED
    BY <1>8, <2>1, <2>2 DEF CountsMove, Same, Delta, s
<1> QED
  BY <1>1, <1>5, <1>7, <1>9, Step DEF Rest

\* What the places hold and how the counts change, put together.
LEMMA CountsAt ==
    ASSUME NEW t, NEW s, NEW p \in Place, NEW x, NEW y, NEW u, NEW v, Delta(x, y, u, v),
           \A i \in Place : i # p => Same(stack[t], s, i),
           SlotAt(stack[t], p) = x, SlotAt(s, p) = y, UserAt(stack[t], p) = u, UserAt(s, p) = v,
           depth' = depth - Bit(WriteAt(stack[t], p)) + Bit(WriteAt(s, p))
    PROVE  CountsMove(t, s, p, p, p)
BY DEF CountsMove, Same, Delta

\* The same when the block got goes to the frame below, at place q.
LEMMA BackCounts ==
    ASSUME NEW t, NEW s, NEW p, NEW q, NEW x, NEW m, Delta(x, NoSlot, NoSlot, m),
           \A i \in Place : i # p /\ i # q => Same(stack[t], s, i),
           SlotAt(stack[t], p) = x, SlotAt(s, p) = NoSlot,
           UserAt(stack[t], p) = NoSlot, UserAt(s, p) = NoSlot,
           SlotAt(s, q) = SlotAt(stack[t], q), WriteAt(s, q) = WriteAt(stack[t], q),
           UserAt(s, q) = m, UserAt(stack[t], q) = NoSlot,
           depth' = depth - Bit(WriteAt(stack[t], p)) + Bit(WriteAt(s, p))
    PROVE  CountsMove(t, s, p, q, p)
BY DEF CountsMove, Same, Delta

\* A frame that holds nothing.
Unheld(f) == SlotOf(f) = NoSlot /\ f.m = NoSlot /\ f.fn # "NxcFlushBlock"

\* A frame that holds nothing knows of no block.
LEMMA UnheldLinked ==
    ASSUME NEW f, Unheld(f)
    PROVE  Linked(block', f)
<1>1. NoSlot \notin Slots
  BY SlotFacts
<1> QED
  BY <1>1 DEF Unheld, SlotOf, Linked

\* The step of a thread whose top frame goes on as f and calls g.
LEMMA TwoStep ==
    ASSUME Sound, NEW t \in Thread, Len(stack[t]) \in Place,
           NEW e, e = stack[t][Len(stack[t])], NEW f \in FrameType, NEW g \in FrameType, Push(t, f, g),
           Formed(f), InPlaceOf(f, e), Like(f, e) \/ Linked(block', f),
           Formed(g), Running(g), Waits(f, g), Linked(block', g),
           \/ /\ Unheld(g)
              /\ Delta(SlotOf(e), SlotOf(f), e.m, f.m) /\ depth' = depth
           \/ /\ g.fn = "NxcFlushBlock" /\ g.m = NoSlot /\ SlotOf(f) = SlotOf(e) /\ f.m = e.m
              /\ Delta(NoSlot, g.b, NoSlot, NoSlot) /\ depth' = depth + 1
    PROVE  TableInv'
<1> DEFINE s == stack[t]
           r == Front(s) \o <<f, g>>
           n == Len(s)
<1>1. stack \in [Thread -> Seq(FrameType)] /\ s \in Seq(FrameType) /\ Shaped(s) /\ depth \in Int
      /\ TableInv /\ TableOK' /\ BlocksHeld /\ Rest'
  BY DEF Sound, TableInv, Types, Stacks
<1>2. TopTwo(s, f, g, r)
  BY <1>1, ReplacedByTwo
<1>3. Shaped(r)
  BY <1>1, TopCalls
<1>4. stack' = [stack EXCEPT ![t] = r]
  BY <1>1, Zenon DEF Push, Replace
<1> HIDE DEF r
<1>5. r \in Seq(FrameType) /\ DOMAIN r = 1 .. n + 1 /\ DOMAIN s = 1 .. n /\ n \in Place
      /\ (\A i \in 1 .. n - 1 : r[i] = s[i]) /\ r[n] = f /\ r[n + 1] = g
  BY <1>2 DEF TopTwo
<1>6. ASSUME NEW i \in DOMAIN r
      PROVE  (i \in DOMAIN s /\ Like(r[i], s[i])) \/ Linked(block', r[i])
  <2>1. CASE i = n
    <3>1. n \in DOMAIN s
      BY <1>5 DEF Place
    <3> QED
      BY <1>5, <2>1, <3>1
  <2>2. CASE i = n + 1
    BY <1>5, <2>2
  <2>3. CASE i # n /\ i # n + 1
    <3>1. i \in 1 .. n - 1 /\ i \in 1 .. n
      BY <1>5, <2>3 DEF Place
    <3> QED
      BY <1>5, <3>1 DEF Like
  <2> QED
    BY <2>1, <2>2, <2>3
<1>7. StackStep(t, r)
  BY <1>3, <1>4, <1>5, <1>6, Zenon DEF StackStep
<1>8. /\ \A i \in Place : i # n /\ i # n + 1 => Same(s, r, i)
      /\ Holds(r, n, f) /\ Holds(s, n, e)
      /\ Holds(r, n + 1, g) /\ Bare(s, n + 1) /\ n + 1 \in Place
  BY <1>1, <1>2, HoldsTwo
<1>9. /\ SlotAt(r, n) = SlotOf(f) /\ UserAt(r, n) = f.m /\ SlotAt(s, n) = SlotOf(e)
      /\ UserAt(s, n) = e.m /\ WriteAt(r, n) = WriteAt(s, n)
      /\ SlotAt(r, n + 1) = SlotOf(g) /\ UserAt(r, n + 1) = g.m
      /\ WriteAt(r, n + 1) = (g.fn = "NxcFlushBlock")
      /\ SlotAt(s, n + 1) = NoSlot /\ UserAt(s, n + 1) = NoSlot /\ WriteAt(s, n + 1) = FALSE
  BY <1>8 DEF Holds, Bare, InPlaceOf
<1>10. CASE Unheld(g) /\ Delta(SlotOf(e), SlotOf(f), e.m, f.m) /\ depth' = depth
  <2>1. CountsMove(t, r, n, n, n)
    <3>1. depth' = depth - Bit(WriteAt(s, n)) + Bit(WriteAt(r, n))
      BY <1>1, <1>9, <1>10 DEF Bit
    <3>2. SlotAt(r, n + 1) = SlotAt(s, n + 1) /\ UserAt(r, n + 1) = UserAt(s, n + 1)
          /\ WriteAt(r, n + 1) = WriteAt(s, n + 1)
      BY <1>9, <1>10 DEF Unheld
    <3>3. \A i \in Place : i # n => Same(s, r, i)
      BY <1>8, <3>2 DEF Same
    <3> HIDE DEF s, n
    <3> QED
      BY <1>9, <1>10, <3>1, <3>3 DEF CountsMove, Same, Delta, s
  <2> QED
    BY <1>1, <1>5, <1>7, <2>1, Step DEF Rest
<1>11. CASE /\ g.fn = "NxcFlushBlock" /\ g.m = NoSlot /\ SlotOf(f) = SlotOf(e) /\ f.m = e.m
            /\ Delta(NoSlot, g.b, NoSlot, NoSlot) /\ depth' = depth + 1
  <2> DEFINE p == n + 1
  <2>0. p \in Place
    BY <1>8
  <2>1. CountsMove(t, r, p, p, p)
    <3>1. WriteAt(s, p) = FALSE /\ WriteAt(r, p) = TRUE /\ SlotAt(r, p) = g.b /\ SlotAt(s, p) = NoSlot
          /\ UserAt(r, p) = NoSlot /\ UserAt(s, p) = NoSlot
      BY <1>9, <1>11 DEF SlotOf, Transfers
    <3>2. depth' = depth - Bit(WriteAt(s, p)) + Bit(WriteAt(r, p))
      BY <1>1, <1>11, <3>1 DEF Bit
    <3>3. \A i \in Place : i # p => Same(s, r, i)
      BY <1>8, <1>9, <1>11 DEF Same
    <3> HIDE DEF p
    <3> QED
      BY <2>0, <1>11, <3>1, <3>2, <3>3, CountsAt
  <2> HIDE DEF p
  <2> QED
    BY <1>1, <1>7, <2>0, <2>1, Step DEF Rest
<1> QED
  BY <1>10, <1>11

\* The step of a thread whose top frame goes on as f and calls the write-back
\* g, which calls h.
LEMMA ThreeStep ==
    ASSUME Sound, NEW t \in Thread, Len(stack[t]) \in Place,
           NEW e, e = stack[t][Len(stack[t])], NEW f \in FrameType, NEW g \in FrameType,
           NEW h \in FrameType, Replace(t, <<f, g, h>>),
           Formed(f), InPlaceOf(f, e), Like(f, e) \/ Linked(block', f),
           Formed(g), Waits(f, g), Linked(block', g), Formed(h), Running(h), Waits(g, h), Unheld(h),
           g.fn = "NxcFlushBlock", g.m = NoSlot, SlotOf(f) = SlotOf(e), f.m = e.m,
           Delta(NoSlot, g.b, NoSlot, NoSlot), depth' = depth + 1
    PROVE  TableInv'
<1> DEFINE s == stack[t]
           r == Front(s) \o <<f, g, h>>
           n == Len(s)
<1>1. stack \in [Thread -> Seq(FrameType)] /\ s \in Seq(FrameType) /\ Shaped(s) /\ depth \in Int
      /\ TableInv /\ TableOK' /\ BlocksHeld /\ Rest'
  BY DEF Sound, TableInv, Types, Stacks
<1>2. TopThree(s, f, g, h, r)
  BY <1>1, ReplacedByThree
<1>3. Shaped(r)
  BY <1>1, TopCallsTwice
<1>4. stack' = [stack EXCEPT ![t] = r]
  BY <1>1, Zenon DEF Replace
<1> HIDE DEF r
<1>5. r \in Seq(FrameType) /\ DOMAIN r = 1 .. n + 2 /\ DOMAIN s = 1 .. n /\ n \in Place
      /\ (\A i \in 1 .. n - 1 : r[i] = s[i]) /\ r[n] = f /\ r[n + 1] = g /\ r[n + 2] = h
  BY <1>2 DEF TopThree
<1>6. ASSUME NEW i \in DOMAIN r
      PROVE  (i \in DOMAIN s /\ Like(r[i], s[i])) \/ Linked(block', r[i])
  <2>1. CASE i = n
    <3>1. n \in DOMAIN s
      BY <1>5 DEF Place
    <3> QED
      BY <1>5, <2>1, <3>1
  <2>2. CASE i = n + 1
    BY <1>5, <2>2
  <2>3. CASE i = n + 2
    BY <1>5, <2>3, UnheldLinked
  <2>4. CASE i # n /\ i # n + 1 /\ i # n + 2
    <3>1. i \in 1 .. n - 1 /\ i \in 1 .. n
      BY <1>5, <2>4 DEF Place
    <3> QED
      BY <1>5, <3>1 DEF Like
  <2> QED
    BY <2>1, <2>2, <2>3, <2>4
<1>7. StackStep(t, r)
  BY <1>3, <1>4, <1>5, <1>6, Zenon DEF StackStep
<1>8. /\ \A i \in Place : i # n /\ i # n + 1 /\ i # n + 2 => Same(s, r, i)
      /\ Holds(r, n, f) /\ Holds(s, n, e)
      /\ Holds(r, n + 1, g) /\ Bare(s, n + 1) /\ n + 1 \in Place
      /\ Holds(r, n + 2, h) /\ Bare(s, n + 2)
  BY <1>1, <1>2, HoldsThree
<1> DEFINE p == n + 1
<1>9. p \in Place
  BY <1>8
<1>10. CountsMove(t, r, p, p, p)
  <2>1. WriteAt(s, p) = FALSE /\ WriteAt(r, p) = TRUE /\ SlotAt(r, p) = g.b /\ SlotAt(s, p) = NoSlot
        /\ UserAt(r, p) = NoSlot /\ UserAt(s, p) = NoSlot
    BY <1>8 DEF SlotOf, Transfers, Holds, Bare
  <2>2. depth' = depth - Bit(WriteAt(s, p)) + Bit(WriteAt(r, p))
    BY <1>1, <2>1 DEF Bit
  <2>3. Same(s, r, n) /\ Same(s, r, n + 2)
    <3>1. Same(s, r, n)
      <4>1. f.fn = e.fn
        BY Zenon DEF InPlaceOf
      <4> QED
        BY <1>8, <4>1, Zenon DEF Same, Holds
    <3>2. Same(s, r, n + 2)
      <4>1. SlotOf(h) = NoSlot /\ h.m = NoSlot /\ (h.fn = "NxcFlushBlock") = FALSE
        BY DEF Unheld
      <4> QED
        BY <1>8, <4>1, Zenon DEF Same, Holds, Bare
    <3> QED
      BY <3>1, <3>2
  <2>4. \A i \in Place : i # p => Same(s, r, i)
    BY <1>8, <2>3
  <2> HIDE DEF p
  <2> QED
    BY <1>9, <2>1, <2>2, <2>4, CountsAt
<1> HIDE DEF p
<1> QED
  BY <1>1, <1>7, <1>9, <1>10, Step DEF Rest

\* The step of a thread whose top frame e goes.
LEMMA NoneStep ==
    ASSUME Sound, NEW t \in Thread, Len(stack[t]) \in Place,
           NEW e, e = stack[t][Len(stack[t])], Pop(t),
           Len(stack[t]) > 1 => Running(stack[t][Len(stack[t]) - 1]),
           Delta(SlotOf(e), NoSlot, e.m, NoSlot), depth' = depth - Bit(e.fn = "NxcFlushBlock")
    PROVE  TableInv'
<1> DEFINE s == stack[t]
           r == Front(s) \o <<>>
           n == Len(s)
<1>1. stack \in [Thread -> Seq(FrameType)] /\ s \in Seq(FrameType) /\ Shaped(s) /\ depth \in Int
      /\ TableInv /\ TableOK' /\ BlocksHeld /\ Rest'
  BY DEF Sound, TableInv, Types, Stacks
<1>2. TopNone(s, r)
  BY <1>1, ReplacedByNone
<1>3. Shaped(r)
  BY <1>1, TopGoes
<1>4. stack' = [stack EXCEPT ![t] = r]
  BY <1>1, Zenon DEF Pop, Replace
<1> HIDE DEF r
<1>5. r \in Seq(FrameType) /\ DOMAIN r = 1 .. n - 1 /\ DOMAIN s = 1 .. n /\ n \in Place
      /\ (\A i \in 1 .. n - 1 : r[i] = s[i])
  BY <1>2 DEF TopNone
<1>6. ASSUME NEW i \in DOMAIN r
      PROVE  (i \in DOMAIN s /\ Like(r[i], s[i])) \/ Linked(block', r[i])
  <2>1. i \in 1 .. n - 1 /\ i \in 1 .. n
    BY <1>5 DEF Place
  <2> QED
    BY <1>5, <2>1 DEF Like
<1>7. StackStep(t, r)
  BY <1>3, <1>4, <1>5, <1>6, Zenon DEF StackStep
<1>8. /\ \A i \in Place : i # n => Same(s, r, i)
      /\ Bare(r, n) /\ Holds(s, n, e)
  BY <1>1, <1>2, HoldsNone
<1>9. CountsMove(t, r, n, n, n)
  <2>1. /\ SlotAt(r, n) = NoSlot /\ UserAt(r, n) = NoSlot /\ SlotAt(s, n) = SlotOf(e)
        /\ UserAt(s, n) = e.m /\ WriteAt(r, n) = FALSE /\ WriteAt(s, n) = (e.fn = "NxcFlushBlock")
    BY <1>8 DEF Holds, Bare
  <2>2. depth' = depth - Bit(WriteAt(s, n)) + Bit(WriteAt(r, n))
    <3>1. Bit(WriteAt(s, n)) = Bit(e.fn = "NxcFlushBlock") /\ Bit(WriteAt(r, n)) = 0
      BY <2>1, Zenon DEF Bit
    <3>2. Bit(e.fn = "NxcFlushBlock") \in Int
      BY DEF Bit
    <3> QED
      BY <1>1, <3>1, <3>2
  <2> HIDE DEF n
  <2> QED
    BY <1>5, <1>8, <2>1, <2>2, CountsAt
<1> QED
  BY <1>1, <1>5, <1>7, <1>9, Step DEF Rest

\* The empty stack.
LEMMA NoFrames ==
    <<>> \in Seq(FrameType) /\ Shaped(<<>>) /\ DOMAIN <<>> = {} /\ \A i : Bare(<<>>, i)
<1>1. <<>> \in Seq(FrameType) /\ DOMAIN <<>> = {}
  OBVIOUS
<1>2. Shaped(<<>>)
  BY <1>1 DEF Shaped
<1>3. \A i : Bare(<<>>, i)
  BY <1>1, PlaceHolds
<1> QED
  BY <1>1, <1>2, <1>3

\* The step of a thread that leaves the cache from a call nested in its entry
\* point, which holds nothing.
LEMMA ClearStep ==
    ASSUME Sound, NEW t \in Thread, Len(stack[t]) = 2,
           NEW e, e = stack[t][2], stack' = [stack EXCEPT ![t] = <<>>], e.m = NoSlot,
           Delta(SlotOf(e), NoSlot, NoSlot, NoSlot), depth' = depth, e.fn # "NxcFlushBlock"
    PROVE  TableInv'
<1> DEFINE s == stack[t]
           r == <<>>
<1>1. stack \in [Thread -> Seq(FrameType)] /\ s \in Seq(FrameType) /\ Shaped(s) /\ depth \in Int
      /\ TableInv /\ TableOK' /\ BlocksHeld /\ Rest'
  BY DEF Sound, TableInv, Types, Stacks
<1>2. DOMAIN s = 1 .. 2 /\ 1 \in DOMAIN s /\ 2 \in DOMAIN s /\ s # <<>>
  <2>1. DOMAIN s = 1 .. Len(s)
    BY <1>1
  <2>2. DOMAIN s = 1 .. 2
    BY <2>1
  <2>3. 1 \in DOMAIN s /\ 2 \in DOMAIN s
    BY <2>2
  <2> QED
    BY <2>2, <2>3, NoFrames
<1>3. s[1].fn \in EntryFns /\ Waits(s[1], s[2])
  <2>1. s[1].fn \in EntryFns
    BY <1>1, <1>2 DEF Shaped
  <2>2. Waits(s[2 - 1], s[2])
    BY <1>1, <1>2 DEF Shaped
  <2> QED
    BY <2>1, <2>2
<1>4. s[1].m = NoSlot /\ s[1].fn \notin Transfers
  BY <1>3 DEF Waits, EntryFns, CopyFns, Transfers
<1>5. StackStep(t, r)
  BY NoFrames, Zenon DEF StackStep
<1>6. Bare(s, 1)
  <2>1. Holds(s, 1, s[1])
    BY <1>2, PlaceHolds
  <2> QED
    BY <1>4, <2>1 DEF Holds, Bare, SlotOf, Transfers
<1>7. \A i \in Place : i # 2 => Same(s, r, i)
  <2> SUFFICES ASSUME NEW i \in Place, i # 2 PROVE Same(s, r, i)
    OBVIOUS
  <2>1. Bare(r, i)
    BY NoFrames
  <2>2. Bare(s, i)
    <3>1. CASE i = 1
      BY <1>6, <3>1
    <3>2. CASE i # 1
      <4>1. i \notin DOMAIN s
        BY <1>2, <3>2 DEF Place
      <4> QED
        BY <4>1, PlaceHolds
    <3> QED
      BY <3>1, <3>2
  <2> QED
    BY <2>1, <2>2 DEF Bare, Same
<1>8. Holds(s, 2, e) /\ Bare(r, 2) /\ 2 \in Place
  BY <1>2, PlaceHolds, NoFrames DEF Place
<1>9. CountsMove(t, r, 2, 2, 2)
  <2>1. /\ SlotAt(r, 2) = NoSlot /\ UserAt(r, 2) = NoSlot /\ SlotAt(s, 2) = SlotOf(e)
        /\ UserAt(s, 2) = NoSlot /\ WriteAt(r, 2) = FALSE /\ WriteAt(s, 2) = FALSE
    BY <1>8 DEF Holds, Bare
  <2>2. depth' = depth - Bit(WriteAt(s, 2)) + Bit(WriteAt(r, 2))
    BY <1>1, <2>1 DEF Bit
  <2> HIDE DEF r
  <2> QED
    BY <1>7, <1>8, <2>1, <2>2, CountsAt
<1> QED
  BY <1>1, <1>5, <1>8, <1>9, Step DEF Rest

\* The step of a thread whose NxcGetBlock frame e returns the block m, or fails.
LEMMA BackStep ==
    ASSUME Sound, NEW t \in Thread, Len(stack[t]) \in Place, Len(stack[t]) > 1,
           NEW e, e = stack[t][Len(stack[t])], e.fn = "NxcGetBlock", e.m = NoSlot,
           NEW m \in Slots \cup {NoSlot}, NEW ok \in BOOLEAN, Return(t, m, ok),
           \/ m \in Slots /\ ok = TRUE
           \/ m = NoSlot /\ ok = FALSE /\ Len(stack[t]) # 2,
           m \in Slots => block'[m].key \in e.ks /\ block'[m].valid = TRUE,
           e.ks \subseteq Key,
           Delta(SlotOf(e), NoSlot, NoSlot, m), depth' = depth
    PROVE  TableInv'
<1> DEFINE s == stack[t]
           q == Front(s)
           r == [q EXCEPT ![Len(q)].m = m, ![Len(q)].ok = ok]
           n == Len(s)
           d == s[n - 1]
<1>1. stack \in [Thread -> Seq(FrameType)] /\ s \in Seq(FrameType) /\ Shaped(s) /\ depth \in Int
      /\ TableInv /\ TableOK' /\ BlocksHeld /\ Rest'
  BY DEF Sound, TableInv, Types, Stacks
<1>2. TopBack(s, m, ok, r)
  <2> HIDE DEF q
  <2>1. q = Front(s)
    BY DEF q
  <2> QED
    BY <1>1, <2>1, Returned
<1>3. stack' = [stack EXCEPT ![t] = r]
  BY <1>1, Zenon DEF Return
<1> HIDE DEF r
<1>4. /\ Shaped(r) /\ d.fn \in CopyFns \cup {"CcPinRead"} \cup Transfers
      /\ d.m = NoSlot /\ (d.fn \notin CopyFns => e.ks \subseteq Fat)
  <2>1. /\ s[Len(s)] = e /\ Len(s) \in Place /\ Len(s) > 1
        /\ \/ m \in Slots /\ ok = TRUE
           \/ m = NoSlot /\ ok = FALSE /\ Len(s) # 2
    OBVIOUS
  <2> HIDE DEF s, q
  <2> QED
    BY <1>1, <1>2, <2>1, TopReturns
<1>5. /\ r \in Seq(FrameType) /\ DOMAIN r = 1 .. n - 1 /\ n \in Place /\ DOMAIN s = 1 .. n
      /\ n - 1 \in DOMAIN s /\ (\A i \in 1 .. n - 2 : r[i] = s[i])
      /\ r[n - 1] = [d EXCEPT !.m = m, !.ok = ok]
  BY <1>2 DEF TopBack
<1>6. Linked(block', r[n - 1])
  <2>1. Linked(block', d)
    <3>1. Like(d, d)
      BY DEF Like
    <3> QED
      BY <1>1, <1>5, <3>1, LinkedStill
  <2>2. PICK g : g = r[n - 1]
    OBVIOUS
  <2>3. g.fn = d.fn /\ g.ks = d.ks /\ g.b = d.b /\ g.m = m
    <3>1. d \in FrameType
      BY <1>1, <1>5
    <3>2. g = [d EXCEPT !.m = m, !.ok = ok]
      BY <1>5, <2>2
    <3> HIDE DEF d
    <3> QED
      BY <3>1, <3>2 DEF FrameType
  <2>4. m \in Slots => /\ block'[m].key \in Key /\ block'[m].valid = TRUE
                       /\ block'[m].key \in Data => d.fn \in CopyFns
    BY <1>4, KeyFacts
  <2> HIDE DEF d
  <2>5. Linked(block', g)
    BY <2>1, <2>3, <2>4 DEF Linked
  <2> QED
    BY <2>2, <2>5
<1>7. ASSUME NEW i \in DOMAIN r
      PROVE  (i \in DOMAIN s /\ Like(r[i], s[i])) \/ Linked(block', r[i])
  <2>1. CASE i = n - 1
    BY <1>6, <2>1
  <2>2. CASE i # n - 1
    <3>1. i \in 1 .. n - 2 /\ i \in 1 .. n
      BY <1>5, <2>2 DEF Place
    <3> QED
      BY <1>5, <3>1 DEF Like
  <2> QED
    BY <2>1, <2>2
<1>8. StackStep(t, r)
  BY <1>3, <1>4, <1>5, <1>7, Zenon DEF StackStep
<1>9. /\ \A i \in Place : i # n /\ i # n - 1 => Same(s, r, i)
      /\ Bare(r, n) /\ Holds(s, n, e)
      /\ n - 1 \in Place
      /\ SlotAt(r, n - 1) = SlotAt(s, n - 1)
      /\ WriteAt(r, n - 1) = WriteAt(s, n - 1)
      /\ UserAt(r, n - 1) = m /\ UserAt(s, n - 1) = d.m
  BY <1>1, <1>2, HoldsBack
<1>10. \E k \in Place : k = n - 1
  BY <1>9
<1>11. PICK k \in Place : k = n - 1
  BY <1>10
<1>12. CountsMove(t, r, n, k, n)
  <2>1. /\ SlotAt(r, n) = NoSlot /\ UserAt(r, n) = NoSlot /\ SlotAt(s, n) = SlotOf(e)
        /\ UserAt(s, n) = NoSlot /\ WriteAt(r, n) = FALSE /\ WriteAt(s, n) = FALSE
    BY <1>9 DEF Holds, Bare
  <2>2. depth' = depth - Bit(WriteAt(s, n)) + Bit(WriteAt(r, n))
    BY <1>1, <2>1 DEF Bit
  <2>3. /\ \A i \in Place : i # n /\ i # k => Same(s, r, i)
        /\ SlotAt(r, k) = SlotAt(s, k) /\ WriteAt(r, k) = WriteAt(s, k)
        /\ UserAt(r, k) = m /\ UserAt(s, k) = NoSlot
    BY <1>4, <1>9, <1>11
  <2> HIDE DEF n, d
  <2> QED
    BY <2>1, <2>2, <2>3, BackCounts
<1> QED
  BY <1>1, <1>5, <1>8, <1>11, <1>12, Step DEF Rest

\* The step of a thread that stays where it is.
LEMMA StaysStep ==
    ASSUME Sound, NEW t \in Thread, stack' = stack,
           Delta(NoSlot, NoSlot, NoSlot, NoSlot), depth' = depth
    PROVE  TableInv'
<1> DEFINE s == stack[t]
<1>1. stack \in [Thread -> Seq(FrameType)] /\ s \in Seq(FrameType) /\ Shaped(s) /\ depth \in Int
      /\ TableInv /\ TableOK' /\ BlocksHeld /\ Rest'
  BY DEF Sound, TableInv, Types, Stacks
<1>2. stack' = [stack EXCEPT ![t] = s]
  BY <1>1
<1>3. StackStep(t, s)
  BY <1>1, <1>2 DEF StackStep, Like
<1>4. PICK p \in Place : p \notin DOMAIN s
  <2>1. Len(s) + 1 \in Place /\ Len(s) + 1 \notin DOMAIN s
    BY <1>1 DEF Place
  <2> QED
    BY <2>1
<1>5. Bare(s, p)
  BY <1>4, PlaceHolds
<1>6. CountsMove(t, s, p, p, p)
  <2>1. depth' = depth - Bit(WriteAt(s, p)) + Bit(WriteAt(s, p))
    BY <1>1, <1>5 DEF Bare, Bit
  <2>2. \A i \in Place : i # p => Same(s, s, i)
    BY DEF Same
  <2> QED
    BY <1>5, <2>1, <2>2, CountsAt DEF Bare
<1> QED
  BY <1>1, <1>3, <1>6, Step DEF Rest

\* The step of a thread that enters the cache with the frames s.
LEMMA EnterStep ==
    ASSUME Sound, NEW t \in Thread, stack[t] = <<>>, NEW s \in Seq(FrameType), Shaped(s),
           \A i \in DOMAIN s : Unheld(s[i]), Begin(t, s),
           Delta(NoSlot, NoSlot, NoSlot, NoSlot), depth' = depth
    PROVE  TableInv'
<1>1. stack \in [Thread -> Seq(FrameType)] /\ depth \in Int
      /\ TableInv /\ TableOK' /\ BlocksHeld /\ Rest'
  BY DEF Sound, TableInv, Types, Stacks
<1>2. stack' = [stack EXCEPT ![t] = s]
  BY DEF Begin
<1>3. \A i \in DOMAIN s : Linked(block', s[i])
  BY UnheldLinked
<1>4. StackStep(t, s)
  BY <1>2, <1>3, Zenon DEF StackStep
<1>5. \A i \in Place : Bare(s, i)
  <2> SUFFICES ASSUME NEW i \in Place PROVE Bare(s, i)
    OBVIOUS
  <2>1. CASE i \in DOMAIN s
    <3>1. Holds(s, i, s[i]) /\ Unheld(s[i])
      BY <2>1, PlaceHolds
    <3> QED
      BY <3>1 DEF Holds, Bare, Unheld
  <2>2. CASE i \notin DOMAIN s
    BY <2>2, PlaceHolds
  <2> QED
    BY <2>1, <2>2
<1>6. \A i \in Place : Bare(stack[t], i)
  BY NoFrames
<1>7. 1 \in Place
  BY DEF Place
<1>8. CountsMove(t, s, 1, 1, 1)
  <2>1. depth' = depth - Bit(WriteAt(stack[t], 1)) + Bit(WriteAt(s, 1))
    BY <1>1, <1>5, <1>6, <1>7 DEF Bare, Bit
  <2>2. \A i \in Place : i # 1 => Same(stack[t], s, i)
    BY <1>5, <1>6 DEF Same, Bare
  <2>3. Bare(s, 1) /\ Bare(stack[t], 1)
    BY <1>5, <1>6, <1>7
  <2>4. SlotAt(stack[t], 1) = NoSlot /\ SlotAt(s, 1) = NoSlot /\ UserAt(stack[t], 1) = NoSlot /\ UserAt(s, 1) = NoSlot
    BY <2>3 DEF Bare
  <2> QED
    BY <1>7, <2>1, <2>2, <2>4, CountsAt
<1> QED
  BY <1>1, <1>4, <1>7, <1>8, Step DEF Rest

-------------------------------------------------------------------------------
(* The changes of the table that the actions make *)

\* The invariant, in the parts that the actions need.
LEMMA Known ==
    ASSUME TableInv
    PROVE  /\ TableOK /\ Rest /\ block \in [Slots -> BlockType]
           /\ stack \in [Thread -> Seq(FrameType)] /\ depth \in Int
           /\ \A t \in Thread : Shaped(stack[t])
BY DEF TableInv, TableOK, Rest, Types, Stacks

\* Nothing counted changes.
LEMMA DeltaNone ==
    ASSUME TableInv, \A b \in Slots : block'[b].ref = block[b].ref /\ block'[b].busy = block[b].busy
    PROVE  Delta(NoSlot, NoSlot, NoSlot, NoSlot)
<1> SUFFICES ASSUME NEW b \in Slots
             PROVE  /\ block'[b].ref = block[b].ref - Bit(NoSlot = b) + Bit(NoSlot = b) - Bit(NoSlot = b) + Bit(NoSlot = b)
                    /\ Bit(block'[b].busy) = Bit(block[b].busy) - Bit(NoSlot = b) + Bit(NoSlot = b)
  BY DEF Delta
<1>1. Bit(NoSlot = b) = 0
  BY SlotFacts DEF Bit
<1>2. block[b].ref \in Int
  BY Known, SlotState
<1>3. Bit(block[b].busy) \in Int
  BY DEF Bit
<1> QED
  BY <1>1, <1>2, <1>3

\* What is counted changes at one slot.
LEMMA DeltaAt ==
    ASSUME TableInv, NEW b \in Slots, NEW r \in BlockType, block' = [block EXCEPT ![b] = r],
           NEW x \in {b, NoSlot}, NEW y \in {b, NoSlot}, NEW u \in {b, NoSlot}, NEW v \in {b, NoSlot},
           r.ref = block[b].ref - Bit(x = b) + Bit(y = b) - Bit(u = b) + Bit(v = b),
           Bit(r.busy) = Bit(block[b].busy) - Bit(x = b) + Bit(y = b)
    PROVE  Delta(x, y, u, v)
<1> SUFFICES ASSUME NEW c \in Slots
             PROVE  /\ block'[c].ref = block[c].ref - Bit(x = c) + Bit(y = c) - Bit(u = c) + Bit(v = c)
                    /\ Bit(block'[c].busy) = Bit(block[c].busy) - Bit(x = c) + Bit(y = c)
  BY DEF Delta
<1>1. block \in [Slots -> BlockType]
  BY Known
<1>2. CASE c = b
  <2>1. block'[c] = r
    BY <1>1, <1>2
  <2> QED
    BY <1>2, <2>1
<1>3. CASE c # b
  <2>1. block'[c] = block[c]
    BY <1>1, <1>3
  <2>2. Bit(x = c) = 0 /\ Bit(y = c) = 0 /\ Bit(u = c) = 0 /\ Bit(v = c) = 0
    BY <1>3, SlotFacts DEF Bit
  <2>3. block[c].ref \in Int
    BY Known, SlotState
  <2>4. Bit(block[c].busy) \in Int
    BY DEF Bit
  <2> QED
    BY <2>1, <2>2, <2>3, <2>4
<1> QED
  BY <1>2, <1>3

\* The five ways in which actions move a count: a user lets go of its block,
\* gets one, a transfer starts, ends, or ends with the block in use.
LEMMA DeltaWays ==
    ASSUME TableInv, NEW b \in Slots, NEW r \in BlockType, block' = [block EXCEPT ![b] = r]
    PROVE  /\ r.ref = block[b].ref - 1 /\ r.busy = block[b].busy => Delta(NoSlot, NoSlot, b, NoSlot)
           /\ r.ref = block[b].ref + 1 /\ r.busy = block[b].busy => Delta(NoSlot, NoSlot, NoSlot, b)
           /\ r.ref = block[b].ref + 1 /\ block[b].busy = FALSE /\ r.busy = TRUE =>
                Delta(NoSlot, b, NoSlot, NoSlot)
           /\ r.ref = block[b].ref - 1 /\ block[b].busy = TRUE /\ r.busy = FALSE =>
                Delta(b, NoSlot, NoSlot, NoSlot)
           /\ r.ref = block[b].ref /\ block[b].busy = TRUE /\ r.busy = FALSE => Delta(b, NoSlot, NoSlot, b)
           /\ r.ref = block[b].ref /\ r.busy = block[b].busy => Delta(NoSlot, NoSlot, NoSlot, NoSlot)
<1> DEFINE z == Bit(NoSlot = b)
           o == Bit(b = b)
           w == Bit(block[b].busy)
<1>1. z = 0 /\ o = 1
  BY SlotFacts DEF Bit
<1>2. block[b].ref \in Int
  BY Known, SlotState
<1>3. w \in Int /\ (block[b].busy = TRUE => w = 1) /\ (block[b].busy = FALSE => w = 0)
  BY DEF Bit
<1>4. (r.busy = TRUE => Bit(r.busy) = 1) /\ (r.busy = FALSE => Bit(r.busy) = 0)
  BY DEF Bit
<1>5. NoSlot \in {b, NoSlot} /\ b \in {b, NoSlot}
  OBVIOUS
<1>6. ASSUME r.ref = block[b].ref - 1, r.busy = block[b].busy PROVE Delta(NoSlot, NoSlot, b, NoSlot)
  <2>1. r.ref = block[b].ref - z + z - o + z /\ Bit(r.busy) = w - z + z
    BY <1>1, <1>2, <1>3, <1>6
  <2> QED
    BY <1>5, <2>1, DeltaAt
<1>7. ASSUME r.ref = block[b].ref + 1, r.busy = block[b].busy PROVE Delta(NoSlot, NoSlot, NoSlot, b)
  <2>1. r.ref = block[b].ref - z + z - z + o /\ Bit(r.busy) = w - z + z
    BY <1>1, <1>2, <1>3, <1>7
  <2> QED
    BY <1>5, <2>1, DeltaAt
<1>8. ASSUME r.ref = block[b].ref + 1, block[b].busy = FALSE, r.busy = TRUE
      PROVE  Delta(NoSlot, b, NoSlot, NoSlot)
  <2>1. r.ref = block[b].ref - z + o - z + z /\ Bit(r.busy) = w - z + o
    BY <1>1, <1>2, <1>3, <1>4, <1>8
  <2> QED
    BY <1>5, <2>1, DeltaAt
<1>9. ASSUME r.ref = block[b].ref - 1, block[b].busy = TRUE, r.busy = FALSE
      PROVE  Delta(b, NoSlot, NoSlot, NoSlot)
  <2>1. r.ref = block[b].ref - o + z - z + z /\ Bit(r.busy) = w - o + z
    BY <1>1, <1>2, <1>3, <1>4, <1>9
  <2> QED
    BY <1>5, <2>1, DeltaAt
<1>10. ASSUME r.ref = block[b].ref, block[b].busy = TRUE, r.busy = FALSE
       PROVE  Delta(b, NoSlot, NoSlot, b)
  <2>1. r.ref = block[b].ref - o + z - z + o /\ Bit(r.busy) = w - o + z
    BY <1>1, <1>2, <1>3, <1>4, <1>10
  <2> QED
    BY <1>5, <2>1, DeltaAt
<1>11. ASSUME r.ref = block[b].ref, r.busy = block[b].busy
       PROVE  Delta(NoSlot, NoSlot, NoSlot, NoSlot)
  <2>1. r.ref = block[b].ref - z + z - z + z /\ Bit(r.busy) = w - z + z
    BY <1>1, <1>2, <1>3, <1>11
  <2> QED
    BY <1>5, <2>1, DeltaAt
<1> QED
  BY <1>6, <1>7, <1>8, <1>9, <1>10, <1>11

\* A frame that keeps the slot it transfers does not move a count.
LEMMA DeltaSlot ==
    ASSUME TableInv, NEW x, NEW u, NEW v, Delta(NoSlot, NoSlot, u, v)
    PROVE  Delta(x, x, u, v)
<1> SUFFICES ASSUME NEW b \in Slots
             PROVE  /\ block'[b].ref = block[b].ref - Bit(x = b) + Bit(x = b) - Bit(u = b) + Bit(v = b)
                    /\ Bit(block'[b].busy) = Bit(block[b].busy) - Bit(x = b) + Bit(x = b)
  BY DEF Delta
<1>1. /\ block'[b].ref = block[b].ref - Bit(NoSlot = b) + Bit(NoSlot = b) - Bit(u = b) + Bit(v = b)
      /\ Bit(block'[b].busy) = Bit(block[b].busy) - Bit(NoSlot = b) + Bit(NoSlot = b)
  BY DEF Delta
<1>2. Bit(NoSlot = b) = 0
  BY SlotFacts DEF Bit
<1>3. block[b].ref \in Int
  BY Known, SlotState
<1>4. Bit(block[b].busy) \in Int /\ Bit(x = b) \in Int /\ Bit(u = b) \in Int /\ Bit(v = b) \in Int
  BY DEF Bit
<1> QED
  BY <1>1, <1>2, <1>3, <1>4

\* The same for the slot it uses.
LEMMA DeltaBoth ==
    ASSUME TableInv, NEW x, NEW u, Delta(NoSlot, NoSlot, NoSlot, NoSlot)
    PROVE  Delta(x, x, u, u)
<1> SUFFICES ASSUME NEW b \in Slots
             PROVE  /\ block'[b].ref = block[b].ref - Bit(x = b) + Bit(x = b) - Bit(u = b) + Bit(u = b)
                    /\ Bit(block'[b].busy) = Bit(block[b].busy) - Bit(x = b) + Bit(x = b)
  BY DEF Delta
<1>1. /\ block'[b].ref = block[b].ref - Bit(NoSlot = b) + Bit(NoSlot = b) - Bit(NoSlot = b) + Bit(NoSlot = b)
      /\ Bit(block'[b].busy) = Bit(block[b].busy) - Bit(NoSlot = b) + Bit(NoSlot = b)
  BY DEF Delta
<1>2. Bit(NoSlot = b) = 0
  BY SlotFacts DEF Bit
<1>3. block[b].ref \in Int
  BY Known, SlotState
<1>4. Bit(block[b].busy) \in Int /\ Bit(x = b) \in Int /\ Bit(u = b) \in Int
  BY DEF Bit
<1> QED
  BY <1>1, <1>2, <1>3, <1>4

\* The table is left alone,
LEMMA SoundSame ==
    ASSUME TableInv, block' = block, lru' = lru, active' = active, Rest'
    PROVE  Sound /\ Delta(NoSlot, NoSlot, NoSlot, NoSlot) /\ Blocks(Data)' = Blocks(Data)
<1>1. TableOK'
  BY Known DEF TableOK, Live, TableExact, Blocks
<1>2. BlocksHeld
  BY DEF BlocksHeld
<1>3. Blocks(Data)' = Blocks(Data)
  BY DEF Blocks
<1> QED
  BY <1>1, <1>2, <1>3, DeltaNone DEF Sound

\* a block that has a key changes, but for the key,
LEMMA SoundModified ==
    ASSUME TableInv, NEW b \in Slots, NEW r \in BlockType, block[b].key \in Key,
           r.key = block[b].key, r.live = TRUE, r.dirty = TRUE => r.valid = TRUE,
           block[b].valid = TRUE => r.valid = TRUE,
           block' = [block EXCEPT ![b] = r],
           lru' = lru \/ lru' = Append(Unlinked({b}), b), active' = active, Rest'
    PROVE  Sound /\ Blocks(Data)' = Blocks(Data)
<1>1. TableOK /\ block \in [Slots -> BlockType]
  BY Known
<1>2. TableOK'
  <2>1. CASE lru' = lru
    BY <1>1, <2>1, Modified
  <2>2. CASE lru' = Append(Unlinked({b}), b)
    <3>1. block[b].live = TRUE
      BY <1>1, SlotState
    <3>2. \A c \in Slots \ {b} : block[c].key # r.key
      BY <1>1, KeyFacts DEF TableOK, TableExact
    <3> QED
      BY <1>1, <2>2, <3>1, <3>2, Claimed
  <2> QED
    BY <2>1, <2>2
<1>4. \A c \in Slots : block'[c] = IF c = b THEN r ELSE block[c]
  BY <1>1
<1>5. BlocksHeld
  BY <1>4 DEF BlocksHeld
<1>6. Blocks(Data)' = Blocks(Data)
  BY <1>4 DEF Blocks
<1> QED
  BY <1>2, <1>5, <1>6 DEF Sound

\* an active slot that is not referenced gets a key,
LEMMA SoundClaimed ==
    ASSUME TableInv, NEW b \in Slots, NEW r \in BlockType, block[b].live = TRUE, block[b].ref = 0,
           r.key \in Key, r.live = TRUE, r.dirty = TRUE => r.valid = TRUE,
           \A c \in Slots \ {b} : block[c].key # r.key,
           block' = [block EXCEPT ![b] = r], lru' = Append(Unlinked({b}), b), active' = active, Rest'
    PROVE  Sound /\ (r.key \in Data \/ Blocks(Data)' \subseteq Blocks(Data))
<1>1. TableOK /\ block \in [Slots -> BlockType]
  BY Known
<1>2. TableOK'
  BY <1>1, Claimed
<1>4. \A c \in Slots : block'[c] = IF c = b THEN r ELSE block[c]
  BY <1>1
<1>5. BlocksHeld
  BY <1>4 DEF BlocksHeld
<1>6. r.key \in Data \/ Blocks(Data)' \subseteq Blocks(Data)
  BY <1>4 DEF Blocks
<1> QED
  BY <1>2, <1>5, <1>6 DEF Sound

\* idle slots are emptied,
LEMMA SoundEmptied ==
    ASSUME TableInv, NEW B, B \subseteq Slots,
           \A b \in B : block[b].live = TRUE /\ block[b].ref = 0 /\ block[b].busy = FALSE,
           block' = [b \in Slots |-> IF b \in B THEN EmptyBlock ELSE block[b]],
           lru' = Unlinked(B), active' = active, Rest'
    PROVE  Sound /\ Delta(NoSlot, NoSlot, NoSlot, NoSlot) /\ Blocks(Data)' \subseteq Blocks(Data)
<1>1. TableOK /\ block \in [Slots -> BlockType]
  BY Known
<1>2. TableOK'
  BY <1>1, Emptied
<1>3. \A c \in Slots : block'[c] = IF c \in B THEN EmptyBlock ELSE block[c]
  OBVIOUS
<1>4. EmptyBlock.ref = 0 /\ EmptyBlock.busy = FALSE /\ EmptyBlock.key = NoKey /\ NoKey \notin Data
  BY EmptyFacts, KeyFacts
<1>5. BlocksHeld
  BY <1>3 DEF BlocksHeld
<1>6. Blocks(Data)' \subseteq Blocks(Data)
  BY <1>3, <1>4 DEF Blocks
<1>7. \A c \in Slots : block'[c].ref = block[c].ref /\ block'[c].busy = block[c].busy
  BY <1>3, <1>4
<1> QED
  BY <1>2, <1>5, <1>6, <1>7, DeltaNone DEF Sound

\* one is retired,
LEMMA SoundRetired ==
    ASSUME TableInv, NEW b \in Visible, block[b].live = TRUE, block[b].ref = 0, block[b].busy = FALSE,
           block' = [block EXCEPT ![b] = RetiredBlock],
           lru' = Unlinked({b}), active' = active - 1, Rest'
    PROVE  Sound /\ Delta(NoSlot, NoSlot, NoSlot, NoSlot) /\ Blocks(Data)' \subseteq Blocks(Data)
<1>1. TableOK /\ block \in [Slots -> BlockType] /\ b \in Slots
  BY Known, SlotFacts
<1>2. TableOK'
  BY <1>1, Retired
<1>3. \A c \in Slots : block'[c] = IF c = b THEN RetiredBlock ELSE block[c]
  BY <1>1
<1>4. RetiredBlock.ref = 0 /\ RetiredBlock.busy = FALSE /\ RetiredBlock.key = NoKey /\ NoKey \notin Data
  BY EmptyFacts, KeyFacts
<1>5. BlocksHeld
  BY <1>3 DEF BlocksHeld
<1>6. Blocks(Data)' \subseteq Blocks(Data)
  BY <1>3, <1>4 DEF Blocks
<1>7. \A c \in Slots : block'[c].ref = block[c].ref /\ block'[c].busy = block[c].busy
  BY <1>3, <1>4
<1> QED
  BY <1>2, <1>5, <1>6, <1>7, DeltaNone DEF Sound

\* and retired ones become active.
LEMMA SoundGrown ==
    ASSUME TableInv, NEW B \in SUBSET {b \in Visible : ~block[b].live},
           block' = [b \in Slots |-> IF b \in B THEN EmptyBlock ELSE block[b]],
           lru' = lru, active' = active + Cardinality(B), Rest'
    PROVE  Sound /\ Delta(NoSlot, NoSlot, NoSlot, NoSlot) /\ Blocks(Data)' \subseteq Blocks(Data)
<1>1. TableOK /\ block \in [Slots -> BlockType]
  BY Known
<1>2. TableOK'
  BY <1>1, Grown
<1>3. \A c \in Slots : block'[c] = IF c \in B THEN EmptyBlock ELSE block[c]
  OBVIOUS
<1>4. EmptyBlock.ref = 0 /\ EmptyBlock.busy = FALSE /\ EmptyBlock.key = NoKey /\ NoKey \notin Data
  BY EmptyFacts, KeyFacts
<1>5. \A b \in B : block[b].ref = 0 /\ block[b].busy = FALSE
  <2> SUFFICES ASSUME NEW b \in B PROVE block[b].ref = 0 /\ block[b].busy = FALSE
    OBVIOUS
  <2>1. b \in Slots /\ block[b].live # TRUE
    BY SlotFacts
  <2> QED
    BY <1>1, <2>1, SlotState
<1>6. BlocksHeld
  BY <1>3, <1>5 DEF BlocksHeld
<1>7. Blocks(Data)' \subseteq Blocks(Data)
  BY <1>3, <1>4 DEF Blocks
<1>8. \A c \in Slots : block'[c].ref = block[c].ref /\ block'[c].busy = block[c].busy
  BY <1>3, <1>4, <1>5
<1> QED
  BY <1>2, <1>6, <1>7, <1>8, DeltaNone DEF Sound

-------------------------------------------------------------------------------
(* The bottom of a stack: the call a thread is in *)

\* The other threads stay where they are.  t stays in the call it is in, unless
\* it leaves the cache, and if that call is a close, in a nested call of it.
Kept(t) ==
  /\ \A u \in Thread \ {t} : stack'[u] = stack[u]
  /\ stack'[t] # <<>> =>
       /\ stack[t] # <<>>
       /\ stack'[t][1].fn = stack[t][1].fn /\ stack'[t][1].ks = stack[t][1].ks
       /\ stack[t][1].fn = "NxcFlushMap" => stack'[t][1].pc = stack[t][1].pc
       /\ stack[t][1].fn = "CcUninitializeCacheMap" =>
            stack'[t][1].pc = stack[t][1].pc /\ Len(stack'[t]) # 1

\* So it is when the top frame of t goes on,
LEMMA KeptOne ==
    ASSUME TableInv, NEW t \in Thread, Len(stack[t]) \in Place, NEW f \in FrameType, SetTop(t, f),
           InPlaceOf(f, stack[t][Len(stack[t])]), f.fn # "CcUninitializeCacheMap"
    PROVE  Kept(t)
<1> DEFINE s == stack[t]
           r == Front(s) \o <<f>>
<1>1. stack \in [Thread -> Seq(FrameType)] /\ s \in Seq(FrameType)
  BY Known
<1>2. TopOne(s, f, r)
  BY <1>1, ReplacedByOne
<1>3. stack' = [stack EXCEPT ![t] = r]
  BY <1>1, Zenon DEF SetTop, Replace
<1> HIDE DEF r
<1>4. stack'[t] = r /\ \A u \in Thread \ {t} : stack'[u] = stack[u]
  BY <1>1, <1>3
<1>5. PICK n \in Nat : n = Len(s)
  BY <1>1
<1>6. n # 0 /\ DOMAIN s = 1 .. n /\ Len(r) = n /\ (\A i \in 1 .. n - 1 : r[i] = s[i]) /\ r[n] = f
  BY <1>2, <1>5 DEF TopOne, Place
<1>7. s # <<>>
  BY <1>5, <1>6
<1>8. CASE n = 1
  BY <1>4, <1>5, <1>6, <1>7, <1>8 DEF Kept, InPlaceOf
<1>9. CASE n # 1
  <2>1. 1 \in 1 .. n - 1
    BY <1>6, <1>9
  <2>2. r[1] = s[1]
    BY <1>6, <2>1
  <2> QED
    BY <1>4, <1>6, <1>7, <1>9, <2>2 DEF Kept
<1> QED
  BY <1>8, <1>9

\* when it calls,
LEMMA KeptTwo ==
    ASSUME TableInv, NEW t \in Thread, Len(stack[t]) \in Place, NEW f \in FrameType, NEW g \in FrameType,
           Push(t, f, g), InPlaceOf(f, stack[t][Len(stack[t])]), f.fn # "CcUninitializeCacheMap"
    PROVE  Kept(t)
<1> DEFINE s == stack[t]
           r == Front(s) \o <<f, g>>
<1>1. stack \in [Thread -> Seq(FrameType)] /\ s \in Seq(FrameType)
  BY Known
<1>2. TopTwo(s, f, g, r)
  BY <1>1, ReplacedByTwo
<1>3. stack' = [stack EXCEPT ![t] = r]
  BY <1>1, Zenon DEF Push, Replace
<1> HIDE DEF r
<1>4. stack'[t] = r /\ \A u \in Thread \ {t} : stack'[u] = stack[u]
  BY <1>1, <1>3
<1>5. PICK n \in Nat : n = Len(s)
  BY <1>1
<1>6. n # 0 /\ DOMAIN s = 1 .. n /\ Len(r) = n + 1 /\ (\A i \in 1 .. n - 1 : r[i] = s[i]) /\ r[n] = f
  BY <1>2, <1>5 DEF TopTwo, Place
<1>7. s # <<>>
  BY <1>5, <1>6
<1>8. CASE n = 1
  BY <1>4, <1>5, <1>6, <1>7, <1>8 DEF Kept, InPlaceOf
<1>9. CASE n # 1
  <2>1. 1 \in 1 .. n - 1
    BY <1>6, <1>9
  <2>2. r[1] = s[1]
    BY <1>6, <2>1
  <2> QED
    BY <1>4, <1>6, <1>7, <1>9, <2>2 DEF Kept
<1> QED
  BY <1>8, <1>9

\* when what it calls calls in turn,
LEMMA KeptThree ==
    ASSUME TableInv, NEW t \in Thread, Len(stack[t]) \in Place, NEW f \in FrameType, NEW g \in FrameType,
           NEW h \in FrameType, Replace(t, <<f, g, h>>), InPlaceOf(f, stack[t][Len(stack[t])]),
           f.fn # "CcUninitializeCacheMap"
    PROVE  Kept(t)
<1> DEFINE s == stack[t]
           r == Front(s) \o <<f, g, h>>
<1>1. stack \in [Thread -> Seq(FrameType)] /\ s \in Seq(FrameType)
  BY Known
<1>2. TopThree(s, f, g, h, r)
  BY <1>1, ReplacedByThree
<1>3. stack' = [stack EXCEPT ![t] = r]
  BY <1>1, Zenon DEF Replace
<1> HIDE DEF r
<1>4. stack'[t] = r /\ \A u \in Thread \ {t} : stack'[u] = stack[u]
  BY <1>1, <1>3
<1>5. PICK n \in Nat : n = Len(s)
  BY <1>1
<1>6. n # 0 /\ DOMAIN s = 1 .. n /\ Len(r) = n + 2 /\ (\A i \in 1 .. n - 1 : r[i] = s[i]) /\ r[n] = f
  BY <1>2, <1>5 DEF TopThree, Place
<1>7. s # <<>>
  BY <1>5, <1>6
<1>8. CASE n = 1
  BY <1>4, <1>5, <1>6, <1>7, <1>8 DEF Kept, InPlaceOf
<1>9. CASE n # 1
  <2>1. 1 \in 1 .. n - 1
    BY <1>6, <1>9
  <2>2. r[1] = s[1]
    BY <1>6, <2>1
  <2> QED
    BY <1>4, <1>6, <1>7, <1>9, <2>2 DEF Kept
<1> QED
  BY <1>8, <1>9

\* when it goes, unless it is the NxcFlushMap of a close,
LEMMA KeptNone ==
    ASSUME TableInv, NEW t \in Thread, Len(stack[t]) \in Place, Pop(t),
           stack[t][Len(stack[t])].fn = "NxcFlushMap" => stack[t][1].fn # "CcUninitializeCacheMap"
    PROVE  Kept(t)
<1> DEFINE s == stack[t]
           r == Front(s) \o <<>>
<1>1. stack \in [Thread -> Seq(FrameType)] /\ s \in Seq(FrameType) /\ Shaped(s)
  BY Known
<1>2. TopNone(s, r)
  BY <1>1, ReplacedByNone
<1>3. stack' = [stack EXCEPT ![t] = r]
  BY <1>1, Zenon DEF Pop, Replace
<1> HIDE DEF r
<1>4. stack'[t] = r /\ \A u \in Thread \ {t} : stack'[u] = stack[u]
  BY <1>1, <1>3
<1>5. PICK n \in Nat : n = Len(s)
  BY <1>1
<1>6. n # 0 /\ DOMAIN s = 1 .. n /\ Len(r) = n - 1 /\ (\A i \in 1 .. n - 1 : r[i] = s[i]) /\ r \in Seq(FrameType)
  BY <1>2, <1>5 DEF TopNone, Place
<1>7. s # <<>>
  BY <1>5, <1>6
<1>8. CASE n = 1
  <2>1. Len(r) = 0
    BY <1>6, <1>8
  <2>2. r = <<>>
    BY <1>6, <2>1
  <2> QED
    BY <1>4, <2>2 DEF Kept
<1>9. CASE n # 1
  <2>1. 1 \in 1 .. n - 1
    BY <1>6, <1>9
  <2>2. r[1] = s[1]
    BY <1>6, <2>1
  <2>3. ASSUME Len(r) = 1, s[1].fn = "CcUninitializeCacheMap" PROVE FALSE
    <3>0. n - 1 = 1
      BY <1>6, <2>3, Zenon
    <3>1. n = 2
      BY <3>0
    <3>2. 2 \in DOMAIN s /\ 2 > 1
      BY <1>6, <3>1
    <3>3. Waits(s[2 - 1], s[2])
      BY <1>1, <3>2, AboveBottom
    <3>4. s[2].fn = "NxcFlushMap"
      BY <2>3, <3>3 DEF Waits, CopyFns, Transfers
    <3> QED
      BY <1>5, <2>3, <3>1, <3>4
  <2> QED
    BY <1>4, <1>7, <2>2, <2>3 DEF Kept
<1> QED
  BY <1>8, <1>9

\* when it returns a block or fails,
LEMMA KeptBack ==
    ASSUME TableInv, NEW t \in Thread, Len(stack[t]) \in Place, Len(stack[t]) > 1,
           stack[t][Len(stack[t])].fn = "NxcGetBlock",
           NEW m \in Slots \cup {NoSlot}, NEW ok \in BOOLEAN, Return(t, m, ok),
           \/ m \in Slots /\ ok = TRUE
           \/ m = NoSlot /\ ok = FALSE /\ Len(stack[t]) # 2
    PROVE  Kept(t)
<1> DEFINE s == stack[t]
           q == Front(s)
           r == [q EXCEPT ![Len(q)].m = m, ![Len(q)].ok = ok]
<1>1. stack \in [Thread -> Seq(FrameType)] /\ s \in Seq(FrameType) /\ Shaped(s)
  BY Known
<1>2. TopBack(s, m, ok, r)
  <2> HIDE DEF q
  <2>1. q = Front(s)
    BY DEF q
  <2> QED
    BY <1>1, <2>1, Returned
<1>3. stack' = [stack EXCEPT ![t] = r]
  BY <1>1, Zenon DEF Return
<1> HIDE DEF r
<1>4. stack'[t] = r /\ \A u \in Thread \ {t} : stack'[u] = stack[u]
  BY <1>1, <1>3
<1>5. s[Len(s) - 1].fn \in CopyFns \cup {"CcPinRead"} \cup Transfers
  BY <1>1, <1>2, TopReturns
<1>6. PICK n \in Nat : n = Len(s)
  BY <1>1
<1>7. /\ n > 1 /\ DOMAIN s = 1 .. n /\ Len(r) = n - 1 /\ (\A i \in 1 .. n - 2 : r[i] = s[i])
      /\ r[n - 1] = [s[n - 1] EXCEPT !.m = m, !.ok = ok]
  BY <1>2, <1>6 DEF TopBack
<1>8. s # <<>>
  BY <1>6, <1>7
<1>9. CASE n = 2
  <2>1. r[1] = [s[1] EXCEPT !.m = m, !.ok = ok] /\ s[1] \in FrameType
    BY <1>1, <1>6, <1>7, <1>9
  <2>2. r[1].fn = s[1].fn /\ r[1].ks = s[1].ks
    BY <2>1 DEF FrameType
  <2>3. s[1].fn # "CcUninitializeCacheMap" /\ s[1].fn # "NxcFlushMap"
    BY <1>5, <1>6, <1>9 DEF CopyFns, Transfers
  <2> QED
    BY <1>4, <1>8, <2>2, <2>3 DEF Kept
<1>10. CASE n # 2
  <2>1. 1 \in 1 .. n - 2 /\ n - 1 # 1
    BY <1>7, <1>10
  <2>2. r[1] = s[1]
    BY <1>7, <2>1
  <2> QED
    BY <1>4, <1>7, <1>8, <2>1, <2>2 DEF Kept
<1> QED
  BY <1>9, <1>10

\* and when t leaves the cache at once.
LEMMA KeptClear ==
    ASSUME TableInv, NEW t \in Thread, stack' = [stack EXCEPT ![t] = <<>>]
    PROVE  Kept(t)
<1>1. stack \in [Thread -> Seq(FrameType)]
  BY Known
<1>2. stack'[t] = <<>> /\ \A u \in Thread \ {t} : stack'[u] = stack[u]
  BY <1>1
<1> QED
  BY <1>2 DEF Kept

-------------------------------------------------------------------------------
(* The actions *)

\* The call t is in at the moment.
LEMMA TopFacts ==
    ASSUME TableInv, NEW t \in Thread, Busy(t), NEW e, e = Top(t)
    PROVE  /\ Len(stack[t]) \in Place /\ e = stack[t][Len(stack[t])]
           /\ e \in FrameType /\ Formed(e) /\ Running(e) /\ Linked(block, e)
           /\ Len(stack[t]) = 1 => e.fn \in EntryFns
           /\ Len(stack[t]) # 1 => /\ Len(stack[t]) > 1 /\ Below(t) = stack[t][Len(stack[t]) - 1]
                                   /\ Below(t) \in FrameType /\ Formed(Below(t)) /\ Waits(Below(t), e)
                                   /\ e.fn \in {"NxcGetBlock", "NxcFlushMap", "NxcFlushBlock"}
           /\ e.m \in Slots => block[e.m].ref > 0
           /\ e.fn \in Transfers /\ e.b \in Slots => block[e.b].ref > 0 /\ block[e.b].busy = TRUE
<1> DEFINE s == stack[t]
<1>1. s \in Seq(FrameType) /\ s # <<>> /\ Shaped(s)
  BY Known DEF Busy
<1>2. PICK n \in Nat : n = Len(s)
  BY <1>1
<1>3. n # 0 /\ DOMAIN s = 1 .. n
  BY <1>1, <1>2
<1>4. n \in DOMAIN s /\ 1 \in DOMAIN s /\ n \in Place
  BY <1>3 DEF Place
<1>5. e = s[n]
  BY <1>2 DEF Top, Last
<1>6. e \in FrameType /\ Formed(e) /\ Running(e) /\ Linked(block, e)
  <2>1. s[n] \in FrameType /\ Linked(block, s[n])
    BY <1>1, <1>4 DEF TableInv, Stacks
  <2>2. Formed(s[n]) /\ Running(s[n])
    BY <1>1, <1>2, <1>4 DEF Shaped
  <2> QED
    BY <1>5, <2>1, <2>2
<1>7. n = 1 => e.fn \in EntryFns
  BY <1>1, <1>5 DEF Shaped
<1>8. ASSUME n # 1
      PROVE  /\ n > 1 /\ Below(t) = s[n - 1] /\ Below(t) \in FrameType
             /\ Formed(Below(t)) /\ Waits(Below(t), e)
             /\ e.fn \in {"NxcGetBlock", "NxcFlushMap", "NxcFlushBlock"}
  <2>1. n > 1 /\ n - 1 \in DOMAIN s
    BY <1>3, <1>8
  <2>2. Below(t) = s[n - 1]
    BY <1>2 DEF Below
  <2>3. Waits(s[n - 1], s[n]) /\ s[n].fn \in {"NxcGetBlock", "NxcFlushMap", "NxcFlushBlock"}
    BY <1>1, <1>4, <2>1, AboveBottom
  <2>4. s[n - 1] \in FrameType /\ Formed(s[n - 1])
    BY <1>1, <2>1 DEF Shaped
  <2> QED
    BY <1>5, <2>1, <2>2, <2>3, <2>4
<1>9. /\ e.m \in Slots => block[e.m].ref > 0
      /\ e.fn \in Transfers /\ e.b \in Slots => block[e.b].ref > 0 /\ block[e.b].busy = TRUE
  BY <1>4, <1>5, HeldBlock
<1> QED
  BY <1>2, <1>4, <1>5, <1>6, <1>7, <1>8, <1>9

\* f is the frame with which a call begins.
NewAs(f, fn, pc, ks) ==
  /\ f \in FrameType /\ f.fn = fn /\ f.pc = pc /\ f.ks = ks /\ f.todo = ks
  /\ f.b = NoSlot /\ f.m = NoSlot /\ f.ok = TRUE
  /\ fn # "NxcFlushBlock" => Unheld(f)

\* A new frame is one, and holds nothing unless it is told to.
LEMMA NewFrame ==
    ASSUME NEW fn \in Fns, NEW pc \in Points, NEW ks \in SUBSET Key, NEW f, f = Frame(fn, pc, ks)
    PROVE  NewAs(f, fn, pc, ks) /\ Linked(block', f)
<1>1. f = [fn |-> fn, pc |-> pc, ks |-> ks, todo |-> ks, b |-> NoSlot, m |-> NoSlot, ok |-> TRUE]
  BY DEF Frame
<1>2. NoSlot \in Int /\ NoSlot \notin Slots
  BY SlotFacts
<1>3. f \in FrameType
  BY <1>1, <1>2 DEF FrameType
<1>4. f.fn = fn /\ f.pc = pc /\ f.ks = ks /\ f.todo = ks /\ f.b = NoSlot /\ f.m = NoSlot /\ f.ok = TRUE
  BY <1>1
<1>5. Linked(block', f)
  BY <1>2, <1>4 DEF Linked
<1>6. fn # "NxcFlushBlock" => Unheld(f)
  BY <1>4 DEF Unheld, SlotOf
<1> QED
  BY <1>3, <1>4, <1>5, <1>6 DEF NewAs

\* f is the frame e with these fields.
FieldsAs(f, e, pc, todo, b, m, ok) ==
  /\ f \in FrameType /\ f.fn = e.fn /\ f.pc = pc /\ f.ks = e.ks /\ f.todo = todo
  /\ f.b = b /\ f.m = m /\ f.ok = ok

\* The updates of a frame that actions make: its point,
LEMMA SetPc ==
    ASSUME NEW e \in FrameType, NEW pc \in Points,
           NEW f, f = [e EXCEPT !.pc = pc]
    PROVE  FieldsAs(f, e, pc, e.todo, e.b, e.m, e.ok)
<1>1. f \in FrameType
  BY DEF FrameType
<1>2. f.fn = e.fn /\ f.pc = pc /\ f.ks = e.ks /\ f.todo = e.todo
      /\ f.b = e.b /\ f.m = e.m
  BY DEF FrameType
<1>3. f.ok = e.ok
  BY DEF FrameType
<1> QED
  BY <1>1, <1>2, <1>3 DEF FieldsAs

\* its point and the block it uses,
LEMMA SetPcM ==
    ASSUME NEW e \in FrameType, NEW pc \in Points, NEW m \in Slots \cup {NoSlot},
           NEW f, f = [e EXCEPT !.pc = pc, !.m = m]
    PROVE  FieldsAs(f, e, pc, e.todo, e.b, m, e.ok)
<1>1. f \in FrameType
  BY DEF FrameType
<1>2. f.fn = e.fn /\ f.pc = pc /\ f.ks = e.ks /\ f.todo = e.todo
      /\ f.b = e.b /\ f.m = m
  BY DEF FrameType
<1>3. f.ok = e.ok
  BY DEF FrameType
<1> QED
  BY <1>1, <1>2, <1>3 DEF FieldsAs

\* its point and its outcome,
LEMMA SetPcOk ==
    ASSUME NEW e \in FrameType, NEW pc \in Points, NEW ok \in BOOLEAN,
           NEW f, f = [e EXCEPT !.pc = pc, !.ok = ok]
    PROVE  FieldsAs(f, e, pc, e.todo, e.b, e.m, ok)
<1>1. f \in FrameType
  BY DEF FrameType
<1>2. f.fn = e.fn /\ f.pc = pc /\ f.ks = e.ks /\ f.todo = e.todo
      /\ f.b = e.b /\ f.m = e.m
  BY DEF FrameType
<1>3. f.ok = ok
  BY DEF FrameType
<1> QED
  BY <1>1, <1>2, <1>3 DEF FieldsAs

\* the block it transfers,
LEMMA SetB ==
    ASSUME NEW e \in FrameType, NEW b \in Int,
           NEW f, f = [e EXCEPT !.b = b]
    PROVE  FieldsAs(f, e, e.pc, e.todo, b, e.m, e.ok)
<1>1. f \in FrameType
  BY DEF FrameType
<1>2. f.fn = e.fn /\ f.pc = e.pc /\ f.ks = e.ks /\ f.todo = e.todo
      /\ f.b = b /\ f.m = e.m
  BY DEF FrameType
<1>3. f.ok = e.ok
  BY DEF FrameType
<1> QED
  BY <1>1, <1>2, <1>3 DEF FieldsAs

\* what it has still to do and the block it uses.
LEMMA SetTodoM ==
    ASSUME NEW e \in FrameType, NEW todo \in SUBSET Key, NEW m \in Slots \cup {NoSlot},
           NEW f, f = [e EXCEPT !.todo = todo, !.m = m]
    PROVE  FieldsAs(f, e, e.pc, todo, e.b, m, e.ok)
<1>1. f \in FrameType
  BY DEF FrameType
<1>2. f.fn = e.fn /\ f.pc = e.pc /\ f.ks = e.ks /\ f.todo = todo
      /\ f.b = e.b /\ f.m = m
  BY DEF FrameType
<1>3. f.ok = e.ok
  BY DEF FrameType
<1> QED
  BY <1>1, <1>2, <1>3 DEF FieldsAs

\* What a step of t does that the lifetime of the map turns on.
Steady(t) ==
  /\ Kept(t) /\ opens' = opens /\ mapped' = mapped
  /\ Blocks(Data)' \subseteq Blocks(Data) \/ OnFile(t)

\* The FSD unmaps the FAT block it needed for a transfer.
LEMMA FsdUnmapStep ==
    ASSUME TableInv, NEW t \in Thread, FsdUnmap(t)
    PROVE  TableInv' /\ Steady(t)
<1> DEFINE e == Top(t)
           f == [e EXCEPT !.pc = "io", !.m = NoSlot]
           b == e.m
           r == [block[b] EXCEPT !.ref = @ - 1]
<1>1. /\ Busy(t) /\ e.fn \in Transfers /\ e.pc = "mapped" /\ mutex = NoThread
      /\ block' = IF e.ok THEN [block EXCEPT ![e.m].ref = @ - 1] ELSE block
      /\ SetTop(t, f) /\ lru' = lru /\ active' = active /\ depth' = depth
      /\ mutex' = mutex /\ opens' = opens /\ mapped' = mapped /\ size' = size /\ alloc' = alloc /\ map' = map /\ disk' = disk
  BY DEF FsdUnmap
<1>2. /\ Len(stack[t]) \in Place /\ e = stack[t][Len(stack[t])]
      /\ e \in FrameType /\ Formed(e) /\ Running(e) /\ Linked(block, e)
      /\ (e.m \in Slots => block[e.m].ref > 0)
  BY <1>1, TopFacts
<1>3. Rest'
  BY <1>1, Known DEF Rest
<1>4. /\ f \in FrameType /\ f.fn = e.fn /\ f.pc = "io" /\ f.ks = e.ks /\ f.todo = e.todo
      /\ f.b = e.b /\ f.m = NoSlot /\ f.ok = e.ok
  <2>1. FieldsAs(f, e, "io", e.todo, e.b, NoSlot, e.ok)
    <3> HIDE DEF e
    <3>1. "io" \in Points
      BY DEF Points
    <3>2. NoSlot \in Slots \cup {NoSlot}
      OBVIOUS
    <3> QED
      BY <1>2, <3>1, <3>2, SetPcM
  <2> HIDE DEF e, f
  <2> QED
    BY <2>1 DEF FieldsAs
<1>5. e.b \in Slots /\ (e.ok = TRUE <=> e.m # NoSlot) /\ e.ok \in BOOLEAN /\ e.m \in Slots \cup {NoSlot}
  BY <1>1, <1>2 DEF Formed, Running, Transfers, FrameType
<1>6. SlotOf(f) = SlotOf(e)
  BY <1>4 DEF SlotOf
<1> HIDE DEF e, f
<1>7. Formed(f) /\ Running(f) /\ InPlaceOf(f, e) /\ Like(f, e) /\ f.fn # "CcUninitializeCacheMap"
  BY <1>1, <1>2, <1>4, <1>5 DEF Formed, Running, InPlaceOf, Like, Transfers, EntryFns, CopyFns
<1>8. Sound /\ Delta(NoSlot, NoSlot, e.m, NoSlot) /\ Blocks(Data)' = Blocks(Data)
  <2>1. CASE e.ok = FALSE
    <3>1. e.m = NoSlot /\ block' = block
      BY <1>1, <1>5, <2>1
    <3> QED
      BY <1>1, <1>3, <3>1, SoundSame
  <2>2. CASE e.ok = TRUE
    <3>1. e.m \in Slots
      BY <1>5, <2>2
    <3>2. block \in [Slots -> BlockType] /\ block[b] \in BlockType
      BY <3>1, Known
    <3>3. r \in BlockType /\ r.key = block[b].key /\ r.live = block[b].live /\ r.valid = block[b].valid
          /\ r.dirty = block[b].dirty /\ r.busy = block[b].busy /\ r.ref = block[b].ref - 1
      BY <3>2 DEF BlockType
    <3>4. block' = [block EXCEPT ![b] = r]
      BY <1>1, <2>2, <3>1, <3>2
    <3>5. block[b].key \in Key
      BY <1>2, <3>1 DEF Linked
    <3>6. block[b].live = TRUE /\ (block[b].dirty = TRUE => block[b].valid = TRUE) /\ block[b].ref \in Int
      BY <3>1, <3>5, Known, SlotState DEF TableOK, TableExact
    <3> HIDE DEF r, b
    <3>b. b \in Slots /\ b = e.m
      BY <3>1 DEF b
    <3>7. Sound /\ Blocks(Data)' = Blocks(Data)
      BY <1>1, <1>3, <3>b, <3>3, <3>4, <3>5, <3>6, SoundModified
    <3>8. Delta(NoSlot, NoSlot, b, NoSlot)
      BY <3>b, <3>3, <3>4, DeltaWays
    <3> QED
      BY <3>b, <3>7, <3>8
  <2> QED
    BY <1>5, <2>1, <2>2
<1>9. Delta(SlotOf(e), SlotOf(f), e.m, f.m)
  BY <1>4, <1>6, <1>8, DeltaSlot
<1>10. TableInv'
  BY <1>1, <1>2, <1>4, <1>7, <1>8, <1>9, OneStep
<1>11. Kept(t)
  BY <1>1, <1>2, <1>4, <1>7, KeptOne
<1> QED
  BY <1>1, <1>8, <1>10, <1>11 DEF Steady

\* r is the block a with these fields.
BlockAs(r, a, data, ref, valid, dirty, busy, us) ==
  /\ r \in BlockType /\ r.key = a.key /\ r.live = a.live /\ r.data = data /\ r.ref = ref
  /\ r.valid = valid /\ r.dirty = dirty /\ r.busy = busy /\ r.unsaved = us

\* The updates of a block that actions make: its count,
LEMMA SetRef ==
    ASSUME NEW a \in BlockType, NEW ref \in Int,
           NEW r, r = [a EXCEPT !.ref = ref]
    PROVE  BlockAs(r, a, a.data, ref, a.valid, a.dirty, a.busy, a.unsaved)
<1>1. r \in BlockType
  BY DEF BlockType
<1>2. r.key = a.key /\ r.data = a.data /\ r.ref = ref
  BY DEF BlockType
<1>3. r.live = a.live /\ r.valid = a.valid
  BY DEF BlockType
<1>4. r.dirty = a.dirty /\ r.busy = a.busy /\ r.unsaved = a.unsaved
  BY DEF BlockType
<1> QED
  BY <1>1, <1>2, <1>3, <1>4 DEF BlockAs

\* its count and the mark,
LEMMA SetRefBusy ==
    ASSUME NEW a \in BlockType, NEW ref \in Int, NEW busy \in BOOLEAN,
           NEW r, r = [a EXCEPT !.ref = ref, !.busy = busy]
    PROVE  BlockAs(r, a, a.data, ref, a.valid, a.dirty, busy, a.unsaved)
<1>1. r \in BlockType
  BY DEF BlockType
<1>2. r.key = a.key /\ r.data = a.data /\ r.ref = ref
  BY DEF BlockType
<1>3. r.live = a.live /\ r.valid = a.valid
  BY DEF BlockType
<1>4. r.dirty = a.dirty /\ r.busy = busy /\ r.unsaved = a.unsaved
  BY DEF BlockType
<1> QED
  BY <1>1, <1>2, <1>3, <1>4 DEF BlockAs

\* the mark,
LEMMA SetBusy ==
    ASSUME NEW a \in BlockType, NEW busy \in BOOLEAN,
           NEW r, r = [a EXCEPT !.busy = busy]
    PROVE  BlockAs(r, a, a.data, a.ref, a.valid, a.dirty, busy, a.unsaved)
<1>1. r \in BlockType
  BY DEF BlockType
<1>2. r.key = a.key /\ r.data = a.data /\ r.ref = a.ref
  BY DEF BlockType
<1>3. r.live = a.live /\ r.valid = a.valid
  BY DEF BlockType
<1>4. r.dirty = a.dirty /\ r.busy = busy /\ r.unsaved = a.unsaved
  BY DEF BlockType
<1> QED
  BY <1>1, <1>2, <1>3, <1>4 DEF BlockAs

\* its validity,
LEMMA SetValid ==
    ASSUME NEW a \in BlockType, NEW valid \in BOOLEAN,
           NEW r, r = [a EXCEPT !.valid = valid]
    PROVE  BlockAs(r, a, a.data, a.ref, valid, a.dirty, a.busy, a.unsaved)
<1>1. r \in BlockType
  BY DEF BlockType
<1>2. r.key = a.key /\ r.data = a.data /\ r.ref = a.ref
  BY DEF BlockType
<1>3. r.live = a.live /\ r.valid = valid
  BY DEF BlockType
<1>4. r.dirty = a.dirty /\ r.busy = a.busy /\ r.unsaved = a.unsaved
  BY DEF BlockType
<1> QED
  BY <1>1, <1>2, <1>3, <1>4 DEF BlockAs

\* the mark and the count,
LEMMA SetBusyRef ==
    ASSUME NEW a \in BlockType, NEW busy \in BOOLEAN, NEW ref \in Int,
           NEW r, r = [a EXCEPT !.busy = busy, !.ref = ref]
    PROVE  BlockAs(r, a, a.data, ref, a.valid, a.dirty, busy, a.unsaved)
<1>1. r \in BlockType
  BY DEF BlockType
<1>2. r.key = a.key /\ r.data = a.data /\ r.ref = ref
  BY DEF BlockType
<1>3. r.live = a.live /\ r.valid = a.valid
  BY DEF BlockType
<1>4. r.dirty = a.dirty /\ r.busy = busy /\ r.unsaved = a.unsaved
  BY DEF BlockType
<1> QED
  BY <1>1, <1>2, <1>3, <1>4 DEF BlockAs

\* these and whether it is dirty,
LEMMA SetBusyRefDirty ==
    ASSUME NEW a \in BlockType, NEW busy \in BOOLEAN, NEW ref \in Int, NEW dirty \in BOOLEAN,
           NEW r, r = [a EXCEPT !.busy = busy, !.ref = ref, !.dirty = dirty]
    PROVE  BlockAs(r, a, a.data, ref, a.valid, dirty, busy, a.unsaved)
<1>1. r \in BlockType
  BY DEF BlockType
<1>2. r.key = a.key /\ r.data = a.data /\ r.ref = ref
  BY DEF BlockType
<1>3. r.live = a.live /\ r.valid = a.valid
  BY DEF BlockType
<1>4. r.dirty = dirty /\ r.busy = busy /\ r.unsaved = a.unsaved
  BY DEF BlockType
<1> QED
  BY <1>1, <1>2, <1>3, <1>4 DEF BlockAs

\* what a read sets,
LEMMA SetDataValidBusy ==
    ASSUME NEW a \in BlockType, NEW data \in Datum, NEW valid \in BOOLEAN, NEW busy \in BOOLEAN,
           NEW r, r = [a EXCEPT !.data = data, !.valid = valid, !.busy = busy]
    PROVE  BlockAs(r, a, data, a.ref, valid, a.dirty, busy, a.unsaved)
<1>1. r \in BlockType
  BY DEF BlockType
<1>2. r.key = a.key /\ r.data = data /\ r.ref = a.ref
  BY DEF BlockType
<1>3. r.live = a.live /\ r.valid = valid
  BY DEF BlockType
<1>4. r.dirty = a.dirty /\ r.busy = busy /\ r.unsaved = a.unsaved
  BY DEF BlockType
<1> QED
  BY <1>1, <1>2, <1>3, <1>4 DEF BlockAs

\* what a copy sets,
LEMMA SetRefDataDirtyUnsaved ==
    ASSUME NEW a \in BlockType, NEW ref \in Int, NEW data \in Datum, NEW dirty \in BOOLEAN,
           NEW us \in BOOLEAN, NEW r, r = [a EXCEPT !.ref = ref, !.data = data, !.dirty = dirty, !.unsaved = us]
    PROVE  BlockAs(r, a, data, ref, a.valid, dirty, a.busy, us)
<1>1. r \in BlockType
  BY DEF BlockType
<1>2. r.key = a.key /\ r.data = data /\ r.ref = ref
  BY DEF BlockType
<1>3. r.live = a.live /\ r.valid = a.valid
  BY DEF BlockType
<1>4. r.dirty = dirty /\ r.busy = a.busy /\ r.unsaved = us
  BY DEF BlockType
<1> QED
  BY <1>1, <1>2, <1>3, <1>4 DEF BlockAs

\* what one that fails sets,
LEMMA SetRefDataUnsaved ==
    ASSUME NEW a \in BlockType, NEW ref \in Int, NEW data \in Datum,
           NEW us \in BOOLEAN, NEW r, r = [a EXCEPT !.ref = ref, !.data = data, !.unsaved = us]
    PROVE  BlockAs(r, a, data, ref, a.valid, a.dirty, a.busy, us)
<1>1. r \in BlockType
  BY DEF BlockType
<1>2. r.key = a.key /\ r.data = data /\ r.ref = ref
  BY DEF BlockType
<1>3. r.live = a.live /\ r.valid = a.valid
  BY DEF BlockType
<1>4. r.dirty = a.dirty /\ r.busy = a.busy /\ r.unsaved = us
  BY DEF BlockType
<1> QED
  BY <1>1, <1>2, <1>3, <1>4 DEF BlockAs

\* whether it is dirty,
LEMMA SetDirty ==
    ASSUME NEW a \in BlockType, NEW dirty \in BOOLEAN,
           NEW r, r = [a EXCEPT !.dirty = dirty]
    PROVE  BlockAs(r, a, a.data, a.ref, a.valid, dirty, a.busy, a.unsaved)
<1>1. r \in BlockType
  BY DEF BlockType
<1>2. r.key = a.key /\ r.data = a.data /\ r.ref = a.ref
  BY DEF BlockType
<1>3. r.live = a.live /\ r.valid = a.valid
  BY DEF BlockType
<1>4. r.dirty = dirty /\ r.busy = a.busy /\ r.unsaved = a.unsaved
  BY DEF BlockType
<1> QED
  BY <1>1, <1>2, <1>3, <1>4 DEF BlockAs

\* whether it is dirty, and what became of its contents,
LEMMA SetDirtyUnsaved ==
    ASSUME NEW a \in BlockType, NEW dirty \in BOOLEAN, NEW us \in BOOLEAN,
           NEW r, r = [a EXCEPT !.dirty = dirty, !.unsaved = us]
    PROVE  BlockAs(r, a, a.data, a.ref, a.valid, dirty, a.busy, us)
<1>1. r \in BlockType
  BY DEF BlockType
<1>2. r.key = a.key /\ r.data = a.data /\ r.ref = a.ref
  BY DEF BlockType
<1>3. r.live = a.live /\ r.valid = a.valid
  BY DEF BlockType
<1>4. r.dirty = dirty /\ r.busy = a.busy /\ r.unsaved = us
  BY DEF BlockType
<1> QED
  BY <1>1, <1>2, <1>3, <1>4 DEF BlockAs

\* its contents.
LEMMA SetData ==
    ASSUME NEW a \in BlockType, NEW data \in Datum,
           NEW r, r = [a EXCEPT !.data = data]
    PROVE  BlockAs(r, a, data, a.ref, a.valid, a.dirty, a.busy, a.unsaved)
<1>1. r \in BlockType
  BY DEF BlockType
<1>2. r.key = a.key /\ r.data = data /\ r.ref = a.ref
  BY DEF BlockType
<1>3. r.live = a.live /\ r.valid = a.valid
  BY DEF BlockType
<1>4. r.dirty = a.dirty /\ r.busy = a.busy /\ r.unsaved = a.unsaved
  BY DEF BlockType
<1> QED
  BY <1>1, <1>2, <1>3, <1>4 DEF BlockAs

\* A slot filled anew.
LEMMA SetKeyRef ==
    ASSUME NEW a \in BlockType, NEW k \in Key, NEW n \in Int, NEW r, r = [a EXCEPT !.key = k, !.ref = n]
    PROVE  r \in BlockType
BY DEF BlockType

\* A block in the cache.
LEMMA BlockInfo ==
    ASSUME TableInv, NEW b \in Slots, block[b].key \in Key
    PROVE  /\ block \in [Slots -> BlockType] /\ block[b] \in BlockType /\ block[b].live = TRUE
           /\ block[b].dirty = TRUE => block[b].valid = TRUE
           /\ block[b].ref \in Int /\ block[b].busy \in BOOLEAN /\ block[b].valid \in BOOLEAN
           /\ block[b].dirty \in BOOLEAN /\ block[b].data \in Datum /\ block[b].unsaved \in BOOLEAN
<1>1. TableOK /\ block \in [Slots -> BlockType]
  BY Known
<1>2. \A c \in Slots : block[c].dirty => block[c].valid
  BY <1>1 DEF TableOK, TableExact
<1> QED
  BY <1>1, <1>2, SlotState

\* The device writes the block or fails to.
LEMMA NxcFlushIoStep ==
    ASSUME TableInv, NEW t \in Thread, NxcFlushIo(t)
    PROVE  TableInv' /\ Steady(t)
<1> DEFINE e == Top(t)
<1>1. PICK o \in BOOLEAN :
        /\ disk' = IF o THEN [disk EXCEPT ![OwnKey(t)] = block[e.b].data] ELSE disk
        /\ SetTop(t, [e EXCEPT !.pc = "done", !.ok = o])
  BY DEF NxcFlushIo, Outcomes
<1>2. /\ Busy(t) /\ e.fn = "NxcFlushBlock" /\ e.pc = "io"
      /\ block' = block /\ lru' = lru /\ active' = active /\ depth' = depth
      /\ mutex' = mutex /\ opens' = opens /\ mapped' = mapped /\ size' = size /\ alloc' = alloc /\ map' = map
  BY DEF NxcFlushIo, In
<1>3. /\ Len(stack[t]) \in Place /\ e = stack[t][Len(stack[t])]
      /\ e \in FrameType /\ Formed(e) /\ Linked(block, e)
  BY <1>2, TopFacts
<1>4. e.b \in Slots /\ e.m = NoSlot
  BY <1>2, <1>3 DEF Formed
<1>5. OwnKey(t) \in Key /\ block[e.b].data \in Datum
  <2>1. OwnKey(t) = block[e.b].key
    BY DEF OwnKey
  <2>2. block[e.b].key \in Key
    BY <1>2, <1>3, <1>4 DEF Linked, Transfers
  <2> HIDE DEF e
  <2> QED
    BY <1>4, <2>1, <2>2, BlockInfo
<1>6. Rest'
  <2>1. disk' \in [Key -> Datum]
    BY <1>1, <1>5, Known DEF Rest
  <2> QED
    BY <1>2, <2>1, Known DEF Rest
<1> HIDE DEF e
<1>7. PICK f : f = [e EXCEPT !.pc = "done", !.ok = o]
  OBVIOUS
<1>8. FieldsAs(f, e, "done", e.todo, e.b, e.m, o)
  <2>1. "done" \in Points
    BY DEF Points
  <2> QED
    BY <1>3, <1>7, <2>1, SetPcOk
<1>9. /\ f \in FrameType /\ f.fn = e.fn /\ f.pc = "done" /\ f.ks = e.ks /\ f.b = e.b /\ f.m = e.m
      /\ SetTop(t, f)
  BY <1>1, <1>7, <1>8 DEF FieldsAs
<1>10. SlotOf(f) = SlotOf(e)
  BY <1>9 DEF SlotOf
<1>11. Formed(f) /\ Running(f) /\ InPlaceOf(f, e) /\ Like(f, e) /\ f.fn # "CcUninitializeCacheMap"
  BY <1>2, <1>3, <1>4, <1>9 DEF Formed, Running, InPlaceOf, Like, Transfers, EntryFns, CopyFns
<1>12. Sound /\ Delta(NoSlot, NoSlot, NoSlot, NoSlot) /\ Blocks(Data)' = Blocks(Data)
  BY <1>2, <1>6, SoundSame
<1>13. Delta(SlotOf(e), SlotOf(f), e.m, f.m)
  BY <1>4, <1>9, <1>10, <1>12, DeltaSlot
<1>14. TableInv'
  BY <1>2, <1>3, <1>9, <1>11, <1>12, <1>13, OneStep
<1>15. Kept(t)
  BY <1>3, <1>9, <1>11, KeptOne
<1> QED
  BY <1>2, <1>12, <1>14, <1>15 DEF Steady

\* The end of a write-back.
LEMMA NxcFlushBlockStep ==
    ASSUME TableInv, NEW t \in Thread, NxcFlushBlock(t)
    PROVE  TableInv' /\ Steady(t)
<1> DEFINE e == Top(t)
           b == e.b
           d == StillDirty(t)
           r == [block[b] EXCEPT !.busy = FALSE, !.ref = @ - 1, !.dirty = d]
<1>1. /\ Busy(t) /\ e.fn = "NxcFlushBlock" /\ e.pc = "done"
      /\ block' = [block EXCEPT ![e.b].busy = FALSE, ![e.b].ref = @ - 1, ![e.b].dirty = StillDirty(t)]
      /\ lru' = lru /\ active' = active /\ depth' = depth - 1 /\ Pop(t) /\ mutex' = t
      /\ opens' = opens /\ mapped' = mapped /\ size' = size /\ alloc' = alloc /\ map' = map /\ disk' = disk
  BY DEF NxcFlushBlock, In, Lock
<1>2. /\ Len(stack[t]) \in Place /\ e = stack[t][Len(stack[t])]
      /\ e \in FrameType /\ Formed(e) /\ Linked(block, e)
      /\ (e.fn \in Transfers /\ e.b \in Slots => block[e.b].ref > 0 /\ block[e.b].busy = TRUE)
      /\ (Len(stack[t]) # 1 => Below(t) = stack[t][Len(stack[t]) - 1] /\ Waits(Below(t), e))
  BY <1>1, TopFacts
<1>3. b \in Slots /\ e.m = NoSlot /\ block[b].busy = TRUE /\ block[b].key \in Key
  BY <1>1, <1>2 DEF Formed, Linked, Transfers
<1>4. d \in BOOLEAN /\ (d = TRUE => block[b].dirty = TRUE)
  BY DEF StillDirty
<1>5. Rest'
  BY <1>1, Known DEF Rest
<1>6. Len(stack[t]) > 1 => Running(stack[t][Len(stack[t]) - 1])
  <2>1. Len(stack[t]) > 1 => Len(stack[t]) # 1
    BY <1>2 DEF Place
  <2>2. Len(stack[t]) # 1 => Running(Below(t))
    BY <1>1, <1>2 DEF Waits, Running, CopyFns, Transfers
  <2> QED
    BY <1>2, <2>1, <2>2
<1>7. SlotOf(e) = b
  BY <1>1 DEF SlotOf, Transfers
<1> HIDE DEF e, b, d
<1>8. /\ block \in [Slots -> BlockType] /\ block[b] \in BlockType /\ block[b].live = TRUE
      /\ (block[b].dirty = TRUE => block[b].valid = TRUE) /\ block[b].ref \in Int
  BY <1>3, BlockInfo
<1>9. /\ r \in BlockType /\ r.key = block[b].key /\ r.live = block[b].live /\ r.valid = block[b].valid
      /\ r.dirty = d /\ r.busy = FALSE /\ r.ref = block[b].ref - 1
  <2>1. block[b].ref - 1 \in Int /\ FALSE \in BOOLEAN
    BY <1>8
  <2>2. BlockAs(r, block[b], block[b].data, block[b].ref - 1, block[b].valid, d, FALSE, block[b].unsaved)
    BY <1>4, <1>8, <2>1, SetBusyRefDirty
  <2> HIDE DEF r
  <2> QED
    BY <2>2 DEF BlockAs
<1>10. block' = [block EXCEPT ![b] = r]
  BY <1>1, <1>3, <1>8 DEF b, d
<1> HIDE DEF r
<1>11. Sound /\ Blocks(Data)' = Blocks(Data)
  BY <1>1, <1>3, <1>4, <1>5, <1>8, <1>9, <1>10, SoundModified
<1>12. Delta(b, NoSlot, NoSlot, NoSlot)
  BY <1>3, <1>9, <1>10, DeltaWays
<1>13. depth' = depth - Bit(e.fn = "NxcFlushBlock")
  BY <1>1 DEF Bit
<1>14. TableInv'
  BY <1>1, <1>2, <1>3, <1>6, <1>7, <1>11, <1>12, <1>13, NoneStep
<1>15. Kept(t)
  BY <1>1, <1>2, KeptNone
<1> QED
  BY <1>1, <1>11, <1>14, <1>15 DEF Steady

\* The owner of a pinned block changes it,
LEMMA PinnedWriteStep ==
    ASSUME TableInv, NEW t \in Thread, PinnedWrite(t)
    PROVE  TableInv' /\ Steady(t)
<1> DEFINE e == Top(t)
           b == e.m
<1>1. PICK v \in Value[GetKey(t)] : block' = [block EXCEPT ![b].data = v]
  BY DEF PinnedWrite
<1>2. /\ Busy(t) /\ e.fn = "CcPinRead" /\ e.pc = "pinned" /\ SetTop(t, [e EXCEPT !.pc = "changed"])
      /\ lru' = lru /\ active' = active /\ depth' = depth
      /\ mutex' = mutex /\ opens' = opens /\ mapped' = mapped /\ size' = size /\ alloc' = alloc /\ map' = map /\ disk' = disk
  BY DEF PinnedWrite, In
<1>3. /\ Len(stack[t]) \in Place /\ e = stack[t][Len(stack[t])]
      /\ e \in FrameType /\ Formed(e) /\ Running(e) /\ Linked(block, e)
  BY <1>2, TopFacts
<1>4. b \in Slots /\ block[b].key \in Key /\ \E k \in Fat : e.ks = {k}
  BY <1>2, <1>3 DEF Formed, Running, Linked
<1>5. v \in Datum
  <2>1. PICK k \in Fat : e.ks = {k}
    BY <1>4
  <2>2. GetKey(t) = k
    BY <2>1 DEF GetKey
  <2>3. k \in Key /\ v \in Value[k]
    BY <1>1, <2>2, KeyFacts
  <2> QED
    BY <2>3 DEF Datum
<1>6. Rest'
  BY <1>2, Known DEF Rest
<1> HIDE DEF e, b
<1>7. PICK f : f = [e EXCEPT !.pc = "changed"]
  OBVIOUS
<1>8. FieldsAs(f, e, "changed", e.todo, e.b, e.m, e.ok)
  <2>1. "changed" \in Points
    BY DEF Points
  <2> QED
    BY <1>3, <1>7, <2>1, SetPc
<1>9. /\ f \in FrameType /\ f.fn = e.fn /\ f.ks = e.ks /\ f.b = e.b /\ f.m = e.m /\ SetTop(t, f)
  BY <1>2, <1>7, <1>8 DEF FieldsAs
<1>10. SlotOf(f) = SlotOf(e)
  BY <1>9 DEF SlotOf
<1>11. Formed(f) /\ Running(f) /\ InPlaceOf(f, e) /\ Like(f, e) /\ f.fn # "CcUninitializeCacheMap"
  BY <1>2, <1>3, <1>9 DEF Formed, Running, InPlaceOf, Like, Transfers, EntryFns, CopyFns
<1>12. /\ block \in [Slots -> BlockType] /\ block[b] \in BlockType /\ block[b].live = TRUE
       /\ (block[b].dirty = TRUE => block[b].valid = TRUE) /\ block[b].ref \in Int
  BY <1>4, BlockInfo
<1> DEFINE r == [block[b] EXCEPT !.data = v]
<1>13. BlockAs(r, block[b], v, block[b].ref, block[b].valid, block[b].dirty, block[b].busy, block[b].unsaved)
  BY <1>5, <1>12, SetData
<1>14. block' = [block EXCEPT ![b] = r]
  BY <1>1, <1>4, <1>12
<1> HIDE DEF r
<1>15. Sound /\ Blocks(Data)' = Blocks(Data)
  BY <1>2, <1>4, <1>6, <1>12, <1>13, <1>14, SoundModified DEF BlockAs
<1>16. Delta(NoSlot, NoSlot, NoSlot, NoSlot)
  BY <1>4, <1>13, <1>14, DeltaWays DEF BlockAs
<1>17. Delta(SlotOf(e), SlotOf(f), e.m, f.m)
  BY <1>9, <1>10, <1>16, DeltaBoth
<1>18. TableInv'
  BY <1>2, <1>3, <1>9, <1>11, <1>15, <1>17, OneStep
<1>19. Kept(t)
  BY <1>3, <1>9, <1>11, KeptOne
<1> QED
  BY <1>2, <1>15, <1>18, <1>19 DEF Steady

\* marks it dirty,
LEMMA CcSetDirtyPinnedDataStep ==
    ASSUME TableInv, NEW t \in Thread, CcSetDirtyPinnedData(t)
    PROVE  TableInv' /\ Steady(t)
<1> DEFINE e == Top(t)
           b == e.m
<1>2. /\ Busy(t) /\ e.fn = "CcPinRead" /\ e.pc = "changed" /\ SetTop(t, [e EXCEPT !.pc = "dirtied"])
      /\ block' = [block EXCEPT ![b].dirty = TRUE] /\ lru' = lru /\ active' = active /\ depth' = depth
      /\ mutex' = mutex /\ opens' = opens /\ mapped' = mapped /\ size' = size /\ alloc' = alloc /\ map' = map /\ disk' = disk
  BY DEF CcSetDirtyPinnedData, In
<1>3. /\ Len(stack[t]) \in Place /\ e = stack[t][Len(stack[t])]
      /\ e \in FrameType /\ Formed(e) /\ Running(e) /\ Linked(block, e)
  BY <1>2, TopFacts
<1>4. b \in Slots /\ block[b].key \in Key /\ block[b].valid = TRUE
  BY <1>2, <1>3 DEF Formed, Running, Linked
<1>6. Rest'
  BY <1>2, Known DEF Rest
<1> HIDE DEF e, b
<1>7. PICK f : f = [e EXCEPT !.pc = "dirtied"]
  OBVIOUS
<1>8. FieldsAs(f, e, "dirtied", e.todo, e.b, e.m, e.ok)
  <2>1. "dirtied" \in Points
    BY DEF Points
  <2> QED
    BY <1>3, <1>7, <2>1, SetPc
<1>9. /\ f \in FrameType /\ f.fn = e.fn /\ f.ks = e.ks /\ f.b = e.b /\ f.m = e.m /\ SetTop(t, f)
  BY <1>2, <1>7, <1>8 DEF FieldsAs
<1>10. SlotOf(f) = SlotOf(e)
  BY <1>9 DEF SlotOf
<1>11. Formed(f) /\ Running(f) /\ InPlaceOf(f, e) /\ Like(f, e) /\ f.fn # "CcUninitializeCacheMap"
  BY <1>2, <1>3, <1>9 DEF Formed, Running, InPlaceOf, Like, Transfers, EntryFns, CopyFns
<1>12. /\ block \in [Slots -> BlockType] /\ block[b] \in BlockType /\ block[b].live = TRUE
       /\ block[b].ref \in Int
  BY <1>4, BlockInfo
<1> DEFINE r == [block[b] EXCEPT !.dirty = TRUE]
<1>13. BlockAs(r, block[b], block[b].data, block[b].ref, block[b].valid, TRUE, block[b].busy, block[b].unsaved)
  BY <1>12, SetDirty
<1>14. block' = [block EXCEPT ![b] = r]
  BY <1>2, <1>4, <1>12
<1> HIDE DEF r
<1>15. Sound /\ Blocks(Data)' = Blocks(Data)
  BY <1>2, <1>4, <1>6, <1>12, <1>13, <1>14, SoundModified DEF BlockAs
<1>16. Delta(NoSlot, NoSlot, NoSlot, NoSlot)
  BY <1>4, <1>13, <1>14, DeltaWays DEF BlockAs
<1>17. Delta(SlotOf(e), SlotOf(f), e.m, f.m)
  BY <1>9, <1>10, <1>16, DeltaBoth
<1>18. TableInv'
  BY <1>2, <1>3, <1>9, <1>11, <1>15, <1>17, OneStep
<1>19. Kept(t)
  BY <1>3, <1>9, <1>11, KeptOne
<1> QED
  BY <1>2, <1>15, <1>18, <1>19 DEF Steady

\* and unpins it.
LEMMA CcUnpinDataStep ==
    ASSUME TableInv, NEW t \in Thread, CcUnpinData(t)
    PROVE  TableInv' /\ Steady(t)
<1> DEFINE e == Top(t)
           b == e.m
<1>2. /\ Busy(t) /\ e.fn = "CcPinRead" /\ Pop(t)
      /\ block' = [block EXCEPT ![b].ref = @ - 1] /\ lru' = lru /\ active' = active /\ depth' = depth
      /\ mutex' = mutex /\ opens' = opens /\ mapped' = mapped /\ size' = size /\ alloc' = alloc /\ map' = map /\ disk' = disk
  BY DEF CcUnpinData, In
<1>3. /\ Len(stack[t]) \in Place /\ e = stack[t][Len(stack[t])] /\ Len(stack[t]) = 1
      /\ e \in FrameType /\ Formed(e) /\ Running(e) /\ Linked(block, e)
  BY <1>2, TopFacts
<1>4. b \in Slots /\ block[b].key \in Key /\ block[b].valid = TRUE
  BY <1>2, <1>3 DEF Formed, Running, Linked
<1>5. SlotOf(e) = NoSlot
  BY <1>2 DEF SlotOf, Transfers
<1>6. Rest'
  BY <1>2, Known DEF Rest
<1> HIDE DEF e, b
<1>11. /\ block \in [Slots -> BlockType] /\ block[b] \in BlockType /\ block[b].live = TRUE
       /\ block[b].ref \in Int /\ (block[b].dirty = TRUE => block[b].valid = TRUE)
  BY <1>4, BlockInfo
<1>12. block[b].ref - 1 \in Int
  BY <1>11
<1> DEFINE n == block[b].ref - 1
           r == [block[b] EXCEPT !.ref = n]
<1>13. BlockAs(r, block[b], block[b].data, n, block[b].valid, block[b].dirty, block[b].busy, block[b].unsaved)
  BY <1>11, <1>12, SetRef
<1>14. block' = [block EXCEPT ![b] = r]
  BY <1>2, <1>4, <1>11
<1> HIDE DEF r
<1>15. Sound /\ Blocks(Data)' = Blocks(Data)
  BY <1>2, <1>4, <1>6, <1>11, <1>13, <1>14, SoundModified DEF BlockAs
<1>16. Delta(NoSlot, NoSlot, b, NoSlot)
  BY <1>4, <1>13, <1>14, DeltaWays DEF BlockAs
<1>17. depth' = depth - Bit(e.fn = "NxcFlushBlock")
  BY <1>2, Known DEF Bit
<1>18. TableInv'
  <2>1. b = e.m
    BY DEF b
  <2>2. ~(Len(stack[t]) > 1)
    BY <1>3
  <2> QED
    BY <1>2, <1>3, <1>5, <1>15, <1>16, <1>17, <2>1, <2>2, NoneStep
<1>19. Kept(t)
  BY <1>2, <1>3, KeptNone
<1> QED
  BY <1>2, <1>15, <1>18, <1>19 DEF Steady

\* The frame that gets a block.
LEMMA GettingFrame ==
    ASSUME NEW ks, ks \subseteq Key, ks # {}, NEW g, g = Getting(ks)
    PROVE  /\ g \in FrameType /\ g.fn = "NxcGetBlock" /\ g.ks \subseteq ks /\ Formed(g) /\ Running(g)
           /\ Unheld(g) /\ Linked(block', g)
<1>1. PICK k \in ks : k = First(ks)
  BY FirstIn
<1>2. g = Frame("NxcGetBlock", "look", {k})
  BY <1>1 DEF Getting
<1>3. "NxcGetBlock" \in Fns /\ "look" \in Points /\ {k} \in SUBSET Key /\ k \in Key
  BY <1>1 DEF Fns, Transfers, Points
<1>4. /\ g \in FrameType /\ g.fn = "NxcGetBlock" /\ g.pc = "look" /\ g.ks = {k}
      /\ g.b = NoSlot /\ g.m = NoSlot /\ Linked(block', g) /\ Unheld(g)
  <2>1. NewAs(g, "NxcGetBlock", "look", {k}) /\ Linked(block', g)
    BY <1>2, <1>3, NewFrame
  <2> QED
    BY <2>1 DEF NewAs
<1>5. Formed(g) /\ Running(g)
  BY <1>3, <1>4 DEF Formed, Running, Transfers, EntryFns, CopyFns
<1> QED
  BY <1>1, <1>4, <1>5

\* The frame of NxcFlushMap.
LEMMA MapFrame ==
    ASSUME NEW ks, ks \subseteq Key, NEW pc \in {"flush", "drop"}, TableInv,
           NEW g, g = Flushing(pc, ks)
    PROVE  /\ g \in FrameType /\ g.fn = "NxcFlushMap" /\ g.pc = pc /\ g.ks = ks /\ Formed(g) /\ Running(g)
           /\ Unheld(g) /\ Linked(block', g)
<1>1. "NxcFlushMap" \in Fns /\ pc \in Points /\ ks \in SUBSET Key
  BY DEF Fns, EntryFns, Points
<1>2. PICK h : h = Frame("NxcFlushMap", pc, ks)
  OBVIOUS
<1>4. h \in FrameType /\ h.fn = "NxcFlushMap" /\ h.pc = pc /\ h.ks = ks /\ h.m = NoSlot
  <2>1. NewAs(h, "NxcFlushMap", pc, ks)
    BY <1>1, <1>2, NewFrame
  <2> QED
    BY <2>1 DEF NewAs
<1>5. map \in Int
  <2>1. map \in Maps
    BY DEF TableInv, Types
  <2> QED
    BY <2>1, CacheAssumption
<1>6. g = [h EXCEPT !.b = map]
  BY <1>2 DEF Flushing
<1>7. g \in FrameType /\ g.fn = "NxcFlushMap" /\ g.pc = pc /\ g.ks = ks /\ g.m = NoSlot
  <2>1. FieldsAs(g, h, h.pc, h.todo, map, h.m, h.ok)
    BY <1>4, <1>5, <1>6, SetB
  <2> QED
    BY <1>4, <2>1 DEF FieldsAs
<1>8. Unheld(g)
  BY <1>7 DEF Unheld, SlotOf, Transfers
<1>9. Linked(block', g)
  BY <1>7, SlotFacts DEF Linked, Transfers
<1>3. Formed(g) /\ Running(g)
  BY <1>7 DEF Formed, Running, Transfers, EntryFns, CopyFns
<1> QED
  BY <1>3, <1>7, <1>8, <1>9

\* A copy is done with one block.
LEMMA CopyBlockStep ==
    ASSUME TableInv, NEW t \in Thread, CopyBlock(t)
    PROVE  TableInv' /\ Steady(t)
<1> DEFINE e == Top(t)
           rest == e.todo \ {First(e.todo)}
           G == [e EXCEPT !.todo = rest, !.m = NoSlot]
           b == e.m
<1>1. PICK v \in IF e.fn = "CcCopyWrite" THEN Value[First(e.todo)] ELSE {block[e.m].data} :
        block' = [block EXCEPT ![b].ref = @ - 1, ![b].data = v, ![b].dirty = @ \/ e.fn = "CcCopyWrite",
                               ![b].unsaved = @ /\ e.fn # "CcCopyWrite"]
  BY Zenon DEF CopyBlock
<1>2. /\ Busy(t) /\ e.fn \in CopyFns /\ lru' = lru /\ active' = active /\ depth' = depth
      /\ opens' = opens /\ mapped' = mapped /\ size' = size /\ alloc' = alloc /\ map' = map /\ disk' = disk
  BY DEF CopyBlock, Keeps, CopyFns
<1>3. \/ rest # {} /\ Push(t, G, Getting(rest)) /\ mutex' = t
      \/ Pop(t) /\ mutex' = NoThread
      \/ Push(t, G, Flushing("flush", e.ks)) /\ mutex' = NoThread
  BY Zenon DEF CopyBlock, Lock, Unlock
<1>4. /\ Len(stack[t]) \in Place /\ e = stack[t][Len(stack[t])] /\ Len(stack[t]) = 1
      /\ e \in FrameType /\ Formed(e) /\ Running(e) /\ Linked(block, e)
  BY <1>2, TopFacts DEF CopyFns
<1>5. b \in Slots /\ block[b].key \in Key /\ block[b].valid = TRUE
  BY <1>2, <1>4 DEF Running, Linked
<1>6. e.todo \subseteq e.ks /\ e.ks \subseteq Key /\ e.todo # {} /\ e.ks # {} /\ e.ks \subseteq Data
  BY <1>2, <1>4, KeyFacts DEF Formed, Running
<1>7. SlotOf(e) = NoSlot
  BY <1>2 DEF SlotOf, Transfers, CopyFns
<1>8. Rest'
  BY <1>2, <1>3, Known DEF Rest
<1> HIDE DEF e, b
<1>9. /\ block \in [Slots -> BlockType] /\ block[b] \in BlockType /\ block[b].live = TRUE
      /\ block[b].ref \in Int /\ block[b].data \in Datum
  BY <1>5, BlockInfo
<1>10. v \in Datum
  <2>1. First(e.todo) \in Key
    BY <1>6, FirstIn
  <2>2. e.fn = "CcCopyWrite" => v \in Datum
    BY <1>1, <2>1 DEF Datum
  <2>3. e.fn # "CcCopyWrite" => v \in Datum
    BY <1>1, <1>9 DEF b
  <2> QED
    BY <2>2, <2>3
<1> DEFINE n == block[b].ref - 1
           d == block[b].dirty \/ e.fn = "CcCopyWrite"
           us == block[b].unsaved /\ e.fn # "CcCopyWrite"
           r == [block[b] EXCEPT !.ref = n, !.data = v, !.dirty = d, !.unsaved = us]
<1>11. n \in Int /\ d \in BOOLEAN /\ us \in BOOLEAN
  BY <1>9
<1>12. block' = [block EXCEPT ![b] = r]
  BY <1>1, <1>5, <1>9 DEF b
<1>13. BlockAs(r, block[b], v, n, block[b].valid, d, block[b].busy, us)
  <2> HIDE DEF n, d, us
  <2> QED
    BY <1>9, <1>10, <1>11, SetRefDataDirtyUnsaved
<1> HIDE DEF r
<1>14. Sound /\ Blocks(Data)' = Blocks(Data)
  BY <1>2, <1>5, <1>8, <1>9, <1>12, <1>13, SoundModified DEF BlockAs
<1>15. Delta(NoSlot, NoSlot, e.m, NoSlot)
  <2>1. Delta(NoSlot, NoSlot, b, NoSlot)
    BY <1>5, <1>12, <1>13, DeltaWays DEF BlockAs
  <2> QED
    BY <2>1 DEF b
<1>16. CASE Pop(t)
  <2>1. depth' = depth - Bit(e.fn = "NxcFlushBlock")
    BY <1>2, Known DEF Bit, CopyFns
  <2>2. ~(Len(stack[t]) > 1)
    BY <1>4
  <2>3. TableInv'
    BY <1>4, <1>7, <1>14, <1>15, <1>16, <2>1, <2>2, NoneStep
  <2>4. Kept(t)
    BY <1>2, <1>4, <1>16, KeptNone DEF CopyFns
  <2> QED
    BY <1>2, <1>14, <2>3, <2>4 DEF Steady
<1>17. PICK g : g = G
  OBVIOUS
<1> HIDE DEF rest
<1>18. rest \in SUBSET Key /\ rest \subseteq e.ks
  BY <1>6 DEF rest
<1>19. FieldsAs(g, e, e.pc, rest, e.b, NoSlot, e.ok)
  <2>1. NoSlot \in Slots \cup {NoSlot}
    OBVIOUS
  <2> QED
    BY <1>4, <1>17, <1>18, <2>1, SetTodoM
<1> HIDE DEF G
<1>20. /\ g \in FrameType /\ g.fn = e.fn /\ g.pc = e.pc /\ g.ks = e.ks /\ g.todo = rest
       /\ g.b = e.b /\ g.m = NoSlot
  BY <1>19 DEF FieldsAs
<1>21. Formed(g) /\ InPlaceOf(g, e) /\ Like(g, e) /\ g.fn # "CcUninitializeCacheMap" /\ SlotOf(g) = NoSlot
  BY <1>2, <1>4, <1>18, <1>20 DEF Formed, InPlaceOf, Like, Transfers, EntryFns, CopyFns, SlotOf
<1>22. ASSUME NEW h \in FrameType, Push(t, g, h), Formed(h), Running(h), Waits(g, h), Unheld(h)
       PROVE  TableInv' /\ Steady(t)
  <2>1. Linked(block', h)
    BY <1>22, UnheldLinked
  <2>2. Delta(SlotOf(e), SlotOf(g), e.m, g.m)
    BY <1>7, <1>15, <1>20, <1>21
  <2>3. TableInv'
    BY <1>2, <1>4, <1>14, <1>20, <1>21, <1>22, <2>1, <2>2, TwoStep
  <2>4. Kept(t)
    BY <1>4, <1>20, <1>21, <1>22, KeptTwo
  <2> QED
    BY <1>2, <1>14, <2>3, <2>4 DEF Steady
<1>23. CASE rest # {} /\ Push(t, G, Getting(rest))
  <2>1. PICK h : h = Getting(rest)
    OBVIOUS
  <2>2. h \in FrameType /\ h.fn = "NxcGetBlock" /\ Formed(h) /\ Running(h) /\ Unheld(h)
    BY <1>18, <1>23, <2>1, GettingFrame
  <2>3. Waits(g, h)
    BY <1>2, <1>20, <1>23, <2>2 DEF Waits
  <2> QED
    BY <1>17, <1>22, <1>23, <2>1, <2>2, <2>3
<1>24. CASE Push(t, G, Flushing("flush", e.ks))
  <2>1. PICK h : h = Flushing("flush", e.ks)
    OBVIOUS
  <2>2. h \in FrameType /\ h.fn = "NxcFlushMap" /\ Formed(h) /\ Running(h) /\ Unheld(h)
    BY <1>6, <2>1, MapFrame
  <2>3. Waits(g, h)
    BY <1>2, <1>20, <2>2 DEF Waits
  <2> QED
    BY <1>17, <1>22, <1>24, <2>1, <2>2, <2>3
<1> QED
  BY <1>3, <1>16, <1>23, <1>24

\* A copy that faults leaves the cache.
LEMMA CopyFaultStep ==
    ASSUME TableInv, NEW t \in Thread, CopyFault(t)
    PROVE  TableInv' /\ Steady(t)
<1> DEFINE e == Top(t)
           b == e.m
<1>1. PICK v \in IF e.fn = "CcCopyWrite" THEN Value[First(e.todo)] ELSE {block[e.m].data} :
        block' = [block EXCEPT ![b].ref = @ - 1, ![b].data = v,
                               ![b].unsaved = @ \/ (e.fn = "CcCopyWrite" /\ ~block[b].dirty)]
  BY Zenon DEF CopyFault
<1>2. /\ Busy(t) /\ e.fn \in CopyFns /\ lru' = lru /\ active' = active /\ depth' = depth
      /\ opens' = opens /\ mapped' = mapped /\ size' = size /\ alloc' = alloc /\ map' = map /\ disk' = disk
  BY DEF CopyFault, Keeps, CopyFns
<1>3. Pop(t) /\ mutex' = NoThread
  BY Zenon DEF CopyFault, Unlock
<1>4. /\ Len(stack[t]) \in Place /\ e = stack[t][Len(stack[t])] /\ Len(stack[t]) = 1
      /\ e \in FrameType /\ Formed(e) /\ Running(e) /\ Linked(block, e)
  BY <1>2, TopFacts DEF CopyFns
<1>5. b \in Slots /\ block[b].key \in Key /\ block[b].valid = TRUE
  BY <1>2, <1>4 DEF Running, Linked
<1>6. e.todo \subseteq e.ks /\ e.ks \subseteq Key /\ e.todo # {} /\ e.ks # {} /\ e.ks \subseteq Data
  BY <1>2, <1>4, KeyFacts DEF Formed, Running
<1>7. SlotOf(e) = NoSlot
  BY <1>2 DEF SlotOf, Transfers, CopyFns
<1>8. Rest'
  BY <1>2, <1>3, Known DEF Rest
<1> HIDE DEF e, b
<1>9. /\ block \in [Slots -> BlockType] /\ block[b] \in BlockType /\ block[b].live = TRUE
      /\ block[b].ref \in Int /\ block[b].data \in Datum
  BY <1>5, BlockInfo
<1>10. v \in Datum
  <2>1. First(e.todo) \in Key
    BY <1>6, FirstIn
  <2>2. e.fn = "CcCopyWrite" => v \in Datum
    BY <1>1, <2>1 DEF Datum
  <2>3. e.fn # "CcCopyWrite" => v \in Datum
    BY <1>1, <1>9 DEF b
  <2> QED
    BY <2>2, <2>3
<1> DEFINE n == block[b].ref - 1
           us == block[b].unsaved \/ (e.fn = "CcCopyWrite" /\ ~block[b].dirty)
           r == [block[b] EXCEPT !.ref = n, !.data = v, !.unsaved = us]
<1>11. n \in Int /\ us \in BOOLEAN
  BY <1>9
<1>12. block' = [block EXCEPT ![b] = r]
  BY <1>1, <1>5, <1>9 DEF b
<1>13. BlockAs(r, block[b], v, n, block[b].valid, block[b].dirty, block[b].busy, us)
  <2> HIDE DEF n, us
  <2> QED
    BY <1>9, <1>10, <1>11, SetRefDataUnsaved
<1> HIDE DEF r
<1>14. Sound /\ Blocks(Data)' = Blocks(Data)
  BY <1>2, <1>5, <1>8, <1>9, <1>12, <1>13, SoundModified DEF BlockAs
<1>15. Delta(NoSlot, NoSlot, e.m, NoSlot)
  <2>1. Delta(NoSlot, NoSlot, b, NoSlot)
    BY <1>5, <1>12, <1>13, DeltaWays DEF BlockAs
  <2> QED
    BY <2>1 DEF b
<1>16. depth' = depth - Bit(e.fn = "NxcFlushBlock")
  BY <1>2, Known DEF Bit, CopyFns
<1>17. ~(Len(stack[t]) > 1)
  BY <1>4
<1>18. TableInv'
  BY <1>3, <1>4, <1>7, <1>14, <1>15, <1>16, <1>17, NoneStep
<1>19. Kept(t)
  BY <1>2, <1>3, <1>4, KeptNone DEF CopyFns
<1> QED
  BY <1>2, <1>14, <1>18, <1>19 DEF Steady

\* The FAT block that locates a block of the file.
LEMMA FatKeyIn ==
    ASSUME NEW k \in Data
    PROVE  FatKey(k) \in Fat
<1>1. PICK i \in 0 .. FileBlocks - 1 : k = <<"file", i>>
  BY DEF Data
<1>2. FatOf[i] \in 0 .. FatBlocks - 1
  BY <1>1, CacheAssumption
<1>3. k[2] = i
  BY <1>1
<1> QED
  BY <1>2, <1>3 DEF FatKey, Fat

\* g is the frame f of a transfer at the point pc, fit to be there.
TransferAs(g, f, pc) ==
  /\ g \in FrameType /\ g.fn = f.fn /\ g.ks = f.ks /\ g.b = f.b /\ g.m = NoSlot /\ g.pc = pc /\ Formed(g)

\* A transfer goes to the device, or maps the FAT first.
LEMMA TransferFrames ==
    ASSUME NEW f \in FrameType, f.fn \in Transfers, f.b \in Slots, f.m = NoSlot,
           f.fn = "NxcGetBlock" => \E j \in Key : f.ks = {j}, NEW k \in Key
    PROVE  \/ \E g \in FrameType : Transfer(f, k) = <<g>> /\ TransferAs(g, f, "io") /\ Running(g)
           \/ \E g, h \in FrameType : /\ Transfer(f, k) = <<g, h>> /\ TransferAs(g, f, "mapped")
                                      /\ Waits(g, h) /\ Formed(h) /\ Running(h) /\ Unheld(h)
<1>1. CASE k \notin Data
  <2>1. PICK g : g = [f EXCEPT !.pc = "io"]
    OBVIOUS
  <2>2. Transfer(f, k) = <<g>>
    BY <1>1, <2>1 DEF Transfer
  <2>3. FieldsAs(g, f, "io", f.todo, f.b, f.m, f.ok)
    <3>1. "io" \in Points
      BY DEF Points
    <3> QED
      BY <2>1, <3>1, SetPc
  <2>4. g \in FrameType /\ g.fn = f.fn /\ g.ks = f.ks /\ g.b = f.b /\ g.m = NoSlot /\ g.pc = "io"
    BY <2>3 DEF FieldsAs
  <2>5. Formed(g) /\ Running(g)
    BY <2>4 DEF Formed, Running, Transfers, EntryFns, CopyFns
  <2> QED
    BY <2>2, <2>4, <2>5 DEF TransferAs
<1>2. CASE k \in Data
  <2>1. PICK g : g = [f EXCEPT !.pc = "mapped"]
    OBVIOUS
  <2>0. PICK j \in Fat : j = FatKey(k)
    BY <1>2, FatKeyIn
  <2>h. PICK h : h = Frame("NxcGetBlock", "look", {j})
    OBVIOUS
  <2>2. Transfer(f, k) = <<g, h>>
    BY <1>2, <2>0, <2>1, <2>h DEF Transfer
  <2>3. FieldsAs(g, f, "mapped", f.todo, f.b, f.m, f.ok)
    <3>1. "mapped" \in Points
      BY DEF Points
    <3> QED
      BY <2>1, <3>1, SetPc
  <2>4. g \in FrameType /\ g.fn = f.fn /\ g.ks = f.ks /\ g.b = f.b /\ g.m = NoSlot /\ g.pc = "mapped"
    BY <2>3 DEF FieldsAs
  <2>5. Formed(g)
    BY <2>4 DEF Formed, Transfers, EntryFns, CopyFns
  <2>6. NewAs(h, "NxcGetBlock", "look", {j})
    <3>1. "NxcGetBlock" \in Fns /\ "look" \in Points /\ {j} \in SUBSET Key
      BY <2>0, KeyFacts DEF Fns, Transfers, Points
    <3> QED
      BY <2>h, <3>1, NewFrame
  <2>7. h \in FrameType /\ h.fn = "NxcGetBlock" /\ h.pc = "look" /\ h.ks = {j} /\ h.b = NoSlot /\ h.m = NoSlot
        /\ Unheld(h)
    BY <2>6 DEF NewAs
  <2>8. Formed(h) /\ Running(h)
    BY <2>0, <2>7, KeyFacts DEF Formed, Running, Transfers, EntryFns, CopyFns
  <2>9. Waits(g, h)
    BY <2>0, <2>4, <2>7 DEF Waits
  <2> QED
    BY <2>2, <2>4, <2>5, <2>7, <2>8, <2>9 DEF TransferAs
<1> QED
  BY <1>1, <1>2

\* Frames put after one another.
LEMMA Joined ==
    ASSUME NEW f, NEW g, NEW h
    PROVE  <<f>> \o <<g>> = <<f, g>> /\ <<f>> \o <<g, h>> = <<f, g, h>>
<1> DEFINE S == {f, g, h}
<1>1. <<f>> \in Seq(S) /\ <<g>> \in Seq(S) /\ <<g, h>> \in Seq(S) /\ <<f, g>> \in Seq(S) /\ <<f, g, h>> \in Seq(S)
  OBVIOUS
<1> HIDE DEF S
<1>2. <<f>> \o <<g>> = <<f, g>>
  <2>1. PICK c : c = <<f>> \o <<g>>
    OBVIOUS
  <2>2. c \in Seq(S) /\ Len(c) = 2
    BY <1>1, <2>1, ConcatProperties
  <2>3. c[1] = f /\ c[2] = g
    BY <1>1, <2>1, ConcatProperties
  <2>4. PICK q : q = <<f, g>>
    OBVIOUS
  <2>5. q \in Seq(S) /\ Len(q) = 2 /\ q[1] = f /\ q[2] = g
    BY <1>1, <2>4
  <2>6. \A i \in 1 .. 2 : c[i] = q[i]
    BY <2>3, <2>5
  <2> QED
    BY <2>1, <2>2, <2>4, <2>5, <2>6, SeqEqual
<1>3. <<f>> \o <<g, h>> = <<f, g, h>>
  <2>1. PICK c : c = <<f>> \o <<g, h>>
    OBVIOUS
  <2>2. c \in Seq(S) /\ Len(c) = 3
    BY <1>1, <2>1, ConcatProperties
  <2>3. c[1] = f /\ c[2] = g /\ c[3] = h
    BY <1>1, <2>1, ConcatProperties
  <2>4. PICK q : q = <<f, g, h>>
    OBVIOUS
  <2>5. q \in Seq(S) /\ Len(q) = 3 /\ q[1] = f /\ q[2] = g /\ q[3] = h
    BY <1>1, <2>4
  <2>6. \A i \in 1 .. 3 : c[i] = q[i]
    BY <2>3, <2>5
  <2> QED
    BY <2>1, <2>2, <2>4, <2>5, <2>6, SeqEqual
<1> QED
  BY <1>2, <1>3

\* A write-back begins, or has nothing to write.
LEMMA StartFlushStep ==
    ASSUME TableInv, NEW t \in Thread, Busy(t), NEW e, e = Top(t), NEW f \in FrameType,
           NEW b \in Slots, block[b].key \in Key, block[b].busy = FALSE, StartFlush(t, b, f),
           Formed(f), Running(f), InPlaceOf(f, e), Like(f, e), e.m = NoSlot, f.m = NoSlot,
           \A g : g.fn = "NxcFlushBlock" => Waits(f, g), f.fn # "CcUninitializeCacheMap",
           lru' = lru, active' = active, opens' = opens, mapped' = mapped, size' = size /\ alloc' = alloc /\ map' = map, disk' = disk
    PROVE  TableInv' /\ Steady(t)
<1>1. Len(stack[t]) \in Place /\ e = stack[t][Len(stack[t])]
  BY TopFacts
<1>2. SlotOf(f) = SlotOf(e)
  BY DEF Like, SlotOf
<1>3. /\ block \in [Slots -> BlockType] /\ block[b] \in BlockType /\ block[b].live = TRUE
      /\ (block[b].dirty = TRUE => block[b].valid = TRUE)
      /\ block[b].ref \in Int /\ block[b].data \in Datum
  BY BlockInfo
<1>4. CASE ~InFile(block[b].key)
  <2>1. /\ block' = [block EXCEPT ![b].dirty = FALSE, ![b].unsaved = TRUE]
        /\ SetTop(t, f) /\ mutex' = t /\ depth' = depth
    BY <1>4 DEF StartFlush, Lock
  <2>2. Rest'
    BY <2>1, Known DEF Rest
  <2> DEFINE r == [block[b] EXCEPT !.dirty = FALSE, !.unsaved = TRUE]
  <2>3. BlockAs(r, block[b], block[b].data, block[b].ref, block[b].valid, FALSE, block[b].busy, TRUE)
    BY <1>3, SetDirtyUnsaved
  <2>4. block' = [block EXCEPT ![b] = r]
    BY <1>3, <2>1
  <2> HIDE DEF r
  <2>5. Sound /\ Blocks(Data)' = Blocks(Data)
    BY <1>3, <2>2, <2>3, <2>4, SoundModified DEF BlockAs
  <2>6. Delta(NoSlot, NoSlot, NoSlot, NoSlot)
    BY <2>3, <2>4, DeltaWays DEF BlockAs
  <2>7. Delta(SlotOf(e), SlotOf(f), e.m, f.m)
    BY <1>2, <2>6, DeltaBoth
  <2>8. TableInv'
    BY <1>1, <2>1, <2>5, <2>7, OneStep
  <2>9. Kept(t)
    BY <1>1, <2>1, KeptOne
  <2> QED
    BY <2>5, <2>8, <2>9 DEF Steady
<1>5. CASE InFile(block[b].key)
  <2> DEFINE G == [Frame("NxcFlushBlock", "io", {}) EXCEPT !.b = b]
             k == block[b].key
  <2>1. /\ block' = [block EXCEPT ![b].ref = @ + 1, ![b].busy = TRUE] /\ depth' = depth + 1
        /\ Replace(t, <<f>> \o Transfer(G, k)) /\ mutex' = NoThread
    BY <1>5, Zenon DEF StartFlush, Unlock
  <2>2. Rest'
    BY <2>1, Known DEF Rest
  <2> DEFINE n == block[b].ref + 1
             r == [block[b] EXCEPT !.ref = n, !.busy = TRUE]
  <2>3. BlockAs(r, block[b], block[b].data, n, block[b].valid, block[b].dirty, TRUE, block[b].unsaved)
    <3>1. n \in Int
      BY <1>3
    <3> HIDE DEF n
    <3> QED
      BY <1>3, <3>1, SetRefBusy
  <2>4. block' = [block EXCEPT ![b] = r]
    BY <1>3, <2>1
  <2> HIDE DEF r
  <2>5. Sound /\ Blocks(Data)' = Blocks(Data)
    BY <1>3, <2>2, <2>3, <2>4, SoundModified DEF BlockAs
  <2>6. Delta(NoSlot, b, NoSlot, NoSlot)
    BY <2>3, <2>4, DeltaWays DEF BlockAs
  <2>7. block'[b].key \in Key
    BY <1>3, <2>3, <2>4 DEF BlockAs
  <2>8. PICK g0 : g0 = G
    OBVIOUS
  <2>9. g0 \in FrameType /\ g0.fn = "NxcFlushBlock" /\ g0.b = b /\ g0.m = NoSlot
    <3>1. PICK a : a = Frame("NxcFlushBlock", "io", {})
      OBVIOUS
    <3>2. "NxcFlushBlock" \in Fns /\ "io" \in Points /\ {} \in SUBSET Key
      BY DEF Fns, Transfers, Points
    <3>3. NewAs(a, "NxcFlushBlock", "io", {})
      BY <3>1, <3>2, NewFrame
    <3>4. a \in FrameType /\ a.fn = "NxcFlushBlock" /\ a.m = NoSlot
      BY <3>3 DEF NewAs
    <3>5. g0 = [a EXCEPT !.b = b] /\ b \in Int
      BY <2>8, <3>1, SlotFacts
    <3>6. FieldsAs(g0, a, a.pc, a.todo, b, a.m, a.ok)
      BY <3>4, <3>5, SetB
    <3> QED
      BY <3>4, <3>6 DEF FieldsAs
  <2> HIDE DEF G, k
  <2>10. k \in Key
    BY DEF k
  <2>11. ASSUME NEW g, TransferAs(g, g0, "io") \/ TransferAs(g, g0, "mapped")
         PROVE  /\ g \in FrameType /\ Formed(g) /\ g.fn = "NxcFlushBlock" /\ g.m = NoSlot
                /\ g.b = b /\ Linked(block', g) /\ Waits(f, g)
    <3>1. g \in FrameType /\ Formed(g) /\ g.fn = "NxcFlushBlock" /\ g.m = NoSlot /\ g.b = b
      BY <2>9, <2>11 DEF TransferAs
    <3>2. Linked(block', g)
      BY <2>7, <3>1, SlotFacts DEF Linked
    <3> QED
      BY <3>1, <3>2
  <2>12. ASSUME NEW g \in FrameType, Transfer(g0, k) = <<g>>, TransferAs(g, g0, "io"), Running(g)
         PROVE  TableInv' /\ Steady(t)
    <3>1. Push(t, f, g)
      <4>1. Replace(t, <<f>> \o <<g>>)
        BY <2>1, <2>8, <2>12
      <4> QED
        BY <4>1, Joined DEF Push
    <3>2. TableInv'
      BY <1>1, <1>2, <2>1, <2>5, <2>6, <2>11, <2>12, <3>1, TwoStep
    <3>3. Kept(t)
      BY <1>1, <3>1, KeptTwo
    <3> QED
      BY <2>5, <3>2, <3>3 DEF Steady
  <2>13. ASSUME NEW g \in FrameType, NEW h \in FrameType, Transfer(g0, k) = <<g, h>>,
                TransferAs(g, g0, "mapped"), Waits(g, h), Formed(h), Running(h), Unheld(h)
         PROVE  TableInv' /\ Steady(t)
    <3>1. Replace(t, <<f, g, h>>)
      <4>1. Replace(t, <<f>> \o <<g, h>>)
        BY <2>1, <2>8, <2>13
      <4> QED
        BY <4>1, Joined
    <3>2. TableInv'
      BY <1>1, <1>2, <2>1, <2>5, <2>6, <2>11, <2>13, <3>1, ThreeStep
    <3>3. Kept(t)
      BY <1>1, <3>1, KeptThree
    <3> QED
      BY <2>5, <3>2, <3>3 DEF Steady
  <2> QED
    <3>1. \/ \E g \in FrameType : Transfer(g0, k) = <<g>> /\ TransferAs(g, g0, "io") /\ Running(g)
          \/ \E g, h \in FrameType : /\ Transfer(g0, k) = <<g, h>> /\ TransferAs(g, g0, "mapped")
                                     /\ Waits(g, h) /\ Formed(h) /\ Running(h) /\ Unheld(h)
      BY <2>9, <2>10, TransferFrames DEF Transfers
    <3> QED
      BY <2>12, <2>13, <3>1
<1> QED
  BY <1>4, <1>5

\* A call that finds only dirty blocks writes the oldest one back.
LEMMA GetEvictStep ==
    ASSUME TableInv, NEW t \in Thread, GetEvict(t)
    PROVE  TableInv' /\ Steady(t)
<1> DEFINE e == Top(t)
           b == lru[Min(DirtyLru)]
<1>1. /\ Busy(t) /\ e.fn = "NxcGetBlock" /\ e.pc \in {"look", "claim"} /\ DirtyLru # {}
      /\ StartFlush(t, b, [e EXCEPT !.pc = "claim"])
      /\ lru' = lru /\ active' = active /\ opens' = opens /\ mapped' = mapped /\ size' = size /\ alloc' = alloc /\ map' = map /\ disk' = disk
  BY DEF GetEvict, In
<1>2. e \in FrameType /\ Formed(e)
  BY <1>1, TopFacts
<1>3. e.b = NoSlot /\ e.m = NoSlot
  BY <1>1, <1>2 DEF Formed
<1>4. b \in Slots /\ block[b].key \in Key /\ block[b].busy = FALSE
  <2>1. DirtyLru \subseteq Nat
    <3>1. lru \in Seq(Slots)
      BY Known DEF TableOK
    <3> QED
      BY <3>1 DEF DirtyLru
  <2>2. Min(DirtyLru) \in DirtyLru
    BY <1>1, <2>1, MinIn
  <2>3. b \in Visible /\ ~block[b].busy /\ block[b].dirty
    BY <2>2 DEF DirtyLru, Idle
  <2> HIDE DEF b
  <2>4. b \in Slots
    BY <2>3, SlotFacts
  <2> QED
    BY <2>3, <2>4, Known, SlotState
<1> HIDE DEF e, b
<1>5. PICK f : f = [e EXCEPT !.pc = "claim"]
  OBVIOUS
<1>6. FieldsAs(f, e, "claim", e.todo, e.b, e.m, e.ok)
  <2>1. "claim" \in Points
    BY DEF Points
  <2> QED
    BY <1>2, <1>5, <2>1, SetPc
<1>7. f \in FrameType /\ f.fn = e.fn /\ f.pc = "claim" /\ f.ks = e.ks /\ f.b = e.b /\ f.m = NoSlot
  BY <1>3, <1>6 DEF FieldsAs
<1>8. Formed(f) /\ Running(f) /\ InPlaceOf(f, e) /\ Like(f, e) /\ f.fn # "CcUninitializeCacheMap"
  BY <1>1, <1>2, <1>3, <1>7 DEF Formed, Running, InPlaceOf, Like, Transfers, EntryFns, CopyFns
<1>9. \A g : g.fn = "NxcFlushBlock" => Waits(f, g)
  BY <1>1, <1>7 DEF Waits
<1>10. StartFlush(t, b, f)
  BY <1>1, <1>5
<1>11. e = Top(t)
  BY DEF e
<1> QED
  BY <1>1, <1>3, <1>4, <1>7, <1>8, <1>9, <1>10, <1>11, StartFlushStep

\* A flush writes a block back.
LEMMA FlushMapWriteStep ==
    ASSUME TableInv, NEW t \in Thread, FlushMapWrite(t)
    PROVE  TableInv' /\ Steady(t)
<1> DEFINE e == Top(t)
           b == Min(InTheWay(Reach(e)))
<1>1. /\ Busy(t) /\ e.fn = "NxcFlushMap" /\ e.pc = "flush" /\ InTheWay(Reach(e)) # {}
      /\ ~block[b].busy /\ StartFlush(t, b, e)
      /\ lru' = lru /\ active' = active /\ opens' = opens /\ mapped' = mapped /\ size' = size /\ alloc' = alloc /\ map' = map /\ disk' = disk
  BY Zenon DEF FlushMapWrite, In
<1>2. e \in FrameType /\ Formed(e) /\ Running(e)
  BY <1>1, TopFacts
<1>3. e.m = NoSlot
  BY <1>1, <1>2 DEF Formed, EntryFns, CopyFns
<1>4. b \in Slots /\ block[b].key \in Key /\ block[b].busy = FALSE
  <2>1. InTheWay(Reach(e)) \subseteq Nat
    BY SlotFacts DEF InTheWay, Blocks
  <2>2. b \in InTheWay(Reach(e))
    BY <1>1, <2>1, MinIn
  <2>3. Reach(e) \subseteq Key
    BY <1>2 DEF FrameType, Reach
  <2> HIDE DEF b, e
  <2>4. b \in Slots /\ block[b].key \in Key
    BY <2>2, <2>3 DEF InTheWay, Blocks
  <2> QED
    BY <1>1, <2>4, BlockInfo
<1> HIDE DEF e, b
<1>5. InPlaceOf(e, e) /\ Like(e, e) /\ e.fn # "CcUninitializeCacheMap"
  BY <1>1 DEF InPlaceOf, Like
<1>6. \A g : g.fn = "NxcFlushBlock" => Waits(e, g)
  BY <1>1, <1>3 DEF Waits
<1>7. e = Top(t)
  BY DEF e
<1> QED
  BY <1>1, <1>2, <1>3, <1>4, <1>5, <1>6, <1>7, StartFlushStep

\* A call that gets a block of the file is part of a copy: the thread is on the
\* file.
LEMMA GetsOnFile ==
    ASSUME TableInv, NEW t \in Thread, Busy(t), NEW e, e = Top(t), e.fn = "NxcGetBlock",
           NEW k \in e.ks, k \in Data
    PROVE  OnFile(t)
<1> DEFINE s == stack[t]
<1>1. /\ Len(s) \in Place /\ (Len(s) = 1 => e.fn \in EntryFns)
      /\ (Len(s) # 1 => /\ Len(s) > 1 /\ Below(t) = s[Len(s) - 1]
                        /\ Formed(Below(t)) /\ Waits(Below(t), e))
  BY TopFacts
<1>2. Len(s) # 1
  BY <1>1 DEF EntryFns, CopyFns
<1>3. ~(e.ks \subseteq Fat)
  BY KeyFacts
<1>4. Below(t).fn \in CopyFns
  BY <1>1, <1>2, <1>3 DEF Waits
<1>5. s \in Seq(FrameType) /\ Shaped(s)
  BY Known
<1>6. PICK n \in Nat : n = Len(s)
  BY <1>5
<1>7. n > 1 /\ DOMAIN s = 1 .. n /\ n - 1 \in DOMAIN s
  BY <1>1, <1>2, <1>5, <1>6
<1>8. n - 1 = 1
  <2>1. CASE n - 1 > 1
    <3>1. s[n - 1].fn \in {"NxcGetBlock", "NxcFlushMap", "NxcFlushBlock"}
      BY <1>5, <1>7, <2>1, AboveBottom
    <3>2. Below(t) = s[n - 1]
      BY <1>1, <1>2, <1>6
    <3> QED
      BY <1>4, <3>1, <3>2 DEF CopyFns
  <2> QED
    BY <1>7, <2>1
<1>9. Below(t) = s[1]
  BY <1>1, <1>2, <1>6, <1>8
<1>10. Call(t) = s[1]
  BY <1>5, <1>7 DEF Call
<1>11. Call(t).ks # {} /\ Call(t).ks \subseteq Data
  BY <1>1, <1>2, <1>4, <1>9, <1>10 DEF Formed
<1>12. Call(t).fn \in CopyFns
  BY <1>4, <1>9, <1>10
<1> QED
  BY <1>11, <1>12 DEF OnFile, CopyFns

\* The NxcGetBlock frame of a thread, on top of its stack.
LEMMA GetFrame ==
    ASSUME TableInv, NEW t \in Thread, Busy(t), NEW e, e = Top(t), e.fn = "NxcGetBlock"
    PROVE  /\ Len(stack[t]) \in Place /\ e = stack[t][Len(stack[t])] /\ Len(stack[t]) > 1
           /\ e \in FrameType /\ Formed(e) /\ Linked(block, e) /\ e.ks \subseteq Key
           /\ GetKey(t) \in Key /\ e.ks = {GetKey(t)}
           /\ e.pc # "io" /\ e.pc # "mapped" => e.b = NoSlot /\ e.m = NoSlot /\ SlotOf(e) = NoSlot
           /\ e.pc = "io" => e.b \in Slots /\ e.m = NoSlot /\ SlotOf(e) = e.b
<1>1. /\ Len(stack[t]) \in Place /\ e = stack[t][Len(stack[t])]
      /\ e \in FrameType /\ Formed(e) /\ Linked(block, e)
      /\ (Len(stack[t]) = 1 => e.fn \in EntryFns) /\ (Len(stack[t]) # 1 => Len(stack[t]) > 1)
  BY TopFacts
<1>2. Len(stack[t]) > 1
  BY <1>1 DEF EntryFns, CopyFns
<1>3. PICK k \in Key : e.ks = {k}
  BY <1>1 DEF Formed
<1>4. GetKey(t) = k
  BY <1>3 DEF GetKey
<1>5. e.pc # "io" /\ e.pc # "mapped" => e.b = NoSlot /\ e.m = NoSlot
  BY <1>1 DEF Formed
<1>6. e.pc = "io" => e.b \in Slots /\ e.m = NoSlot
  BY <1>1 DEF Formed
<1>7. SlotOf(e) = e.b
  BY DEF SlotOf, Transfers
<1> QED
  BY <1>1, <1>2, <1>3, <1>4, <1>5, <1>6, <1>7

\* The call has its block.
LEMMA GotStep ==
    ASSUME Sound, NEW t \in Thread, Busy(t), NEW e, e = Top(t), e.fn = "NxcGetBlock", e.pc # "mapped",
           NEW b \in Slots, Got(t, b), block'[b].key \in e.ks, block'[b].valid = TRUE,
           Delta(SlotOf(e), NoSlot, NoSlot, b), depth' = depth
    PROVE  TableInv' /\ Kept(t)
<1>1. TableInv
  BY DEF Sound
<1>2. /\ Len(stack[t]) \in Place /\ e = stack[t][Len(stack[t])] /\ Len(stack[t]) > 1
      /\ e.m = NoSlot /\ e.ks \subseteq Key
  BY <1>1, GetFrame
<1>3. Return(t, b, TRUE)
  BY DEF Got
<1>4. TableInv'
  BY <1>2, <1>3, BackStep
<1>5. Kept(t)
  BY <1>1, <1>2, <1>3, KeptBack
<1> QED
  BY <1>4, <1>5

\* Got lets go of the mutex or keeps it.
LEMMA GotRest ==
    ASSUME TableInv, NEW t \in Thread, NEW b, Got(t, b),
           opens' = opens, mapped' = mapped, size' = size /\ alloc' = alloc /\ map' = map, disk' = disk
    PROVE  Rest'
<1>1. mutex' \in {t, NoThread}
  BY DEF Got
<1> QED
  BY <1>1, Known DEF Rest

\* Whatever the read makes of the block a, but for its key, is good for the
\* table.
Ready(t, b, a) ==
  \A r \in BlockType :
    Rest' /\ r.key = a.key /\ r.live = TRUE /\ (r.dirty = TRUE => r.valid = TRUE)
    /\ (a.valid = TRUE => r.valid = TRUE) /\ block' = [block EXCEPT ![b] = r]
    => Sound /\ (Blocks(Data)' \subseteq Blocks(Data) \/ OnFile(t))

\* A read begins, or has nothing to read.  a is the block as it is when the
\* read has referenced it.
LEMMA StartReadStep ==
    ASSUME TableInv, NEW t \in Thread, Busy(t), NEW e, e = Top(t), e.fn = "NxcGetBlock",
           e.pc \in {"look", "claim"}, NEW b \in Slots, NEW a \in BlockType, NEW bs,
           bs = [block EXCEPT ![b] = a], a.key \in e.ks, a.ref = block[b].ref + 1,
           block[b].busy = FALSE, a.busy = FALSE, a.live = TRUE, a.dirty = TRUE => a.valid = TRUE,
           Ready(t, b, a),
           StartRead(t, b, bs), depth' = depth,
           opens' = opens, mapped' = mapped, size' = size /\ alloc' = alloc /\ map' = map, disk' = disk
    PROVE  TableInv' /\ Steady(t)
<1>1. block \in [Slots -> BlockType]
  BY Known
<1>2. bs[b] = a
  BY <1>1
<1>3. /\ Len(stack[t]) \in Place /\ e = stack[t][Len(stack[t])]
      /\ e \in FrameType /\ Formed(e) /\ e.ks \subseteq Key /\ GetKey(t) \in Key /\ e.ks = {GetKey(t)}
      /\ e.b = NoSlot /\ e.m = NoSlot /\ SlotOf(e) = NoSlot
  BY GetFrame
<1>4. CASE ~InFile(a.key)
  <2>1. block' = [bs EXCEPT ![b].valid = TRUE] /\ Got(t, b)
    BY <1>2, <1>4, Zenon DEF StartRead
  <2>2. Rest'
    BY <2>1, GotRest
  <2> DEFINE r == [a EXCEPT !.valid = TRUE]
  <2>3. BlockAs(r, a, a.data, a.ref, TRUE, a.dirty, a.busy, a.unsaved)
    BY SetValid
  <2>4. block' = [block EXCEPT ![b] = r]
    BY <1>1, <1>2, <2>1
  <2> HIDE DEF r
  <2>5. Sound /\ (Blocks(Data)' \subseteq Blocks(Data) \/ OnFile(t))
    BY <2>2, <2>3, <2>4 DEF BlockAs, Ready
  <2>6. Delta(NoSlot, NoSlot, NoSlot, b)
    BY <2>3, <2>4, DeltaWays DEF BlockAs
  <2>7. block'[b].key \in e.ks /\ block'[b].valid = TRUE
    BY <1>1, <2>3, <2>4 DEF BlockAs
  <2>8. TableInv' /\ Kept(t)
    BY <1>3, <2>1, <2>5, <2>6, <2>7, GotStep
  <2> QED
    BY <2>5, <2>8 DEF Steady
<1>5. CASE InFile(a.key)
  <2>1. block' = [bs EXCEPT ![b].busy = TRUE] /\ mutex' = NoThread
        /\ Replace(t, Transfer([e EXCEPT !.b = b], a.key))
    BY <1>2, <1>5, Zenon DEF StartRead, Unlock
  <2>2. Rest'
    BY <2>1, Known DEF Rest
  <2> DEFINE r == [a EXCEPT !.busy = TRUE]
  <2>3. BlockAs(r, a, a.data, a.ref, a.valid, a.dirty, TRUE, a.unsaved)
    BY SetBusy
  <2>4. block' = [block EXCEPT ![b] = r]
    BY <1>1, <1>2, <2>1
  <2> HIDE DEF r
  <2>5. Sound /\ (Blocks(Data)' \subseteq Blocks(Data) \/ OnFile(t))
    BY <2>2, <2>3, <2>4 DEF BlockAs, Ready
  <2>6. Delta(NoSlot, b, NoSlot, NoSlot)
    BY <2>3, <2>4, DeltaWays DEF BlockAs
  <2>7. block'[b].key \in e.ks
    BY <1>1, <2>3, <2>4 DEF BlockAs
  <2>8. PICK g0 : g0 = [e EXCEPT !.b = b]
    OBVIOUS
  <2>9. g0 \in FrameType /\ g0.fn = "NxcGetBlock" /\ g0.b = b /\ g0.m = NoSlot /\ g0.ks = e.ks
    <3>1. b \in Int
      BY SlotFacts
    <3>2. FieldsAs(g0, e, e.pc, e.todo, b, e.m, e.ok)
      BY <1>3, <2>8, <3>1, SetB
    <3> QED
      BY <1>3, <3>2 DEF FieldsAs
  <2>10. a.key \in Key
    BY <1>3
  <2>11. ASSUME NEW g, TransferAs(g, g0, "io") \/ TransferAs(g, g0, "mapped")
         PROVE  /\ g \in FrameType /\ Formed(g) /\ g.fn = "NxcGetBlock" /\ g.m = NoSlot
                /\ g.b = b /\ Linked(block', g) /\ InPlaceOf(g, e) /\ SlotOf(g) = b
    <3>1. g \in FrameType /\ Formed(g) /\ g.fn = "NxcGetBlock" /\ g.m = NoSlot /\ g.b = b /\ g.ks = e.ks
      BY <2>9, <2>11 DEF TransferAs
    <3>2. Linked(block', g)
      BY <1>3, <2>7, <3>1, SlotFacts DEF Linked
    <3>3. InPlaceOf(g, e) /\ SlotOf(g) = b
      BY <3>1 DEF InPlaceOf, SlotOf, Transfers
    <3> QED
      BY <3>1, <3>2, <3>3
  <2>12. ASSUME NEW g \in FrameType, Transfer(g0, a.key) = <<g>>, TransferAs(g, g0, "io"), Running(g)
         PROVE  TableInv' /\ Steady(t)
    <3>1. SetTop(t, g)
      BY <2>1, <2>8, <2>12 DEF SetTop
    <3>2. TableInv'
      BY <1>3, <2>5, <2>6, <2>11, <2>12, <3>1, OneStep
    <3>3. Kept(t)
      BY <1>3, <2>11, <2>12, <3>1, KeptOne
    <3> QED
      BY <2>5, <3>2, <3>3 DEF Steady
  <2>13. ASSUME NEW g \in FrameType, NEW h \in FrameType, Transfer(g0, a.key) = <<g, h>>,
                TransferAs(g, g0, "mapped"), Waits(g, h), Formed(h), Running(h), Unheld(h)
         PROVE  TableInv' /\ Steady(t)
    <3>1. Push(t, g, h)
      BY <2>1, <2>8, <2>13 DEF Push
    <3>2. Linked(block', h)
      BY <2>13, UnheldLinked
    <3>3. TableInv'
      BY <1>3, <2>5, <2>6, <2>11, <2>13, <3>1, <3>2, TwoStep
    <3>4. Kept(t)
      BY <1>3, <2>11, <2>13, <3>1, KeptTwo
    <3> QED
      BY <2>5, <3>3, <3>4 DEF Steady
  <2> QED
    <3>1. \/ \E g \in FrameType : Transfer(g0, a.key) = <<g>> /\ TransferAs(g, g0, "io") /\ Running(g)
          \/ \E g, h \in FrameType : /\ Transfer(g0, a.key) = <<g, h>> /\ TransferAs(g, g0, "mapped")
                                     /\ Waits(g, h) /\ Formed(h) /\ Running(h) /\ Unheld(h)
      BY <1>3, <2>9, <2>10, TransferFrames DEF Transfers
    <3> QED
      BY <2>12, <2>13, <3>1
<1> QED
  BY <1>4, <1>5

\* The block is in the cache.
LEMMA GetHitStep ==
    ASSUME TableInv, NEW t \in Thread, GetHit(t)
    PROVE  TableInv' /\ Steady(t)
<1> DEFINE e == Top(t)
<1>1. PICK b \in NxcLookupBlock(GetKey(t)) :
        /\ ~block[b].busy /\ block[b].valid
        /\ block' = [block EXCEPT ![b].ref = @ + 1] /\ lru' = Append(Unlinked({b}), b) /\ Got(t, b)
  BY DEF GetHit
<1>2. /\ Busy(t) /\ e.fn = "NxcGetBlock" /\ e.pc = "look" /\ active' = active /\ depth' = depth
      /\ opens' = opens /\ mapped' = mapped /\ size' = size /\ alloc' = alloc /\ map' = map /\ disk' = disk
  BY DEF GetHit, In
<1>3. GetKey(t) \in Key /\ e.ks = {GetKey(t)} /\ SlotOf(e) = NoSlot
  BY <1>2, GetFrame
<1>4. b \in Slots /\ block[b].key \in Key /\ block[b].key \in e.ks
  BY <1>1, <1>3 DEF NxcLookupBlock
<1>5. Rest'
  BY <1>1, <1>2, GotRest
<1> HIDE DEF e
<1>6. /\ block \in [Slots -> BlockType] /\ block[b] \in BlockType /\ block[b].live = TRUE
      /\ (block[b].dirty = TRUE => block[b].valid = TRUE)
      /\ block[b].ref \in Int /\ block[b].data \in Datum /\ block[b].valid = TRUE
  BY <1>1, <1>4, BlockInfo
<1> DEFINE n == block[b].ref + 1
           r == [block[b] EXCEPT !.ref = n]
<1>7. n \in Int
  BY <1>6
<1>8. block' = [block EXCEPT ![b] = r]
  BY <1>1, <1>6
<1>9. BlockAs(r, block[b], block[b].data, n, block[b].valid, block[b].dirty, block[b].busy, block[b].unsaved)
  <2> HIDE DEF n
  <2> QED
    BY <1>6, <1>7, SetRef
<1> HIDE DEF r
<1>10. Sound /\ Blocks(Data)' = Blocks(Data)
  BY <1>1, <1>2, <1>4, <1>5, <1>6, <1>8, <1>9, SoundModified DEF BlockAs
<1>11. Delta(NoSlot, NoSlot, NoSlot, b)
  BY <1>4, <1>8, <1>9, DeltaWays DEF BlockAs
<1>12. block'[b].key \in e.ks /\ block'[b].valid = TRUE
  BY <1>4, <1>6, <1>8, <1>9 DEF BlockAs
<1>13. e = Top(t)
  BY DEF e
<1>14. TableInv' /\ Kept(t)
  BY <1>1, <1>2, <1>3, <1>4, <1>10, <1>11, <1>12, <1>13, GotStep
<1> QED
  BY <1>2, <1>10, <1>14 DEF Steady

\* A read that failed is tried again.
LEMMA GetRetryStep ==
    ASSUME TableInv, NEW t \in Thread, GetRetry(t)
    PROVE  TableInv' /\ Steady(t)
<1> DEFINE e == Top(t)
<1>1. PICK b \in NxcLookupBlock(GetKey(t)) :
        ~block[b].busy /\ ~block[b].valid /\ StartRead(t, b, [block EXCEPT ![b].ref = @ + 1])
  BY DEF GetRetry
<1>2. /\ Busy(t) /\ e.fn = "NxcGetBlock" /\ e.pc = "look" /\ lru' = lru /\ active' = active
      /\ depth' = depth /\ opens' = opens /\ mapped' = mapped /\ size' = size /\ alloc' = alloc /\ map' = map /\ disk' = disk
  BY DEF GetRetry, In
<1>3. GetKey(t) \in Key /\ e.ks = {GetKey(t)} /\ SlotOf(e) = NoSlot
  BY <1>2, GetFrame
<1>4. b \in Slots /\ block[b].key \in Key /\ block[b].key \in e.ks
  BY <1>1, <1>3 DEF NxcLookupBlock
<1> HIDE DEF e
<1>6. /\ block \in [Slots -> BlockType] /\ block[b] \in BlockType /\ block[b].live = TRUE
      /\ (block[b].dirty = TRUE => block[b].valid = TRUE) /\ block[b].busy = FALSE
      /\ block[b].ref \in Int /\ block[b].data \in Datum
  BY <1>1, <1>4, BlockInfo
<1> DEFINE n == block[b].ref + 1
           a == [block[b] EXCEPT !.ref = n]
           bs == [block EXCEPT ![b] = a]
<1>7. n \in Int
  BY <1>6
<1>8. [block EXCEPT ![b].ref = @ + 1] = bs
  BY <1>6
<1>9. BlockAs(a, block[b], block[b].data, n, block[b].valid, block[b].dirty, block[b].busy, block[b].unsaved)
  <2> HIDE DEF n
  <2> QED
    BY <1>6, <1>7, SetRef
<1>10. StartRead(t, b, bs)
  BY <1>1, <1>8
<1>11. PICK cs : cs = bs
  OBVIOUS
<1> HIDE DEF a
<1>12. cs = [block EXCEPT ![b] = a] /\ StartRead(t, b, cs)
  BY <1>10, <1>11
<1>13. ASSUME NEW r \in BlockType, Rest', r.key = a.key, r.live = TRUE, r.dirty = TRUE => r.valid = TRUE,
              a.valid = TRUE => r.valid = TRUE, block' = [block EXCEPT ![b] = r]
       PROVE  Sound /\ (Blocks(Data)' \subseteq Blocks(Data) \/ OnFile(t))
  <2>1. r.key = block[b].key /\ (block[b].valid = TRUE => r.valid = TRUE)
    BY <1>9, <1>13 DEF BlockAs
  <2> QED
    BY <1>2, <1>4, <1>13, <2>1, SoundModified
<1>14. a \in BlockType /\ a.key \in e.ks /\ a.ref = block[b].ref + 1 /\ a.busy = FALSE /\ a.live = TRUE
       /\ (a.dirty = TRUE => a.valid = TRUE)
  BY <1>4, <1>6, <1>9 DEF BlockAs
<1>15. e = Top(t) /\ e.pc \in {"look", "claim"}
  BY <1>2 DEF e
<1>16. Ready(t, b, a)
  BY <1>13, Zenon DEF Ready
<1> HIDE DEF bs, n
<1> QED
  BY <1>2, <1>4, <1>6, <1>12, <1>14, <1>15, <1>16, StartReadStep

\* The slot a claim ends with is active and idle.
LEMMA ClaimedSlot ==
    ASSUME TableInv, NEW b, b = NxcClaimSlot, b # NoSlot
    PROVE  b \in Slots /\ block[b].live = TRUE /\ block[b].ref = 0 /\ block[b].busy = FALSE
<1>1. TableOK /\ lru \in Seq(Slots) /\ Live /\ ToSet(lru) = Blocks(Key)
  BY Known DEF TableOK, TableExact
<1>2. CASE FreeVisible # {}
  <2>1. FreeVisible \subseteq Nat
    BY SlotFacts DEF FreeVisible
  <2>2. b = Min(FreeVisible) /\ b \in FreeVisible
    BY <1>2, <2>1, MinIn DEF NxcClaimSlot
  <2>3. b \in Slots /\ block[b].live /\ block[b].key = NoKey
    BY <2>2, SlotFacts DEF FreeVisible
  <2> QED
    BY <1>1, <2>3, SlotState
<1>3. CASE FreeVisible = {} /\ CleanLru # {}
  <2>1. CleanLru \subseteq Nat
    BY <1>1 DEF CleanLru
  <2>2. PICK i \in CleanLru : i = Min(CleanLru)
    BY <1>3, <2>1, MinIn
  <2>3. b = lru[i]
    BY <1>3, <2>2 DEF NxcClaimSlot
  <2>4. i \in DOMAIN lru /\ b \in Visible /\ block[b].ref = 0 /\ ~block[b].busy
    BY <2>2, <2>3 DEF CleanLru, Idle
  <2>5. b \in Slots /\ b \in ToSet(lru)
    BY <2>3, <2>4, SlotFacts DEF ToSet
  <2>6. block[b].key \in Key
    BY <1>1, <2>5 DEF Blocks
  <2> QED
    BY <1>1, <2>4, <2>5, <2>6, SlotState
<1>4. CASE FreeVisible = {} /\ CleanLru = {}
  <2>1. b = NxcClaimReserve
    BY <1>4 DEF NxcClaimSlot
  <2> DEFINE free == {c \in Reserve : block[c].key = NoKey}
             clean == {c \in Reserve : Idle(c) /\ ~block[c].dirty}
  <2>2. b = IF free # {} THEN Min(free) ELSE IF clean # {} THEN Min(clean) ELSE NoSlot
    BY <2>1 DEF NxcClaimReserve
  <2>3. free \subseteq Nat /\ clean \subseteq Nat
    BY SlotFacts
  <2>4. b \in free \/ b \in clean
    <3> HIDE DEF free, clean
    <3> QED
      BY <2>2, <2>3, MinIn
  <2>5. b \in Reserve /\ b \in Slots
    BY <2>4, SlotFacts
  <2>6. block[b].live = TRUE
    BY <1>1, <2>5 DEF Live
  <2>7. block[b].key = NoKey \/ (block[b].ref = 0 /\ ~block[b].busy)
    BY <2>4 DEF Idle
  <2> QED
    BY <1>1, <2>5, <2>6, <2>7, SlotState
<1> QED
  BY <1>2, <1>3, <1>4

\* A slot is claimed for the block.
LEMMA GetClaimStep ==
    ASSUME TableInv, NEW t \in Thread, GetClaim(t)
    PROVE  TableInv' /\ Steady(t)
<1> DEFINE e == Top(t)
           b == NxcClaimSlot
           k == GetKey(t)
           A == [EmptyBlock EXCEPT !.key = k, !.ref = 1]
<1>1. /\ Busy(t) /\ e.fn = "NxcGetBlock" /\ e.pc \in {"look", "claim"} /\ b # NoSlot /\ active' = active
      /\ depth' = depth /\ opens' = opens /\ mapped' = mapped /\ size' = size /\ alloc' = alloc /\ map' = map /\ disk' = disk
  BY DEF GetClaim, In
<1>2. \/ /\ block' = [block EXCEPT ![b] = EmptyBlock] /\ lru' = Unlinked({b})
         /\ SetTop(t, [e EXCEPT !.pc = "look"]) /\ mutex' = t
      \/ ~Raced(k, b) /\ StartRead(t, b, [block EXCEPT ![b] = A]) /\ lru' = Append(Unlinked({b}), b)
  BY Zenon DEF GetClaim, Lock
<1>3. /\ Len(stack[t]) \in Place /\ e = stack[t][Len(stack[t])]
      /\ e \in FrameType /\ Formed(e)
      /\ k \in Key /\ e.ks = {k} /\ e.b = NoSlot /\ e.m = NoSlot /\ SlotOf(e) = NoSlot
  BY <1>1, GetFrame
<1>4. b \in Slots /\ block[b].live = TRUE /\ block[b].ref = 0 /\ block[b].busy = FALSE
  BY <1>1, ClaimedSlot
<1>5. block \in [Slots -> BlockType]
  BY Known
<1>e. e = Top(t)
  OBVIOUS
<1> HIDE DEF e, b, k
<1>6. CASE /\ block' = [block EXCEPT ![b] = EmptyBlock] /\ lru' = Unlinked({b})
           /\ SetTop(t, [e EXCEPT !.pc = "look"]) /\ mutex' = t
  <2>1. Rest'
    BY <1>1, <1>6, Known DEF Rest
  <2>2. block' = [c \in Slots |-> IF c \in {b} THEN EmptyBlock ELSE block[c]]
    BY <1>5, <1>6
  <2>3. Sound /\ Delta(NoSlot, NoSlot, NoSlot, NoSlot) /\ Blocks(Data)' \subseteq Blocks(Data)
    <3>1. PICK B : B = {b}
      OBVIOUS
    <3> QED
      BY <1>1, <1>4, <1>6, <2>1, <2>2, <3>1, SoundEmptied
  <2>4. PICK f : f = [e EXCEPT !.pc = "look"]
    OBVIOUS
  <2>5. FieldsAs(f, e, "look", e.todo, e.b, e.m, e.ok)
    <3>1. "look" \in Points
      BY DEF Points
    <3> QED
      BY <1>3, <2>4, <3>1, SetPc
  <2>6. f \in FrameType /\ f.fn = e.fn /\ f.pc = "look" /\ f.ks = e.ks /\ f.b = e.b /\ f.m = e.m
    BY <2>5 DEF FieldsAs
  <2>7. Formed(f) /\ Running(f) /\ InPlaceOf(f, e) /\ Like(f, e) /\ f.fn # "CcUninitializeCacheMap"
        /\ SlotOf(f) = SlotOf(e)
    BY <1>1, <1>3, <2>6 DEF Formed, Running, InPlaceOf, Like, Transfers, EntryFns, CopyFns, SlotOf
  <2>8. Delta(SlotOf(e), SlotOf(f), e.m, f.m)
    BY <2>3, <2>6, <2>7, DeltaBoth
  <2>9. SetTop(t, f)
    BY <1>6, <2>4
  <2>10. TableInv'
    BY <1>1, <1>3, <2>3, <2>6, <2>7, <2>8, <2>9, OneStep
  <2>11. Kept(t)
    BY <1>3, <2>6, <2>7, <2>9, KeptOne
  <2> QED
    BY <1>1, <2>3, <2>10, <2>11 DEF Steady
<1>7. CASE ~Raced(k, b) /\ StartRead(t, b, [block EXCEPT ![b] = A]) /\ lru' = Append(Unlinked({b}), b)
  <2>1. PICK a : a = A
    OBVIOUS
  <2>o. PICK o \in BlockType : o = EmptyBlock
    BY EmptyFacts
  <2>a. a = [o EXCEPT !.key = k, !.ref = 1]
    BY <2>1, <2>o
  <2>2. a \in BlockType
    <3>1. 1 \in Int
      OBVIOUS
    <3> QED
      BY <1>3, <2>a, <3>1, SetKeyRef
  <2>3. a.key = k /\ a.ref = 1 /\ a.live = TRUE /\ a.busy = FALSE /\ a.dirty = FALSE /\ a.valid = FALSE
    <3>1. o.live = TRUE /\ o.busy = FALSE /\ o.dirty = FALSE /\ o.valid = FALSE
      BY <2>o, EmptyFacts
    <3> QED
      BY <2>a, <3>1 DEF BlockType
  <2> HIDE DEF A
  <2>4. PICK bs : bs = [block EXCEPT ![b] = a]
    OBVIOUS
  <2>5. StartRead(t, b, bs)
    BY <1>7, <2>1, <2>4
  <2>6. \A c \in Slots \ {b} : block[c].key # k
    BY <1>7 DEF Raced, NxcLookupBlock
  <2>7. ASSUME NEW r \in BlockType, Rest', r.key = a.key, r.live = TRUE, r.dirty = TRUE => r.valid = TRUE,
               a.valid = TRUE => r.valid = TRUE, block' = [block EXCEPT ![b] = r]
        PROVE  Sound /\ (Blocks(Data)' \subseteq Blocks(Data) \/ OnFile(t))
    <3>1. r.key = k /\ r.key \in Key
      BY <1>3, <2>3, <2>7
    <3>2. Sound /\ (r.key \in Data \/ Blocks(Data)' \subseteq Blocks(Data))
      BY <1>1, <1>4, <1>7, <2>6, <2>7, <3>1, SoundClaimed
    <3>3. k \in Data => OnFile(t)
      BY <1>1, <1>3, <1>e, GetsOnFile
    <3> QED
      BY <3>1, <3>2, <3>3
  <2>8. a.key \in e.ks /\ a.ref = block[b].ref + 1
    BY <1>3, <1>4, <2>3
  <2>9. Ready(t, b, a)
    BY <2>7, Zenon DEF Ready
  <2> QED
    BY <1>1, <1>4, <1>e, <2>2, <2>3, <2>4, <2>5, <2>8, <2>9, StartReadStep
<1> QED
  BY <1>2, <1>6, <1>7

\* A read ends.
LEMMA NxcReadBlockStep ==
    ASSUME TableInv, NEW t \in Thread, NxcReadBlock(t)
    PROVE  TableInv' /\ Steady(t)
<1> DEFINE e == Top(t)
           b == e.b
<1>1. PICK o \in BOOLEAN :
        IF o
        THEN /\ block' = [block EXCEPT ![b].data = disk[block[b].key], ![b].valid = TRUE, ![b].busy = FALSE]
             /\ Got(t, b)
        ELSE /\ block' = [block EXCEPT ![b].busy = FALSE, ![b].ref = @ - 1]
             /\ IF Len(stack[t]) = 2 THEN stack' = [stack EXCEPT ![t] = <<>>] ELSE Return(t, NoSlot, FALSE)
             /\ mutex' = mutex
  BY Zenon DEF NxcReadBlock, Outcomes
<1>2. /\ Busy(t) /\ e.fn = "NxcGetBlock" /\ e.pc = "io" /\ lru' = lru /\ active' = active
      /\ depth' = depth /\ opens' = opens /\ mapped' = mapped /\ size' = size /\ alloc' = alloc /\ map' = map /\ disk' = disk
  BY DEF NxcReadBlock, In
<1>3. /\ Len(stack[t]) \in Place /\ e = stack[t][Len(stack[t])] /\ Len(stack[t]) > 1
      /\ e \in FrameType /\ Linked(block, e) /\ e.ks \subseteq Key
      /\ b \in Slots /\ e.m = NoSlot /\ SlotOf(e) = b
  BY <1>2, GetFrame
<1>4. block[b].busy = TRUE /\ block[b].key \in Key /\ block[b].key \in e.ks
  <2>1. block[b].busy = TRUE
    BY <1>2, <1>3, TopFacts DEF Transfers
  <2> QED
    BY <1>2, <1>3, <2>1 DEF Linked, Transfers
<1>e. e = Top(t)
  OBVIOUS
<1> HIDE DEF e, b
<1>5. /\ block \in [Slots -> BlockType] /\ block[b] \in BlockType /\ block[b].live = TRUE
      /\ (block[b].dirty = TRUE => block[b].valid = TRUE)
      /\ block[b].ref \in Int /\ block[b].data \in Datum
  BY <1>3, <1>4, BlockInfo
<1>6. CASE o = TRUE
  <2> DEFINE v == disk[block[b].key]
             r == [block[b] EXCEPT !.data = v, !.valid = TRUE, !.busy = FALSE]
  <2>1. block' = [block EXCEPT ![b].data = v, ![b].valid = TRUE, ![b].busy = FALSE] /\ Got(t, b)
    BY <1>1, <1>6
  <2>2. Rest'
    BY <1>2, <2>1, GotRest
  <2>3. v \in Datum
    BY <1>4, Known DEF Rest
  <2>4. block' = [block EXCEPT ![b] = r]
    BY <1>3, <1>5, <2>1
  <2>5. BlockAs(r, block[b], v, block[b].ref, TRUE, block[b].dirty, FALSE, block[b].unsaved)
    <3> HIDE DEF v
    <3> QED
      BY <1>5, <2>3, SetDataValidBusy
  <2> HIDE DEF r
  <2>6. Sound /\ Blocks(Data)' = Blocks(Data)
    BY <1>2, <1>3, <1>4, <1>5, <2>2, <2>4, <2>5, SoundModified DEF BlockAs
  <2>7. Delta(b, NoSlot, NoSlot, b)
    BY <1>3, <1>4, <2>4, <2>5, DeltaWays DEF BlockAs
  <2>8. block'[b].key \in e.ks /\ block'[b].valid = TRUE
    BY <1>3, <1>4, <1>5, <2>4, <2>5 DEF BlockAs
  <2>9. TableInv' /\ Kept(t)
    BY <1>2, <1>3, <1>e, <2>1, <2>6, <2>7, <2>8, GotStep
  <2> QED
    BY <1>2, <2>6, <2>9 DEF Steady
<1>7. CASE o = FALSE
  <2> DEFINE n == block[b].ref - 1
             r == [block[b] EXCEPT !.busy = FALSE, !.ref = n]
  <2>1. /\ block' = [block EXCEPT ![b].busy = FALSE, ![b].ref = @ - 1] /\ mutex' = mutex
        /\ IF Len(stack[t]) = 2 THEN stack' = [stack EXCEPT ![t] = <<>>] ELSE Return(t, NoSlot, FALSE)
    BY <1>1, <1>7
  <2>2. Rest'
    BY <1>2, <2>1, Known DEF Rest
  <2>3. n \in Int
    BY <1>5
  <2>4. block' = [block EXCEPT ![b] = r]
    BY <1>3, <1>5, <2>1
  <2>5. BlockAs(r, block[b], block[b].data, n, block[b].valid, block[b].dirty, FALSE, block[b].unsaved)
    <3> HIDE DEF n
    <3> QED
      BY <1>5, <2>3, SetBusyRef
  <2> HIDE DEF r
  <2>6. Sound /\ Blocks(Data)' = Blocks(Data)
    BY <1>2, <1>3, <1>4, <1>5, <2>2, <2>4, <2>5, SoundModified DEF BlockAs
  <2>7. Delta(b, NoSlot, NoSlot, NoSlot)
    BY <1>3, <1>4, <2>4, <2>5, DeltaWays DEF BlockAs
  <2>8. CASE Len(stack[t]) = 2
    <3>1. stack' = [stack EXCEPT ![t] = <<>>] /\ e = stack[t][2]
      BY <1>3, <2>1, <2>8
    <3>2. TableInv'
      BY <1>2, <1>3, <2>6, <2>7, <2>8, <3>1, ClearStep
    <3>3. Kept(t)
      BY <3>1, KeptClear
    <3> QED
      BY <1>2, <2>6, <3>2, <3>3 DEF Steady
  <2>9. CASE Len(stack[t]) # 2
    <3>1. Return(t, NoSlot, FALSE)
      BY <2>1, <2>9
    <3>2. NoSlot \in Slots \cup {NoSlot} /\ FALSE \in BOOLEAN /\ NoSlot \notin Slots
      BY SlotFacts
    <3>3. TableInv'
      BY <1>2, <1>3, <2>6, <2>7, <2>9, <3>1, <3>2, BackStep
    <3>4. Kept(t)
      BY <1>2, <1>3, <2>9, <3>1, <3>2, KeptBack
    <3> QED
      BY <1>2, <2>6, <3>3, <3>4 DEF Steady
  <2> QED
    BY <2>8, <2>9
<1> QED
  BY <1>6, <1>7

\* The table is as it was, or some idle slots have been emptied, and t stays.
Resting(t) == stack' = stack /\ opens' = opens /\ mapped' = mapped /\ Blocks(Data)' \subseteq Blocks(Data)

\* A thread lets others at the table.
LEMMA NxcShortWaitStep ==
    ASSUME TableInv, NEW t \in Thread, NxcShortWait(t)
    PROVE  TableInv' /\ (Resting(t) \/ Steady(t))
<1>1. /\ block' = block /\ lru' = lru /\ active' = active /\ depth' = depth
      /\ mutex' = NoThread /\ opens' = opens /\ mapped' = mapped /\ size' = size /\ alloc' = alloc /\ map' = map /\ disk' = disk
  BY DEF NxcShortWait, Unlock
<1>2. Rest'
  BY <1>1, Known DEF Rest
<1>3. Sound /\ Delta(NoSlot, NoSlot, NoSlot, NoSlot) /\ Blocks(Data)' = Blocks(Data)
  BY <1>1, <1>2, SoundSame
<1>4. CASE stack' = stack
  <2>1. TableInv'
    BY <1>1, <1>3, <1>4, StaysStep
  <2> QED
    BY <1>1, <1>3, <1>4, <2>1 DEF Resting
<1>5. CASE ClaimBlocked(t) /\ SetTop(t, [Top(t) EXCEPT !.pc = "claim"])
  <2> DEFINE e == Top(t)
  <2>1. Busy(t) /\ e.fn = "NxcGetBlock" /\ e.pc \in {"look", "claim"}
    BY <1>5 DEF ClaimBlocked, In
  <2>2. e \in FrameType /\ Formed(e) /\ Len(stack[t]) \in Place /\ e = stack[t][Len(stack[t])]
    BY <2>1, TopFacts
  <2>3. e.b = NoSlot /\ e.m = NoSlot /\ SlotOf(e) = NoSlot
    BY <2>1, <2>2 DEF Formed, SlotOf
  <2>4. e = Top(t)
    OBVIOUS
  <2> HIDE DEF e
  <2>5. PICK f : f = [e EXCEPT !.pc = "claim"]
    OBVIOUS
  <2>6. FieldsAs(f, e, "claim", e.todo, e.b, e.m, e.ok)
    <3>1. "claim" \in Points
      BY DEF Points
    <3> QED
      BY <2>2, <2>5, <3>1, SetPc
  <2>7. f \in FrameType /\ f.fn = e.fn /\ f.pc = "claim" /\ f.ks = e.ks /\ f.b = NoSlot /\ f.m = NoSlot
    BY <2>3, <2>6 DEF FieldsAs
  <2>8. Formed(f) /\ Running(f) /\ InPlaceOf(f, e) /\ Like(f, e)
    BY <2>1, <2>2, <2>3, <2>7 DEF Formed, Running, InPlaceOf, Like, Transfers, EntryFns, CopyFns
  <2>9. SetTop(t, f)
    BY <1>5, <2>4, <2>5
  <2>10. SlotOf(f) = NoSlot
    BY <2>7 DEF SlotOf
  <2>11. Delta(SlotOf(e), SlotOf(f), e.m, f.m)
    BY <1>3, <2>3, <2>7, <2>10
  <2>12. TableInv'
    BY <1>1, <1>3, <2>2, <2>7, <2>8, <2>9, <2>11, OneStep
  <2>13. Kept(t)
    BY <2>1, <2>2, <2>7, <2>8, <2>9, KeptOne
  <2> QED
    BY <1>1, <1>3, <2>12, <2>13 DEF Steady
<1> QED
  BY <1>4, <1>5 DEF NxcShortWait

\* Idle blocks of a range are dropped.
LEMMA FlushMapDropStep ==
    ASSUME TableInv, NEW t \in Thread, FlushMapDrop(t)
    PROVE  TableInv' /\ Resting(t)
<1> DEFINE B == Droppable(Top(t).ks)
<1>1. /\ block' = [b \in Slots |-> IF b \in B THEN EmptyBlock ELSE block[b]] /\ lru' = Unlinked(B)
      /\ active' = active /\ depth' = depth /\ stack' = stack
      /\ mutex' = t /\ opens' = opens /\ mapped' = mapped /\ size' = size /\ alloc' = alloc /\ map' = map /\ disk' = disk
  BY DEF FlushMapDrop, Lock
<1>2. Rest'
  BY <1>1, Known DEF Rest
<1>3. Top(t).ks \subseteq Key
  <2>1. Busy(t)
    BY DEF FlushMapDrop, In
  <2>2. Top(t) \in FrameType
    BY <2>1, TopFacts
  <2> QED
    BY <2>2 DEF FrameType
<1>4. ASSUME NEW b \in B
      PROVE  b \in Slots /\ block[b].live = TRUE /\ block[b].ref = 0 /\ block[b].busy = FALSE
  <2>1. b \in Slots /\ block[b].key \in Key /\ block[b].ref = 0 /\ (block[b].busy => b < b)
    BY <1>3 DEF Droppable, Blocks
  <2>2. b \in Nat
    BY <2>1, SlotFacts
  <2>3. ~(b < b)
    BY <2>2
  <2> QED
    BY <2>1, <2>3, BlockInfo
<1> HIDE DEF B
<1>5. Sound /\ Delta(NoSlot, NoSlot, NoSlot, NoSlot) /\ Blocks(Data)' \subseteq Blocks(Data)
  BY <1>1, <1>2, <1>4, SoundEmptied
<1>6. TableInv'
  BY <1>1, <1>5, StaysStep
<1> QED
  BY <1>1, <1>5, <1>6 DEF Resting

\* A call that is only ever an entry point has at most one call above it that
\* is not a transfer: what calls NxcFlushMap is at the bottom.
LEMMA BelowIsBottom ==
    ASSUME TableInv, NEW t \in Thread, Busy(t), Len(stack[t]) # 1,
           Below(t).fn \in EntryFns \ {"NxcFlushMap"}
    PROVE  Len(stack[t]) = 2 /\ Below(t) = stack[t][1] /\ Call(t) = stack[t][1]
<1> DEFINE s == stack[t]
<1>1. Len(s) \in Place /\ Len(s) > 1 /\ Below(t) = s[Len(s) - 1]
  BY TopFacts
<1>2. s \in Seq(FrameType) /\ Shaped(s)
  BY Known
<1>3. PICK n \in Nat : n = Len(s)
  BY <1>2
<1>4. n > 1 /\ DOMAIN s = 1 .. n /\ n - 1 \in DOMAIN s /\ Below(t) = s[n - 1]
  BY <1>1, <1>2, <1>3
<1>5. n - 1 = 1
  <2>1. CASE n - 1 > 1
    <3>1. s[n - 1].fn \in {"NxcGetBlock", "NxcFlushMap", "NxcFlushBlock"}
      BY <1>2, <1>4, <2>1, AboveBottom
    <3> QED
      BY <1>4, <3>1 DEF EntryFns, CopyFns
  <2> QED
    BY <1>4, <2>1
<1>6. n = 2
  BY <1>5
<1>7. Below(t) = s[1]
  BY <1>4, <1>5
<1>8. Call(t) = s[1]
  BY <1>2, <1>4 DEF Call
<1> QED
  BY <1>3, <1>6, <1>7, <1>8

\* Popping the only frame leaves none.
LEMMA PopOnly ==
    ASSUME TableInv, NEW t \in Thread, Len(stack[t]) = 1
    PROVE  Pop(t) <=> stack' = [stack EXCEPT ![t] = <<>>]
<1> DEFINE s == stack[t]
           r == Front(s) \o <<>>
<1>1. s \in Seq(FrameType) /\ stack \in [Thread -> Seq(FrameType)]
  BY Known
<1>p. Len(s) \in Place
  BY DEF Place
<1>2. TopNone(s, r)
  BY <1>1, <1>p, ReplacedByNone
<1>3. r = <<>>
  <2> HIDE DEF r
  <2>1. r \in Seq(FrameType) /\ Len(r) = 1 - 1
    BY <1>2 DEF TopNone
  <2>2. Len(r) = 0
    BY <2>1
  <2> QED
    BY <2>1, <2>2
<1>4. Pop(t) <=> stack' = [stack EXCEPT ![t] = r]
  BY <1>1, Zenon DEF Pop, Replace
<1> QED
  BY <1>3, <1>4

\* A flush of a range is over.  A close keeps its frame, and what is below it.
Finished(t) ==
  \/ Kept(t)
  \/ /\ \A u \in Thread \ {t} : stack'[u] = stack[u]
     /\ Len(stack[t]) = 2 /\ Len(stack'[t]) = 1 /\ stack'[t][1] = stack[t][1]
     /\ stack[t][1].fn = "CcUninitializeCacheMap"
     /\ stack[t][1].pc = "free" => Dropped(Data)

\* The end of NxcFlushMap.
LEMMA FlushMapDoneStep ==
    ASSUME TableInv, NEW t \in Thread, FlushMapDone(t)
    PROVE  /\ TableInv' /\ Finished(t) /\ opens' = opens /\ mapped' = mapped
           /\ Blocks(Data)' = Blocks(Data)
<1> DEFINE e == Top(t)
<1>1. /\ Busy(t) /\ e.fn = "NxcFlushMap" /\ (e.pc = "drop" => Dropped(e.ks))
      /\ block' = block /\ lru' = lru /\ active' = active /\ depth' = depth
      /\ opens' = opens /\ mapped' = mapped /\ size' = size /\ alloc' = alloc /\ map' = map /\ disk' = disk
  BY DEF FlushMapDone, In
<1>2. \/ /\ Len(stack[t]) = 1 \/ Keeps(Below(t))
         /\ stack' = [stack EXCEPT ![t] = <<>>] /\ mutex' = NoThread
      \/ ~(Len(stack[t]) = 1) /\ ~Keeps(Below(t)) /\ Pop(t) /\ mutex' = t
  BY DEF FlushMapDone, Lock, Unlock
<1>3. /\ Len(stack[t]) \in Place /\ e = stack[t][Len(stack[t])] /\ e \in FrameType /\ Formed(e)
      /\ (Len(stack[t]) # 1 => /\ Below(t) = stack[t][Len(stack[t]) - 1] /\ Waits(Below(t), e))
  BY <1>1, TopFacts
<1>4. e.m = NoSlot /\ SlotOf(e) = NoSlot
  BY <1>1, <1>3 DEF Formed, EntryFns, CopyFns, SlotOf, Transfers
<1>5. Rest'
  BY <1>1, <1>2, Known DEF Rest
<1>6. Sound /\ Delta(NoSlot, NoSlot, NoSlot, NoSlot) /\ Blocks(Data)' = Blocks(Data)
  BY <1>1, <1>5, SoundSame
<1>7. Len(stack[t]) # 1 => /\ Len(stack[t]) = 2 /\ Below(t) = stack[t][1]
                           /\ Below(t).fn \in CopyFns \cup {"CcUninitializeCacheMap", "NxcFlushAll"}
                           /\ (Below(t).fn = "CcUninitializeCacheMap" /\ Below(t).pc = "free" =>
                                 e.pc = "drop" /\ e.ks = Data)
  <2> SUFFICES ASSUME Len(stack[t]) # 1
               PROVE  /\ Len(stack[t]) = 2 /\ Below(t) = stack[t][1]
                      /\ Below(t).fn \in CopyFns \cup {"CcUninitializeCacheMap", "NxcFlushAll"}
                      /\ (Below(t).fn = "CcUninitializeCacheMap" /\ Below(t).pc = "free" =>
                            e.pc = "drop" /\ e.ks = Data)
    OBVIOUS
  <2>1. Waits(Below(t), e)
    BY <1>3
  <2>2. /\ Below(t).fn \in CopyFns \cup {"CcUninitializeCacheMap", "NxcFlushAll"}
        /\ (Below(t).fn = "CcUninitializeCacheMap" /\ Below(t).pc = "free" =>
              e.pc = "drop" /\ e.ks = Data)
    BY <1>1, <2>1 DEF Waits, CopyFns, Transfers
  <2>3. Below(t).fn \in EntryFns \ {"NxcFlushMap"}
    BY <2>2 DEF EntryFns, CopyFns
  <2> QED
    BY <1>1, <2>2, <2>3, BelowIsBottom
<1>e. e = Top(t)
  OBVIOUS
<1> HIDE DEF e
<1>8. depth' = depth - Bit(e.fn = "NxcFlushBlock")
  BY <1>1, Known DEF Bit
<1>9. CASE stack' = [stack EXCEPT ![t] = <<>>]
  <2>1. Kept(t)
    BY <1>9, KeptClear
  <2>2. CASE Len(stack[t]) = 1
    <3>p. Pop(t)
      BY <1>9, <2>2, PopOnly
    <3>1. ~(Len(stack[t]) > 1)
      BY <2>2
    <3>2. TableInv'
      BY <1>3, <1>4, <1>6, <1>8, <3>p, <3>1, NoneStep
    <3> QED
      BY <1>1, <1>6, <2>1, <3>2 DEF Finished
  <2>3. CASE Len(stack[t]) # 1
    <3>1. Len(stack[t]) = 2 /\ e = stack[t][2]
      BY <1>3, <1>7, <2>3
    <3>2. TableInv'
      BY <1>1, <1>4, <1>6, <1>9, <3>1, ClearStep
    <3> QED
      BY <1>1, <1>6, <2>1, <3>2 DEF Finished
  <2> QED
    BY <2>2, <2>3
<1>10. CASE ~(Len(stack[t]) = 1) /\ ~Keeps(Below(t)) /\ Pop(t)
  <2>1. /\ Len(stack[t]) = 2 /\ Below(t) = stack[t][1] /\ Below(t) = stack[t][Len(stack[t]) - 1]
        /\ Below(t).fn \in {"CcUninitializeCacheMap", "NxcFlushAll"}
    BY <1>3, <1>7, <1>10 DEF Keeps, CopyFns
  <2>2. Running(stack[t][Len(stack[t]) - 1])
    BY <2>1 DEF Running, CopyFns, Transfers
  <2>3. TableInv'
    BY <1>3, <1>4, <1>6, <1>8, <1>10, <2>2, NoneStep
  <2>4. CASE stack[t][1].fn # "CcUninitializeCacheMap"
    <3>1. Kept(t)
      BY <1>3, <1>10, <2>4, KeptNone
    <3> QED
      BY <1>1, <1>6, <2>3, <3>1 DEF Finished
  <2>5. CASE stack[t][1].fn = "CcUninitializeCacheMap"
    <3> DEFINE s == stack[t]
               r == Front(s) \o <<>>
    <3>1. stack \in [Thread -> Seq(FrameType)] /\ s \in Seq(FrameType)
      BY Known
    <3>2. TopNone(s, r)
      BY <1>3, <3>1, ReplacedByNone
    <3>3. stack' = [stack EXCEPT ![t] = r]
      BY <1>10, <3>1, Zenon DEF Pop, Replace
    <3> HIDE DEF r
    <3>4. stack'[t] = r /\ \A u \in Thread \ {t} : stack'[u] = stack[u]
      BY <3>1, <3>3
    <3>5. Len(r) = 2 - 1 /\ \A i \in 1 .. 2 - 1 : r[i] = s[i]
      BY <2>1, <3>2 DEF TopNone
    <3>6. Len(r) = 1 /\ r[1] = s[1]
      BY <3>5
    <3>7. stack[t][1].pc = "free" => Dropped(Data)
      BY <1>1, <1>7, <2>1, <2>5
    <3> QED
      BY <1>1, <1>6, <2>1, <2>3, <2>5, <3>4, <3>6, <3>7 DEF Finished
  <2> QED
    BY <2>4, <2>5
<1> QED
  BY <1>2, <1>9, <1>10

\* A call that holds no block returns from the cache.
LEMMA LeaveStep ==
    ASSUME Sound, NEW t \in Thread, Busy(t), NEW e, e = Top(t), Len(stack[t]) = 1, Pop(t),
           e.m = NoSlot, e.fn \notin Transfers, Delta(NoSlot, NoSlot, NoSlot, NoSlot), depth' = depth
    PROVE  TableInv' /\ Kept(t)
<1>1. TableInv
  BY DEF Sound
<1>2. Len(stack[t]) \in Place /\ e = stack[t][Len(stack[t])]
  BY <1>1, TopFacts
<1>3. SlotOf(e) = NoSlot /\ e.fn # "NxcFlushBlock"
  BY DEF SlotOf, Transfers
<1>4. depth' = depth - Bit(e.fn = "NxcFlushBlock")
  BY <1>1, <1>3, Known DEF Bit
<1>5. ~(Len(stack[t]) > 1)
  OBVIOUS
<1>6. TableInv'
  BY <1>2, <1>3, <1>4, <1>5, NoneStep
<1>7. stack[t][Len(stack[t])].fn = "NxcFlushMap" => stack[t][1].fn # "CcUninitializeCacheMap"
  OBVIOUS
<1>8. Kept(t)
  BY <1>1, <1>2, <1>7, KeptNone
<1> QED
  BY <1>6, <1>8

\* A purge of a range, of all of it or of nothing.
LEMMA PurgeBlocksStep ==
    ASSUME TableInv, NEW t \in Thread, PurgeBlocks(t)
    PROVE  TableInv' /\ Steady(t)
<1> DEFINE e == Top(t)
           B == Blocks(e.ks)
<1>1. /\ Busy(t) /\ e.fn = "CcPurgeCacheSection" /\ Pop(t)
      /\ active' = active /\ depth' = depth
      /\ mutex' = mutex /\ opens' = opens /\ mapped' = mapped /\ size' = size /\ alloc' = alloc /\ map' = map /\ disk' = disk
  BY DEF PurgeBlocks, In
<1>2. \/ /\ \A b \in B : Idle(b)
         /\ block' = [b \in Slots |-> IF b \in B THEN EmptyBlock ELSE block[b]] /\ lru' = Unlinked(B)
      \/ block' = block /\ lru' = lru
  BY DEF PurgeBlocks
<1>3. /\ e \in FrameType /\ Formed(e) /\ Len(stack[t]) = 1
  BY <1>1, TopFacts
<1>4. e.m = NoSlot /\ e.fn \notin Transfers /\ e.ks \subseteq Key
  BY <1>1, <1>3 DEF Formed, EntryFns, CopyFns, Transfers, FrameType
<1>5. Rest'
  BY <1>1, Known DEF Rest
<1>6. B \subseteq Slots /\ \A b \in B : block[b].key \in Key
  BY <1>4 DEF Blocks
<1>e. e = Top(t)
  OBVIOUS
<1> HIDE DEF e, B
<1>7. Sound /\ Delta(NoSlot, NoSlot, NoSlot, NoSlot) /\ Blocks(Data)' \subseteq Blocks(Data)
  <2>1. CASE block' = block /\ lru' = lru
    BY <1>1, <1>5, <2>1, SoundSame
  <2>2. CASE /\ \A b \in B : Idle(b)
             /\ block' = [b \in Slots |-> IF b \in B THEN EmptyBlock ELSE block[b]] /\ lru' = Unlinked(B)
    <3>1. ASSUME NEW b \in B
          PROVE  block[b].live = TRUE /\ block[b].ref = 0 /\ block[b].busy = FALSE
      <4>1. b \in Slots /\ block[b].key \in Key /\ block[b].ref = 0 /\ ~block[b].busy
        BY <1>6, <2>2 DEF Idle
      <4> QED
        BY <4>1, BlockInfo
    <3> QED
      BY <1>1, <1>5, <1>6, <2>2, <3>1, SoundEmptied
  <2> QED
    BY <1>2, <2>1, <2>2
<1>8. TableInv' /\ Kept(t)
  BY <1>1, <1>3, <1>4, <1>7, <1>e, LeaveStep
<1> QED
  BY <1>1, <1>7, <1>8 DEF Steady

\* NxcFlushAll goes on with the map of a file that is dirty, or is done.
LEMMA FlushAllMapsStep ==
    ASSUME TableInv, NEW t \in Thread, FlushAllMaps(t)
    PROVE  TableInv' /\ Steady(t)
<1> DEFINE e == Top(t)
<1>1. /\ Busy(t) /\ e.fn = "NxcFlushAll"
      /\ block' = block /\ lru' = lru /\ active' = active /\ depth' = depth
      /\ opens' = opens /\ mapped' = mapped /\ size' = size /\ alloc' = alloc /\ map' = map /\ disk' = disk
  BY DEF FlushAllMaps, In
<1>2. \/ \E K \in {Data, Fat} : Push(t, e, Flushing("flush", K)) /\ mutex' = t
      \/ Pop(t) /\ mutex' = NoThread
  BY DEF FlushAllMaps, Lock, Unlock
<1>3. /\ e \in FrameType /\ Formed(e) /\ Len(stack[t]) = 1
      /\ Len(stack[t]) \in Place /\ e = stack[t][Len(stack[t])]
  BY <1>1, TopFacts
<1>4. e.m = NoSlot /\ e.fn \notin Transfers /\ SlotOf(e) = NoSlot
  BY <1>1, <1>3 DEF Formed, EntryFns, CopyFns, Transfers, SlotOf
<1>5. Rest'
  BY <1>1, <1>2, Known DEF Rest
<1>6. Sound /\ Delta(NoSlot, NoSlot, NoSlot, NoSlot) /\ Blocks(Data)' = Blocks(Data)
  BY <1>1, <1>5, SoundSame
<1>e. e = Top(t)
  OBVIOUS
<1> HIDE DEF e
<1>7. CASE Pop(t)
  <2>1. TableInv' /\ Kept(t)
    BY <1>1, <1>3, <1>4, <1>6, <1>7, <1>e, LeaveStep
  <2> QED
    BY <1>1, <1>6, <2>1 DEF Steady
<1>8. ASSUME NEW K \in {Data, Fat}, Push(t, e, Flushing("flush", K))
      PROVE  TableInv' /\ Steady(t)
  <2>1. PICK g : g = Flushing("flush", K)
    OBVIOUS
  <2>2. K \subseteq Key
    BY KeyFacts
  <2>3. g \in FrameType /\ g.fn = "NxcFlushMap" /\ Formed(g) /\ Running(g) /\ Unheld(g) /\ Linked(block', g)
    BY <2>1, <2>2, MapFrame
  <2>4. Waits(e, g)
    BY <1>1, <1>4, <2>3 DEF Waits
  <2>5. InPlaceOf(e, e) /\ Like(e, e) /\ e.fn # "CcUninitializeCacheMap"
    BY <1>1 DEF InPlaceOf, Like
  <2>p. Push(t, e, g)
    BY <1>8, <2>1
  <2>6. TableInv'
    BY <1>1, <1>3, <1>4, <1>6, <2>3, <2>4, <2>5, <2>p, TwoStep
  <2>7. Kept(t)
    BY <1>3, <2>3, <2>5, <2>p, KeptTwo
  <2> QED
    BY <1>1, <1>6, <2>6, <2>7 DEF Steady
<1> QED
  BY <1>2, <1>7, <1>8

\* To shrink the cache, a slot is retired, or written back first.
LEMMA ShrinkCacheStep ==
    ASSUME TableInv, NEW t \in Thread, ShrinkCache(t)
    PROVE  TableInv' /\ (Steady(t) \/ Resting(t))
<1> DEFINE e == Top(t)
           idle == {b \in Visible : block[b].live /\ Idle(b)}
           b == Min(idle)
<1>1. /\ Busy(t) /\ e.fn = "FscSetCacheSize" /\ mutex = t
      /\ opens' = opens /\ mapped' = mapped /\ size' = size /\ alloc' = alloc /\ map' = map /\ disk' = disk
  BY Zenon DEF ShrinkCache, In
<1>2. \/ /\ idle # {} /\ block[b].dirty /\ block[b].valid /\ StartFlush(t, b, e)
         /\ lru' = lru /\ active' = active
      \/ /\ idle # {} /\ block' = [block EXCEPT ![b] = RetiredBlock] /\ lru' = Unlinked({b})
         /\ active' = active - 1 /\ stack' = stack /\ mutex' = mutex /\ depth' = depth
      \/ /\ Pop(t) /\ mutex' = NoThread
         /\ block' = block /\ lru' = lru /\ active' = active /\ depth' = depth
  BY Zenon DEF ShrinkCache, Unlock
<1>3. /\ e \in FrameType /\ Formed(e) /\ Running(e) /\ Len(stack[t]) = 1
      /\ Len(stack[t]) \in Place /\ e = stack[t][Len(stack[t])]
  BY <1>1, TopFacts
<1>4. e.m = NoSlot /\ e.fn \notin Transfers /\ SlotOf(e) = NoSlot
  BY <1>1, <1>3 DEF Formed, EntryFns, CopyFns, Transfers, SlotOf
<1>5. idle # {} => b \in Visible /\ b \in Slots /\ block[b].live = TRUE /\ block[b].ref = 0 /\ block[b].busy = FALSE
  <2> SUFFICES ASSUME idle # {}
               PROVE  b \in Visible /\ b \in Slots /\ block[b].live = TRUE /\ block[b].ref = 0 /\ block[b].busy = FALSE
    OBVIOUS
  <2>1. idle \subseteq Nat
    BY SlotFacts
  <2>2. b \in idle
    BY <2>1, MinIn
  <2> HIDE DEF b
  <2>3. b \in Visible /\ block[b].live /\ block[b].ref = 0 /\ ~block[b].busy /\ b \in Slots
    BY <2>2 DEF Idle, Slots
  <2>4. block[b].live \in BOOLEAN /\ block[b].busy \in BOOLEAN
    BY <2>3, Known, SlotState
  <2> QED
    BY <2>3, <2>4
<1>e. e = Top(t)
  OBVIOUS
<1> HIDE DEF e, b, idle
<1>6. CASE idle # {} /\ block[b].dirty /\ block[b].valid /\ StartFlush(t, b, e) /\ lru' = lru /\ active' = active
  <2>1. block[b].key \in Key
    BY <1>5, <1>6, Known, SlotState
  <2>2. InPlaceOf(e, e) /\ Like(e, e) /\ e.fn # "CcUninitializeCacheMap"
    BY <1>1 DEF InPlaceOf, Like
  <2>3. \A g : g.fn = "NxcFlushBlock" => Waits(e, g)
    BY <1>1, <1>4 DEF Waits
  <2>4. TableInv' /\ Steady(t)
    BY <1>1, <1>3, <1>4, <1>5, <1>6, <1>e, <2>1, <2>2, <2>3, StartFlushStep
  <2> QED
    BY <2>4
<1>7. CASE /\ idle # {} /\ block' = [block EXCEPT ![b] = RetiredBlock] /\ lru' = Unlinked({b})
           /\ active' = active - 1 /\ stack' = stack /\ mutex' = mutex /\ depth' = depth
  <2>1. Rest'
    BY <1>1, <1>7, Known DEF Rest
  <2>2. Sound /\ Delta(NoSlot, NoSlot, NoSlot, NoSlot) /\ Blocks(Data)' \subseteq Blocks(Data)
    BY <1>5, <1>7, <2>1, SoundRetired
  <2>3. TableInv'
    BY <1>7, <2>2, StaysStep
  <2> QED
    BY <1>1, <1>7, <2>2, <2>3 DEF Resting
<1>8. CASE /\ Pop(t) /\ mutex' = NoThread
           /\ block' = block /\ lru' = lru /\ active' = active /\ depth' = depth
  <2>1. Rest'
    BY <1>1, <1>8, Known DEF Rest
  <2>2. Sound /\ Delta(NoSlot, NoSlot, NoSlot, NoSlot) /\ Blocks(Data)' = Blocks(Data)
    BY <1>8, <2>1, SoundSame
  <2>3. TableInv' /\ Kept(t)
    BY <1>1, <1>3, <1>4, <1>8, <1>e, <2>2, LeaveStep
  <2> QED
    BY <1>1, <2>2, <2>3 DEF Steady
<1> QED
  BY <1>2, <1>6, <1>7, <1>8

\* The close is now at pc, with a call of NxcFlushMap above it.
ClosingAt(t, pc) ==
  /\ Len(stack'[t]) = 2 /\ stack'[t][1].fn = "CcUninitializeCacheMap"
  /\ stack'[t][1].ks = Data /\ stack'[t][1].pc = pc
\* What a step of the close does to the map.
Closes(t) ==
  /\ \A u \in Thread \ {t} : stack'[u] = stack[u]
  /\ Blocks(Data)' = Blocks(Data)
  /\ Len(stack[t]) = 1 /\ stack[t][1].fn = "CcUninitializeCacheMap"
  /\ \/ /\ stack[t][1].pc = "close" /\ opens' = opens - 1 /\ mapped' = mapped
        /\ \/ opens > 1 /\ stack'[t] = <<>>
           \/ ~(opens > 1) /\ ClosingAt(t, "drop")
     \/ stack[t][1].pc = "drop" /\ opens' = opens /\ mapped' = mapped /\ ClosingAt(t, "free")
     \/ stack[t][1].pc = "free" /\ opens' = opens /\ mapped' = FALSE /\ stack'[t] = <<>>

\* A step of the close.
LEMMA UninitializeStep ==
    ASSUME TableInv, NEW t \in Thread, Uninitialize(t)
    PROVE  TableInv' /\ Closes(t)
<1> DEFINE e == Top(t)
           AtPc(pc) == [e EXCEPT !.pc = pc]
           Map(pc) == Flushing(pc, Data)
<1>1. /\ Busy(t) /\ e.fn = "CcUninitializeCacheMap" /\ mutex = t
      /\ block' = block /\ lru' = lru /\ active' = active /\ depth' = depth /\ size' = size /\ alloc' = alloc /\ map' = map /\ disk' = disk
  BY Zenon DEF Uninitialize
<1>2. \/ /\ e.pc = "close" /\ opens' = opens - 1 /\ mapped' = mapped
         /\ \/ opens > 1 /\ Pop(t) /\ mutex' = NoThread
            \/ ~(opens > 1) /\ Push(t, AtPc("drop"), Map("flush")) /\ mutex' = t
      \/ e.pc = "drop" /\ opens' = opens /\ mapped' = mapped /\ Push(t, AtPc("free"), Map("drop")) /\ mutex' = t
      \/ e.pc = "free" /\ opens' = opens /\ mapped' = FALSE /\ Pop(t) /\ mutex' = NoThread
  BY Zenon DEF Uninitialize, Lock, Unlock, LastPass
<1>3. /\ e \in FrameType /\ Formed(e) /\ Len(stack[t]) = 1
      /\ Len(stack[t]) \in Place /\ e = stack[t][Len(stack[t])]
  BY <1>1, TopFacts
<1>4. e.m = NoSlot /\ e.fn \notin Transfers /\ SlotOf(e) = NoSlot /\ e.ks = Data /\ e = stack[t][1]
  BY <1>1, <1>3 DEF Formed, EntryFns, CopyFns, Transfers, SlotOf
<1>5. Rest'
  <2>1. opens \in Int /\ mapped \in BOOLEAN
    BY Known DEF Rest
  <2>2. (opens' = opens \/ opens' = opens - 1) /\ (mapped' = mapped \/ mapped' = FALSE)
        /\ (mutex' = t \/ mutex' = NoThread)
    BY <1>2, Zenon
  <2>3. opens' \in Int
    BY <2>1, <2>2
  <2>4. mapped' \in BOOLEAN
    BY <2>1, <2>2, Zenon
  <2>5. mutex' \in Thread \cup {NoThread}
    BY <2>2
  <2> QED
    BY <1>1, <2>3, <2>4, <2>5, Known DEF Rest
<1>6. Sound /\ Delta(NoSlot, NoSlot, NoSlot, NoSlot) /\ Blocks(Data)' = Blocks(Data)
  BY <1>1, <1>5, SoundSame
<1>e. e = Top(t)
  OBVIOUS
<1>k. stack \in [Thread -> Seq(FrameType)] /\ stack[t] \in Seq(FrameType)
  BY Known
<1> HIDE DEF e
<1>7. Pop(t) => TableInv' /\ stack'[t] = <<>> /\ \A u \in Thread \ {t} : stack'[u] = stack[u]
  <2> SUFFICES ASSUME Pop(t)
               PROVE  TableInv' /\ stack'[t] = <<>> /\ \A u \in Thread \ {t} : stack'[u] = stack[u]
    OBVIOUS
  <2>1. TableInv'
    BY <1>1, <1>3, <1>4, <1>6, <1>e, LeaveStep
  <2>2. stack' = [stack EXCEPT ![t] = <<>>]
    BY <1>3, PopOnly
  <2> QED
    BY <1>k, <2>1, <2>2
<1>8. ASSUME NEW p \in {"drop", "free"}, NEW q \in {"flush", "drop"}, p = "free" => q = "drop",
             Push(t, AtPc(p), Map(q))
      PROVE  TableInv' /\ ClosingAt(t, p) /\ \A u \in Thread \ {t} : stack'[u] = stack[u]
  <2>1. PICK f : f = AtPc(p)
    OBVIOUS
  <2>2. PICK g : g = Map(q)
    OBVIOUS
  <2>3. Data \subseteq Key
    BY KeyFacts
  <2>4. /\ g \in FrameType /\ g.fn = "NxcFlushMap" /\ g.pc = q /\ g.ks = Data
        /\ Formed(g) /\ Running(g) /\ Unheld(g) /\ Linked(block', g)
    BY <2>2, <2>3, MapFrame
  <2>5. p \in Points
    BY DEF Points
  <2>6. FieldsAs(f, e, p, e.todo, e.b, e.m, e.ok)
    BY <1>3, <2>1, <2>5, SetPc
  <2>7. Push(t, f, g)
    BY <1>8, <2>1, <2>2
  <2> HIDE DEF AtPc, Map
  <2>8. f \in FrameType /\ f.fn = e.fn /\ f.pc = p /\ f.ks = Data /\ f.b = e.b /\ f.m = NoSlot
    BY <1>4, <2>6 DEF FieldsAs
  <2>9. Formed(f) /\ InPlaceOf(f, e) /\ Like(f, e) /\ SlotOf(f) = NoSlot
    BY <1>1, <1>4, <2>8 DEF Formed, InPlaceOf, Like, SlotOf, EntryFns, CopyFns, Transfers
  <2>10. Waits(f, g)
    BY <1>1, <1>8, <2>4, <2>8 DEF Waits
  <2>11. TableInv'
    BY <1>1, <1>3, <1>4, <1>6, <2>4, <2>7, <2>8, <2>9, <2>10, TwoStep
  <2> DEFINE r == Front(stack[t]) \o <<f, g>>
  <2>12. TopTwo(stack[t], f, g, r)
    BY <1>3, <1>k, <2>4, <2>8, ReplacedByTwo
  <2>13. stack' = [stack EXCEPT ![t] = r]
    BY <1>k, <2>7, Zenon DEF Push, Replace
  <2> HIDE DEF r
  <2>14. stack'[t] = r /\ \A u \in Thread \ {t} : stack'[u] = stack[u]
    BY <1>k, <2>13
  <2>15. Len(r) = 1 + 1 /\ r[1] = f
    BY <1>3, <2>12 DEF TopTwo
  <2>16. Len(r) = 2
    BY <2>15
  <2> QED
    BY <1>1, <2>8, <2>11, <2>14, <2>15, <2>16 DEF ClosingAt
<1>c. /\ Blocks(Data)' = Blocks(Data) /\ Len(stack[t]) = 1 /\ stack[t][1] = e
      /\ stack[t][1].fn = "CcUninitializeCacheMap"
  BY <1>1, <1>3, <1>4, <1>6
<1>9. CASE e.pc = "close" /\ opens' = opens - 1 /\ mapped' = mapped /\ opens > 1 /\ Pop(t)
  <2>1. TableInv' /\ stack'[t] = <<>> /\ \A u \in Thread \ {t} : stack'[u] = stack[u]
    BY <1>7, <1>9
  <2> QED
    BY <1>c, <1>9, <2>1 DEF Closes
<1>10. CASE e.pc = "close" /\ opens' = opens - 1 /\ mapped' = mapped /\ ~(opens > 1) /\ Push(t, AtPc("drop"), Map("flush"))
  <2>1. TableInv' /\ ClosingAt(t, "drop") /\ \A u \in Thread \ {t} : stack'[u] = stack[u]
    BY <1>8, <1>10
  <2> QED
    BY <1>c, <1>10, <2>1 DEF Closes
<1>11. CASE e.pc = "drop" /\ opens' = opens /\ mapped' = mapped /\ Push(t, AtPc("free"), Map("drop"))
  <2>1. TableInv' /\ ClosingAt(t, "free") /\ \A u \in Thread \ {t} : stack'[u] = stack[u]
    BY <1>8, <1>11
  <2> QED
    BY <1>c, <1>11, <2>1 DEF Closes
<1>12. CASE e.pc = "free" /\ opens' = opens /\ mapped' = FALSE /\ Pop(t)
  <2>1. TableInv' /\ stack'[t] = <<>> /\ \A u \in Thread \ {t} : stack'[u] = stack[u]
    BY <1>7, <1>12
  <2> QED
    BY <1>c, <1>12, <2>1 DEF Closes
<1> QED
  BY <1>2, <1>9, <1>10, <1>11, <1>12

-------------------------------------------------------------------------------
(* The entry points *)

\* t enters with a call of f, which on the file is let in by the file's resource
\* and finds a map.
Begins(t) ==
  \E f : /\ \A u \in Thread \ {t} : stack'[u] = stack[u]
         /\ stack[t] = <<>> /\ stack'[t] # <<>> /\ stack'[t][1] = f
         /\ opens' = opens /\ mapped' = mapped /\ Blocks(Data)' = Blocks(Data)
         /\ f.ks \cap Data # {} /\ ~(f.fn = "NxcFlushMap" /\ f.pc = "flush") =>
              (mapped \/ opens > 0) /\ (Exclusive(t) \/ (f.fn = "CcCopyRead" /\ Shared(t)))
         /\ f.fn = "CcUninitializeCacheMap" => f.pc = "close" /\ opens > 0

\* What an entering call leaves alone.
Quiet == /\ block' = block /\ lru' = lru /\ active' = active /\ depth' = depth
         /\ opens' = opens /\ mapped' = mapped

\* A stack of one call,
LEMMA EnterOne ==
    ASSUME TableInv, NEW t \in Thread, ~Busy(t), NEW f \in FrameType, Begin(t, <<f>>),
           f.fn \in EntryFns, Formed(f), Running(f), Unheld(f), Quiet, Rest',
           f.ks \cap Data # {} /\ ~(f.fn = "NxcFlushMap" /\ f.pc = "flush") => mapped /\ Exclusive(t),
           f.fn # "CcUninitializeCacheMap"
    PROVE  TableInv' /\ Begins(t)
<1>1. Sound /\ Delta(NoSlot, NoSlot, NoSlot, NoSlot) /\ Blocks(Data)' = Blocks(Data)
  BY SoundSame DEF Quiet
<1>2. PICK s : s = <<f>>
  OBVIOUS
<1>3. s \in Seq(FrameType) /\ Len(s) = 1 /\ DOMAIN s = {1} /\ s[1] = f /\ s # <<>>
  BY <1>2
<1>4. Shaped(s)
  BY <1>3 DEF Shaped
<1>5. stack[t] = <<>> /\ Begin(t, s) /\ stack \in [Thread -> Seq(FrameType)]
  BY <1>2, Known DEF Busy
<1>6. TableInv'
  BY <1>1, <1>3, <1>4, <1>5, EnterStep DEF Quiet
<1>7. stack'[t] = s /\ \A u \in Thread \ {t} : stack'[u] = stack[u]
  BY <1>5 DEF Begin
<1> QED
  BY <1>1, <1>3, <1>5, <1>6, <1>7 DEF Begins, Quiet

\* and of a call that makes another at once.
LEMMA EnterTwo ==
    ASSUME TableInv, NEW t \in Thread, ~Busy(t), NEW f \in FrameType, NEW g \in FrameType,
           Begin(t, <<f, g>>), f.fn \in EntryFns, Formed(f), Unheld(f),
           Formed(g), Running(g), Unheld(g), Waits(f, g), Quiet, Rest',
           f.ks \cap Data # {} => /\ mapped \/ opens > 0
                                  /\ Exclusive(t) \/ (f.fn = "CcCopyRead" /\ Shared(t)),
           f.fn = "CcUninitializeCacheMap" => f.pc = "close" /\ opens > 0
    PROVE  TableInv' /\ Begins(t)
<1>1. Sound /\ Delta(NoSlot, NoSlot, NoSlot, NoSlot) /\ Blocks(Data)' = Blocks(Data)
  BY SoundSame DEF Quiet
<1>2. PICK s : s = <<f, g>>
  OBVIOUS
<1>3. s \in Seq(FrameType) /\ Len(s) = 2 /\ DOMAIN s = {1, 2} /\ s[1] = f /\ s[2] = g /\ s # <<>>
  BY <1>2
<1>4. Shaped(s)
  <2>1. \A i \in DOMAIN s : i > 1 => i = 2 /\ i - 1 = 1
    BY <1>3
  <2>2. \A i \in DOMAIN s : i > 1 => Waits(s[i - 1], s[i])
    BY <1>3, <2>1
  <2> QED
    BY <1>3, <2>2 DEF Shaped
<1>5. stack[t] = <<>> /\ Begin(t, s) /\ stack \in [Thread -> Seq(FrameType)]
  BY <1>2, Known DEF Busy
<1>6. TableInv'
  BY <1>1, <1>3, <1>4, <1>5, EnterStep DEF Quiet
<1>7. stack'[t] = s /\ \A u \in Thread \ {t} : stack'[u] = stack[u]
  BY <1>5 DEF Begin
<1> QED
  BY <1>1, <1>3, <1>5, <1>6, <1>7 DEF Begins, Quiet

\* The first use of a file through the cache gives it a map.
Opens(t) ==
  stack' = stack /\ ~Busy(t) /\ Shared(t) /\ opens' = opens + 1 /\ mapped' = TRUE /\ Blocks(Data)' = Blocks(Data)

\* An open leaves the table alone.
LEMMA CcInitializeCacheMapStep ==
    ASSUME TableInv, NEW t \in Thread, CcInitializeCacheMap(t)
    PROVE  TableInv' /\ Opens(t)
<1>1. /\ ~Busy(t) /\ Shared(t) /\ mapped' = TRUE /\ opens' = opens + 1
      /\ block' = block /\ lru' = lru /\ active' = active /\ depth' = depth
      /\ mutex' = mutex /\ size' = size /\ alloc' = alloc /\ (map' = map \/ map' \in Maps) /\ disk' = disk /\ stack' = stack
  BY Zenon DEF CcInitializeCacheMap, Enter
<1>2. Rest'
  BY <1>1, Known DEF Rest
<1>3. Sound /\ Delta(NoSlot, NoSlot, NoSlot, NoSlot) /\ Blocks(Data)' = Blocks(Data)
  BY <1>1, <1>2, SoundSame
<1>4. TableInv'
  BY <1>1, <1>3, StaysStep
<1> QED
  BY <1>1, <1>3, <1>4 DEF Opens

\* A range of the file is some of its blocks.
LEMMA RangeOf ==
    ASSUME NEW K, K \subseteq Data, NEW ks \in Ranges(K)
    PROVE  ks # {} /\ ks \subseteq Data /\ ks \subseteq Key /\ ks \in SUBSET Key
BY KeyFacts DEF Ranges

\* A copy begins with getting its first block.
LEMMA CopyBegins ==
    ASSUME TableInv, NEW t \in Thread, ~Busy(t), NEW fn \in CopyFns, NEW pc \in {"copy", "through"},
           NEW ks, ks # {}, ks \subseteq Data, Begin(t, <<Frame(fn, pc, ks), Getting(ks)>>), Quiet, Rest', mapped,
           Exclusive(t) \/ (fn = "CcCopyRead" /\ Shared(t))
    PROVE  TableInv' /\ Begins(t)
<1>1. PICK f : f = Frame(fn, pc, ks)
  OBVIOUS
<1>2. PICK g : g = Getting(ks)
  OBVIOUS
<1>3. fn \in Fns /\ pc \in Points /\ ks \in SUBSET Key /\ fn \in EntryFns /\ fn # "NxcFlushBlock"
      /\ fn \notin Transfers /\ fn # "CcPinRead"
  BY KeyFacts DEF Fns, EntryFns, CopyFns, Points, Transfers
<1>4. NewAs(f, fn, pc, ks)
  BY <1>1, <1>3, NewFrame
<1>5. /\ f \in FrameType /\ f.fn = fn /\ f.ks = ks /\ f.todo = ks /\ f.m = NoSlot /\ Unheld(f)
  BY <1>3, <1>4 DEF NewAs
<1>6. /\ g \in FrameType /\ g.fn = "NxcGetBlock" /\ Formed(g) /\ Running(g) /\ Unheld(g)
  BY <1>2, <1>3, GettingFrame
<1>7. Formed(f)
  BY <1>3, <1>5 DEF Formed, CopyFns, EntryFns, Transfers
<1>8. Waits(f, g)
  BY <1>5, <1>6 DEF Waits
<1>9. Begin(t, <<f, g>>)
  BY <1>1, <1>2
<1>10. f.fn # "CcUninitializeCacheMap"
  BY <1>5 DEF CopyFns
<1> QED
  BY <1>3, <1>5, <1>6, <1>7, <1>8, <1>9, <1>10, EnterTwo

\* A read,
LEMMA CcCopyReadStep ==
    ASSUME TableInv, NEW t \in Thread, CcCopyRead(t)
    PROVE  TableInv' /\ Begins(t)
<1>1. /\ ~Busy(t) /\ Shared(t) /\ mapped /\ Quiet /\ mutex' = mutex /\ size' = size /\ alloc' = alloc /\ map' = map /\ disk' = disk
  BY DEF CcCopyRead, Enter, Quiet
<1>2. PICK ks \in Ranges({k \in Data : InFile(k)}) :
        Begin(t, <<Frame("CcCopyRead", "copy", ks), Getting(ks)>>)
  BY DEF CcCopyRead
<1>3. ks # {} /\ ks \subseteq Data
  <2>1. {k \in Data : InFile(k)} \subseteq Data
    OBVIOUS
  <2> QED
    BY <2>1, RangeOf
<1>4. Rest'
  BY <1>1, Known DEF Rest, Quiet
<1>5. "CcCopyRead" \in CopyFns
  BY DEF CopyFns
<1> QED
  BY <1>1, <1>2, <1>3, <1>4, <1>5, CopyBegins

\* a write,
LEMMA CcCopyWriteStep ==
    ASSUME TableInv, NEW t \in Thread, CcCopyWrite(t)
    PROVE  TableInv' /\ Begins(t)
<1>1. /\ ~Busy(t) /\ Exclusive(t) /\ mapped /\ Quiet /\ mutex' = mutex /\ size' = size /\ alloc' = alloc /\ map' = map /\ disk' = disk
  BY DEF CcCopyWrite, Enter, Quiet
<1>2. PICK ks \in Ranges({k \in Data : InFile(k)}), pc \in {"copy", "through"} :
        Begin(t, <<Frame("CcCopyWrite", pc, ks), Getting(ks)>>)
  BY DEF CcCopyWrite
<1>3. ks # {} /\ ks \subseteq Data
  <2>1. {k \in Data : InFile(k)} \subseteq Data
    OBVIOUS
  <2> QED
    BY <2>1, RangeOf
<1>4. Rest'
  BY <1>1, Known DEF Rest, Quiet
<1>5. "CcCopyWrite" \in CopyFns
  BY DEF CopyFns
<1> QED
  BY <1>1, <1>2, <1>3, <1>4, <1>5, CopyBegins

\* a pin of a FAT block,
LEMMA CcPinReadStep ==
    ASSUME TableInv, NEW t \in Thread, CcPinRead(t)
    PROVE  TableInv' /\ Begins(t)
<1>1. /\ ~Busy(t) /\ Quiet /\ mutex' = mutex /\ size' = size /\ alloc' = alloc /\ map' = map /\ disk' = disk
  BY DEF CcPinRead, Enter, Quiet
<1>2. PICK k \in Fat : Begin(t, <<Frame("CcPinRead", "pinned", {k}), Getting({k})>>)
  BY DEF CcPinRead
<1>3. Rest'
  BY <1>1, Known DEF Rest, Quiet
<1>4. PICK f : f = Frame("CcPinRead", "pinned", {k})
  OBVIOUS
<1>5. PICK g : g = Getting({k})
  OBVIOUS
<1>6. "CcPinRead" \in Fns /\ "pinned" \in Points /\ {k} \in SUBSET Key /\ {k} \subseteq Key /\ {k} # {}
      /\ "CcPinRead" \in EntryFns
  BY KeyFacts DEF Fns, EntryFns, Points
<1>7. NewAs(f, "CcPinRead", "pinned", {k})
  BY <1>4, <1>6, NewFrame
<1>8. f \in FrameType /\ f.fn = "CcPinRead" /\ f.ks = {k} /\ f.m = NoSlot /\ Unheld(f)
  BY <1>7 DEF NewAs
<1>9. /\ g \in FrameType /\ g.fn = "NxcGetBlock" /\ g.ks \subseteq {k} /\ Formed(g) /\ Running(g) /\ Unheld(g)
  BY <1>5, <1>6, GettingFrame
<1>10. Formed(f)
  BY <1>8 DEF Formed, CopyFns, EntryFns, Transfers
<1>11. Waits(f, g)
  BY <1>8, <1>9 DEF Waits
<1>12. Begin(t, <<f, g>>)
  BY <1>2, <1>4, <1>5
<1>13. f.ks \cap Data = {}
  BY <1>8, KeyFacts
<1>14. f.fn \in EntryFns /\ f.fn # "CcUninitializeCacheMap"
  BY <1>6, <1>8
<1> QED
  BY <1>1, <1>3, <1>8, <1>9, <1>10, <1>11, <1>12, <1>13, <1>14, EnterTwo

\* NxcFlushMap on its own, called
LEMMA MapBegins ==
    ASSUME TableInv, NEW t \in Thread, ~Busy(t), NEW pc \in {"flush", "drop"}, NEW ks, ks \subseteq Key,
           Begin(t, <<Flushing(pc, ks)>>), Quiet, Rest',
           ks \cap Data # {} /\ pc # "flush" => mapped /\ Exclusive(t)
    PROVE  TableInv' /\ Begins(t)
<1>1. PICK f : f = Flushing(pc, ks)
  OBVIOUS
<1>2. /\ f \in FrameType /\ f.fn = "NxcFlushMap" /\ f.pc = pc /\ f.ks = ks
      /\ Formed(f) /\ Running(f) /\ Unheld(f)
  BY <1>1, MapFrame
<1>3. Begin(t, <<f>>)
  BY <1>1
<1>4. f.fn \in EntryFns /\ f.fn # "CcUninitializeCacheMap"
  BY <1>2 DEF EntryFns
<1> QED
  BY <1>2, <1>3, <1>4, EnterOne

\* of the file or of the FAT, by CcFlushCache,
LEMMA CcFlushCacheStep ==
    ASSUME TableInv, NEW t \in Thread, CcFlushCache(t)
    PROVE  TableInv' /\ Begins(t)
<1>1. /\ ~Busy(t) /\ Quiet /\ mutex' = mutex /\ size' = size /\ alloc' = alloc /\ map' = map /\ disk' = disk
  BY DEF CcFlushCache, Enter, Quiet
<1>2. Rest'
  BY <1>1, Known DEF Rest, Quiet
<1>3. CASE mapped /\ Begin(t, <<Flushing("flush", Data)>>)
  <2>1. Data \subseteq Key
    BY KeyFacts
  <2> QED
    BY <1>1, <1>2, <1>3, <2>1, MapBegins
<1>4. CASE Begin(t, <<Flushing("flush", Fat)>>)
  <2>1. Fat \subseteq Key /\ Fat \cap Data = {}
    BY KeyFacts
  <2> QED
    BY <1>1, <1>2, <1>4, <2>1, MapBegins
<1> QED
  BY <1>3, <1>4 DEF CcFlushCache

\* a cut of the file, by CcSetFileSizes,
LEMMA CcSetFileSizesStep ==
    ASSUME TableInv, NEW t \in Thread, CcSetFileSizes(t)
    PROVE  TableInv' /\ (Begins(t) \/ Resting(t))
<1>1. /\ ~Busy(t) /\ Exclusive(t) /\ Quiet
  BY DEF CcSetFileSizes, Enter, Quiet
<1>2. PICK n \in Sizes, a \in Sizes :
        /\ size' = n /\ alloc' = a /\ map' = map /\ disk' \in [Key -> UNION {Value[k] : k \in Key}]
        /\ IF mapped /\ a < alloc
           THEN /\ Begin(t, <<Flushing("drop", {k \in Data : ~Inside(k, a)})>>)
                /\ mutex' = t
           ELSE stack' = stack /\ mutex' = mutex
  BY DEF CcSetFileSizes, Lock
<1>3. Rest'
  BY <1>1, <1>2, Known DEF Rest, Quiet, Datum
<1>4. CASE mapped /\ a < alloc
  <2>1. {k \in Data : ~Inside(k, a)} \subseteq Key
    BY KeyFacts
  <2> QED
    BY <1>1, <1>2, <1>3, <1>4, <2>1, MapBegins
<1>5. CASE ~(mapped /\ a < alloc)
  <2>1. stack' = stack
    BY <1>2, <1>5
  <2>2. Sound /\ Delta(NoSlot, NoSlot, NoSlot, NoSlot) /\ Blocks(Data)' = Blocks(Data)
    BY <1>1, <1>3, SoundSame DEF Quiet
  <2>3. TableInv'
    BY <1>1, <2>1, <2>2, StaysStep DEF Quiet
  <2> QED
    BY <1>1, <2>1, <2>2, <2>3 DEF Resting, Quiet
<1> QED
  BY <1>4, <1>5

\* a purge of a range,
LEMMA CcPurgeCacheSectionStep ==
    ASSUME TableInv, NEW t \in Thread, CcPurgeCacheSection(t)
    PROVE  TableInv' /\ Begins(t)
<1>1. /\ ~Busy(t) /\ Exclusive(t) /\ mapped /\ Quiet /\ mutex' = mutex /\ size' = size /\ alloc' = alloc /\ map' = map /\ disk' = disk
  BY DEF CcPurgeCacheSection, Enter, Quiet
<1>2. PICK ks \in Ranges(Data) : Begin(t, <<Frame("CcPurgeCacheSection", "purge", ks)>>)
  BY DEF CcPurgeCacheSection
<1>3. Rest'
  BY <1>1, Known DEF Rest, Quiet
<1>4. PICK f : f = Frame("CcPurgeCacheSection", "purge", ks)
  OBVIOUS
<1>5. "CcPurgeCacheSection" \in Fns /\ "purge" \in Points /\ ks \in SUBSET Key
  BY RangeOf DEF Fns, EntryFns, Points
<1>6. NewAs(f, "CcPurgeCacheSection", "purge", ks)
  BY <1>4, <1>5, NewFrame
<1>7. f \in FrameType /\ f.fn = "CcPurgeCacheSection" /\ f.ks = ks /\ f.m = NoSlot /\ Unheld(f)
  BY <1>6 DEF NewAs
<1>8. Formed(f) /\ Running(f) /\ f.fn \in EntryFns
  BY <1>7 DEF Formed, Running, CopyFns, EntryFns, Transfers
<1>9. Begin(t, <<f>>)
  BY <1>2, <1>4
<1> QED
  BY <1>1, <1>3, <1>7, <1>8, <1>9, EnterOne

\* the close of a handle,
LEMMA CcUninitializeCacheMapStep ==
    ASSUME TableInv, NEW t \in Thread, CcUninitializeCacheMap(t)
    PROVE  TableInv' /\ Begins(t)
<1> DEFINE K == {k \in Data : ~InFile(k)}
<1>1. /\ ~Busy(t) /\ Exclusive(t) /\ opens > 0 /\ Quiet /\ mutex' = mutex /\ size' = size /\ alloc' = alloc /\ map' = map /\ disk' = disk
  BY DEF CcUninitializeCacheMap, Enter, Quiet
<1>2. Begin(t, <<Frame("CcUninitializeCacheMap", "close", Data), Flushing("drop", K)>>)
  BY DEF CcUninitializeCacheMap
<1>3. Rest'
  BY <1>1, Known DEF Rest, Quiet
<1>4. PICK f : f = Frame("CcUninitializeCacheMap", "close", Data)
  OBVIOUS
<1>5. PICK g : g = Flushing("drop", K)
  OBVIOUS
<1>6. "CcUninitializeCacheMap" \in Fns /\ "close" \in Points /\ Data \in SUBSET Key /\ K \subseteq Key
      /\ "CcUninitializeCacheMap" \in EntryFns
  BY KeyFacts DEF Fns, EntryFns, Points
<1>7. NewAs(f, "CcUninitializeCacheMap", "close", Data)
  BY <1>4, <1>6, NewFrame
<1>8. /\ f \in FrameType /\ f.fn = "CcUninitializeCacheMap" /\ f.pc = "close" /\ f.ks = Data
      /\ f.m = NoSlot /\ Unheld(f)
  BY <1>7 DEF NewAs
<1>9. /\ g \in FrameType /\ g.fn = "NxcFlushMap" /\ Formed(g) /\ Running(g) /\ Unheld(g)
  BY <1>5, <1>6, MapFrame
<1>10. Formed(f)
  BY <1>8 DEF Formed, CopyFns, EntryFns, Transfers
<1>11. Waits(f, g)
  BY <1>8, <1>9 DEF Waits
<1>12. Begin(t, <<f, g>>)
  BY <1>2, <1>4, <1>5
<1>13. f.fn \in EntryFns
  BY <1>6, <1>8
<1> HIDE DEF K
<1> QED
  BY <1>1, <1>3, <1>8, <1>9, <1>10, <1>11, <1>12, <1>13, EnterTwo

\* a flush of everything,
LEMMA NxcFlushAllStep ==
    ASSUME TableInv, NEW t \in Thread, NxcFlushAll(t)
    PROVE  TableInv' /\ Begins(t)
<1>1. /\ ~Busy(t) /\ Quiet /\ mutex' = mutex /\ size' = size /\ alloc' = alloc /\ map' = map /\ disk' = disk
      /\ Begin(t, <<Frame("NxcFlushAll", "scan", {})>>)
  BY DEF NxcFlushAll, Enter, Quiet
<1>2. Rest'
  BY <1>1, Known DEF Rest, Quiet
<1>3. PICK f : f = Frame("NxcFlushAll", "scan", {})
  OBVIOUS
<1>4. "NxcFlushAll" \in Fns /\ "scan" \in Points /\ {} \in SUBSET Key
  BY DEF Fns, EntryFns, Points
<1>5. NewAs(f, "NxcFlushAll", "scan", {})
  BY <1>3, <1>4, NewFrame
<1>6. f \in FrameType /\ f.fn = "NxcFlushAll" /\ f.ks = {} /\ f.m = NoSlot /\ Unheld(f)
  BY <1>5 DEF NewAs
<1>7. Formed(f) /\ Running(f) /\ f.fn \in EntryFns
  BY <1>6 DEF Formed, Running, CopyFns, EntryFns, Transfers
<1>8. Begin(t, <<f>>)
  BY <1>1, <1>3
<1> QED
  BY <1>1, <1>2, <1>6, <1>7, <1>8, EnterOne

\* a change of the cache's size,
LEMMA FscSetCacheSizeStep ==
    ASSUME TableInv, NEW t \in Thread, FscSetCacheSize(t)
    PROVE  TableInv' /\ (Begins(t) \/ Resting(t))
<1>1. /\ ~Busy(t) /\ lru' = lru /\ depth' = depth /\ opens' = opens /\ mapped' = mapped
      /\ size' = size /\ alloc' = alloc /\ map' = map /\ disk' = disk
  BY DEF FscSetCacheSize, Enter
<1>2. PICK target \in NXC_MIN_BLOCKS .. NXC_MAX_BLOCKS \ {active} :
        \/ \E B \in SUBSET {b \in Visible : ~block[b].live} :
             /\ block' = [b \in Slots |-> IF b \in B THEN EmptyBlock ELSE block[b]]
             /\ active' = active + Cardinality(B) /\ stack' = stack /\ mutex' = mutex
        \/ /\ Begin(t, <<[Frame("FscSetCacheSize", "shrink", {}) EXCEPT !.b = target]>>)
           /\ mutex' = t /\ block' = block /\ active' = active
  BY Zenon DEF FscSetCacheSize, Lock
<1>3. ASSUME NEW B \in SUBSET {b \in Visible : ~block[b].live},
             block' = [b \in Slots |-> IF b \in B THEN EmptyBlock ELSE block[b]],
             active' = active + Cardinality(B), stack' = stack, mutex' = mutex
      PROVE  TableInv' /\ Resting(t)
  <2>1. Rest'
    BY <1>1, <1>3, Known DEF Rest
  <2>2. Sound /\ Delta(NoSlot, NoSlot, NoSlot, NoSlot) /\ Blocks(Data)' \subseteq Blocks(Data)
    BY <1>1, <1>3, <2>1, SoundGrown
  <2>3. TableInv'
    BY <1>1, <1>3, <2>2, StaysStep
  <2> QED
    BY <1>1, <1>3, <2>2, <2>3 DEF Resting
<1>4. CASE /\ Begin(t, <<[Frame("FscSetCacheSize", "shrink", {}) EXCEPT !.b = target]>>)
           /\ mutex' = t /\ block' = block /\ active' = active
  <2>1. Quiet /\ Rest'
    BY <1>1, <1>4, Known DEF Rest, Quiet
  <2>2. PICK h : h = Frame("FscSetCacheSize", "shrink", {})
    OBVIOUS
  <2>3. PICK f : f = [h EXCEPT !.b = target]
    OBVIOUS
  <2>4. "FscSetCacheSize" \in Fns /\ "shrink" \in Points /\ {} \in SUBSET Key /\ target \in Int
    BY CacheAssumption DEF Fns, EntryFns, Points
  <2>5. NewAs(h, "FscSetCacheSize", "shrink", {})
    BY <2>2, <2>4, NewFrame
  <2>6. h \in FrameType /\ h.fn = "FscSetCacheSize" /\ h.ks = {} /\ h.m = NoSlot
    BY <2>5 DEF NewAs
  <2>7. FieldsAs(f, h, h.pc, h.todo, target, h.m, h.ok)
    BY <2>3, <2>4, <2>6, SetB
  <2>8. f \in FrameType /\ f.fn = "FscSetCacheSize" /\ f.ks = {} /\ f.m = NoSlot
    BY <2>6, <2>7 DEF FieldsAs
  <2>9. Formed(f) /\ Running(f) /\ f.fn \in EntryFns /\ Unheld(f)
    BY <2>8 DEF Formed, Running, CopyFns, EntryFns, Transfers, Unheld, SlotOf
  <2>10. Begin(t, <<f>>)
    BY <1>4, <2>2, <2>3
  <2>11. TableInv' /\ Begins(t)
    BY <1>1, <2>1, <2>8, <2>9, <2>10, EnterOne
  <2> QED
    BY <2>11
<1> QED
  BY <1>2, <1>3, <1>4

\* and the invalidation of idle blocks.
LEMMA FscInvalidateIdleBlocksStep ==
    ASSUME TableInv, NEW t \in Thread, FscInvalidateIdleBlocks(t)
    PROVE  TableInv' /\ Resting(t)
<1> DEFINE B == {b \in Blocks(Key) : Idle(b) /\ ~block[b].dirty}
<1>1. /\ block' = [b \in Slots |-> IF b \in B THEN EmptyBlock ELSE block[b]] /\ lru' = Unlinked(B)
      /\ active' = active /\ depth' = depth /\ mutex' = mutex /\ opens' = opens /\ mapped' = mapped
      /\ size' = size /\ alloc' = alloc /\ map' = map /\ disk' = disk /\ stack' = stack
  BY DEF FscInvalidateIdleBlocks
<1>2. Rest'
  BY <1>1, Known DEF Rest
<1>3. ASSUME NEW b \in B
      PROVE  b \in Slots /\ block[b].live = TRUE /\ block[b].ref = 0 /\ block[b].busy = FALSE
  <2>1. b \in Slots /\ block[b].key \in Key /\ block[b].ref = 0 /\ ~block[b].busy
    BY DEF Blocks, Idle
  <2> QED
    BY <2>1, BlockInfo
<1> HIDE DEF B
<1>4. Sound /\ Delta(NoSlot, NoSlot, NoSlot, NoSlot) /\ Blocks(Data)' \subseteq Blocks(Data)
  BY <1>1, <1>2, <1>3, SoundEmptied
<1>5. TableInv'
  BY <1>1, <1>4, StaysStep
<1> QED
  BY <1>1, <1>4, <1>5 DEF Resting

-------------------------------------------------------------------------------
(* The table is exact *)

\* At boot the table is empty and its first NXC_MIN_BLOCKS slots are active.
LEMMA InitTable ==
    ASSUME Init
    PROVE  TableInv
<1>1. /\ block = [b \in Slots |-> IF b < NXC_MIN_BLOCKS \/ b \in Reserve THEN EmptyBlock ELSE RetiredBlock]
      /\ lru = <<>> /\ active = NXC_MIN_BLOCKS /\ depth = 0 /\ mutex = NoThread
      /\ opens = 0 /\ mapped = FALSE /\ map \in Maps /\ size \in Sizes /\ alloc \in Sizes
      /\ disk = [k \in Key |-> 0] /\ stack = [t \in Thread |-> <<>>]
  BY DEF Init, Clusters
<1>2. NXC_MIN_BLOCKS \in Nat /\ NXC_MIN_BLOCKS >= 1 /\ NXC_MIN_BLOCKS <= NXC_MAX_BLOCKS
      /\ NXC_MAX_BLOCKS \in Nat /\ NXC_WB_RESERVE \in Nat
  BY CacheAssumption
<1>3. \A b \in Slots : /\ block[b] \in {EmptyBlock, RetiredBlock} /\ block[b] \in BlockType
                       /\ block[b].key = NoKey /\ block[b].ref = 0 /\ block[b].busy = FALSE
                       /\ block[b].dirty = FALSE
                       /\ b < NXC_MIN_BLOCKS \/ b \in Reserve => block[b].live = TRUE
                       /\ ~(b < NXC_MIN_BLOCKS \/ b \in Reserve) => block[b].live = FALSE
  BY <1>1, EmptyFacts
<1>4. Types
  <2>1. block \in [Slots -> BlockType]
    BY <1>1, <1>3
  <2>2. disk \in [Key -> Datum]
    BY <1>1, EmptyFacts
  <2>e. <<>> \in Seq(Slots) /\ FALSE \in BOOLEAN
    OBVIOUS
  <2>3. lru \in Seq(Slots) /\ mapped \in BOOLEAN
    BY <1>1, <2>e, Zenon
  <2>i. active \in Int /\ depth \in Int /\ opens \in Int
    BY <1>1, <1>2
  <2>4. stack \in [Thread -> Seq(FrameType)]
    BY <1>1, NoFrames
  <2> QED
    BY <1>1, <2>1, <2>2, <2>3, <2>4, <2>i DEF Types
<1>5. Stacks
  BY <1>1, NoFrames DEF Stacks
<1>6. Live
  BY <1>3, KeyFacts DEF Live
<1>7. Counted
  <2>1. Frames = {}
    BY <1>1, NoFrames DEF Frames
  <2>2. {f \in Frames : At(f).fn = "NxcFlushBlock"} = {}
        /\ \A b : TransfersOf(b) = {} /\ UsersOf(b) = {}
    BY <2>1 DEF TransfersOf, UsersOf
  <2>3. IsFiniteSet({}) /\ Cardinality({}) = 0
    BY FS_EmptySet
  <2>4. /\ Cardinality({f \in Frames : At(f).fn = "NxcFlushBlock"}) = 0
        /\ \A b : Cardinality(TransfersOf(b)) = 0 /\ Cardinality(UsersOf(b)) = 0
    BY <2>2, <2>3
  <2>5. /\ IsFiniteSet({f \in Frames : At(f).fn = "NxcFlushBlock"})
        /\ \A b : IsFiniteSet(TransfersOf(b)) /\ IsFiniteSet(UsersOf(b))
    BY <2>2, <2>3
  <2>6. RefsExact
    <3>1. ASSUME NEW b \in Slots
          PROVE  /\ block[b].ref = Cardinality(TransfersOf(b)) + Cardinality(UsersOf(b))
                 /\ Cardinality(TransfersOf(b)) = IF block[b].busy THEN 1 ELSE 0
      <4>1. block[b].ref = 0 /\ block[b].busy = FALSE
        BY <1>3
      <4>2. Cardinality(TransfersOf(b)) = 0 /\ Cardinality(UsersOf(b)) = 0
        BY <2>4
      <4> QED
        BY <4>1, <4>2
    <3> QED
      BY <1>1, <2>4, <3>1 DEF RefsExact
  <2> QED
    BY <2>5, <2>6 DEF Counted
<1>8. TableExact
  <2>1. Blocks(Key) = {}
    BY <1>3, KeyFacts DEF Blocks
  <2>2. ToSet(lru) = {} /\ IsInjective(lru)
    BY <1>1, NoFrames DEF ToSet, IsInjective
  <2>3. {b \in Visible : block[b].live} = 0 .. NXC_MIN_BLOCKS - 1
    <3>1. ASSUME NEW b \in Visible
          PROVE  block[b].live <=> b \in 0 .. NXC_MIN_BLOCKS - 1
      <4>1. b \in Slots /\ b \in Nat /\ b \notin Reserve
        BY <1>2, SlotFacts DEF Visible, Reserve
      <4> QED
        BY <1>2, <1>3, <4>1
    <3>2. 0 .. NXC_MIN_BLOCKS - 1 \subseteq Visible
      BY <1>2 DEF Visible
    <3> QED
      BY <3>1, <3>2
  <2>4. Cardinality(0 .. NXC_MIN_BLOCKS - 1) = NXC_MIN_BLOCKS
    <3>1. NXC_MIN_BLOCKS - 1 \in Int /\ 0 \in Int /\ ~(0 > NXC_MIN_BLOCKS - 1)
          /\ NXC_MIN_BLOCKS - 1 - 0 + 1 = NXC_MIN_BLOCKS
      BY <1>2
    <3> QED
      BY <3>1, FS_Interval
  <2> QED
    BY <1>1, <1>3, <2>1, <2>2, <2>3, <2>4 DEF TableExact
<1> QED
  BY <1>4, <1>5, <1>6, <1>7, <1>8 DEF TableInv

\* How the step of a thread changes who is where, and the map of the file.
Moves(t) ==
  \/ Steady(t) \/ Resting(t) \/ Begins(t) \/ Opens(t) \/ Closes(t)
  \/ Finished(t) /\ opens' = opens /\ mapped' = mapped /\ Blocks(Data)' = Blocks(Data)

\* Every step of a thread preserves the table invariant.
LEMMA ThreadStep ==
    ASSUME TableInv, NEW t \in Thread, Enters(t) \/ Continues(t)
    PROVE  TableInv' /\ Moves(t)
<1>1. CASE CcInitializeCacheMap(t)
  BY <1>1, CcInitializeCacheMapStep DEF Moves
<1>2. CASE CcUninitializeCacheMap(t)
  BY <1>2, CcUninitializeCacheMapStep DEF Moves
<1>3. CASE CcSetFileSizes(t)
  BY <1>3, CcSetFileSizesStep DEF Moves
<1>4. CASE CcCopyRead(t)
  BY <1>4, CcCopyReadStep DEF Moves
<1>5. CASE CcCopyWrite(t)
  BY <1>5, CcCopyWriteStep DEF Moves
<1>6. CASE CcPinRead(t)
  BY <1>6, CcPinReadStep DEF Moves
<1>7. CASE CcFlushCache(t)
  BY <1>7, CcFlushCacheStep DEF Moves
<1>8. CASE CcPurgeCacheSection(t)
  BY <1>8, CcPurgeCacheSectionStep DEF Moves
<1>9. CASE NxcFlushAll(t)
  BY <1>9, NxcFlushAllStep DEF Moves
<1>10. CASE FscSetCacheSize(t)
  BY <1>10, FscSetCacheSizeStep DEF Moves
<1>11. CASE FscInvalidateIdleBlocks(t)
  BY <1>11, FscInvalidateIdleBlocksStep DEF Moves
<1>12. CASE GetHit(t)
  BY <1>12, GetHitStep DEF Moves
<1>13. CASE GetRetry(t)
  BY <1>13, GetRetryStep DEF Moves
<1>14. CASE GetClaim(t)
  BY <1>14, GetClaimStep DEF Moves
<1>15. CASE GetEvict(t)
  BY <1>15, GetEvictStep DEF Moves
<1>16. CASE NxcReadBlock(t)
  BY <1>16, NxcReadBlockStep DEF Moves
<1>17. CASE FsdUnmap(t)
  BY <1>17, FsdUnmapStep DEF Moves
<1>18. CASE NxcFlushIo(t)
  BY <1>18, NxcFlushIoStep DEF Moves
<1>19. CASE NxcFlushBlock(t)
  BY <1>19, NxcFlushBlockStep DEF Moves
<1>20. CASE FlushMapWrite(t)
  BY <1>20, FlushMapWriteStep DEF Moves
<1>21. CASE FlushMapDrop(t)
  BY <1>21, FlushMapDropStep DEF Moves
<1>22. CASE FlushMapDone(t)
  BY <1>22, FlushMapDoneStep DEF Moves
<1>23. CASE NxcShortWait(t)
  BY <1>23, NxcShortWaitStep DEF Moves
<1>24. CASE CopyBlock(t)
  BY <1>24, CopyBlockStep DEF Moves
<1>25. CASE PinnedWrite(t)
  BY <1>25, PinnedWriteStep DEF Moves
<1>26. CASE CcSetDirtyPinnedData(t)
  BY <1>26, CcSetDirtyPinnedDataStep DEF Moves
<1>27. CASE CcUnpinData(t)
  BY <1>27, CcUnpinDataStep DEF Moves
<1>28. CASE PurgeBlocks(t)
  BY <1>28, PurgeBlocksStep DEF Moves
<1>29. CASE Uninitialize(t)
  BY <1>29, UninitializeStep DEF Moves
<1>30. CASE FlushAllMaps(t)
  BY <1>30, FlushAllMapsStep DEF Moves
<1>31. CASE ShrinkCache(t)
  BY <1>31, ShrinkCacheStep DEF Moves
<1>32. CASE CopyFault(t)
  BY <1>32, CopyFaultStep DEF Moves
<1> QED
  BY <1>1, <1>2, <1>3, <1>4, <1>5, <1>6, <1>7, <1>8, <1>9, <1>10, <1>11, <1>12, <1>13, <1>14, <1>15,
     <1>16, <1>17, <1>18, <1>19, <1>20, <1>21, <1>22, <1>23, <1>24, <1>25, <1>26, <1>27, <1>28, <1>29,
     <1>30, <1>31, <1>32, Zenon DEF Enters, Continues

\* A step of nobody changes nothing of it.
LEMMA TableStutter ==
    ASSUME TableInv, UNCHANGED vars
    PROVE  TableInv'
<1>1. /\ block' = block /\ lru' = lru /\ active' = active /\ depth' = depth /\ mutex' = mutex
      /\ opens' = opens /\ mapped' = mapped /\ size' = size /\ alloc' = alloc /\ map' = map /\ disk' = disk /\ stack' = stack
  BY DEF vars
<1>2. Types'
  BY <1>1 DEF TableInv, Types
<1>3. Stacks' /\ Live'
  BY <1>1 DEF TableInv, Stacks, Live
<1>4. Frames' = Frames /\ (\A f : At(f)' = At(f))
  BY <1>1 DEF Frames, At
<1>5. (\A b : TransfersOf(b)' = TransfersOf(b)) /\ (\A b : UsersOf(b)' = UsersOf(b))
      /\ {f \in Frames : At(f).fn = "NxcFlushBlock"}' = {f \in Frames : At(f).fn = "NxcFlushBlock"}
  BY <1>1 DEF TransfersOf, UsersOf, Frames, At
<1>6. Counted'
  BY <1>1, <1>5 DEF TableInv, Counted, RefsExact
<1>7. TableExact'
  BY <1>1 DEF TableInv, TableExact, Blocks
<1> QED
  BY <1>2, <1>3, <1>6, <1>7 DEF TableInv

\* The table invariant holds in every reachable state of the cache (cache.c):
\* the types, the shape of the nested calls and what they know of their blocks,
\* and the exactness of table and counts.
THEOREM TableInvariant == Spec => []TableInv
<1>1. Init => TableInv
  BY InitTable
<1>2. TableInv /\ [Next]_vars => TableInv'
  <2>1. ASSUME TableInv, Next
        PROVE  TableInv'
    BY <2>1, ThreadStep DEF Next
  <2> QED
    BY <2>1, TableStutter
<1> QED
  BY <1>1, <1>2, PTL DEF Spec

\* TableExact: however calls interleave around their transfers, no block of a
\* file is in two slots, the LRU list holds each block in use once, and
\* NxcActiveBlocks is the number of active slots.
THEOREM TableIsExact == Spec => []TableExact
<1>1. TableInv => TableExact
  BY DEF TableInv
<1> QED
  BY <1>1, TableInvariant, PTL

\* RefsExact: RefCount is the number of pins and transfers of the block, Busy
\* marks exactly one transfer, and NxcWbDepth is the number of write-backs.
THEOREM RefsAreExact == Spec => []RefsExact
<1>1. TableInv => RefsExact
  BY DEF TableInv, Counted
<1> QED
  BY <1>1, TableInvariant, PTL

-------------------------------------------------------------------------------
(* A file without a map has no block in the cache *)

\* The entry point of a thread is the bottom of its stack.
LEMMA CallAtBottom ==
    ASSUME TableInv
    PROVE  /\ \A t \in Thread : Busy(t) => Call(t) = stack[t][1]
           /\ \A t \in Thread : OnFile(t) <=> OnIt(t)
<1>1. \A t \in Thread : stack[t] \in Seq(FrameType)
  BY Known
<1>2. \A t \in Thread : Busy(t) => Call(t) = stack[t][1]
  BY <1>1 DEF Busy, Call
<1> QED
  BY <1>2 DEF OnFile, OnIt, Busy

\* A close is a call on the file.
LEMMA CloseOnIt ==
    ASSUME TableInv, NEW t \in Thread, stack[t] # <<>>, stack[t][1].fn = "CcUninitializeCacheMap"
    PROVE  OnIt(t) /\ stack[t][1].pc \in {"close", "drop", "free"}
<1>1. stack[t] \in Seq(FrameType) /\ Shaped(stack[t])
  BY Known
<1>2. 1 \in DOMAIN stack[t]
  BY <1>1
<1>3. /\ stack[t][1].ks = Data /\ stack[t][1].pc \in {"close", "drop", "free"}
      /\ stack[t][1].fn # "NxcFlushMap"
  BY <1>1, <1>2 DEF Shaped, Formed
<1> QED
  BY <1>3, KeyFacts DEF OnIt

\* While a close is on, nobody else is on the file: the blocks that its last
\* pass leaves would be in use by a copy, so it leaves none.
LEMMA DroppedAll ==
    ASSUME TableInv, FileHeld, NEW t \in Thread, stack[t] # <<>>,
           stack[t][1].fn = "CcUninitializeCacheMap", Dropped(Data)
    PROVE  Blocks(Data) = {}
<1> SUFFICES ASSUME NEW b \in Blocks(Data)
             PROVE  FALSE
  OBVIOUS
<1>1. b \in Slots /\ block[b].key \in Data
  BY DEF Blocks
<1>2. ~block[b].busy
  BY DEF Dropped
<1>3. block[b].ref # 0
  BY DEF Dropped, Droppable
<1>4. UsersOf(b) # {}
  <2>1. /\ block[b].ref = Cardinality(TransfersOf(b)) + Cardinality(UsersOf(b))
        /\ Cardinality(TransfersOf(b)) = 0
    BY <1>1, <1>2 DEF TableInv, Counted, RefsExact
  <2>2. UsersOf(b) = {} => Cardinality(UsersOf(b)) = 0
    BY FS_EmptySet
  <2> QED
    BY <1>3, <2>1, <2>2
<1>p. PICK u \in Thread : \E j \in DOMAIN stack[u] : stack[u][j].m = b
  BY <1>4 DEF UsersOf, Frames, At
<1>5. PICK i \in DOMAIN stack[u] : stack[u][i].m = b
  BY <1>p
<1>6. stack[u] \in Seq(FrameType) /\ Shaped(stack[u]) /\ Linked(block, stack[u][i])
  BY Known DEF TableInv, Stacks
<1>7. stack[u][i].fn \in CopyFns
  BY <1>1, <1>5, <1>6 DEF Linked
<1>8. i = 1
  <2>1. i > 1 => stack[u][i].fn \in {"NxcGetBlock", "NxcFlushMap", "NxcFlushBlock"}
    BY <1>6, AboveBottom
  <2>2. i \in Nat /\ i >= 1
    BY <1>6
  <2>3. ~(i > 1)
    BY <1>7, <2>1 DEF CopyFns
  <2> QED
    BY <2>2, <2>3
<1>9. OnIt(u)
  <2>1. stack[u][1].ks # {} /\ stack[u][1].ks \subseteq Data
    BY <1>6, <1>7, <1>8 DEF Shaped, Formed
  <2>2. stack[u] # <<>> /\ stack[u][1].fn # "NxcFlushMap"
    BY <1>6, <1>7, <1>8 DEF CopyFns
  <2> QED
    BY <2>1, <2>2 DEF OnIt
<1>10. OnIt(t) /\ t # u
  BY <1>7, <1>8, CloseOnIt DEF CopyFns
<1> QED
  BY <1>9, <1>10 DEF FileHeld

\* t is on the file alone when it closes.
LEMMA ClosesAlone ==
    ASSUME TableInv, FileHeld, NEW t \in Thread, stack[t] # <<>>, stack[t][1].fn = "CcUninitializeCacheMap"
    PROVE  OnIt(t) /\ mapped /\ \A u \in Thread \ {t} : ~OnIt(u)
<1>1. OnIt(t)
  BY CloseOnIt
<1> QED
  BY <1>1 DEF FileHeld

\* A step inside a call,
LEMMA HeldSteady ==
    ASSUME TableInv, FileHeld, NoOrphan, NEW t \in Thread, Steady(t)
    PROVE  FileHeld' /\ NoOrphan'
<1>1. Kept(t) /\ opens' = opens /\ mapped' = mapped /\ (Blocks(Data)' \subseteq Blocks(Data) \/ OnIt(t))
  BY CallAtBottom DEF Steady
<1>2. ASSUME NEW u \in Thread, stack'[u] # <<>>
      PROVE  /\ stack[u] # <<>> /\ stack'[u][1].fn = stack[u][1].fn /\ stack'[u][1].ks = stack[u][1].ks
             /\ stack[u][1].fn = "CcUninitializeCacheMap" =>
                  stack'[u][1].pc = stack[u][1].pc /\ (stack'[u] = stack[u] \/ Len(stack'[u]) # 1)
             /\ stack[u][1].fn = "NxcFlushMap" => stack'[u][1].pc = stack[u][1].pc
             /\ u # t => stack'[u] = stack[u]
  BY <1>1, <1>2 DEF Kept
<1>3. \A u \in Thread : OnIt(u)' => OnIt(u) /\ stack'[u][1].fn = stack[u][1].fn
  BY <1>2 DEF OnIt
<1>4. \A u, v \in Thread : u # v /\ OnIt(u)' /\ OnIt(v)' =>
        stack'[u][1].fn = "CcCopyRead" /\ stack'[v][1].fn = "CcCopyRead"
  BY <1>3 DEF FileHeld
<1>5. (\A u \in Thread : OnIt(u)' => mapped') /\ opens' \in Nat /\ (opens' > 0 => mapped')
  BY <1>1, <1>3 DEF FileHeld
<1>6. ASSUME NEW u \in Thread, stack'[u] # <<>>, stack'[u][1].fn = "CcUninitializeCacheMap"
      PROVE  /\ stack'[u][1].pc = "close" => opens' > 0
             /\ stack'[u][1].pc \in {"drop", "free"} => opens' = 0
             /\ stack'[u][1].pc = "free" /\ Len(stack'[u]) = 1 => Blocks(Data)' = {}
  <2>1. /\ stack[u] # <<>> /\ stack[u][1].fn = "CcUninitializeCacheMap"
        /\ stack'[u][1].pc = stack[u][1].pc /\ (stack'[u] = stack[u] \/ Len(stack'[u]) # 1)
    BY <1>2, <1>6
  <2>2. /\ stack'[u][1].pc = "close" => opens' > 0
        /\ stack'[u][1].pc \in {"drop", "free"} => opens' = 0
    BY <1>1, <2>1 DEF FileHeld
  <2>3. ASSUME stack'[u][1].pc = "free", Len(stack'[u]) = 1
        PROVE  Blocks(Data)' = {}
    <3>1. stack'[u] = stack[u] /\ Blocks(Data) = {}
      BY <2>1, <2>3 DEF FileHeld
    <3>2. u # t
      BY <1>1, <1>6, <2>1, <2>3 DEF Kept
    <3>3. ~OnIt(t)
      BY <2>1, <3>2, ClosesAlone
    <3> QED
      BY <1>1, <3>1, <3>3
  <2> QED
    BY <2>2, <2>3
<1>7. NoOrphan'
  <2>1. mapped \/ Blocks(Data) = {}
    BY DEF NoOrphan
  <2>2. OnIt(t) => mapped
    BY DEF FileHeld
  <2>3. mapped' \/ Blocks(Data)' = {}
    BY <1>1, <2>1, <2>2
  <2> QED
    BY <2>3 DEF NoOrphan
<1> QED
  BY <1>4, <1>5, <1>6, <1>7 DEF FileHeld

\* one that leaves every thread where it is,
LEMMA HeldResting ==
    ASSUME TableInv, FileHeld, NoOrphan, NEW t \in Thread, Resting(t)
    PROVE  FileHeld' /\ NoOrphan'
<1>1. stack' = stack /\ opens' = opens /\ mapped' = mapped /\ Blocks(Data)' \subseteq Blocks(Data)
  BY DEF Resting
<1>2. NoOrphan'
  BY <1>1 DEF NoOrphan
<1>3. \A u \in Thread : OnIt(u)' <=> OnIt(u)
  BY <1>1 DEF OnIt
<1>4. Blocks(Data) = {} => Blocks(Data)' = {}
  BY <1>1
<1> QED
  BY <1>1, <1>2, <1>3, <1>4 DEF FileHeld

\* the end of a pass of a close over the blocks,
LEMMA HeldFinished ==
    ASSUME TableInv, FileHeld, NoOrphan, NEW t \in Thread, Finished(t),
           opens' = opens, mapped' = mapped, Blocks(Data)' = Blocks(Data)
    PROVE  FileHeld' /\ NoOrphan'
<1>1. CASE Kept(t)
  BY <1>1, HeldSteady DEF Steady
<1>2. CASE /\ \A u \in Thread \ {t} : stack'[u] = stack[u]
           /\ Len(stack[t]) = 2 /\ Len(stack'[t]) = 1 /\ stack'[t][1] = stack[t][1]
           /\ stack[t][1].fn = "CcUninitializeCacheMap"
           /\ stack[t][1].pc = "free" => Dropped(Data)
  <2>1. stack[t] # <<>>
    BY <1>2
  <2>2. stack[t][1].pc = "free" => Blocks(Data) = {}
    BY <1>2, <2>1, DroppedAll
  <2>3. ASSUME NEW u \in Thread
        PROVE  /\ stack'[u] # <<>> => stack[u] # <<>> /\ stack'[u][1] = stack[u][1]
               /\ u # t => stack'[u] = stack[u]
    BY <1>2, <2>1
  <2>4. \A u \in Thread : OnIt(u)' => OnIt(u)
    BY <2>3 DEF OnIt
  <2>5. \A u, v \in Thread : u # v /\ OnIt(u)' /\ OnIt(v)' =>
          stack'[u][1].fn = "CcCopyRead" /\ stack'[v][1].fn = "CcCopyRead"
    BY <2>3, <2>4 DEF FileHeld, OnIt
  <2>6. (\A u \in Thread : OnIt(u)' => mapped') /\ opens' \in Nat /\ (opens' > 0 => mapped')
    BY <2>4 DEF FileHeld
  <2>7. ASSUME NEW u \in Thread, stack'[u] # <<>>, stack'[u][1].fn = "CcUninitializeCacheMap"
        PROVE  /\ stack'[u][1].pc = "close" => opens' > 0
               /\ stack'[u][1].pc \in {"drop", "free"} => opens' = 0
               /\ stack'[u][1].pc = "free" /\ Len(stack'[u]) = 1 => Blocks(Data)' = {}
    <3>1. stack[u] # <<>> /\ stack'[u][1] = stack[u][1]
      BY <2>3, <2>7
    <3>2. CASE u = t
      BY <2>2, <2>7, <3>1, <3>2 DEF FileHeld
    <3>3. CASE u # t
      BY <2>3, <2>7, <3>1, <3>3 DEF FileHeld
    <3> QED
      BY <3>2, <3>3
  <2>8. NoOrphan'
    BY DEF NoOrphan
  <2> QED
    BY <2>5, <2>6, <2>7, <2>8 DEF FileHeld
<1> QED
  BY <1>1, <1>2 DEF Finished

\* the beginning of a call,
LEMMA HeldBegins ==
    ASSUME TableInv, FileHeld, NoOrphan, NEW t \in Thread, Begins(t)
    PROVE  FileHeld' /\ NoOrphan'
<1>1. PICK f : /\ \A u \in Thread \ {t} : stack'[u] = stack[u]
               /\ stack[t] = <<>> /\ stack'[t] # <<>> /\ stack'[t][1] = f
               /\ opens' = opens /\ mapped' = mapped /\ Blocks(Data)' = Blocks(Data)
               /\ f.ks \cap Data # {} /\ ~(f.fn = "NxcFlushMap" /\ f.pc = "flush") =>
                    (mapped \/ opens > 0) /\ (Exclusive(t) \/ (f.fn = "CcCopyRead" /\ Shared(t)))
               /\ f.fn = "CcUninitializeCacheMap" => f.pc = "close" /\ opens > 0
  BY DEF Begins
<1>2. OnIt(t)' <=> f.ks \cap Data # {} /\ ~(f.fn = "NxcFlushMap" /\ f.pc = "flush")
  BY <1>1 DEF OnIt
<1>3. \A u \in Thread \ {t} : (OnIt(u)' <=> OnIt(u)) /\ stack'[u] = stack[u]
  BY <1>1 DEF OnIt
<1>4. ASSUME OnIt(t)', NEW u \in Thread \ {t}, OnIt(u)
      PROVE  f.fn = "CcCopyRead" /\ stack[u][1].fn = "CcCopyRead"
  <2>1. OnFile(u) /\ Call(u) = stack[u][1]
    BY <1>4, CallAtBottom DEF OnFile
  <2>2. ~Exclusive(t)
    BY <2>1 DEF Exclusive
  <2>3. f.fn = "CcCopyRead" /\ Shared(t)
    BY <1>1, <1>2, <1>4, <2>2
  <2> QED
    BY <2>1, <2>3 DEF Shared
<1>5. ASSUME NEW u \in Thread, NEW v \in Thread, u # v, OnIt(u)', OnIt(v)'
      PROVE  stack'[u][1].fn = "CcCopyRead" /\ stack'[v][1].fn = "CcCopyRead"
  <2>1. CASE u = t
    BY <1>1, <1>3, <1>4, <1>5, <2>1
  <2>2. CASE v = t
    BY <1>1, <1>3, <1>4, <1>5, <2>2
  <2>3. CASE u # t /\ v # t
    BY <1>3, <1>5, <2>3 DEF FileHeld
  <2> QED
    BY <2>1, <2>2, <2>3
<1>6. opens' \in Nat /\ (opens' > 0 => mapped')
  BY <1>1 DEF FileHeld
<1>7. ASSUME NEW u \in Thread, OnIt(u)'
      PROVE  mapped'
  <2>1. CASE u = t
    BY <1>1, <1>2, <1>6, <1>7, <2>1
  <2>2. CASE u # t
    BY <1>1, <1>3, <1>7, <2>2 DEF FileHeld
  <2> QED
    BY <2>1, <2>2
<1>8. ASSUME NEW u \in Thread, stack'[u] # <<>>, stack'[u][1].fn = "CcUninitializeCacheMap"
      PROVE  /\ stack'[u][1].pc = "close" => opens' > 0
             /\ stack'[u][1].pc \in {"drop", "free"} => opens' = 0
             /\ stack'[u][1].pc = "free" /\ Len(stack'[u]) = 1 => Blocks(Data)' = {}
  <2>1. CASE u = t
    BY <1>1, <1>8, <2>1
  <2>2. CASE u # t
    BY <1>1, <1>3, <1>8, <2>2 DEF FileHeld
  <2> QED
    BY <2>1, <2>2
<1>9. NoOrphan'
  BY <1>1 DEF NoOrphan
<1> QED
  BY <1>5, <1>6, <1>7, <1>8, <1>9 DEF FileHeld

\* an open, with at most reads on the file,
LEMMA HeldOpens ==
    ASSUME TableInv, FileHeld, NoOrphan, NEW t \in Thread, Opens(t)
    PROVE  FileHeld' /\ NoOrphan'
<1>1. stack' = stack /\ opens' = opens + 1 /\ mapped' = TRUE
  BY DEF Opens
<1>2. \A u \in Thread : OnIt(u) => stack[u][1].fn = "CcCopyRead"
  BY CallAtBottom DEF Opens, Shared, Busy, OnIt
<1>3. \A u \in Thread : OnIt(u)' => OnIt(u)
  BY <1>1 DEF OnIt
<1>4. opens' \in Nat
  BY <1>1 DEF FileHeld
<1>5. \A u \in Thread : ~(stack'[u] # <<>> /\ stack'[u][1].fn = "CcUninitializeCacheMap")
  BY <1>1, <1>2, CloseOnIt
<1>6. NoOrphan'
  BY <1>1 DEF NoOrphan
<1>7. \A u, v \in Thread : u # v /\ OnIt(u)' /\ OnIt(v)' =>
        stack'[u][1].fn = "CcCopyRead" /\ stack'[v][1].fn = "CcCopyRead"
  BY <1>1, <1>2, <1>3
<1> QED
  BY <1>1, <1>4, <1>5, <1>6, <1>7 DEF FileHeld

\* and a step of the close.
LEMMA HeldCloses ==
    ASSUME TableInv, FileHeld, NoOrphan, NEW t \in Thread, Closes(t)
    PROVE  FileHeld' /\ NoOrphan'
<1>1. /\ \A u \in Thread \ {t} : stack'[u] = stack[u]
      /\ Blocks(Data)' = Blocks(Data)
      /\ Len(stack[t]) = 1 /\ stack[t][1].fn = "CcUninitializeCacheMap"
  BY DEF Closes
<1>2. stack[t] # <<>>
  BY <1>1
<1>3. OnIt(t) /\ mapped /\ \A u \in Thread \ {t} : ~OnIt(u)
  BY <1>1, <1>2, ClosesAlone
<1>4. opens \in Nat /\ (stack[t][1].pc = "close" => opens > 0)
      /\ (stack[t][1].pc \in {"drop", "free"} => opens = 0)
      /\ (stack[t][1].pc = "free" => Blocks(Data) = {})
  BY <1>1, <1>2 DEF FileHeld
<1>5. \A u \in Thread \ {t} : ~OnIt(u)'
  BY <1>1, <1>3 DEF OnIt
<1>6. \A u, v \in Thread : ~(u # v /\ OnIt(u)' /\ OnIt(v)')
  BY <1>5
<1>7. \A u \in Thread \ {t} : ~(stack'[u] # <<>> /\ stack'[u][1].fn = "CcUninitializeCacheMap")
  BY <1>1, <1>3, CloseOnIt
<1>8. opens' \in Nat /\ (opens' > 0 => mapped') /\ (OnIt(t)' => mapped') /\ NoOrphan'
      /\ (stack'[t] # <<>> => /\ stack'[t][1].pc = "close" => opens' > 0
                              /\ stack'[t][1].pc \in {"drop", "free"} => opens' = 0
                              /\ ~(Len(stack'[t]) = 1))
  <2>1. CASE stack[t][1].pc = "close" /\ opens' = opens - 1 /\ mapped' = mapped /\ opens > 1 /\ stack'[t] = <<>>
    BY <1>3, <1>4, <2>1 DEF NoOrphan
  <2>2. CASE /\ stack[t][1].pc = "close" /\ opens' = opens - 1 /\ mapped' = mapped
             /\ ~(opens > 1) /\ ClosingAt(t, "drop")
    <3>1. opens' = 0
      BY <1>4, <2>2
    <3>2. stack'[t][1].pc = "drop" /\ ~(Len(stack'[t]) = 1)
      BY <2>2 DEF ClosingAt
    <3>3. mapped' /\ opens' \in Nat
      BY <1>3, <2>2, <3>1
    <3>4. NoOrphan'
      BY <3>3 DEF NoOrphan
    <3> QED
      BY <3>1, <3>2, <3>3, <3>4
  <2>3. CASE stack[t][1].pc = "drop" /\ opens' = opens /\ mapped' = mapped /\ ClosingAt(t, "free")
    <3>1. opens' = 0
      BY <1>4, <2>3
    <3>2. stack'[t][1].pc = "free" /\ ~(Len(stack'[t]) = 1)
      BY <2>3 DEF ClosingAt
    <3>3. mapped' /\ opens' \in Nat
      BY <1>3, <2>3, <3>1
    <3>4. NoOrphan'
      BY <3>3 DEF NoOrphan
    <3> QED
      BY <3>1, <3>2, <3>3, <3>4
  <2>4. CASE stack[t][1].pc = "free" /\ opens' = opens /\ mapped' = FALSE /\ stack'[t] = <<>>
    <3>1. opens' = 0 /\ Blocks(Data)' = {}
      BY <1>1, <1>4, <2>4
    <3>2. ~OnIt(t)'
      BY <2>4 DEF OnIt
    <3> QED
      BY <2>4, <3>1, <3>2 DEF NoOrphan
  <2> QED
    BY <2>1, <2>2, <2>3, <2>4 DEF Closes
<1> QED
  BY <1>5, <1>6, <1>7, <1>8 DEF FileHeld

\* Whoever is on the file is let in by its resource and finds its map, and there
\* is no block of a file without one: with the table invariant this is inductive.
LEMMA HeldStep ==
    ASSUME TableInv, FileHeld, NoOrphan, [Next]_vars
    PROVE  FileHeld' /\ NoOrphan'
<1>1. CASE Next
  <2>1. PICK t \in Thread : Enters(t) \/ Continues(t)
    BY <1>1 DEF Next
  <2>2. Moves(t)
    BY <2>1, ThreadStep
  <2> QED
    BY <2>2, HeldSteady, HeldResting, HeldBegins, HeldOpens, HeldCloses, HeldFinished DEF Moves
<1>2. CASE UNCHANGED vars
  <2>1. block' = block /\ stack' = stack /\ opens' = opens /\ mapped' = mapped
    BY <1>2 DEF vars
  <2>2. Blocks(Data)' = Blocks(Data)
    BY <2>1 DEF Blocks
  <2>3. NoOrphan'
    BY <2>1, <2>2 DEF NoOrphan
  <2>4. \A u \in Thread : OnIt(u)' <=> OnIt(u)
    BY <2>1 DEF OnIt
  <2> QED
    BY <2>1, <2>2, <2>3, <2>4 DEF FileHeld
<1> QED
  BY <1>1, <1>2

\* At boot no file is cached.
LEMMA InitHeld ==
    ASSUME Init
    PROVE  FileHeld /\ NoOrphan
<1>1. opens = 0 /\ mapped = FALSE /\ stack = [t \in Thread |-> <<>>]
  BY DEF Init
<1>2. \A u \in Thread : stack[u] = <<>> /\ ~OnIt(u)
  BY <1>1 DEF OnIt
<1>3. Blocks(Data) = {}
  <2>1. \A b \in Slots : block[b].key = NoKey
    BY EmptyFacts DEF Init
  <2> QED
    BY <2>1, KeyFacts DEF Blocks
<1> QED
  BY <1>1, <1>2, <1>3 DEF FileHeld, NoOrphan

\* FileHeld and NoOrphan: calls under the file's resource come in as it admits
\* them and each finds the map; a flush needs no resource and may outlive it
\* (CcFlushCache). The close that frees the map (at the end of
\* CcUninitializeCacheMap) has only flushes beside it and has dropped all blocks.
THEOREM FileIsHeld == Spec => [](FileHeld /\ NoOrphan)
<1>1. Init => FileHeld /\ NoOrphan
  BY InitHeld
<1>2. TableInv /\ (FileHeld /\ NoOrphan) /\ [Next]_vars => (FileHeld /\ NoOrphan)'
  BY HeldStep
<1> QED
  BY <1>1, <1>2, TableInvariant, PTL DEF Spec

\* NoOrphan: once the map of a file is freed no slot holds a block of it, whatever
\* evictions, write-backs and failed transfers the last close ran into.
THEOREM NoBlockIsOrphaned == Spec => []NoOrphan
<1>1. FileHeld /\ NoOrphan => NoOrphan
  OBVIOUS
<1> QED
  BY <1>1, FileIsHeld, PTL

-------------------------------------------------------------------------------
(* What a flush leaves on the medium *)

\* A block whose contents change by copies only: any block of the file, and any
\* block of the FAT if nobody pins one.
Sure(k) == k \in Data \/ \A t \in Thread : "CcPinRead" \notin Calls[t]

\* The medium holds what the block holds.
Saved(b) == Sure(block[b].key) => block[b].data = disk[block[b].key]

TopOf(t) == stack[t][Len(stack[t])]

\* A write-back that went through has saved its block until its thread marks it
\* clean, and nobody writes back the block a copy has in hand.
AtTop(t) ==
  stack[t] # <<>> =>
    /\ TopOf(t).fn = "NxcFlushBlock" /\ TopOf(t).pc = "done" /\ TopOf(t).ok = TRUE => Saved(TopOf(t).b)
    /\ TopOf(t).fn \in CopyFns => mutex = t /\ block[TopOf(t).m].busy = FALSE

\* A call gets blocks of the file from before its end, n.
Asks(n, f) == f.fn \in CopyFns \cup {"NxcGetBlock"} => \A k \in f.ks : Inside(k, n)

\* t is dropping what a resize cut off.
Dropping(t) ==
  /\ stack[t] # <<>> /\ stack[t][1].fn = "NxcFlushMap" /\ stack[t][1].pc = "drop"
  /\ \A k \in Data : ~Inside(k, alloc) => k \in stack[t][1].ks

CutOff(b) == block[b].key \in Data /\ ~Inside(block[b].key, alloc)
Pinner(t) == stack[t] # <<>> /\ stack[t][1].fn = "CcPinRead" => "CcPinRead" \in Calls[t]
AsksAll(t) == \A i \in DOMAIN stack[t] : Asks(size, stack[t][i])

\* A block in use that is neither dirty nor left unsaved.
Clean(b) == block[b].valid = TRUE /\ block[b].dirty = FALSE /\ block[b].unsaved = FALSE /\ block[b].key \in Key

\* Such a block is saved, past the end of the file too; a block the allocation has
\* lost is about to be dropped; and the allocation covers the file.
DiskInv ==
  /\ size <= alloc
  /\ \A b \in Slots : Clean(b) => Saved(b)
  /\ \A b \in Slots : CutOff(b) => \E t \in Thread : Dropping(t)
  /\ \A t \in Thread : AtTop(t) /\ AsksAll(t) /\ Pinner(t)

\* A block is in at most one transfer.
LEMMA OneTransfer ==
    ASSUME TableInv, NEW t \in Thread, NEW u \in Thread, NEW i \in DOMAIN stack[t], NEW j \in DOMAIN stack[u],
           stack[t][i].fn \in Transfers, stack[u][j].fn \in Transfers, stack[t][i].b = stack[u][j].b,
           stack[t][i].b \in Slots
    PROVE  t = u
<1> DEFINE b == stack[t][i].b
<1>1. <<t, i>> \in TransfersOf(b) /\ <<u, j>> \in TransfersOf(b)
  <2>1. <<t, i>> \in {t} \X DOMAIN stack[t] /\ <<u, j>> \in {u} \X DOMAIN stack[u]
    OBVIOUS
  <2>2. <<t, i>> \in Frames /\ <<u, j>> \in Frames
    BY <2>1 DEF Frames
  <2> QED
    BY <2>2 DEF TransfersOf, At
<1>2. IsFiniteSet(TransfersOf(b)) /\ Cardinality(TransfersOf(b)) \in {0, 1}
  BY DEF TableInv, Counted, RefsExact
<1>3. Cardinality(TransfersOf(b)) # 0
  BY <1>1, <1>2, FS_EmptySet
<1>4. PICK x : TransfersOf(b) = {x}
  BY <1>2, <1>3, FS_Singleton
<1>5. <<t, i>> = <<u, j>>
  BY <1>1, <1>4
<1> QED
  BY <1>5

\* The block b has the key and the contents it had, and the medium too.
Whole(b) == /\ block'[b].key = block[b].key /\ block'[b].data = block[b].data
            /\ block[b].key \in Key => disk'[block[b].key] = disk[block[b].key]

\* A step of t leaves a block as it was, or such that being clean means nothing
\* or means saved;  it changes no block that another thread transfers, marks
\* blocks only if it can have the mutex, and brings no block in from past the end.
Alike(b)   == /\ Whole(b) /\ block'[b].valid = block[b].valid /\ block'[b].dirty = block[b].dirty
              /\ block'[b].unsaved = block[b].unsaved
Settled(b) == block'[b].valid = FALSE \/ block'[b].dirty = TRUE \/ block'[b].unsaved = TRUE \/ Saved(b)'
Mine(t, b) == Busy(t) /\ Top(t).fn \in Transfers /\ Top(t).b = b
BlocksTurn(t) ==
  /\ size' = size /\ alloc' = alloc
  /\ \A b \in Slots :
       /\ Alike(b) \/ Settled(b)
       /\ block[b].busy = TRUE =>
            Whole(b) \/ Mine(t, b) \/ (block'[b].key = block[b].key /\ ~Sure(block[b].key))
       /\ block'[b].busy = TRUE => block[b].busy = TRUE \/ CanLock(t)
       /\ block'[b].key \in Data => block'[b].key = block[b].key \/ Inside(block'[b].key, size)

\* The stack of t after the step.
StackTurns(t) ==
  /\ \A u \in Thread \ {t} : stack'[u] = stack[u]
  /\ mutex' = mutex \/ CanLock(t)
  /\ AtTop(t)' /\ AsksAll(t)' /\ Pinner(t)'
  /\ Dropping(t) => stack'[t] = stack[t] \/ \A b \in Slots : ~CutOff(b)'

\* The frames of a thread, and its top frame.
LEMMA TopIs ==
    ASSUME TableInv, NEW t \in Thread, stack[t] # <<>>
    PROVE  /\ Len(stack[t]) \in DOMAIN stack[t] /\ Len(stack[t]) \in Place /\ TopOf(t) = Top(t)
           /\ TopOf(t) \in FrameType /\ Formed(TopOf(t)) /\ Running(TopOf(t)) /\ Linked(block, TopOf(t))
           /\ stack[t][1] \in FrameType /\ Busy(t)
<1>1. stack[t] \in Seq(FrameType)
  BY Known
<1>2. Busy(t)
  BY DEF Busy
<1>3. TopOf(t) = Top(t)
  BY DEF TopOf, Top, Last
<1>4. TopOf(t) \in FrameType /\ Formed(TopOf(t)) /\ Running(TopOf(t)) /\ Linked(block, TopOf(t))
      /\ Len(stack[t]) \in Place
  BY <1>2, <1>3, TopFacts
<1>5. Len(stack[t]) \in DOMAIN stack[t] /\ 1 \in DOMAIN stack[t]
  BY <1>1, <1>4 DEF Place
<1> QED
  BY <1>1, <1>2, <1>3, <1>4, <1>5

\* With these the invariant is kept.
LEMMA DiskStep ==
    ASSUME TableInv, TableInv', DiskInv, NEW t \in Thread, BlocksTurn(t), StackTurns(t)
    PROVE  DiskInv'
<1>1. size' = size /\ alloc' = alloc /\ size <= alloc
  BY DEF BlocksTurn, DiskInv
<1>2. ASSUME NEW b \in Slots, Clean(b)'
      PROVE  Saved(b)'
  <2>1. CASE Settled(b)
    BY <1>2, <2>1 DEF Settled, Clean
  <2>2. CASE Alike(b)
    <3>1. Clean(b) /\ Whole(b)
      BY <1>2, <2>2 DEF Alike, Whole, Clean
    <3>2. Saved(b) /\ block[b].key \in Key
      BY <3>1 DEF DiskInv, Clean
    <3> QED
      BY <3>1, <3>2 DEF Saved, Whole
  <2> QED
    BY <2>1, <2>2 DEF BlocksTurn
<1>3. ASSUME NEW b \in Slots, CutOff(b)'
      PROVE  \E u \in Thread : Dropping(u)'
  <2>0. block'[b].key \in Data /\ ~Inside(block'[b].key, alloc)
    BY <1>1, <1>3 DEF CutOff
  <2>1. CutOff(b)
    <3>1. ~Inside(block'[b].key, size)
      <4>1. block'[b].key[2] \in Nat
        BY <2>0, KeyFacts
      <4>5. size \in Int /\ alloc \in Int
        BY CacheAssumption DEF TableInv, Types, Sizes
      <4>2. block'[b].key \notin Fat
        BY <2>0, KeyFacts
      <4>3. ~(block'[b].key[2] < alloc)
        BY <2>0 DEF Inside
      <4>4. ~(block'[b].key[2] < size)
        BY <1>1, <4>1, <4>3, <4>5
      <4> QED
        BY <4>2, <4>4 DEF Inside
    <3>2. block'[b].key = block[b].key
      BY <2>0, <3>1 DEF BlocksTurn
    <3> QED
      BY <2>0, <3>2 DEF CutOff
  <2>2. PICK u \in Thread : Dropping(u)
    BY <2>1 DEF DiskInv
  <2>3. stack'[u] = stack[u]
    BY <1>3, <2>2 DEF StackTurns
  <2> QED
    BY <1>1, <2>2, <2>3 DEF Dropping
<1>4. ASSUME NEW u \in Thread \ {t}
      PROVE  AtTop(u)' /\ AsksAll(u)' /\ Pinner(u)'
  <2>1. stack'[u] = stack[u]
    BY DEF StackTurns
  <2>2. AtTop(u) /\ AsksAll(u) /\ Pinner(u)
    BY DEF DiskInv
  <2>3. AsksAll(u)' /\ Pinner(u)'
    BY <1>1, <2>1, <2>2 DEF AsksAll, Pinner
  <2>4. AtTop(u)'
    <3> SUFFICES ASSUME stack[u] # <<>>
                 PROVE  AtTop(u)'
      BY <2>1 DEF AtTop
    <3>0. PICK f : f = TopOf(u)
      OBVIOUS
    <3>1. TopOf(u)' = f /\ f \in FrameType /\ Formed(f) /\ Running(f) /\ Linked(block, f)
          /\ Len(stack[u]) \in DOMAIN stack[u] /\ f = stack[u][Len(stack[u])]
      BY <2>1, <3>0, TopIs DEF TopOf
    <3>2. ASSUME f.fn = "NxcFlushBlock", f.pc = "done", f.ok = TRUE
          PROVE  Saved(f.b)'
      <4>1. f.fn \in Transfers /\ f.b \in Slots /\ block[f.b].key \in Key
        BY <3>1, <3>2 DEF Formed, Linked, Transfers
      <4>2. Saved(f.b)
        BY <2>2, <3>0, <3>2 DEF AtTop
      <4>3. block[f.b].busy = TRUE
        BY <3>1, <4>1, HeldBlock
      <4>4. CASE Whole(f.b)
        BY <4>1, <4>2, <4>4 DEF Whole, Saved
      <4>5. CASE Mine(t, f.b)
        <5>1. stack[t] # <<>> /\ Top(t).fn \in Transfers /\ Top(t).b = f.b
          BY <4>5 DEF Mine, Busy
        <5>2. Top(t) = stack[t][Len(stack[t])] /\ Len(stack[t]) \in DOMAIN stack[t]
          BY <5>1, TopIs DEF TopOf
        <5>3. t = u
          BY <3>1, <4>1, <5>1, <5>2, OneTransfer
        <5> QED
          BY <5>3
      <4>6. CASE block'[f.b].key = block[f.b].key /\ ~Sure(block[f.b].key)
        BY <4>6 DEF Saved, Sure
      <4> QED
        BY <4>1, <4>3, <4>4, <4>5, <4>6 DEF BlocksTurn
    <3>3. ASSUME f.fn \in CopyFns
          PROVE  mutex' = u /\ block'[f.m].busy = FALSE
      <4>1. mutex = u /\ block[f.m].busy = FALSE /\ f.m \in Slots
        BY <2>2, <3>0, <3>1, <3>3 DEF AtTop, Running
      <4>2. ~CanLock(t)
        BY <4>1, CacheAssumption DEF CanLock
      <4>3. mutex' = u
        BY <4>1, <4>2 DEF StackTurns
      <4>4. block'[f.m].busy \in BOOLEAN
        <5>1. block' \in [Slots -> BlockType]
          BY DEF TableInv, Types
        <5> QED
          BY <4>1, <5>1 DEF BlockType
      <4> QED
        BY <4>1, <4>2, <4>3, <4>4 DEF BlocksTurn
    <3> QED
      BY <3>1, <3>2, <3>3 DEF AtTop
  <2> QED
    BY <2>3, <2>4
<1>5. AtTop(t)' /\ AsksAll(t)' /\ Pinner(t)'
  BY DEF StackTurns
<1> QED
  BY <1>1, <1>2, <1>3, <1>4, <1>5 DEF DiskInv

\* A step that leaves the blocks and the medium alone,
LEMMA TurnSame ==
    ASSUME NEW t \in Thread, block' = block, disk' = disk, size' = size /\ alloc' = alloc
    PROVE  BlocksTurn(t)
BY DEF BlocksTurn, Alike, Whole

\* that changes one block,
LEMMA TurnOne ==
    ASSUME TableInv, NEW t \in Thread, NEW b \in Slots, NEW r, block' = [block EXCEPT ![b] = r],
           disk' = disk, size' = size /\ alloc' = alloc,
           \/ /\ r.key = block[b].key /\ r.data = block[b].data
              /\ r.valid = block[b].valid /\ r.dirty = block[b].dirty /\ r.unsaved = block[b].unsaved
           \/ r.valid = FALSE \/ r.dirty = TRUE \/ r.unsaved = TRUE
           \/ (Sure(r.key) => r.data = disk[r.key]),
           block[b].busy = TRUE =>
             /\ r.key = block[b].key
             /\ r.data = block[b].data \/ Mine(t, b) \/ ~Sure(block[b].key),
           r.busy = TRUE => block[b].busy = TRUE \/ CanLock(t),
           r.key \in Data => r.key = block[b].key \/ Inside(r.key, size)
    PROVE  BlocksTurn(t)
<1>1. block \in [Slots -> BlockType]
  BY Known
<1>2. block'[b] = r /\ \A c \in Slots : c # b => block'[c] = block[c]
  BY <1>1
<1>3. ASSUME NEW c \in Slots, c # b
      PROVE  /\ Alike(c) /\ Whole(c) /\ block'[c].busy = block[c].busy /\ block'[c].key = block[c].key
  BY <1>2, <1>3 DEF Alike, Whole
<1>4. Alike(b) \/ Settled(b)
  BY <1>2 DEF Alike, Whole, Settled, Saved
<1>5. block[b].busy = TRUE =>
        Whole(b) \/ Mine(t, b) \/ (block'[b].key = block[b].key /\ ~Sure(block[b].key))
  BY <1>2 DEF Whole
<1> QED
  BY <1>2, <1>3, <1>4, <1>5 DEF BlocksTurn

\* and that empties idle slots.
LEMMA TurnEmptied ==
    ASSUME TableInv, NEW t \in Thread, NEW B, \A b \in B : b \in Slots => block[b].busy = FALSE,
           block' = [b \in Slots |-> IF b \in B THEN EmptyBlock ELSE block[b]],
           disk' = disk, size' = size /\ alloc' = alloc
    PROVE  BlocksTurn(t)
<1>1. ASSUME NEW b \in Slots, b \in B
      PROVE  /\ Settled(b) /\ block[b].busy = FALSE /\ block'[b].busy = FALSE /\ block'[b].key \notin Data
  BY <1>1, EmptyFacts, KeyFacts DEF Settled
<1>2. ASSUME NEW b \in Slots, b \notin B
      PROVE  /\ Alike(b) /\ Whole(b) /\ block'[b].busy = block[b].busy /\ block'[b].key = block[b].key
  BY <1>2 DEF Alike, Whole
<1> QED
  BY <1>1, <1>2 DEF BlocksTurn

\* The top frame f asks for nothing of what AtTop says.
Plain(f) == f.fn \notin CopyFns /\ (f.fn = "NxcFlushBlock" => f.pc # "done")

Goes(t) == AtTop(t)' /\ AsksAll(t)'

\* The stack of t becomes r.
LEMMA GoesTo ==
    ASSUME NEW t \in Thread, NEW r \in Seq(FrameType), stack'[t] = r, size' = size /\ alloc' = alloc,
           \A i \in DOMAIN r : Asks(size, r[i]), r # <<>> => Plain(r[Len(r)])
    PROVE  Goes(t)
<1>1. AsksAll(t)'
  BY DEF AsksAll
<1>2. TopOf(t)' = r[Len(r)]
  BY DEF TopOf
<1>3. AtTop(t)'
  BY <1>2 DEF AtTop, Plain
<1> QED
  BY <1>1, <1>3 DEF Goes

\* The frames of t before the step.
LEMMA AskedSoFar ==
    ASSUME TableInv, DiskInv, NEW t \in Thread, Busy(t), NEW e, e = Top(t)
    PROVE  /\ stack \in [Thread -> Seq(FrameType)] /\ stack[t] \in Seq(FrameType)
           /\ Len(stack[t]) \in Place /\ e = stack[t][Len(stack[t])] /\ e \in FrameType
           /\ DOMAIN stack[t] = 1 .. Len(stack[t])
           /\ (\A i \in DOMAIN stack[t] : Asks(size, stack[t][i])) /\ Asks(size, e)
<1>1. /\ stack \in [Thread -> Seq(FrameType)] /\ stack[t] \in Seq(FrameType) /\ stack[t] # <<>>
  BY Known DEF Busy
<1>2. Len(stack[t]) \in Place /\ e = stack[t][Len(stack[t])] /\ e \in FrameType
  BY TopFacts
<1>3. \A i \in DOMAIN stack[t] : Asks(size, stack[t][i])
  BY DEF DiskInv, AsksAll
<1>4. Len(stack[t]) \in DOMAIN stack[t] /\ DOMAIN stack[t] = 1 .. Len(stack[t])
  BY <1>1, <1>2 DEF Place
<1> QED
  BY <1>1, <1>2, <1>3, <1>4

\* The top frame of t goes on,
LEMMA GoesOne ==
    ASSUME TableInv, DiskInv, NEW t \in Thread, Busy(t), NEW e, e = Top(t), size' = size /\ alloc' = alloc,
           NEW f \in FrameType, SetTop(t, f), f.fn = e.fn, f.ks = e.ks
    PROVE  /\ AsksAll(t)' /\ TopOf(t)' = f
           /\ Plain(f) => Goes(t)
<1> DEFINE s == stack[t]
           r == Front(s) \o <<f>>
<1>1. /\ stack \in [Thread -> Seq(FrameType)] /\ s \in Seq(FrameType) /\ Len(s) \in Place
      /\ (\A i \in DOMAIN s : Asks(size, s[i])) /\ Asks(size, e)
  BY AskedSoFar
<1>2. TopOne(s, f, r)
  BY <1>1, ReplacedByOne
<1>3. stack'[t] = r
  BY <1>1, Zenon DEF SetTop, Replace
<1> HIDE DEF r
<1>4. /\ r \in Seq(FrameType) /\ Len(r) = Len(s) /\ DOMAIN r = 1 .. Len(s) /\ DOMAIN s = 1 .. Len(s)
      /\ (\A i \in 1 .. Len(s) - 1 : r[i] = s[i]) /\ r[Len(s)] = f
  BY <1>2 DEF TopOne
<1>5. Asks(size, f)
  BY <1>1 DEF Asks
<1>6. ASSUME NEW i \in DOMAIN r PROVE Asks(size, r[i])
  <2>1. CASE i = Len(s)
    BY <1>4, <1>5, <2>1
  <2>2. CASE i # Len(s)
    <3>1. i \in 1 .. Len(s) - 1 /\ i \in DOMAIN s
      BY <1>1, <1>4, <2>2 DEF Place
    <3> QED
      BY <1>1, <1>4, <3>1
  <2> QED
    BY <2>1, <2>2
<1>7. AsksAll(t)'
  BY <1>3, <1>6 DEF AsksAll
<1>8. TopOf(t)' = f
  BY <1>3, <1>4 DEF TopOf
<1>9. Plain(f) => Goes(t)
  BY <1>3, <1>4, <1>6, GoesTo
<1> QED
  BY <1>7, <1>8, <1>9

\* calls,
LEMMA GoesTwo ==
    ASSUME TableInv, DiskInv, NEW t \in Thread, Busy(t), NEW e, e = Top(t), size' = size /\ alloc' = alloc,
           NEW f \in FrameType, NEW g \in FrameType, Push(t, f, g), f.fn = e.fn, f.ks = e.ks,
           Asks(size, g), Plain(g)
    PROVE  Goes(t)
<1> DEFINE s == stack[t]
           r == Front(s) \o <<f, g>>
<1>1. /\ stack \in [Thread -> Seq(FrameType)] /\ s \in Seq(FrameType) /\ Len(s) \in Place
      /\ (\A i \in DOMAIN s : Asks(size, s[i])) /\ Asks(size, e)
  BY AskedSoFar
<1>2. TopTwo(s, f, g, r)
  BY <1>1, ReplacedByTwo
<1>3. stack'[t] = r
  BY <1>1, Zenon DEF Push, Replace
<1> HIDE DEF r
<1>4. /\ r \in Seq(FrameType) /\ Len(r) = Len(s) + 1 /\ DOMAIN r = 1 .. Len(s) + 1 /\ DOMAIN s = 1 .. Len(s)
      /\ (\A i \in 1 .. Len(s) - 1 : r[i] = s[i]) /\ r[Len(s)] = f /\ r[Len(s) + 1] = g
  BY <1>2 DEF TopTwo
<1>5. Asks(size, f)
  BY <1>1 DEF Asks
<1>6. ASSUME NEW i \in DOMAIN r PROVE Asks(size, r[i])
  <2>1. CASE i = Len(s) \/ i = Len(s) + 1
    BY <1>4, <1>5, <2>1
  <2>2. CASE i # Len(s) /\ i # Len(s) + 1
    <3>1. i \in 1 .. Len(s) - 1 /\ i \in DOMAIN s
      BY <1>1, <1>4, <2>2 DEF Place
    <3> QED
      BY <1>1, <1>4, <3>1
  <2> QED
    BY <2>1, <2>2
<1> QED
  BY <1>3, <1>4, <1>6, GoesTo

\* what it calls calls in turn,
LEMMA GoesThree ==
    ASSUME TableInv, DiskInv, NEW t \in Thread, Busy(t), NEW e, e = Top(t), size' = size /\ alloc' = alloc,
           NEW f \in FrameType, NEW g \in FrameType, NEW h \in FrameType, Replace(t, <<f, g, h>>),
           f.fn = e.fn, f.ks = e.ks, Asks(size, g), Asks(size, h), Plain(h)
    PROVE  Goes(t)
<1> DEFINE s == stack[t]
           r == Front(s) \o <<f, g, h>>
<1>1. /\ stack \in [Thread -> Seq(FrameType)] /\ s \in Seq(FrameType) /\ Len(s) \in Place
      /\ (\A i \in DOMAIN s : Asks(size, s[i])) /\ Asks(size, e)
  BY AskedSoFar
<1>2. TopThree(s, f, g, h, r)
  BY <1>1, ReplacedByThree
<1>3. stack'[t] = r
  BY <1>1, Zenon DEF Replace
<1> HIDE DEF r
<1>4. /\ r \in Seq(FrameType) /\ Len(r) = Len(s) + 2 /\ DOMAIN r = 1 .. Len(s) + 2 /\ DOMAIN s = 1 .. Len(s)
      /\ (\A i \in 1 .. Len(s) - 1 : r[i] = s[i]) /\ r[Len(s)] = f /\ r[Len(s) + 1] = g /\ r[Len(s) + 2] = h
  BY <1>2 DEF TopThree
<1>5. Asks(size, f)
  BY <1>1 DEF Asks
<1>6. ASSUME NEW i \in DOMAIN r PROVE Asks(size, r[i])
  <2>1. CASE i = Len(s) \/ i = Len(s) + 1 \/ i = Len(s) + 2
    BY <1>4, <1>5, <2>1
  <2>2. CASE i # Len(s) /\ i # Len(s) + 1 /\ i # Len(s) + 2
    <3>1. i \in 1 .. Len(s) - 1 /\ i \in DOMAIN s
      BY <1>1, <1>4, <2>2 DEF Place
    <3> QED
      BY <1>1, <1>4, <3>1
  <2> QED
    BY <2>1, <2>2
<1> QED
  BY <1>3, <1>4, <1>6, GoesTo

\* goes: a copy below it would have a block in hand, which no waiting call has,
LEMMA GoesNone ==
    ASSUME TableInv, TableInv', DiskInv, NEW t \in Thread, Busy(t), size' = size /\ alloc' = alloc, Pop(t)
    PROVE  Goes(t)
<1> DEFINE s == stack[t]
           r == Front(s) \o <<>>
<1>1. /\ stack \in [Thread -> Seq(FrameType)] /\ s \in Seq(FrameType) /\ Len(s) \in Place
      /\ (\A i \in DOMAIN s : Asks(size, s[i])) /\ Shaped(s)
  BY AskedSoFar, Known
<1>2. TopNone(s, r)
  BY <1>1, ReplacedByNone
<1>3. stack'[t] = r
  BY <1>1, Zenon DEF Pop, Replace
<1> HIDE DEF r
<1>4. /\ r \in Seq(FrameType) /\ Len(r) = Len(s) - 1 /\ DOMAIN r = 1 .. Len(s) - 1 /\ DOMAIN s = 1 .. Len(s)
      /\ (\A i \in 1 .. Len(s) - 1 : r[i] = s[i])
  BY <1>2 DEF TopNone
<1>5. ASSUME NEW i \in DOMAIN r PROVE Asks(size, r[i])
  <2>1. i \in 1 .. Len(s) - 1 /\ i \in DOMAIN s
    BY <1>1, <1>4 DEF Place
  <2> QED
    BY <1>1, <1>4, <2>1
<1>6. ASSUME r # <<>> PROVE Plain(r[Len(r)])
  <2>1. PICK n \in Nat : n = Len(s)
    BY <1>1
  <2>2. n > 1 /\ n \in DOMAIN s /\ n - 1 \in 1 .. n - 1 /\ Len(r) = n - 1
    <3>1. Len(r) # 0
      <4>1. r \in Seq(FrameType)
        BY <1>4
      <4> QED
        BY <1>6, <4>1
    <3>2. Len(r) = n - 1
      BY <1>4, <2>1
    <3> QED
      BY <1>1, <1>4, <2>1, <3>1, <3>2 DEF Place
  <2>3. Waits(s[n - 1], s[n])
    BY <1>1, <2>2, AboveBottom
  <2>4. r[Len(r)] = s[n - 1]
    BY <1>4, <2>1, <2>2
  <2>5. Running(r[Len(r)])
    <3>1. Shaped(stack[t])'
      BY DEF TableInv, Stacks
    <3> QED
      BY <1>3, <1>6, <3>1 DEF Shaped
  <2> QED
    BY <2>3, <2>4, <2>5, SlotFacts DEF Waits, Plain, Running, CopyFns, Transfers
<1> QED
  BY <1>3, <1>4, <1>5, <1>6, GoesTo

\* returns a block, which a copy takes under the mutex, or fails,
LEMMA GoesBack ==
    ASSUME TableInv, TableInv', DiskInv, NEW t \in Thread, Busy(t), Top(t).fn = "NxcGetBlock", size' = size /\ alloc' = alloc,
           NEW m \in Slots \cup {NoSlot}, NEW ok \in BOOLEAN, Return(t, m, ok),
           \/ m \in Slots /\ ok = TRUE
           \/ m = NoSlot /\ ok = FALSE /\ Len(stack[t]) # 2,
           m \in Slots /\ Keeps(Below(t)) => mutex' = t /\ block'[m].busy = FALSE
    PROVE  Goes(t)
<1> DEFINE s == stack[t]
           q == Front(s)
           r == [q EXCEPT ![Len(q)].m = m, ![Len(q)].ok = ok]
           d == s[Len(s) - 1]
           f == [d EXCEPT !.m = m, !.ok = ok]
<1>1. /\ stack \in [Thread -> Seq(FrameType)] /\ s \in Seq(FrameType) /\ Len(s) \in Place
      /\ (\A i \in DOMAIN s : Asks(size, s[i])) /\ Shaped(s) /\ Len(s) > 1 /\ s[Len(s)].fn = "NxcGetBlock"
  BY AskedSoFar, GetFrame, Known
<1>2. TopBack(s, m, ok, r)
  <2> HIDE DEF q
  <2>1. q = Front(s)
    BY DEF q
  <2> QED
    BY <1>1, <2>1, Returned
<1>3. stack'[t] = r
  BY <1>1, Zenon DEF Return
<1> HIDE DEF r
<1>4. d.fn \in CopyFns \cup {"CcPinRead"} \cup Transfers
  BY <1>1, <1>2, TopReturns
<1>5. /\ r \in Seq(FrameType) /\ Len(r) = Len(s) - 1 /\ DOMAIN r = 1 .. Len(s) - 1 /\ DOMAIN s = 1 .. Len(s)
      /\ Len(s) - 1 \in DOMAIN s /\ (\A i \in 1 .. Len(s) - 2 : r[i] = s[i]) /\ r[Len(s) - 1] = f
  BY <1>2 DEF TopBack
<1>6. d \in FrameType /\ Asks(size, d) /\ d = Below(t)
  BY <1>1, <1>5 DEF Below
<1>7. Waits(d, s[Len(s)])
  BY <1>1, AboveBottom DEF Place
<1>8. d.fn = "NxcFlushBlock" => d.pc = "mapped"
  BY <1>7 DEF Waits, CopyFns, Transfers
<1> HIDE DEF d
<1>9. f.fn = d.fn /\ f.pc = d.pc /\ f.ks = d.ks /\ f.m = m
  BY <1>6 DEF FrameType
<1> HIDE DEF f
<1>10. Asks(size, f)
  BY <1>6, <1>9 DEF Asks
<1>11. ASSUME NEW i \in DOMAIN r PROVE Asks(size, r[i])
  <2>1. CASE i = Len(s) - 1
    BY <1>5, <1>10, <2>1
  <2>2. CASE i # Len(s) - 1
    <3>1. i \in 1 .. Len(s) - 2 /\ i \in DOMAIN s
      BY <1>1, <1>5, <2>2 DEF Place
    <3> QED
      BY <1>1, <1>5, <3>1
  <2> QED
    BY <2>1, <2>2
<1>12. AsksAll(t)'
  BY <1>3, <1>11 DEF AsksAll
<1>13. TopOf(t)' = f /\ stack'[t] # <<>>
  <2>1. Len(r) # 0 /\ r[Len(r)] = f
    BY <1>1, <1>5 DEF Place
  <2> QED
    BY <1>3, <1>5, <2>1 DEF TopOf
<1>14. f.fn \in CopyFns => mutex' = t /\ block'[f.m].busy = FALSE
  <2>1. Running(TopOf(t))'
    <3>1. Shaped(stack[t])'
      BY DEF TableInv, Stacks
    <3> QED
      BY <1>13, <3>1 DEF Shaped, TopOf
  <2>2. f.fn \in CopyFns => m \in Slots /\ Keeps(Below(t))
    BY <1>6, <1>9, <1>13, <2>1 DEF Running, Keeps, CopyFns
  <2> QED
    BY <1>9, <2>2
<1>15. AtTop(t)'
  BY <1>8, <1>9, <1>13, <1>14 DEF AtTop
<1> QED
  BY <1>12, <1>15 DEF Goes

\* leaves,
LEMMA GoesClear ==
    ASSUME TableInv, NEW t \in Thread, stack' = [stack EXCEPT ![t] = <<>>], size' = size /\ alloc' = alloc
    PROVE  Goes(t) /\ stack'[t] = <<>>
<1>1. stack'[t] = <<>>
  BY Known
<1>2. <<>> \in Seq(FrameType) /\ \A i \in DOMAIN <<>> : Asks(size, <<>>[i])
  OBVIOUS
<1> QED
  BY <1>1, <1>2, GoesTo

\* stays,
LEMMA GoesSame ==
    ASSUME TableInv, DiskInv, NEW t \in Thread, stack' = stack, size' = size /\ alloc' = alloc, Busy(t) => Plain(Top(t))
    PROVE  Goes(t)
<1> DEFINE s == stack[t]
<1>1. s \in Seq(FrameType) /\ stack'[t] = s
  BY Known
<1>2. \A i \in DOMAIN s : Asks(size, s[i])
  BY DEF DiskInv, AsksAll
<1>3. s # <<>> => Plain(s[Len(s)])
  BY TopIs DEF TopOf
<1> HIDE DEF s
<1> QED
  BY <1>1, <1>2, <1>3, GoesTo

\* and enters, with a call,
LEMMA GoesInOne ==
    ASSUME TableInv, NEW t \in Thread, NEW f \in FrameType, Begin(t, <<f>>), size' = size /\ alloc' = alloc,
           Asks(size, f), Plain(f)
    PROVE  Goes(t) /\ stack'[t] # <<>> /\ stack'[t][1] = f
<1>1. PICK s : s = <<f>>
  OBVIOUS
<1>2. s \in Seq(FrameType) /\ Len(s) = 1 /\ DOMAIN s = {1} /\ s[1] = f /\ s # <<>>
  BY <1>1
<1>3. stack'[t] = s
  BY <1>1, Known DEF Begin
<1> QED
  BY <1>2, <1>3, GoesTo

\* or with a call that makes another.
LEMMA GoesInTwo ==
    ASSUME TableInv, NEW t \in Thread, NEW f \in FrameType, NEW g \in FrameType, Begin(t, <<f, g>>), size' = size /\ alloc' = alloc,
           Asks(size, f), Asks(size, g), Plain(g)
    PROVE  Goes(t) /\ stack'[t] # <<>> /\ stack'[t][1] = f
<1>1. PICK s : s = <<f, g>>
  OBVIOUS
<1>2. s \in Seq(FrameType) /\ Len(s) = 2 /\ DOMAIN s = {1, 2} /\ s[1] = f /\ s[2] = g /\ s # <<>>
  BY <1>1
<1>3. stack'[t] = s
  BY <1>1, Known DEF Begin
<1> QED
  BY <1>2, <1>3, GoesTo

\* The thread of a step inside a call stays in it or leaves.
LEMMA BottomStays ==
    ASSUME TableInv, NEW t \in Thread, Busy(t), Moves(t)
    PROVE  /\ \A u \in Thread \ {t} : stack'[u] = stack[u]
           /\ stack'[t] # <<>> => stack'[t][1].fn = stack[t][1].fn
<1>1. stack[t] # <<>>
  BY DEF Busy
<1> QED
  BY <1>1 DEF Moves, Steady, Kept, Resting, Begins, Opens, Closes, ClosingAt, Finished

\* A resize drops what it cut off in its only call.
LEMMA DroppingTop ==
    ASSUME TableInv, NEW t \in Thread, Dropping(t)
    PROVE  Busy(t) /\ Len(stack[t]) = 1 /\ Top(t) = stack[t][1] /\ Top(t).fn = "NxcFlushMap" /\ Top(t).pc = "drop"
<1> DEFINE s == stack[t]
<1>1. s \in Seq(FrameType) /\ Shaped(s) /\ s # <<>>
  BY Known DEF Dropping
<1>2. PICK n \in Nat : n = Len(s)
  BY <1>1
<1>3. n # 0 /\ DOMAIN s = 1 .. n
  BY <1>1, <1>2
<1>4. n = 1
  <2>1. ASSUME n # 1 PROVE FALSE
    <3>1. 2 \in DOMAIN s /\ 2 > 1
      BY <1>3, <2>1
    <3>2. Waits(s[2 - 1], s[2])
      BY <1>1, <3>1, AboveBottom
    <3>3. Waits(s[1], s[2])
      BY <3>2
    <3> QED
      BY <3>3 DEF Waits, Dropping, CopyFns, Transfers
  <2> QED
    BY <2>1
<1>5. Top(t) = s[1]
  BY <1>2, <1>4 DEF Top, Last
<1> QED
  BY <1>1, <1>2, <1>4, <1>5 DEF Busy, Dropping

\* A step of t inside a call other than such a drop, or one that lets it stay.
LEMMA InnerStep ==
    ASSUME TableInv, DiskInv, NEW t \in Thread, Busy(t), Enters(t) \/ Continues(t),
           BlocksTurn(t), mutex' = mutex \/ CanLock(t), Goes(t),
           stack' = stack \/ Top(t).fn # "NxcFlushMap" \/ Top(t).pc # "drop"
    PROVE  DiskInv'
<1>1. TableInv' /\ Moves(t)
  BY ThreadStep
<1>2. /\ \A u \in Thread \ {t} : stack'[u] = stack[u]
      /\ stack'[t] # <<>> => stack'[t][1].fn = stack[t][1].fn
  BY <1>1, BottomStays
<1>3. Pinner(t)'
  BY <1>2 DEF DiskInv, Pinner, Busy
<1>4. StackTurns(t)
  BY <1>2, <1>3, DroppingTop DEF StackTurns, Goes
<1> QED
  BY <1>1, <1>4, DiskStep

\* A step with which t enters, or that does not leave it inside.
LEMMA OuterStep ==
    ASSUME TableInv, DiskInv, NEW t \in Thread, ~Busy(t), Enters(t) \/ Continues(t),
           BlocksTurn(t), mutex' = mutex \/ CanLock(t), Goes(t), Pinner(t)'
    PROVE  DiskInv'
<1>1. TableInv' /\ Moves(t)
  BY ThreadStep
<1>2. \A u \in Thread \ {t} : stack'[u] = stack[u]
  <2>1. stack[t] = <<>> /\ Len(stack[t]) = 0
    BY DEF Busy
  <2> QED
    BY <1>1 DEF Moves, Steady, Kept, Resting, Begins, Opens, Closes, ClosingAt, Finished
<1>3. StackTurns(t)
  BY <1>2 DEF StackTurns, Goes, Dropping, Busy
<1> QED
  BY <1>1, <1>3, DiskStep

\* A step that changes a block but not its key.
LEMMA TurnKeyed ==
    ASSUME TableInv, NEW t \in Thread, NEW b \in Slots, NEW r, block' = [block EXCEPT ![b] = r],
           disk' = disk, size' = size /\ alloc' = alloc,
           NEW data, NEW ref, NEW valid, NEW dirty, NEW busy, NEW us,
           BlockAs(r, block[b], data, ref, valid, dirty, busy, us),
           \/ data = block[b].data /\ valid = block[b].valid /\ dirty = block[b].dirty /\ us = block[b].unsaved
           \/ valid = FALSE \/ dirty = TRUE \/ us = TRUE
           \/ (Sure(block[b].key) => data = disk[block[b].key]),
           block[b].busy = TRUE => data = block[b].data \/ Mine(t, b) \/ ~Sure(block[b].key),
           busy = TRUE => block[b].busy = TRUE \/ CanLock(t)
    PROVE  BlocksTurn(t)
<1>1. /\ r.key = block[b].key /\ r.data = data /\ r.valid = valid /\ r.dirty = dirty /\ r.busy = busy
      /\ r.unsaved = us
  BY DEF BlockAs
<1> QED
  BY <1>1, TurnOne

\* The FSD unmaps the FAT block of a transfer.
LEMMA FsdUnmapDisk ==
    ASSUME TableInv, DiskInv, NEW t \in Thread, FsdUnmap(t)
    PROVE  DiskInv'
<1> DEFINE e == Top(t)
           f == [e EXCEPT !.pc = "io", !.m = NoSlot]
           b == e.m
           r == [block[b] EXCEPT !.ref = @ - 1]
<1>1. /\ Busy(t) /\ e.fn \in Transfers /\ e.pc = "mapped"
      /\ block' = IF e.ok THEN [block EXCEPT ![e.m].ref = @ - 1] ELSE block
      /\ SetTop(t, f) /\ mutex' = mutex /\ size' = size /\ alloc' = alloc /\ disk' = disk
  BY DEF FsdUnmap
<1>2. e \in FrameType /\ Formed(e) /\ Running(e) /\ Linked(block, e)
  BY <1>1, TopFacts
<1>3. FieldsAs(f, e, "io", e.todo, e.b, NoSlot, e.ok)
  <2> HIDE DEF e
  <2> QED
    BY <1>2, SetPcM DEF Points
<1>4. Goes(t)
  <2>1. f \in FrameType /\ f.fn = e.fn /\ f.ks = e.ks /\ f.pc = "io"
    <3> HIDE DEF e, f
    <3> QED
      BY <1>3 DEF FieldsAs
  <2> HIDE DEF f
  <2>2. Plain(f)
    BY <1>1, <2>1 DEF Plain, Transfers, CopyFns
  <2> QED
    BY <1>1, <2>1, <2>2, GoesOne
<1>5. BlocksTurn(t)
  <2>1. (e.ok = TRUE <=> e.m # NoSlot) /\ e.ok \in BOOLEAN /\ e.m \in Slots \cup {NoSlot}
    BY <1>1, <1>2 DEF Running, FrameType
  <2>2. CASE e.ok = FALSE
    BY <1>1, <2>2, TurnSame
  <2>3. CASE e.ok = TRUE
    <3>1. b \in Slots /\ block[b].key \in Key
      BY <1>2, <2>1, <2>3 DEF Linked
    <3>2. block \in [Slots -> BlockType] /\ block[b] \in BlockType /\ block[b].ref \in Int
      BY <3>1, BlockInfo
    <3>3. BlockAs(r, block[b], block[b].data, block[b].ref - 1, block[b].valid, block[b].dirty, block[b].busy, block[b].unsaved)
      <4>1. block[b].ref - 1 \in Int
        BY <3>2
      <4> QED
        BY <3>2, <4>1, SetRef
    <3>4. block' = [block EXCEPT ![b] = r]
      BY <1>1, <2>3, <3>1, <3>2
    <3> HIDE DEF r, b
    <3> QED
      BY <1>1, <3>1, <3>3, <3>4, TurnKeyed
  <2> QED
    BY <2>1, <2>2, <2>3
<1>6. Top(t).fn # "NxcFlushMap"
  BY <1>1 DEF Transfers
<1> QED
  BY <1>1, <1>4, <1>5, <1>6, InnerStep DEF Continues

\* The device writes a block, or fails to.
LEMMA NxcFlushIoDisk ==
    ASSUME TableInv, DiskInv, NEW t \in Thread, NxcFlushIo(t)
    PROVE  DiskInv'
<1> DEFINE e == Top(t)
<1>1. PICK o \in BOOLEAN :
        /\ disk' = IF o THEN [disk EXCEPT ![OwnKey(t)] = block[e.b].data] ELSE disk
        /\ SetTop(t, [e EXCEPT !.pc = "done", !.ok = o])
  BY DEF NxcFlushIo, Outcomes
<1> DEFINE f == [e EXCEPT !.pc = "done", !.ok = o]
<1>2. /\ Busy(t) /\ e.fn = "NxcFlushBlock" /\ e.pc = "io"
      /\ block' = block /\ mutex' = mutex /\ size' = size /\ alloc' = alloc
  BY DEF NxcFlushIo, In
<1>3. e \in FrameType /\ Formed(e) /\ Linked(block, e)
  BY <1>2, TopFacts
<1>4. PICK b \in Slots : b = e.b /\ block[b].key \in Key
  BY <1>2, <1>3 DEF Formed, Linked, Transfers
<1>5. FieldsAs(f, e, "done", e.todo, e.b, e.m, o)
  <2> HIDE DEF e
  <2> QED
    BY <1>3, SetPcOk DEF Points
<1>6. PICK k \in Key : k = block[b].key /\ k = OwnKey(t)
  BY <1>4 DEF OwnKey
<1>7. /\ \A j \in Key : j # k => disk'[j] = disk[j]
      /\ o = TRUE => disk'[k] = block[b].data
      /\ o = FALSE => disk' = disk
  <2>1. disk \in [Key -> Datum]
    BY DEF TableInv, Types
  <2> QED
    BY <1>1, <1>4, <1>6, <2>1
<1>8. \A c \in Slots : c # b /\ block[c].key \in Key => block[c].key # k
  BY <1>6, KeyFacts DEF TableInv, TableExact
<1>9. Mine(t, b)
  BY <1>2, <1>4 DEF Mine, Transfers
<1>10. BlocksTurn(t)
  <2>1. ASSUME NEW c \in Slots, c # b PROVE Alike(c)
    BY <1>2, <1>7, <1>8, <2>1 DEF Alike, Whole
  <2>2. o = TRUE => Settled(b)
    BY <1>2, <1>6, <1>7 DEF Settled, Saved
  <2>3. o = FALSE => Alike(b)
    BY <1>2, <1>7 DEF Alike, Whole
  <2> QED
    BY <1>2, <1>9, <2>1, <2>2, <2>3 DEF BlocksTurn, Alike
<1>11. f \in FrameType /\ f.fn = e.fn /\ f.ks = e.ks /\ f.b = b /\ f.ok = o
  <2> HIDE DEF e, f
  <2> QED
    BY <1>4, <1>5 DEF FieldsAs
<1> HIDE DEF f
<1>12. SetTop(t, f)
  BY <1>1 DEF f
<1>13. AsksAll(t)' /\ TopOf(t)' = f
  BY <1>2, <1>11, <1>12, GoesOne
<1>14. o = TRUE => Saved(b)'
  BY <1>2, <1>6, <1>7 DEF Saved
<1>15. AtTop(t)'
  BY <1>2, <1>11, <1>13, <1>14 DEF AtTop, CopyFns
<1> QED
  BY <1>2, <1>10, <1>13, <1>15, InnerStep DEF Continues, Goes

\* The write-back is over.
LEMMA NxcFlushBlockDisk ==
    ASSUME TableInv, DiskInv, NEW t \in Thread, NxcFlushBlock(t)
    PROVE  DiskInv'
<1> DEFINE e == Top(t)
           b == e.b
           d == StillDirty(t)
           r == [block[b] EXCEPT !.busy = FALSE, !.ref = @ - 1, !.dirty = d]
<1>1. /\ Busy(t) /\ e.fn = "NxcFlushBlock" /\ e.pc = "done" /\ mutex = NoThread
      /\ block' = [block EXCEPT ![e.b].busy = FALSE, ![e.b].ref = @ - 1, ![e.b].dirty = StillDirty(t)]
      /\ Pop(t) /\ size' = size /\ alloc' = alloc /\ disk' = disk
  BY DEF NxcFlushBlock, In, Lock
<1>2. TableInv'
  BY NxcFlushBlockStep
<1>3. e \in FrameType /\ Formed(e) /\ Linked(block, e)
  BY <1>1, TopFacts
<1>4. b \in Slots /\ block[b].key \in Key /\ e.ok \in BOOLEAN
  BY <1>1, <1>3 DEF Formed, Linked, Transfers, FrameType
<1>5. /\ block \in [Slots -> BlockType] /\ block[b] \in BlockType
      /\ block[b].ref \in Int /\ block[b].dirty \in BOOLEAN
  BY <1>4, BlockInfo
<1>6. d \in BOOLEAN /\ (e.ok = FALSE => d = block[b].dirty) /\ (e.ok = TRUE => d = FALSE)
  BY <1>4, <1>5 DEF StillDirty
<1>7. e.ok = TRUE => Saved(b)
  <2>1. AtTop(t) /\ stack[t] # <<>>
    BY <1>1 DEF DiskInv, Busy
  <2>2. TopOf(t) = e
    BY <2>1, TopIs
  <2> QED
    BY <1>1, <2>1, <2>2 DEF AtTop
<1>8. block' = [block EXCEPT ![b] = r]
  BY <1>1, <1>4, <1>5
<1>9. BlockAs(r, block[b], block[b].data, block[b].ref - 1, block[b].valid, d, FALSE, block[b].unsaved)
  <2>1. block[b].ref - 1 \in Int /\ FALSE \in BOOLEAN
    BY <1>5
  <2> HIDE DEF d, b
  <2> QED
    BY <1>5, <1>6, <2>1, SetBusyRefDirty
<1>10. Goes(t)
  BY <1>1, <1>2, GoesNone
<1> HIDE DEF d, b, r
<1>11. BlocksTurn(t)
  <2>1. d = block[b].dirty \/ (Sure(block[b].key) => block[b].data = disk[block[b].key])
    BY <1>4, <1>6, <1>7 DEF Saved
  <2> QED
    BY <1>1, <1>4, <1>8, <1>9, <2>1, TurnKeyed
<1>12. CanLock(t)
  BY <1>1 DEF CanLock
<1> QED
  BY <1>1, <1>10, <1>11, <1>12, InnerStep DEF Continues

\* A pinned block of the FAT may change at any time.
LEMMA PinnedWriteDisk ==
    ASSUME TableInv, DiskInv, NEW t \in Thread, PinnedWrite(t)
    PROVE  DiskInv'
<1> DEFINE e == Top(t)
           b == e.m
           f == [e EXCEPT !.pc = "changed"]
<1>1. PICK v \in Value[GetKey(t)] : block' = [block EXCEPT ![b].data = v]
  BY DEF PinnedWrite
<1> DEFINE r == [block[b] EXCEPT !.data = v]
<1>2. /\ Busy(t) /\ e.fn = "CcPinRead" /\ SetTop(t, f)
      /\ mutex' = mutex /\ size' = size /\ alloc' = alloc /\ disk' = disk
  BY DEF PinnedWrite, In
<1>3. /\ e \in FrameType /\ Formed(e) /\ Running(e) /\ Linked(block, e) /\ e = stack[t][Len(stack[t])]
      /\ Len(stack[t]) = 1
  BY <1>2, TopFacts
<1>4. b \in Slots /\ block[b].key \in Key /\ block[b].key \notin Data /\ \E k \in Fat : e.ks = {k}
  BY <1>2, <1>3 DEF Formed, Running, Linked, CopyFns
<1>5. v \in Datum
  <2>1. PICK k \in Fat : e.ks = {k}
    BY <1>4
  <2>2. GetKey(t) = k
    BY <2>1 DEF GetKey
  <2>3. k \in Key /\ v \in Value[k]
    BY <1>1, <2>2, KeyFacts
  <2> QED
    BY <2>3 DEF Datum
<1>6. ~Sure(block[b].key)
  <2>1. Pinner(t)
    BY DEF DiskInv
  <2>2. "CcPinRead" \in Calls[t]
    BY <1>2, <1>3, <2>1 DEF Pinner, Busy
  <2> QED
    BY <1>4, <2>2 DEF Sure
<1>7. block \in [Slots -> BlockType] /\ block[b] \in BlockType
  BY <1>4, BlockInfo
<1>8. BlockAs(r, block[b], v, block[b].ref, block[b].valid, block[b].dirty, block[b].busy, block[b].unsaved)
  BY <1>5, <1>7, SetData
<1>9. block' = [block EXCEPT ![b] = r]
  BY <1>1, <1>4, <1>7
<1>10. Goes(t)
  <2>1. FieldsAs(f, e, "changed", e.todo, e.b, e.m, e.ok)
    <3> HIDE DEF e
    <3> QED
      BY <1>3, SetPc DEF Points
  <2>2. f \in FrameType /\ f.fn = e.fn /\ f.ks = e.ks
    <3> HIDE DEF e, f
    <3> QED
      BY <2>1 DEF FieldsAs
  <2> HIDE DEF f
  <2>3. Plain(f)
    BY <1>2, <2>2 DEF Plain, CopyFns
  <2> QED
    BY <1>2, <2>2, <2>3, GoesOne
<1> HIDE DEF b, r
<1>11. r.key = block[b].key /\ r.busy = block[b].busy
  BY <1>8 DEF BlockAs
<1>12. ~Sure(r.key) /\ (r.key \in Data => r.key = block[b].key)
  BY <1>6, <1>11
<1>13. BlocksTurn(t)
  BY <1>2, <1>4, <1>6, <1>9, <1>11, <1>12, TurnOne
<1> QED
  BY <1>2, <1>10, <1>13, InnerStep DEF Continues

\* It is marked dirty,
LEMMA CcSetDirtyPinnedDataDisk ==
    ASSUME TableInv, DiskInv, NEW t \in Thread, CcSetDirtyPinnedData(t)
    PROVE  DiskInv'
<1> DEFINE e == Top(t)
           b == e.m
           f == [e EXCEPT !.pc = "dirtied"]
           r == [block[b] EXCEPT !.dirty = TRUE]
<1>1. /\ Busy(t) /\ e.fn = "CcPinRead" /\ SetTop(t, f) /\ block' = [block EXCEPT ![b].dirty = TRUE]
      /\ mutex' = mutex /\ size' = size /\ alloc' = alloc /\ disk' = disk
  BY DEF CcSetDirtyPinnedData, In
<1>2. e \in FrameType /\ Running(e) /\ Linked(block, e)
  BY <1>1, TopFacts
<1>3. b \in Slots /\ block[b].key \in Key
  BY <1>1, <1>2 DEF Running, Linked
<1>4. block \in [Slots -> BlockType] /\ block[b] \in BlockType
  BY <1>3, BlockInfo
<1>5. BlockAs(r, block[b], block[b].data, block[b].ref, block[b].valid, TRUE, block[b].busy, block[b].unsaved)
  BY <1>4, SetDirty
<1>6. block' = [block EXCEPT ![b] = r]
  BY <1>1, <1>3, <1>4
<1>7. Goes(t)
  <2>1. FieldsAs(f, e, "dirtied", e.todo, e.b, e.m, e.ok)
    <3> HIDE DEF e
    <3> QED
      BY <1>2, SetPc DEF Points
  <2>2. f \in FrameType /\ f.fn = e.fn /\ f.ks = e.ks
    <3> HIDE DEF e, f
    <3> QED
      BY <2>1 DEF FieldsAs
  <2> HIDE DEF f
  <2>3. Plain(f)
    BY <1>1, <2>2 DEF Plain, CopyFns
  <2> QED
    BY <1>1, <2>2, <2>3, GoesOne
<1> HIDE DEF b, r
<1>8. BlocksTurn(t)
  BY <1>1, <1>3, <1>5, <1>6, TurnKeyed
<1> QED
  BY <1>1, <1>7, <1>8, InnerStep DEF Continues

\* and unpinned.
LEMMA CcUnpinDataDisk ==
    ASSUME TableInv, DiskInv, NEW t \in Thread, CcUnpinData(t)
    PROVE  DiskInv'
<1> DEFINE e == Top(t)
           b == e.m
           n == block[b].ref - 1
           r == [block[b] EXCEPT !.ref = n]
<1>1. /\ Busy(t) /\ e.fn = "CcPinRead" /\ Pop(t) /\ block' = [block EXCEPT ![b].ref = @ - 1]
      /\ mutex' = mutex /\ size' = size /\ alloc' = alloc /\ disk' = disk
  BY DEF CcUnpinData, In
<1>2. e \in FrameType /\ Running(e) /\ Linked(block, e)
  BY <1>1, TopFacts
<1>3. b \in Slots /\ block[b].key \in Key
  BY <1>1, <1>2 DEF Running, Linked
<1>4. block \in [Slots -> BlockType] /\ block[b] \in BlockType /\ n \in Int
  <2>1. block \in [Slots -> BlockType] /\ block[b] \in BlockType /\ block[b].ref \in Int
    BY <1>3, BlockInfo
  <2> QED
    BY <2>1
<1>5. BlockAs(r, block[b], block[b].data, n, block[b].valid, block[b].dirty, block[b].busy, block[b].unsaved)
  <2> HIDE DEF n
  <2> QED
    BY <1>4, SetRef
<1>6. block' = [block EXCEPT ![b] = r]
  BY <1>1, <1>3, <1>4
<1>7. Goes(t)
  BY <1>1, GoesNone, CcUnpinDataStep
<1> HIDE DEF b, r
<1>8. BlocksTurn(t)
  BY <1>1, <1>3, <1>5, <1>6, TurnKeyed
<1> QED
  BY <1>1, <1>7, <1>8, InnerStep DEF Continues

\* A copy is done with a block, which no one is writing back.
LEMMA CopyBlockDisk ==
    ASSUME TableInv, DiskInv, NEW t \in Thread, CopyBlock(t)
    PROVE  DiskInv'
<1> DEFINE e == Top(t)
           rest == e.todo \ {First(e.todo)}
           G == [e EXCEPT !.todo = rest, !.m = NoSlot]
           b == e.m
<1>1. PICK v \in IF e.fn = "CcCopyWrite" THEN Value[First(e.todo)] ELSE {block[e.m].data} :
        block' = [block EXCEPT ![b].ref = @ - 1, ![b].data = v, ![b].dirty = @ \/ e.fn = "CcCopyWrite",
                               ![b].unsaved = @ /\ e.fn # "CcCopyWrite"]
  BY Zenon DEF CopyBlock
<1>2. /\ Busy(t) /\ e.fn \in CopyFns /\ mutex = t /\ size' = size /\ alloc' = alloc /\ disk' = disk
  BY DEF CopyBlock, Keeps, CopyFns
<1>3. \/ rest # {} /\ Push(t, G, Getting(rest))
      \/ Pop(t)
      \/ Push(t, G, Flushing("flush", e.ks))
  BY Zenon DEF CopyBlock
<1>4. e \in FrameType /\ Formed(e) /\ Running(e) /\ Linked(block, e)
  BY <1>2, TopFacts
<1>5. b \in Slots /\ block[b].key \in Key
  BY <1>2, <1>4 DEF Running, Linked
<1>6. e.todo \subseteq e.ks /\ e.ks \subseteq Key /\ e.todo # {}
  BY <1>2, <1>4, KeyFacts DEF Formed, Running
<1>7. block[b].busy = FALSE
  <2>1. AtTop(t) /\ stack[t] # <<>>
    BY <1>2 DEF DiskInv, Busy
  <2>2. TopOf(t) = e
    BY <2>1, TopIs
  <2> QED
    BY <1>2, <2>1, <2>2 DEF AtTop
<1>8. Asks(size, e)
  BY <1>2, AskedSoFar
<1>9. TableInv'
  BY CopyBlockStep
<1> HIDE DEF e, b
<1>10. /\ block \in [Slots -> BlockType] /\ block[b] \in BlockType /\ block[b].live = TRUE
       /\ block[b].ref \in Int /\ block[b].data \in Datum /\ block[b].dirty \in BOOLEAN
       /\ block[b].unsaved \in BOOLEAN
  BY <1>5, BlockInfo
<1>11. v \in Datum
  <2>1. First(e.todo) \in Key
    BY <1>6, FirstIn
  <2>2. e.fn = "CcCopyWrite" => v \in Datum
    BY <1>1, <2>1 DEF Datum
  <2>3. e.fn # "CcCopyWrite" => v \in Datum
    BY <1>1, <1>10 DEF b
  <2> QED
    BY <2>2, <2>3
<1> DEFINE n == block[b].ref - 1
           d == block[b].dirty \/ e.fn = "CcCopyWrite"
           us == block[b].unsaved /\ e.fn # "CcCopyWrite"
           r == [block[b] EXCEPT !.ref = n, !.data = v, !.dirty = d, !.unsaved = us]
<1>12. n \in Int /\ d \in BOOLEAN /\ us \in BOOLEAN
  BY <1>10
<1>13. block' = [block EXCEPT ![b] = r]
  BY <1>1, <1>5, <1>10 DEF b
<1>14. d = TRUE \/ (v = block[b].data /\ d = block[b].dirty /\ us = block[b].unsaved)
  BY <1>1, <1>10 DEF b
<1> HIDE DEF n, d, us
<1>15. BlockAs(r, block[b], v, n, block[b].valid, d, block[b].busy, us)
  BY <1>10, <1>11, <1>12, SetRefDataDirtyUnsaved
<1> HIDE DEF r
<1>16. BlocksTurn(t)
  BY <1>2, <1>5, <1>7, <1>13, <1>14, <1>15, TurnKeyed
<1>17. Goes(t)
  <2>0. e = Top(t)
    BY DEF e
  <2>1. CASE Pop(t)
    BY <1>2, <1>9, <2>1, GoesNone
  <2>2. PICK g : g = G
    OBVIOUS
  <2> HIDE DEF rest
  <2>3. rest \in SUBSET Key /\ rest \subseteq e.ks /\ NoSlot \in Slots \cup {NoSlot}
    BY <1>6 DEF rest
  <2>4. FieldsAs(g, e, e.pc, rest, e.b, NoSlot, e.ok)
    BY <1>4, <2>2, <2>3, SetTodoM
  <2> HIDE DEF G
  <2>5. g \in FrameType /\ g.fn = e.fn /\ g.ks = e.ks
    BY <2>4 DEF FieldsAs
  <2>6. CASE rest # {} /\ Push(t, G, Getting(rest))
    <3>1. PICK h : h = Getting(rest)
      OBVIOUS
    <3>2. h \in FrameType /\ h.fn = "NxcGetBlock" /\ h.ks \subseteq e.ks
      BY <2>3, <2>6, <3>1, GettingFrame
    <3>3. Asks(size, h) /\ Plain(h)
      BY <1>2, <1>8, <3>2 DEF Asks, Plain, CopyFns
    <3> QED
      BY <1>2, <2>0, <2>2, <2>5, <2>6, <3>1, <3>2, <3>3, GoesTwo
  <2>7. CASE Push(t, G, Flushing("flush", e.ks))
    <3>1. PICK h : h = Flushing("flush", e.ks)
      OBVIOUS
    <3>2. h \in FrameType /\ h.fn = "NxcFlushMap"
      BY <1>6, <3>1, MapFrame
    <3>3. Asks(size, h) /\ Plain(h)
      BY <3>2 DEF Asks, Plain, CopyFns
    <3> QED
      BY <1>2, <2>0, <2>2, <2>5, <2>7, <3>1, <3>2, <3>3, GoesTwo
  <2> QED
    BY <1>3, <2>1, <2>6, <2>7
<1>18. CanLock(t) /\ Top(t).fn # "NxcFlushMap"
  BY <1>2 DEF CanLock, CopyFns, e
<1> QED
  BY <1>2, <1>16, <1>17, <1>18, InnerStep DEF Continues

\* A copy faults: what it wrote over a clean block is left unsaved.
LEMMA CopyFaultDisk ==
    ASSUME TableInv, DiskInv, NEW t \in Thread, CopyFault(t)
    PROVE  DiskInv'
<1> DEFINE e == Top(t)
           b == e.m
<1>1. PICK v \in IF e.fn = "CcCopyWrite" THEN Value[First(e.todo)] ELSE {block[e.m].data} :
        block' = [block EXCEPT ![b].ref = @ - 1, ![b].data = v,
                               ![b].unsaved = @ \/ (e.fn = "CcCopyWrite" /\ ~block[b].dirty)]
  BY Zenon DEF CopyFault
<1>2. /\ Busy(t) /\ e.fn \in CopyFns /\ mutex = t /\ Pop(t) /\ size' = size /\ alloc' = alloc /\ disk' = disk
  BY DEF CopyFault, Keeps, CopyFns
<1>4. e \in FrameType /\ Formed(e) /\ Running(e) /\ Linked(block, e)
  BY <1>2, TopFacts
<1>5. b \in Slots /\ block[b].key \in Key
  BY <1>2, <1>4 DEF Running, Linked
<1>6. e.todo \subseteq Key /\ e.todo # {}
  BY <1>2, <1>4, KeyFacts DEF Formed, Running
<1>7. block[b].busy = FALSE
  <2>1. AtTop(t) /\ stack[t] # <<>>
    BY <1>2 DEF DiskInv, Busy
  <2>2. TopOf(t) = e
    BY <2>1, TopIs
  <2> QED
    BY <1>2, <2>1, <2>2 DEF AtTop
<1>9. Goes(t)
  BY <1>2, CopyFaultStep, GoesNone
<1> HIDE DEF e, b
<1>10. /\ block \in [Slots -> BlockType] /\ block[b] \in BlockType
       /\ block[b].ref \in Int /\ block[b].data \in Datum /\ block[b].dirty \in BOOLEAN
       /\ block[b].unsaved \in BOOLEAN
  BY <1>5, BlockInfo
<1>11. v \in Datum
  <2>1. First(e.todo) \in Key
    BY <1>6, FirstIn
  <2>2. e.fn = "CcCopyWrite" => v \in Datum
    BY <1>1, <2>1 DEF Datum
  <2>3. e.fn # "CcCopyWrite" => v \in Datum
    BY <1>1, <1>10 DEF b
  <2> QED
    BY <2>2, <2>3
<1> DEFINE n == block[b].ref - 1
           us == block[b].unsaved \/ (e.fn = "CcCopyWrite" /\ ~block[b].dirty)
           r == [block[b] EXCEPT !.ref = n, !.data = v, !.unsaved = us]
<1>12. n \in Int /\ us \in BOOLEAN
  BY <1>10
<1>13. block' = [block EXCEPT ![b] = r]
  BY <1>1, <1>5, <1>10
<1>14. us = TRUE \/ block[b].dirty = TRUE \/ (v = block[b].data /\ us = block[b].unsaved)
  BY <1>1, <1>10 DEF b
<1> HIDE DEF n, us
<1>15. BlockAs(r, block[b], v, n, block[b].valid, block[b].dirty, block[b].busy, us)
  BY <1>10, <1>11, <1>12, SetRefDataUnsaved
<1> HIDE DEF r
<1>16. BlocksTurn(t)
  BY <1>2, <1>5, <1>7, <1>13, <1>14, <1>15, TurnKeyed
<1>17. CanLock(t) /\ Top(t).fn # "NxcFlushMap"
  BY <1>2 DEF CanLock, CopyFns, e
<1> QED
  BY <1>2, <1>9, <1>16, <1>17, InnerStep DEF Continues

\* A call to map the FAT asks for no block of the file.
LEMMA FatAsks ==
    ASSUME NEW g, NEW h, g.fn \in Transfers, g.pc = "mapped", Waits(g, h)
    PROVE  Asks(size, h) /\ Plain(h)
<1>1. h.fn = "NxcGetBlock" /\ h.ks \subseteq Fat
  BY DEF Waits, Transfers, CopyFns
<1> QED
  BY <1>1 DEF Asks, Plain, Inside, CopyFns

\* A write-back begins, or there is nothing to write.
LEMMA StartFlushDisk ==
    ASSUME TableInv, DiskInv, NEW t \in Thread, Continues(t), Busy(t), NEW e, e = Top(t),
           NEW f \in FrameType, f.fn = e.fn, f.ks = e.ks, Plain(f), e.fn # "NxcFlushMap" \/ e.pc # "drop",
           NEW b \in Slots, block[b].key \in Key, block[b].busy = FALSE, CanLock(t), StartFlush(t, b, f),
           size' = size /\ alloc' = alloc, disk' = disk
    PROVE  DiskInv'
<1>1. /\ block \in [Slots -> BlockType] /\ block[b] \in BlockType /\ block[b].ref \in Int
  BY BlockInfo
<1>2. CASE ~InFile(block[b].key)
  <2>1. block' = [block EXCEPT ![b].dirty = FALSE, ![b].unsaved = TRUE] /\ SetTop(t, f)
    BY <1>2 DEF StartFlush
  <2> DEFINE r == [block[b] EXCEPT !.dirty = FALSE, !.unsaved = TRUE]
  <2>2. BlockAs(r, block[b], block[b].data, block[b].ref, block[b].valid, FALSE, block[b].busy, TRUE)
    BY <1>1, SetDirtyUnsaved
  <2>3. block' = [block EXCEPT ![b] = r]
    BY <1>1, <2>1
  <2> HIDE DEF r
  <2>5. BlocksTurn(t)
    BY <2>2, <2>3, TurnKeyed
  <2>6. Goes(t)
    BY <2>1, GoesOne
  <2> QED
    BY <2>5, <2>6, InnerStep
<1>3. CASE InFile(block[b].key)
  <2> DEFINE G == [Frame("NxcFlushBlock", "io", {}) EXCEPT !.b = b]
             k == block[b].key
  <2>1. /\ block' = [block EXCEPT ![b].ref = @ + 1, ![b].busy = TRUE]
        /\ Replace(t, <<f>> \o Transfer(G, k))
    BY <1>3, Zenon DEF StartFlush
  <2> DEFINE n == block[b].ref + 1
             r == [block[b] EXCEPT !.ref = n, !.busy = TRUE]
  <2>2. BlockAs(r, block[b], block[b].data, n, block[b].valid, block[b].dirty, TRUE, block[b].unsaved)
    <3>1. n \in Int
      BY <1>1
    <3> HIDE DEF n
    <3> QED
      BY <1>1, <3>1, SetRefBusy
  <2>3. block' = [block EXCEPT ![b] = r]
    BY <1>1, <2>1
  <2> HIDE DEF r
  <2>4. BlocksTurn(t)
    BY <2>2, <2>3, TurnKeyed
  <2>5. PICK g0 : g0 = G
    OBVIOUS
  <2>6. g0 \in FrameType /\ g0.fn = "NxcFlushBlock" /\ g0.b = b /\ g0.m = NoSlot
    <3>1. PICK a : a = Frame("NxcFlushBlock", "io", {})
      OBVIOUS
    <3>2. "NxcFlushBlock" \in Fns /\ "io" \in Points /\ {} \in SUBSET Key
      BY DEF Fns, Transfers, Points
    <3>3. NewAs(a, "NxcFlushBlock", "io", {})
      BY <3>1, <3>2, NewFrame
    <3>4. a \in FrameType /\ a.fn = "NxcFlushBlock" /\ a.m = NoSlot
      BY <3>3 DEF NewAs
    <3>5. g0 = [a EXCEPT !.b = b] /\ b \in Int
      BY <2>5, <3>1, SlotFacts
    <3>6. FieldsAs(g0, a, a.pc, a.todo, b, a.m, a.ok)
      BY <3>4, <3>5, SetB
    <3> QED
      BY <3>4, <3>6 DEF FieldsAs
  <2> HIDE DEF G, k
  <2>7. k \in Key
    BY DEF k
  <2>8. CASE \E g \in FrameType : Transfer(g0, k) = <<g>> /\ TransferAs(g, g0, "io") /\ Running(g)
    <3>1. PICK g \in FrameType : Transfer(g0, k) = <<g>> /\ TransferAs(g, g0, "io")
      BY <2>8
    <3>2. Push(t, f, g)
      <4>1. Replace(t, <<f>> \o <<g>>)
        BY <2>1, <2>5, <3>1
      <4> QED
        BY <4>1, Joined DEF Push
    <3>3. Asks(size, g) /\ Plain(g)
      BY <2>6, <3>1 DEF TransferAs, Asks, Plain, CopyFns
    <3>4. Goes(t)
      BY <3>2, <3>3, GoesTwo
    <3> QED
      BY <2>4, <3>4, InnerStep
  <2>9. CASE \E g, h \in FrameType : /\ Transfer(g0, k) = <<g, h>> /\ TransferAs(g, g0, "mapped")
                                     /\ Waits(g, h) /\ Formed(h) /\ Running(h) /\ Unheld(h)
    <3>1. PICK g \in FrameType, h \in FrameType :
            Transfer(g0, k) = <<g, h>> /\ TransferAs(g, g0, "mapped") /\ Waits(g, h)
      BY <2>9
    <3>2. Replace(t, <<f, g, h>>)
      <4>1. Replace(t, <<f>> \o <<g, h>>)
        BY <2>1, <2>5, <3>1
      <4> QED
        BY <4>1, Joined
    <3>3. Asks(size, g) /\ g.fn \in Transfers /\ g.pc = "mapped"
      BY <2>6, <3>1 DEF TransferAs, Asks, CopyFns, Transfers
    <3>4. Asks(size, h) /\ Plain(h)
      BY <3>1, <3>3, FatAsks
    <3>5. Goes(t)
      BY <3>2, <3>3, <3>4, GoesThree
    <3> QED
      BY <2>4, <3>5, InnerStep
  <2> QED
    BY <2>6, <2>7, <2>8, <2>9, TransferFrames DEF Transfers
<1> QED
  BY <1>2, <1>3

\* An eviction,
LEMMA GetEvictDisk ==
    ASSUME TableInv, DiskInv, NEW t \in Thread, GetEvict(t)
    PROVE  DiskInv'
<1> DEFINE e == Top(t)
           b == lru[Min(DirtyLru)]
<1>1. /\ Busy(t) /\ e.fn = "NxcGetBlock" /\ CanLock(t) /\ DirtyLru # {}
      /\ StartFlush(t, b, [e EXCEPT !.pc = "claim"]) /\ size' = size /\ alloc' = alloc /\ disk' = disk
  BY DEF GetEvict, In
<1>2. e \in FrameType
  BY <1>1, TopFacts
<1>3. b \in Slots /\ block[b].key \in Key /\ block[b].busy = FALSE
  <2>1. DirtyLru \subseteq Nat
    <3>1. lru \in Seq(Slots)
      BY Known DEF TableOK
    <3> QED
      BY <3>1 DEF DirtyLru
  <2>2. Min(DirtyLru) \in DirtyLru
    BY <1>1, <2>1, MinIn
  <2>3. b \in Visible /\ ~block[b].busy /\ block[b].dirty
    BY <2>2 DEF DirtyLru, Idle
  <2> HIDE DEF b
  <2>4. b \in Slots
    BY <2>3, SlotFacts
  <2> QED
    BY <2>3, <2>4, Known, SlotState
<1>4. e = Top(t)
  OBVIOUS
<1> HIDE DEF e, b
<1>5. PICK f : f = [e EXCEPT !.pc = "claim"]
  OBVIOUS
<1>6. FieldsAs(f, e, "claim", e.todo, e.b, e.m, e.ok)
  BY <1>2, <1>5, SetPc DEF Points
<1>7. f \in FrameType /\ f.fn = e.fn /\ f.ks = e.ks
  BY <1>6 DEF FieldsAs
<1>8. Plain(f) /\ e.fn # "NxcFlushMap"
  BY <1>1, <1>7 DEF Plain, CopyFns
<1>9. StartFlush(t, b, f) /\ Continues(t)
  BY <1>1, <1>5 DEF Continues
<1> QED
  BY <1>1, <1>3, <1>4, <1>7, <1>8, <1>9, StartFlushDisk

\* and a flush.
LEMMA FlushMapWriteDisk ==
    ASSUME TableInv, DiskInv, NEW t \in Thread, FlushMapWrite(t)
    PROVE  DiskInv'
<1> DEFINE e == Top(t)
           b == Min(InTheWay(Reach(e)))
<1>1. /\ Busy(t) /\ e.fn = "NxcFlushMap" /\ e.pc = "flush" /\ InTheWay(Reach(e)) # {} /\ CanLock(t)
      /\ ~block[b].busy /\ StartFlush(t, b, e) /\ size' = size /\ alloc' = alloc /\ disk' = disk
  BY Zenon DEF FlushMapWrite, In
<1>2. e \in FrameType
  BY <1>1, TopFacts
<1>3. b \in Slots /\ block[b].key \in Key /\ block[b].busy = FALSE
  <2>1. InTheWay(Reach(e)) \subseteq Nat
    BY SlotFacts DEF InTheWay, Blocks
  <2>2. b \in InTheWay(Reach(e))
    BY <1>1, <2>1, MinIn
  <2>3. Reach(e) \subseteq Key
    BY <1>2 DEF FrameType, Reach
  <2> HIDE DEF b, e
  <2>4. b \in Slots /\ block[b].key \in Key
    BY <2>2, <2>3 DEF InTheWay, Blocks
  <2> QED
    BY <1>1, <2>4, BlockInfo
<1>4. e = Top(t) /\ Continues(t)
  BY DEF Continues
<1> HIDE DEF e, b
<1>5. Plain(e)
  BY <1>1 DEF Plain, CopyFns
<1> QED
  BY <1>1, <1>2, <1>3, <1>4, <1>5, StartFlushDisk

\* A read begins: the call asks for a block of before the end of the file.
LEMMA StartReadDisk ==
    ASSUME TableInv, DiskInv, NEW t \in Thread, Continues(t), Busy(t), CanLock(t),
           NEW e, e = Top(t), e.fn = "NxcGetBlock",
           e.pc \in {"look", "claim"}, NEW b \in Slots, NEW a \in BlockType, NEW bs,
           bs = [block EXCEPT ![b] = a], a.key \in e.ks, block[b].busy = FALSE, a.valid = FALSE,
           StartRead(t, b, bs), size' = size /\ alloc' = alloc, disk' = disk
    PROVE  DiskInv'
<1>1. block \in [Slots -> BlockType] /\ bs[b] = a
  BY Known
<1>2. /\ e \in FrameType /\ e.ks \subseteq Key /\ e.ks = {GetKey(t)} /\ e.b = NoSlot /\ e.m = NoSlot
  BY GetFrame
<1>3. Inside(a.key, size) /\ InFile(a.key)
  <2>1. Asks(size, e)
    BY AskedSoFar
  <2> QED
    BY <2>1 DEF Asks, InFile
<1>4. block' = [bs EXCEPT ![b].busy = TRUE] /\ Replace(t, Transfer([e EXCEPT !.b = b], a.key))
  BY <1>1, <1>3, Zenon DEF StartRead
<1> DEFINE r == [a EXCEPT !.busy = TRUE]
<1>5. BlockAs(r, a, a.data, a.ref, a.valid, a.dirty, TRUE, a.unsaved)
  BY SetBusy
<1>6. block' = [block EXCEPT ![b] = r]
  BY <1>1, <1>4
<1> HIDE DEF r
<1>7. BlocksTurn(t)
  <2>1. r.key = a.key /\ r.valid = FALSE
    BY <1>5 DEF BlockAs
  <2> QED
    BY <1>3, <1>6, <2>1, TurnOne
<1>8. PICK g0 : g0 = [e EXCEPT !.b = b]
  OBVIOUS
<1>9. g0 \in FrameType /\ g0.fn = "NxcGetBlock" /\ g0.b = b /\ g0.m = NoSlot /\ g0.ks = e.ks
  <2>1. b \in Int
    BY SlotFacts
  <2>2. FieldsAs(g0, e, e.pc, e.todo, b, e.m, e.ok)
    BY <1>2, <1>8, <2>1, SetB
  <2> QED
    BY <1>2, <2>2 DEF FieldsAs
<1>10. a.key \in Key /\ \E j \in Key : g0.ks = {j}
  BY <1>2, <1>9
<1>11. CASE \E g \in FrameType : Transfer(g0, a.key) = <<g>> /\ TransferAs(g, g0, "io") /\ Running(g)
  <2>1. PICK g \in FrameType : Transfer(g0, a.key) = <<g>> /\ TransferAs(g, g0, "io")
    BY <1>11
  <2>2. SetTop(t, g)
    BY <1>4, <1>8, <2>1 DEF SetTop
  <2>3. g.fn = e.fn /\ g.ks = e.ks /\ Plain(g)
    BY <1>9, <2>1 DEF TransferAs, Plain, CopyFns
  <2>4. Goes(t)
    BY <2>2, <2>3, GoesOne
  <2> QED
    BY <1>7, <2>4, InnerStep
<1>12. CASE \E g, h \in FrameType : /\ Transfer(g0, a.key) = <<g, h>> /\ TransferAs(g, g0, "mapped")
                                    /\ Waits(g, h) /\ Formed(h) /\ Running(h) /\ Unheld(h)
  <2>1. PICK g \in FrameType, h \in FrameType :
          Transfer(g0, a.key) = <<g, h>> /\ TransferAs(g, g0, "mapped") /\ Waits(g, h)
    BY <1>12
  <2>2. Push(t, g, h)
    BY <1>4, <1>8, <2>1 DEF Push
  <2>3. g.fn = e.fn /\ g.ks = e.ks /\ g.fn \in Transfers /\ g.pc = "mapped"
    BY <1>9, <2>1 DEF TransferAs, Transfers
  <2>4. Asks(size, h) /\ Plain(h)
    BY <2>1, <2>3, FatAsks
  <2>5. Goes(t)
    BY <2>2, <2>3, <2>4, GoesTwo
  <2> QED
    BY <1>7, <2>5, InnerStep
<1> QED
  BY <1>9, <1>10, <1>11, <1>12, TransferFrames DEF Transfers

\* The block is in the cache.
LEMMA GetHitDisk ==
    ASSUME TableInv, DiskInv, NEW t \in Thread, GetHit(t)
    PROVE  DiskInv'
<1> DEFINE e == Top(t)
<1>1. PICK b \in NxcLookupBlock(GetKey(t)) :
        ~block[b].busy /\ block' = [block EXCEPT ![b].ref = @ + 1] /\ Got(t, b)
  BY DEF GetHit
<1>2. /\ Busy(t) /\ e.fn = "NxcGetBlock" /\ CanLock(t) /\ size' = size /\ alloc' = alloc /\ disk' = disk
  BY DEF GetHit, In
<1>3. GetKey(t) \in Key
  BY <1>2, GetFrame
<1>4. b \in Slots /\ block[b].key \in Key
  BY <1>1, <1>3 DEF NxcLookupBlock
<1>5. /\ block \in [Slots -> BlockType] /\ block[b] \in BlockType /\ block[b].ref \in Int /\ block[b].busy = FALSE
  BY <1>1, <1>4, BlockInfo
<1> DEFINE n == block[b].ref + 1
           r == [block[b] EXCEPT !.ref = n]
<1>6. n \in Int
  BY <1>5
<1>7. block' = [block EXCEPT ![b] = r]
  BY <1>1, <1>5
<1>8. BlockAs(r, block[b], block[b].data, n, block[b].valid, block[b].dirty, block[b].busy, block[b].unsaved)
  <2> HIDE DEF n
  <2> QED
    BY <1>5, <1>6, SetRef
<1> HIDE DEF r
<1>9. BlocksTurn(t)
  BY <1>2, <1>4, <1>7, <1>8, TurnKeyed
<1>10. block'[b].busy = FALSE
  BY <1>4, <1>5, <1>7, <1>8 DEF BlockAs
<1>11. Return(t, b, TRUE) /\ (Keeps(Below(t)) => mutex' = t)
  BY <1>1 DEF Got
<1>12. Goes(t)
  BY <1>2, <1>4, <1>10, <1>11, GoesBack, GetHitStep
<1> QED
  BY <1>2, <1>9, <1>12, InnerStep DEF Continues

\* A read that failed is tried again.
LEMMA GetRetryDisk ==
    ASSUME TableInv, DiskInv, NEW t \in Thread, GetRetry(t)
    PROVE  DiskInv'
<1> DEFINE e == Top(t)
<1>1. PICK b \in NxcLookupBlock(GetKey(t)) :
        ~block[b].busy /\ ~block[b].valid /\ StartRead(t, b, [block EXCEPT ![b].ref = @ + 1])
  BY DEF GetRetry
<1>2. /\ Busy(t) /\ e.fn = "NxcGetBlock" /\ e.pc = "look" /\ CanLock(t) /\ size' = size /\ alloc' = alloc /\ disk' = disk
  BY DEF GetRetry, In
<1>3. GetKey(t) \in Key /\ e.ks = {GetKey(t)}
  BY <1>2, GetFrame
<1>4. b \in Slots /\ block[b].key \in Key /\ block[b].key \in e.ks
  BY <1>1, <1>3 DEF NxcLookupBlock
<1>e. e = Top(t) /\ e.pc \in {"look", "claim"} /\ Continues(t)
  BY <1>2 DEF Continues
<1> HIDE DEF e
<1>5. /\ block \in [Slots -> BlockType] /\ block[b] \in BlockType /\ block[b].busy = FALSE
      /\ block[b].valid = FALSE /\ block[b].ref \in Int
  BY <1>1, <1>4, BlockInfo
<1> DEFINE n == block[b].ref + 1
           a == [block[b] EXCEPT !.ref = n]
           bs == [block EXCEPT ![b] = a]
<1>6. n \in Int
  BY <1>5
<1>7. [block EXCEPT ![b].ref = @ + 1] = bs
  BY <1>5
<1>8. BlockAs(a, block[b], block[b].data, n, block[b].valid, block[b].dirty, block[b].busy, block[b].unsaved)
  <2> HIDE DEF n
  <2> QED
    BY <1>5, <1>6, SetRef
<1>9. StartRead(t, b, bs)
  BY <1>1, <1>7
<1>10. PICK cs : cs = bs
  OBVIOUS
<1> HIDE DEF a
<1>11. cs = [block EXCEPT ![b] = a] /\ StartRead(t, b, cs)
  BY <1>9, <1>10
<1>12. a \in BlockType /\ a.key \in e.ks /\ a.valid = FALSE
  BY <1>4, <1>5, <1>8 DEF BlockAs
<1> HIDE DEF bs, n
<1> QED
  BY <1>2, <1>4, <1>5, <1>e, <1>11, <1>12, StartReadDisk

\* A slot is claimed, or given back.
LEMMA GetClaimDisk ==
    ASSUME TableInv, DiskInv, NEW t \in Thread, GetClaim(t)
    PROVE  DiskInv'
<1> DEFINE e == Top(t)
           b == NxcClaimSlot
           k == GetKey(t)
           A == [EmptyBlock EXCEPT !.key = k, !.ref = 1]
<1>1. /\ Busy(t) /\ e.fn = "NxcGetBlock" /\ e.pc \in {"look", "claim"} /\ b # NoSlot
      /\ CanLock(t) /\ size' = size /\ alloc' = alloc /\ disk' = disk /\ Continues(t)
  BY DEF GetClaim, In, Continues
<1>2. \/ block' = [block EXCEPT ![b] = EmptyBlock] /\ SetTop(t, [e EXCEPT !.pc = "look"])
      \/ StartRead(t, b, [block EXCEPT ![b] = A])
  BY Zenon DEF GetClaim
<1>3. e \in FrameType /\ k \in Key /\ e.ks = {k}
  BY <1>1, GetFrame
<1>4. b \in Slots /\ block[b].busy = FALSE
  BY <1>1, ClaimedSlot
<1>5. block \in [Slots -> BlockType]
  BY Known
<1>e. e = Top(t)
  OBVIOUS
<1> HIDE DEF e, b, k
<1>6. CASE block' = [block EXCEPT ![b] = EmptyBlock] /\ SetTop(t, [e EXCEPT !.pc = "look"])
  <2>1. block' = [c \in Slots |-> IF c \in {b} THEN EmptyBlock ELSE block[c]]
    BY <1>5, <1>6
  <2>2. BlocksTurn(t)
    <3>1. PICK B : B = {b}
      OBVIOUS
    <3>2. block' = [c \in Slots |-> IF c \in B THEN EmptyBlock ELSE block[c]]
          /\ \A c \in B : c \in Slots => block[c].busy = FALSE
      BY <1>4, <2>1, <3>1
    <3> QED
      BY <1>1, <3>2, TurnEmptied
  <2>3. PICK f : f = [e EXCEPT !.pc = "look"]
    OBVIOUS
  <2>4. FieldsAs(f, e, "look", e.todo, e.b, e.m, e.ok)
    BY <1>3, <2>3, SetPc DEF Points
  <2>5. f \in FrameType /\ f.fn = e.fn /\ f.ks = e.ks
    BY <2>4 DEF FieldsAs
  <2>6. Plain(f) /\ SetTop(t, f)
    BY <1>1, <1>6, <2>3, <2>5 DEF Plain, CopyFns
  <2>7. Goes(t)
    BY <1>1, <1>e, <2>5, <2>6, GoesOne
  <2> QED
    BY <1>1, <1>e, <2>2, <2>7, InnerStep
<1>7. CASE StartRead(t, b, [block EXCEPT ![b] = A])
  <2>1. PICK a : a = A
    OBVIOUS
  <2>o. PICK o \in BlockType : o = EmptyBlock
    BY EmptyFacts
  <2>a. a = [o EXCEPT !.key = k, !.ref = 1]
    BY <2>1, <2>o
  <2>2. a \in BlockType
    <3>1. 1 \in Int
      OBVIOUS
    <3> QED
      BY <1>3, <2>a, <3>1, SetKeyRef
  <2>3. a.key = k /\ a.valid = FALSE
    <3>1. o.valid = FALSE
      BY <2>o, EmptyFacts
    <3> QED
      BY <2>a, <3>1 DEF BlockType
  <2> HIDE DEF A
  <2>4. PICK bs : bs = [block EXCEPT ![b] = a]
    OBVIOUS
  <2>5. StartRead(t, b, bs)
    BY <1>7, <2>1, <2>4
  <2>6. a.key \in e.ks
    BY <1>3, <2>3
  <2> QED
    BY <1>1, <1>4, <1>e, <2>2, <2>3, <2>4, <2>5, <2>6, StartReadDisk
<1> QED
  BY <1>2, <1>6, <1>7

\* A read ends: the block holds what the medium does, or is as it was.
LEMMA NxcReadBlockDisk ==
    ASSUME TableInv, DiskInv, NEW t \in Thread, NxcReadBlock(t)
    PROVE  DiskInv'
<1> DEFINE e == Top(t)
           b == e.b
<1>1. PICK o \in BOOLEAN :
        IF o
        THEN /\ block' = [block EXCEPT ![b].data = disk[block[b].key], ![b].valid = TRUE, ![b].busy = FALSE]
             /\ Got(t, b)
        ELSE /\ block' = [block EXCEPT ![b].busy = FALSE, ![b].ref = @ - 1]
             /\ IF Len(stack[t]) = 2 THEN stack' = [stack EXCEPT ![t] = <<>>] ELSE Return(t, NoSlot, FALSE)
  BY Zenon DEF NxcReadBlock, Outcomes
<1>2. /\ Busy(t) /\ e.fn = "NxcGetBlock" /\ e.pc = "io" /\ mutex = NoThread
      /\ size' = size /\ alloc' = alloc /\ disk' = disk
  BY DEF NxcReadBlock, In
<1>3. e \in FrameType /\ Linked(block, e) /\ b \in Slots /\ TableInv'
  BY <1>2, GetFrame, NxcReadBlockStep
<1>4. block[b].key \in Key /\ Mine(t, b)
  BY <1>2, <1>3 DEF Linked, Transfers, Mine
<1>e. CanLock(t) /\ Top(t).fn # "NxcFlushMap" /\ Top(t).fn = "NxcGetBlock"
  BY <1>2 DEF CanLock
<1> HIDE DEF e, b
<1>5. block \in [Slots -> BlockType] /\ block[b] \in BlockType /\ block[b].ref \in Int
  BY <1>3, <1>4, BlockInfo
<1>6. CASE o = TRUE
  <2> DEFINE v == disk[block[b].key]
             r == [block[b] EXCEPT !.data = v, !.valid = TRUE, !.busy = FALSE]
  <2>1. block' = [block EXCEPT ![b].data = v, ![b].valid = TRUE, ![b].busy = FALSE] /\ Got(t, b)
    BY <1>1, <1>6
  <2>2. v \in Datum
    BY <1>4, Known DEF Rest
  <2>3. block' = [block EXCEPT ![b] = r]
    BY <1>3, <1>5, <2>1
  <2>4. BlockAs(r, block[b], v, block[b].ref, TRUE, block[b].dirty, FALSE, block[b].unsaved)
    <3> HIDE DEF v
    <3> QED
      BY <1>5, <2>2, SetDataValidBusy
  <2> HIDE DEF r
  <2>5. BlocksTurn(t)
    <3>1. Sure(block[b].key) => v = disk[block[b].key]
      OBVIOUS
    <3> HIDE DEF v
    <3> QED
      BY <1>2, <1>3, <1>4, <2>3, <2>4, <3>1, TurnKeyed
  <2>6. block'[b].busy = FALSE
    BY <1>3, <1>5, <2>3, <2>4 DEF BlockAs
  <2>7. Return(t, b, TRUE) /\ (Keeps(Below(t)) => mutex' = t)
    BY <2>1 DEF Got
  <2>8. Goes(t)
    BY <1>2, <1>3, <1>e, <2>6, <2>7, GoesBack
  <2> QED
    BY <1>2, <1>e, <2>5, <2>8, InnerStep DEF Continues
<1>7. CASE o = FALSE
  <2> DEFINE n == block[b].ref - 1
             r == [block[b] EXCEPT !.busy = FALSE, !.ref = n]
  <2>1. /\ block' = [block EXCEPT ![b].busy = FALSE, ![b].ref = @ - 1]
        /\ IF Len(stack[t]) = 2 THEN stack' = [stack EXCEPT ![t] = <<>>] ELSE Return(t, NoSlot, FALSE)
    BY <1>1, <1>7
  <2>2. n \in Int
    BY <1>5
  <2>3. block' = [block EXCEPT ![b] = r]
    BY <1>3, <1>5, <2>1
  <2>4. BlockAs(r, block[b], block[b].data, n, block[b].valid, block[b].dirty, FALSE, block[b].unsaved)
    <3> HIDE DEF n
    <3> QED
      BY <1>5, <2>2, SetBusyRef
  <2> HIDE DEF r
  <2>5. BlocksTurn(t)
    BY <1>2, <1>3, <2>3, <2>4, TurnKeyed
  <2>6. Goes(t)
    <3>1. CASE Len(stack[t]) = 2
      BY <1>2, <2>1, <3>1, GoesClear
    <3>2. CASE Len(stack[t]) # 2
      <4>1. Return(t, NoSlot, FALSE)
        BY <2>1, <3>2
      <4>2. NoSlot \in Slots \cup {NoSlot} /\ FALSE \in BOOLEAN /\ NoSlot \notin Slots
        BY SlotFacts
      <4> QED
        BY <1>2, <1>3, <1>e, <3>2, <4>1, <4>2, GoesBack
    <3> QED
      BY <3>1, <3>2
  <2> QED
    BY <1>2, <1>e, <2>5, <2>6, InnerStep DEF Continues
<1> QED
  BY <1>6, <1>7

\* A step of t inside a call that leaves a drop only when nothing is cut off.
LEMMA DropStep ==
    ASSUME TableInv, DiskInv, NEW t \in Thread, Busy(t), Enters(t) \/ Continues(t),
           BlocksTurn(t), mutex' = mutex \/ CanLock(t), Goes(t),
           Dropping(t) => \A b \in Slots : ~CutOff(b)'
    PROVE  DiskInv'
<1>1. TableInv' /\ Moves(t)
  BY ThreadStep
<1>2. /\ \A u \in Thread \ {t} : stack'[u] = stack[u]
      /\ stack'[t] # <<>> => stack'[t][1].fn = stack[t][1].fn
  BY <1>1, BottomStays
<1>3. Pinner(t)'
  BY <1>2 DEF DiskInv, Pinner, Busy
<1>4. StackTurns(t)
  BY <1>2, <1>3 DEF StackTurns, Goes
<1> QED
  BY <1>1, <1>4, DiskStep

\* A call on the file that is no copy is alone on it: the blocks of the file
\* that its drop leaves would be in use by a copy, so it leaves none.
LEMMA DropsAll ==
    ASSUME TableInv, FileHeld, NEW t \in Thread, stack[t] # <<>>, stack[t][1].fn \notin CopyFns,
           NEW ks, Dropped(ks), ks \cap Data # {} => OnIt(t), NEW b \in Slots, block[b].key \in ks
    PROVE  block[b].key \notin Data
<1> SUFFICES ASSUME block[b].key \in Data
             PROVE  FALSE
  OBVIOUS
<1>1. b \in Blocks(ks)
  BY DEF Blocks
<1>2. ~block[b].busy
  BY <1>1 DEF Dropped
<1>3. block[b].ref # 0
  BY <1>1 DEF Dropped, Droppable
<1>4. UsersOf(b) # {}
  <2>1. /\ block[b].ref = Cardinality(TransfersOf(b)) + Cardinality(UsersOf(b))
        /\ Cardinality(TransfersOf(b)) = 0
    BY <1>2 DEF TableInv, Counted, RefsExact
  <2>2. UsersOf(b) = {} => Cardinality(UsersOf(b)) = 0
    BY FS_EmptySet
  <2> QED
    BY <1>3, <2>1, <2>2
<1>p. PICK u \in Thread : \E j \in DOMAIN stack[u] : stack[u][j].m = b
  BY <1>4 DEF UsersOf, Frames, At
<1>5. PICK i \in DOMAIN stack[u] : stack[u][i].m = b
  BY <1>p
<1>6. stack[u] \in Seq(FrameType) /\ Shaped(stack[u]) /\ Linked(block, stack[u][i])
  BY Known DEF TableInv, Stacks
<1>7. stack[u][i].fn \in CopyFns
  BY <1>5, <1>6 DEF Linked
<1>8. i = 1
  <2>1. i > 1 => stack[u][i].fn \in {"NxcGetBlock", "NxcFlushMap", "NxcFlushBlock"}
    BY <1>6, AboveBottom
  <2>2. i \in Nat /\ i >= 1
    BY <1>6
  <2>3. ~(i > 1)
    BY <1>7, <2>1 DEF CopyFns
  <2> QED
    BY <2>2, <2>3
<1>9. OnIt(u)
  <2>1. stack[u][1].ks # {} /\ stack[u][1].ks \subseteq Data
    BY <1>6, <1>7, <1>8 DEF Shaped, Formed
  <2>2. stack[u] # <<>> /\ stack[u][1].fn # "NxcFlushMap"
    BY <1>6, <1>7, <1>8 DEF CopyFns
  <2> QED
    BY <2>1, <2>2 DEF OnIt
<1>10. OnIt(t) /\ t # u
  BY <1>7, <1>8
<1> QED
  BY <1>9, <1>10 DEF FileHeld, CopyFns

\* A thread lets others at the table.
LEMMA NxcShortWaitDisk ==
    ASSUME TableInv, DiskInv, NEW t \in Thread, NxcShortWait(t)
    PROVE  DiskInv'
<1> DEFINE e == Top(t)
<1>1. /\ block' = block /\ size' = size /\ alloc' = alloc /\ disk' = disk /\ CanLock(t)
  BY DEF NxcShortWait
<1>2. Busy(t) /\ e.fn \in {"NxcGetBlock", "NxcFlushMap"} /\ (ClaimBlocked(t) => e.fn = "NxcGetBlock")
  BY DEF NxcShortWait, ClaimBlocked, GetBlocked, FlushBlocked, In
<1>3. BlocksTurn(t) /\ Continues(t) /\ Plain(e)
  BY <1>1, <1>2, TurnSame DEF Continues, Plain, CopyFns
<1>4. CASE stack' = stack
  <2>1. Goes(t)
    BY <1>1, <1>3, <1>4, GoesSame
  <2> QED
    BY <1>1, <1>2, <1>3, <1>4, <2>1, InnerStep
<1>5. CASE ClaimBlocked(t) /\ SetTop(t, [e EXCEPT !.pc = "claim"])
  <2>1. e \in FrameType /\ e = Top(t)
    BY <1>2, TopFacts
  <2> HIDE DEF e
  <2>2. PICK f : f = [e EXCEPT !.pc = "claim"]
    OBVIOUS
  <2>3. FieldsAs(f, e, "claim", e.todo, e.b, e.m, e.ok)
    BY <2>1, <2>2, SetPc DEF Points
  <2>4. f \in FrameType /\ f.fn = e.fn /\ f.ks = e.ks
    BY <2>3 DEF FieldsAs
  <2>5. Plain(f) /\ SetTop(t, f) /\ e.fn # "NxcFlushMap"
    BY <1>2, <1>5, <2>2, <2>4 DEF Plain, CopyFns
  <2>6. Goes(t)
    BY <1>1, <1>2, <2>1, <2>4, <2>5, GoesOne
  <2> QED
    BY <1>1, <1>2, <1>3, <2>1, <2>5, <2>6, InnerStep
<1> QED
  BY <1>4, <1>5 DEF NxcShortWait

\* Idle blocks of a range are dropped.
LEMMA FlushMapDropDisk ==
    ASSUME TableInv, DiskInv, NEW t \in Thread, FlushMapDrop(t)
    PROVE  DiskInv'
<1> DEFINE B == Droppable(Top(t).ks)
<1>1. /\ block' = [b \in Slots |-> IF b \in B THEN EmptyBlock ELSE block[b]]
      /\ stack' = stack /\ size' = size /\ alloc' = alloc /\ disk' = disk /\ CanLock(t)
  BY DEF FlushMapDrop
<1>2. Busy(t) /\ Top(t).fn = "NxcFlushMap"
  BY DEF FlushMapDrop, In
<1>3. ASSUME NEW b \in B, b \in Slots
      PROVE  block[b].busy = FALSE
  <2>1. block[b].busy => b < b
    BY DEF Droppable
  <2>2. ~(b < b)
    BY <1>3, SlotFacts
  <2>3. block[b].busy \in BOOLEAN
    BY <1>3, Known, SlotState
  <2> QED
    BY <2>1, <2>2, <2>3
<1> HIDE DEF B
<1>4. BlocksTurn(t)
  BY <1>1, <1>3, TurnEmptied
<1>5. Goes(t)
  BY <1>1, <1>2, GoesSame DEF Plain, CopyFns
<1> QED
  BY <1>1, <1>2, <1>4, <1>5, InnerStep DEF Continues

\* The end of NxcFlushMap.
LEMMA FlushMapDoneDisk ==
    ASSUME TableInv, DiskInv, FileHeld, NEW t \in Thread, FlushMapDone(t)
    PROVE  DiskInv'
<1>1. /\ Busy(t) /\ Top(t).fn = "NxcFlushMap" /\ (Top(t).pc = "drop" => Dropped(Top(t).ks))
      /\ block' = block /\ size' = size /\ alloc' = alloc /\ disk' = disk /\ CanLock(t)
      /\ (stack' = [stack EXCEPT ![t] = <<>>] \/ Pop(t))
  BY DEF FlushMapDone, In
<1>2. Goes(t)
  BY <1>1, GoesClear, GoesNone, FlushMapDoneStep
<1>3. BlocksTurn(t)
  BY <1>1, TurnSame
<1>4. ASSUME Dropping(t), NEW b \in Slots, CutOff(b)'
      PROVE  FALSE
  <2>1. Top(t) = stack[t][1] /\ stack[t] # <<>> /\ Top(t).pc = "drop"
    BY <1>4, DroppingTop DEF Busy
  <2>2. block[b].key \in Data /\ ~Inside(block[b].key, alloc)
    BY <1>1, <1>4 DEF CutOff
  <2>3. block[b].key \in stack[t][1].ks
    BY <1>4, <2>2 DEF Dropping
  <2>4. Dropped(stack[t][1].ks) /\ OnIt(t) /\ stack[t][1].fn \notin CopyFns
    BY <1>1, <2>1, <2>2, <2>3 DEF OnIt, CopyFns
  <2> QED
    BY <2>1, <2>2, <2>3, <2>4, DropsAll
<1> QED
  BY <1>1, <1>2, <1>3, <1>4, DropStep DEF Continues

\* A purge.
LEMMA PurgeBlocksDisk ==
    ASSUME TableInv, DiskInv, NEW t \in Thread, PurgeBlocks(t)
    PROVE  DiskInv'
<1> DEFINE B == Blocks(Top(t).ks)
<1>1. /\ Busy(t) /\ Top(t).fn = "CcPurgeCacheSection" /\ Pop(t)
      /\ mutex' = mutex /\ size' = size /\ alloc' = alloc /\ disk' = disk
  BY DEF PurgeBlocks, In
<1>2. \/ /\ \A b \in B : Idle(b)
         /\ block' = [b \in Slots |-> IF b \in B THEN EmptyBlock ELSE block[b]]
      \/ block' = block
  BY DEF PurgeBlocks
<1>3. Goes(t)
  BY <1>1, GoesNone, PurgeBlocksStep
<1> HIDE DEF B
<1>4. BlocksTurn(t)
  <2>1. CASE block' = block
    BY <1>1, <2>1, TurnSame
  <2>2. CASE /\ \A b \in B : Idle(b)
             /\ block' = [b \in Slots |-> IF b \in B THEN EmptyBlock ELSE block[b]]
    <3>1. ASSUME NEW b \in B, b \in Slots
          PROVE  block[b].busy = FALSE
      BY <2>2, <3>1, Known, SlotState DEF Idle
    <3> QED
      BY <1>1, <2>2, <3>1, TurnEmptied
  <2> QED
    BY <1>2, <2>1, <2>2
<1> QED
  BY <1>1, <1>3, <1>4, InnerStep DEF Continues

\* A step of the close.
LEMMA UninitializeDisk ==
    ASSUME TableInv, DiskInv, NEW t \in Thread, Uninitialize(t)
    PROVE  DiskInv'
<1> DEFINE e == Top(t)
<1>1. /\ Busy(t) /\ e.fn = "CcUninitializeCacheMap" /\ mutex = t
      /\ block' = block /\ size' = size /\ alloc' = alloc /\ disk' = disk
  BY Zenon DEF Uninitialize
<1>2. \/ Pop(t)
      \/ \E p \in {"drop", "free"}, q \in {"flush", "drop"} :
           Push(t, [e EXCEPT !.pc = p], Flushing(q, Data))
  BY Zenon DEF Uninitialize, LastPass
<1>3. e \in FrameType /\ e = Top(t)
  BY <1>1, TopFacts
<1>t. CanLock(t) /\ Top(t).fn # "NxcFlushMap"
  BY <1>1 DEF CanLock
<1> HIDE DEF e
<1>4. Goes(t)
  <2>1. CASE Pop(t)
    BY <1>1, <2>1, GoesNone, UninitializeStep
  <2>2. ASSUME NEW p \in {"drop", "free"}, NEW q \in {"flush", "drop"},
               Push(t, [e EXCEPT !.pc = p], Flushing(q, Data))
        PROVE  Goes(t)
    <3>1. PICK f : f = [e EXCEPT !.pc = p]
      OBVIOUS
    <3>2. PICK g : g = Flushing(q, Data)
      OBVIOUS
    <3>3. FieldsAs(f, e, p, e.todo, e.b, e.m, e.ok)
      BY <1>3, <3>1, SetPc DEF Points
    <3>4. f \in FrameType /\ f.fn = e.fn /\ f.ks = e.ks
      BY <3>3 DEF FieldsAs
    <3>5. g \in FrameType /\ g.fn = "NxcFlushMap"
      BY <3>2, KeyFacts, MapFrame
    <3>6. Asks(size, g) /\ Plain(g) /\ Push(t, f, g)
      BY <2>2, <3>1, <3>2, <3>5 DEF Asks, Plain, CopyFns
    <3> QED
      BY <1>1, <1>3, <3>4, <3>5, <3>6, GoesTwo
  <2> QED
    BY <1>2, <2>1, <2>2
<1>5. BlocksTurn(t)
  BY <1>1, TurnSame
<1> QED
  BY <1>1, <1>t, <1>4, <1>5, InnerStep DEF Continues

\* A step of NxcFlushAll.
LEMMA FlushAllMapsDisk ==
    ASSUME TableInv, DiskInv, NEW t \in Thread, FlushAllMaps(t)
    PROVE  DiskInv'
<1> DEFINE e == Top(t)
<1>1. /\ Busy(t) /\ e.fn = "NxcFlushAll" /\ CanLock(t) /\ block' = block /\ size' = size /\ alloc' = alloc /\ disk' = disk
  BY DEF FlushAllMaps, In
<1>2. \/ \E K \in {Data, Fat} : Push(t, e, Flushing("flush", K))
      \/ Pop(t)
  BY DEF FlushAllMaps
<1>3. e \in FrameType /\ e = Top(t)
  BY <1>1, TopFacts
<1> HIDE DEF e
<1>4. Goes(t)
  <2>1. CASE Pop(t)
    BY <1>1, <2>1, GoesNone, FlushAllMapsStep
  <2>2. ASSUME NEW K \in {Data, Fat}, Push(t, e, Flushing("flush", K))
        PROVE  Goes(t)
    <3>1. PICK g : g = Flushing("flush", K)
      OBVIOUS
    <3>2. g \in FrameType /\ g.fn = "NxcFlushMap"
      BY <3>1, KeyFacts, MapFrame
    <3>3. Asks(size, g) /\ Plain(g) /\ Push(t, e, g)
      BY <2>2, <3>1, <3>2 DEF Asks, Plain, CopyFns
    <3> QED
      BY <1>1, <1>3, <3>2, <3>3, GoesTwo
  <2> QED
    BY <1>2, <2>1, <2>2
<1>5. BlocksTurn(t) /\ Top(t).fn # "NxcFlushMap"
  BY <1>1, <1>3, TurnSame
<1> QED
  BY <1>1, <1>4, <1>5, InnerStep DEF Continues

\* To shrink the cache.
LEMMA ShrinkCacheDisk ==
    ASSUME TableInv, DiskInv, NEW t \in Thread, ShrinkCache(t)
    PROVE  DiskInv'
<1> DEFINE e == Top(t)
           idle == {b \in Visible : block[b].live /\ Idle(b)}
           b == Min(idle)
<1>1. /\ Busy(t) /\ e.fn = "FscSetCacheSize" /\ mutex = t /\ size' = size /\ alloc' = alloc /\ disk' = disk /\ Continues(t)
  BY Zenon DEF ShrinkCache, In, Continues
<1>2. \/ idle # {} /\ block[b].dirty /\ StartFlush(t, b, e)
      \/ idle # {} /\ block' = [block EXCEPT ![b] = RetiredBlock] /\ stack' = stack
      \/ Pop(t) /\ block' = block
  BY Zenon DEF ShrinkCache
<1>3. e \in FrameType /\ e = Top(t)
  BY <1>1, TopFacts
<1>4. idle # {} => b \in Slots /\ block[b].busy = FALSE
  <2> SUFFICES ASSUME idle # {}
               PROVE  b \in Slots /\ block[b].busy = FALSE
    OBVIOUS
  <2>1. idle \subseteq Nat
    BY SlotFacts
  <2>2. b \in idle
    BY <2>1, MinIn
  <2> HIDE DEF b
  <2>3. b \in Slots /\ ~block[b].busy
    BY <2>2 DEF Idle, Slots
  <2> QED
    BY <2>3, Known, SlotState
<1>t. CanLock(t) /\ Top(t).fn # "NxcFlushMap" /\ Plain(Top(t))
  BY <1>1 DEF CanLock, Plain, CopyFns
<1> HIDE DEF e, b, idle
<1>5. CASE idle # {} /\ block[b].dirty /\ StartFlush(t, b, e)
  <2>1. block[b].key \in Key
    BY <1>4, <1>5, Known, SlotState
  <2> QED
    BY <1>1, <1>3, <1>4, <1>5, <1>t, <2>1, StartFlushDisk
<1>6. CASE idle # {} /\ block' = [block EXCEPT ![b] = RetiredBlock] /\ stack' = stack
  <2>1. PICK r : r = RetiredBlock
    OBVIOUS
  <2>2. r.valid = FALSE /\ r.busy = FALSE /\ r.key \notin Data
    BY <2>1, EmptyFacts, KeyFacts
  <2>3. BlocksTurn(t)
    BY <1>1, <1>4, <1>6, <2>1, <2>2, TurnOne
  <2>4. Goes(t)
    BY <1>1, <1>6, <1>t, GoesSame
  <2> QED
    BY <1>1, <1>t, <2>3, <2>4, InnerStep
<1>7. CASE Pop(t) /\ block' = block
  <2>1. BlocksTurn(t) /\ Goes(t)
    BY <1>1, <1>7, TurnSame, GoesNone, ShrinkCacheStep
  <2> QED
    BY <1>1, <1>t, <2>1, InnerStep
<1> QED
  BY <1>2, <1>5, <1>6, <1>7

\* t enters with a call of f that asks for blocks of before the end of the file,
\* and leaves the blocks alone.
LEMMA EntersOneDisk ==
    ASSUME TableInv, DiskInv, NEW t \in Thread, ~Busy(t), Enters(t), NEW f \in FrameType, Begin(t, <<f>>),
           f.fn \notin CopyFns \cup Transfers \cup {"CcPinRead"},
           block' = block, disk' = disk, size' = size /\ alloc' = alloc, mutex' = mutex \/ CanLock(t)
    PROVE  DiskInv'
<1>1. Asks(size, f) /\ Plain(f) /\ f.fn # "CcPinRead"
  BY DEF Asks, Plain, Transfers
<1>2. Goes(t) /\ stack'[t][1] = f
  BY <1>1, GoesInOne
<1>3. Pinner(t)' /\ BlocksTurn(t)
  BY <1>1, <1>2, TurnSame DEF Pinner
<1> QED
  BY <1>2, <1>3, OuterStep

\* The same with a call that makes another.
LEMMA EntersTwoDisk ==
    ASSUME TableInv, DiskInv, NEW t \in Thread, ~Busy(t), Enters(t), NEW f \in FrameType, NEW g \in FrameType,
           Begin(t, <<f, g>>), Asks(size, f), Asks(size, g), Plain(g),
           f.fn = "CcPinRead" => "CcPinRead" \in Calls[t],
           block' = block, disk' = disk, size' = size /\ alloc' = alloc, mutex' = mutex \/ CanLock(t)
    PROVE  DiskInv'
<1>1. Goes(t) /\ stack'[t][1] = f
  BY GoesInTwo
<1>2. Pinner(t)' /\ BlocksTurn(t)
  BY <1>1, TurnSame DEF Pinner
<1> QED
  BY <1>1, <1>2, OuterStep

\* A step of t that does not bring it inside.
LEMMA EntersNotDisk ==
    ASSUME TableInv, DiskInv, NEW t \in Thread, ~Busy(t), Enters(t), BlocksTurn(t), stack' = stack,
           mutex' = mutex
    PROVE  DiskInv'
<1>1. size' = size /\ alloc' = alloc
  BY DEF BlocksTurn
<1>2. Goes(t) /\ Pinner(t)'
  BY <1>1, GoesSame DEF DiskInv, Pinner
<1> QED
  BY <1>2, OuterStep

\* An open.
LEMMA CcInitializeCacheMapDisk ==
    ASSUME TableInv, DiskInv, NEW t \in Thread, CcInitializeCacheMap(t)
    PROVE  DiskInv'
<1>1. /\ ~Busy(t) /\ block' = block /\ disk' = disk /\ size' = size /\ alloc' = alloc /\ stack' = stack /\ mutex' = mutex
  BY DEF CcInitializeCacheMap, Enter
<1>2. Enters(t) /\ BlocksTurn(t)
  BY <1>1, TurnSame DEF Enters
<1> QED
  BY <1>1, <1>2, EntersNotDisk

\* A copy asks for blocks of before the end of the file.
LEMMA CopyBeginsDisk ==
    ASSUME TableInv, DiskInv, NEW t \in Thread, ~Busy(t), Enters(t), NEW fn \in CopyFns,
           NEW pc \in {"copy", "through"}, NEW ks \in Ranges({k \in Data : InFile(k)}),
           Begin(t, <<Frame(fn, pc, ks), Getting(ks)>>),
           block' = block, disk' = disk, size' = size /\ alloc' = alloc, mutex' = mutex
    PROVE  DiskInv'
<1>1. ks # {} /\ ks \subseteq Key /\ ks \in SUBSET Key /\ \A k \in ks : Inside(k, size)
  <2>1. ks \subseteq {k \in Data : InFile(k)} /\ ks # {}
    BY DEF Ranges
  <2> QED
    BY <2>1, KeyFacts DEF InFile
<1>2. PICK f : f = Frame(fn, pc, ks)
  OBVIOUS
<1>3. PICK g : g = Getting(ks)
  OBVIOUS
<1>4. fn \in Fns /\ pc \in Points /\ fn # "CcPinRead"
  BY DEF Fns, EntryFns, CopyFns, Points
<1>5. NewAs(f, fn, pc, ks)
  BY <1>1, <1>2, <1>4, NewFrame
<1>6. f \in FrameType /\ f.fn = fn /\ f.ks = ks
  BY <1>5 DEF NewAs
<1>7. g \in FrameType /\ g.fn = "NxcGetBlock" /\ g.ks \subseteq ks
  BY <1>1, <1>3, GettingFrame
<1>8. Asks(size, f) /\ Asks(size, g) /\ Plain(g)
  BY <1>1, <1>6, <1>7 DEF Asks, Plain, CopyFns
<1>9. Begin(t, <<f, g>>)
  BY <1>2, <1>3
<1> QED
  BY <1>4, <1>6, <1>7, <1>8, <1>9, EntersTwoDisk

\* A read,
LEMMA CcCopyReadDisk ==
    ASSUME TableInv, DiskInv, NEW t \in Thread, CcCopyRead(t)
    PROVE  DiskInv'
<1>1. /\ ~Busy(t) /\ block' = block /\ mutex' = mutex /\ size' = size /\ alloc' = alloc /\ disk' = disk /\ Enters(t)
  BY DEF CcCopyRead, Enter, Enters
<1>2. PICK ks \in Ranges({k \in Data : InFile(k)}) :
        Begin(t, <<Frame("CcCopyRead", "copy", ks), Getting(ks)>>)
  BY DEF CcCopyRead
<1>3. "CcCopyRead" \in CopyFns
  BY DEF CopyFns
<1> QED
  BY <1>1, <1>2, <1>3, CopyBeginsDisk

\* a write,
LEMMA CcCopyWriteDisk ==
    ASSUME TableInv, DiskInv, NEW t \in Thread, CcCopyWrite(t)
    PROVE  DiskInv'
<1>1. /\ ~Busy(t) /\ block' = block /\ mutex' = mutex /\ size' = size /\ alloc' = alloc /\ disk' = disk /\ Enters(t)
  BY DEF CcCopyWrite, Enter, Enters
<1>2. PICK ks \in Ranges({k \in Data : InFile(k)}), pc \in {"copy", "through"} :
        Begin(t, <<Frame("CcCopyWrite", pc, ks), Getting(ks)>>)
  BY DEF CcCopyWrite
<1>3. "CcCopyWrite" \in CopyFns
  BY DEF CopyFns
<1> QED
  BY <1>1, <1>2, <1>3, CopyBeginsDisk

\* a pin, by a thread that pins,
LEMMA CcPinReadDisk ==
    ASSUME TableInv, DiskInv, NEW t \in Thread, CcPinRead(t)
    PROVE  DiskInv'
<1>1. /\ ~Busy(t) /\ block' = block /\ mutex' = mutex /\ size' = size /\ alloc' = alloc /\ disk' = disk /\ Enters(t)
      /\ "CcPinRead" \in Calls[t]
  BY DEF CcPinRead, Enter, Enters
<1>2. PICK k \in Fat : Begin(t, <<Frame("CcPinRead", "pinned", {k}), Getting({k})>>)
  BY DEF CcPinRead
<1>3. PICK f : f = Frame("CcPinRead", "pinned", {k})
  OBVIOUS
<1>4. PICK g : g = Getting({k})
  OBVIOUS
<1>5. "CcPinRead" \in Fns /\ "pinned" \in Points /\ {k} \in SUBSET Key /\ {k} \subseteq Key /\ {k} # {}
  BY KeyFacts DEF Fns, EntryFns, Points
<1>6. NewAs(f, "CcPinRead", "pinned", {k})
  BY <1>3, <1>5, NewFrame
<1>7. f \in FrameType /\ f.fn = "CcPinRead" /\ f.ks = {k}
  BY <1>6 DEF NewAs
<1>8. g \in FrameType /\ g.fn = "NxcGetBlock" /\ g.ks \subseteq {k}
  BY <1>4, <1>5, GettingFrame
<1>9. Asks(size, f) /\ Asks(size, g) /\ Plain(g)
  BY <1>7, <1>8 DEF Asks, Plain, CopyFns, Inside
<1>10. Begin(t, <<f, g>>)
  BY <1>2, <1>3, <1>4
<1> QED
  BY <1>1, <1>7, <1>8, <1>9, <1>10, EntersTwoDisk

\* a flush,
LEMMA CcFlushCacheDisk ==
    ASSUME TableInv, DiskInv, NEW t \in Thread, CcFlushCache(t)
    PROVE  DiskInv'
<1>1. /\ ~Busy(t) /\ block' = block /\ mutex' = mutex /\ size' = size /\ alloc' = alloc /\ disk' = disk /\ Enters(t)
  BY DEF CcFlushCache, Enter, Enters
<1>2. PICK K \in {Data, Fat} : Begin(t, <<Flushing("flush", K)>>)
  BY DEF CcFlushCache
<1>3. PICK f : f = Flushing("flush", K)
  OBVIOUS
<1>4. f \in FrameType /\ f.fn = "NxcFlushMap"
  BY <1>3, KeyFacts, MapFrame
<1>5. f.fn \notin CopyFns \cup Transfers \cup {"CcPinRead"} /\ Begin(t, <<f>>)
  BY <1>2, <1>3, <1>4 DEF CopyFns, Transfers
<1> QED
  BY <1>1, <1>4, <1>5, EntersOneDisk

\* a purge,
LEMMA CcPurgeCacheSectionDisk ==
    ASSUME TableInv, DiskInv, NEW t \in Thread, CcPurgeCacheSection(t)
    PROVE  DiskInv'
<1>1. /\ ~Busy(t) /\ block' = block /\ mutex' = mutex /\ size' = size /\ alloc' = alloc /\ disk' = disk /\ Enters(t)
  BY DEF CcPurgeCacheSection, Enter, Enters
<1>2. PICK ks \in Ranges(Data) : Begin(t, <<Frame("CcPurgeCacheSection", "purge", ks)>>)
  BY DEF CcPurgeCacheSection
<1>3. PICK f : f = Frame("CcPurgeCacheSection", "purge", ks)
  OBVIOUS
<1>4. "CcPurgeCacheSection" \in Fns /\ "purge" \in Points /\ ks \in SUBSET Key
  BY RangeOf DEF Fns, EntryFns, Points
<1>5. NewAs(f, "CcPurgeCacheSection", "purge", ks)
  BY <1>3, <1>4, NewFrame
<1>6. f \in FrameType /\ f.fn = "CcPurgeCacheSection"
  BY <1>5 DEF NewAs
<1>7. f.fn \notin CopyFns \cup Transfers \cup {"CcPinRead"} /\ Begin(t, <<f>>)
  BY <1>2, <1>3, <1>6 DEF CopyFns, Transfers
<1> QED
  BY <1>1, <1>6, <1>7, EntersOneDisk

\* a close,
LEMMA CcUninitializeCacheMapDisk ==
    ASSUME TableInv, DiskInv, NEW t \in Thread, CcUninitializeCacheMap(t)
    PROVE  DiskInv'
<1> DEFINE K == {k \in Data : ~InFile(k)}
<1>1. /\ ~Busy(t) /\ block' = block /\ mutex' = mutex /\ size' = size /\ alloc' = alloc /\ disk' = disk /\ Enters(t)
  BY DEF CcUninitializeCacheMap, Enter, Enters
<1>2. Begin(t, <<Frame("CcUninitializeCacheMap", "close", Data), Flushing("drop", K)>>)
  BY DEF CcUninitializeCacheMap
<1>3. PICK f : f = Frame("CcUninitializeCacheMap", "close", Data)
  OBVIOUS
<1>4. PICK g : g = Flushing("drop", K)
  OBVIOUS
<1>5. "CcUninitializeCacheMap" \in Fns /\ "close" \in Points /\ Data \in SUBSET Key /\ K \subseteq Key
  BY KeyFacts DEF Fns, EntryFns, Points
<1>6. NewAs(f, "CcUninitializeCacheMap", "close", Data)
  BY <1>3, <1>5, NewFrame
<1>7. f \in FrameType /\ f.fn = "CcUninitializeCacheMap"
  BY <1>6 DEF NewAs
<1>8. g \in FrameType /\ g.fn = "NxcFlushMap"
  BY <1>4, <1>5, MapFrame
<1>9. Begin(t, <<f, g>>)
  BY <1>2, <1>3, <1>4
<1>10. Asks(size, f) /\ Asks(size, g) /\ Plain(g) /\ f.fn # "CcPinRead"
  BY <1>7, <1>8 DEF Asks, Plain, CopyFns
<1> HIDE DEF K
<1> QED
  BY <1>1, <1>7, <1>8, <1>9, <1>10, EntersTwoDisk

\* a flush of everything,
LEMMA NxcFlushAllDisk ==
    ASSUME TableInv, DiskInv, NEW t \in Thread, NxcFlushAll(t)
    PROVE  DiskInv'
<1>1. /\ ~Busy(t) /\ block' = block /\ mutex' = mutex /\ size' = size /\ alloc' = alloc /\ disk' = disk /\ Enters(t)
      /\ Begin(t, <<Frame("NxcFlushAll", "scan", {})>>)
  BY DEF NxcFlushAll, Enter, Enters
<1>2. PICK f : f = Frame("NxcFlushAll", "scan", {})
  OBVIOUS
<1>3. "NxcFlushAll" \in Fns /\ "scan" \in Points /\ {} \in SUBSET Key
  BY DEF Fns, EntryFns, Points
<1>4. NewAs(f, "NxcFlushAll", "scan", {})
  BY <1>2, <1>3, NewFrame
<1>5. f \in FrameType /\ f.fn = "NxcFlushAll"
  BY <1>4 DEF NewAs
<1>6. f.fn \notin CopyFns \cup Transfers \cup {"CcPinRead"} /\ Begin(t, <<f>>)
  BY <1>1, <1>2, <1>5 DEF CopyFns, Transfers
<1> QED
  BY <1>1, <1>5, <1>6, EntersOneDisk

\* a change of the cache's size,
LEMMA FscSetCacheSizeDisk ==
    ASSUME TableInv, DiskInv, NEW t \in Thread, FscSetCacheSize(t)
    PROVE  DiskInv'
<1>1. ~Busy(t) /\ size' = size /\ alloc' = alloc /\ disk' = disk /\ mutex = NoThread /\ Enters(t)
  BY DEF FscSetCacheSize, Enter, Enters
<1>2. PICK target \in NXC_MIN_BLOCKS .. NXC_MAX_BLOCKS \ {active} :
        \/ \E B \in SUBSET {b \in Visible : ~block[b].live} :
             /\ block' = [b \in Slots |-> IF b \in B THEN EmptyBlock ELSE block[b]]
             /\ stack' = stack /\ mutex' = mutex
        \/ /\ Begin(t, <<[Frame("FscSetCacheSize", "shrink", {}) EXCEPT !.b = target]>>)
           /\ block' = block
  BY Zenon DEF FscSetCacheSize
<1>3. ASSUME NEW B \in SUBSET {b \in Visible : ~block[b].live},
             block' = [b \in Slots |-> IF b \in B THEN EmptyBlock ELSE block[b]],
             stack' = stack, mutex' = mutex
      PROVE  DiskInv'
  <2>1. ASSUME NEW b \in B, b \in Slots
        PROVE  block[b].busy = FALSE
    <3>1. ~block[b].live
      BY <1>3
    <3>2. TableOK
      BY Known
    <3> QED
      BY <2>1, <3>1, <3>2, SlotState
  <2>2. BlocksTurn(t)
    BY <1>1, <1>3, <2>1, TurnEmptied
  <2> QED
    BY <1>1, <1>3, <2>2, EntersNotDisk
<1>4. CASE /\ Begin(t, <<[Frame("FscSetCacheSize", "shrink", {}) EXCEPT !.b = target]>>) /\ block' = block
  <2>1. PICK h : h = Frame("FscSetCacheSize", "shrink", {})
    OBVIOUS
  <2>2. PICK f : f = [h EXCEPT !.b = target]
    OBVIOUS
  <2>3. "FscSetCacheSize" \in Fns /\ "shrink" \in Points /\ {} \in SUBSET Key /\ target \in Int
    BY CacheAssumption DEF Fns, EntryFns, Points
  <2>4. NewAs(h, "FscSetCacheSize", "shrink", {})
    BY <2>1, <2>3, NewFrame
  <2>5. h \in FrameType /\ h.fn = "FscSetCacheSize"
    BY <2>4 DEF NewAs
  <2>6. FieldsAs(f, h, h.pc, h.todo, target, h.m, h.ok)
    BY <2>2, <2>3, <2>5, SetB
  <2>7. f \in FrameType /\ f.fn = "FscSetCacheSize"
    BY <2>5, <2>6 DEF FieldsAs
  <2>8. f.fn \notin CopyFns \cup Transfers \cup {"CcPinRead"} /\ Begin(t, <<f>>) /\ CanLock(t)
    BY <1>1, <1>4, <2>1, <2>2, <2>7 DEF CopyFns, Transfers, CanLock
  <2> QED
    BY <1>1, <1>4, <2>7, <2>8, EntersOneDisk
<1> QED
  BY <1>2, <1>3, <1>4

\* and the invalidation of idle blocks.
LEMMA FscInvalidateIdleBlocksDisk ==
    ASSUME TableInv, DiskInv, NEW t \in Thread, FscInvalidateIdleBlocks(t)
    PROVE  DiskInv'
<1> DEFINE B == {b \in Blocks(Key) : Idle(b) /\ ~block[b].dirty}
<1>1. /\ block' = [b \in Slots |-> IF b \in B THEN EmptyBlock ELSE block[b]]
      /\ ~Busy(t) /\ mutex' = mutex /\ size' = size /\ alloc' = alloc /\ disk' = disk /\ stack' = stack /\ Enters(t)
  BY DEF FscInvalidateIdleBlocks, Enter, Enters
<1>2. ASSUME NEW b \in B, b \in Slots
      PROVE  block[b].busy = FALSE
  BY <1>2, Known, SlotState DEF Idle
<1> HIDE DEF B
<1>3. BlocksTurn(t)
  BY <1>1, <1>2, TurnEmptied
<1> QED
  BY <1>1, <1>3, EntersNotDisk

\* A call that copies or gets a block of the file is a call on the file.
LEMMA AsksOnIt ==
    ASSUME TableInv, NEW u \in Thread, NEW i \in DOMAIN stack[u], NEW k \in stack[u][i].ks, k \in Data,
           stack[u][i].fn \in CopyFns \cup {"NxcGetBlock"}
    PROVE  OnIt(u)
<1> DEFINE s == stack[u]
<1>1. s \in Seq(FrameType) /\ Shaped(s) /\ i \in Nat /\ i >= 1 /\ s # <<>> /\ 1 \in DOMAIN s
  BY Known
<1> HIDE DEF s
<1>2. ASSUME NEW j \in DOMAIN s, s[j].fn \in CopyFns
      PROVE  j = 1 /\ s[1].ks \cap Data # {} /\ s[1].fn # "NxcFlushMap"
  <2>1. j \in Nat /\ j >= 1
    BY <1>1
  <2>2. ~(j > 1)
    <3>1. j > 1 => s[j].fn \in {"NxcGetBlock", "NxcFlushMap", "NxcFlushBlock"}
      BY <1>1, AboveBottom
    <3> QED
      BY <1>2, <3>1 DEF CopyFns
  <2>3. j = 1
    BY <2>1, <2>2
  <2>4. Formed(s[1])
    BY <1>1 DEF Shaped
  <2> QED
    BY <1>2, <2>3, <2>4 DEF Formed, CopyFns
<1>3. CASE s[i].fn \in CopyFns
  BY <1>1, <1>2, <1>3 DEF OnIt, s
<1>4. CASE s[i].fn = "NxcGetBlock"
  <2>1. i # 1
    BY <1>1, <1>4 DEF Shaped, EntryFns, CopyFns
  <2>2. i > 1
    BY <1>1, <2>1
  <2>3. i - 1 \in DOMAIN s /\ Waits(s[i - 1], s[i])
    BY <1>1, <2>2, AboveBottom DEF s
  <2>4. ~(s[i].ks \subseteq Fat)
    BY KeyFacts DEF s
  <2>5. s[i - 1].fn \in CopyFns
    BY <1>4, <2>3, <2>4 DEF Waits
  <2> QED
    BY <1>1, <1>2, <2>3, <2>5 DEF OnIt, s
<1> QED
  BY <1>3, <1>4 DEF s

\* The file gets another size: nobody else is on it, and what is cut off of it
\* is dropped before anybody comes in again.
LEMMA CcSetFileSizesDisk ==
    ASSUME TableInv, DiskInv, NoOrphan, NEW t \in Thread, CcSetFileSizes(t)
    PROVE  DiskInv'
<1>1. /\ stack[t] = <<>> /\ Exclusive(t) /\ mutex = NoThread /\ block' = block /\ mapped' = mapped
  BY DEF CcSetFileSizes, Enter, Busy
<1>2. PICK n \in Sizes, a \in Sizes :
        /\ size' = n /\ alloc' = a /\ Resizes(n, a)
        /\ \A k \in Key : ~(Inside(k, a) /\ ~Inside(k, alloc)) => disk'[k] = disk[k]
        /\ IF mapped /\ a < alloc
           THEN Begin(t, <<Flushing("drop", {k \in Data : ~Inside(k, a)})>>)
           ELSE stack' = stack /\ mutex' = mutex
  BY DEF CcSetFileSizes
<1>s. size' <= alloc'
  <2>1. size \in Int /\ alloc \in Int /\ n \in Int /\ a \in Int /\ size <= alloc
    BY CacheAssumption DEF TableInv, Types, Sizes, DiskInv
  <2>2. n <= a \/ (n = size /\ a > alloc)
    BY <1>2 DEF Resizes, Clusters
  <2>3. n <= a
    BY <2>1, <2>2
  <2> QED
    BY <1>2, <2>3
<1>3. \A u \in Thread : ~OnIt(u)
  BY <1>1, CallAtBottom DEF Exclusive, OnIt
<1>4. \A b \in Slots : ~CutOff(b)
  <2> SUFFICES ASSUME NEW b \in Slots, CutOff(b)
               PROVE  FALSE
    OBVIOUS
  <2>1. PICK u \in Thread : Dropping(u)
    BY DEF DiskInv
  <2>2. /\ stack[u] # <<>> /\ block[b].key \in stack[u][1].ks \cap Data
        /\ stack[u][1].pc = "drop"
    BY <2>1 DEF Dropping, CutOff
  <2> QED
    BY <1>3, <2>2 DEF OnIt
<1>5. \A b \in Slots : block[b].key \in Key => Inside(block[b].key, alloc)
  BY <1>4, KeyFacts DEF CutOff, Inside
<1>6. \A b \in Slots : block[b].key \in Key => disk'[block[b].key] = disk[block[b].key]
  BY <1>2, <1>5
<1>7. ASSUME NEW b \in Slots, Clean(b)'
      PROVE  Saved(b)'
  <2>1. Clean(b) /\ block[b].key \in Key
    BY <1>1, <1>7 DEF Clean
  <2>2. Saved(b)
    BY <2>1 DEF DiskInv
  <2> QED
    BY <1>1, <1>6, <2>1, <2>2 DEF Saved, Sure
<1> DEFINE K == {k \in Data : ~Inside(k, a)}
<1>8. PICK f : f = Flushing("drop", K)
  OBVIOUS
<1>9. f \in FrameType /\ f.fn = "NxcFlushMap" /\ f.pc = "drop" /\ f.ks = K
  <2>1. K \subseteq Key
    BY KeyFacts
  <2> QED
    BY <1>8, <2>1, MapFrame
<1>10. stack'[t] = IF mapped /\ a < alloc THEN <<f>> ELSE <<>>
  BY <1>1, <1>2, <1>8, Known DEF Begin
<1>11. \A u \in Thread \ {t} : stack'[u] = stack[u]
  BY <1>2, Known DEF Begin
<1>12. ASSUME NEW b \in Slots, CutOff(b)'
       PROVE  Dropping(t)'
  <2>1. block[b].key \in Data /\ ~Inside(block[b].key, a)
    BY <1>1, <1>2, <1>12 DEF CutOff
  <2>2. Inside(block[b].key, alloc) /\ block[b].key \in Key
    BY <1>5, <2>1, KeyFacts
  <2>3. a < alloc
    <3>1. block[b].key[2] < alloc /\ ~(block[b].key[2] < a)
      BY <2>1, <2>2, KeyFacts DEF Inside
    <3>2. block[b].key[2] \in Nat /\ alloc \in Int /\ a \in Int
      BY <2>2, KeyFacts, CacheAssumption DEF TableInv, Types, Sizes
    <3> QED
      BY <3>1, <3>2
  <2>4. mapped
    BY <2>1 DEF NoOrphan, Blocks
  <2>5. stack'[t] = <<f>>
    BY <1>10, <2>3, <2>4
  <2>6. stack'[t] # <<>> /\ stack'[t][1] = f
    BY <2>5
  <2>7. \A k \in Data : ~Inside(k, alloc') => k \in f.ks
    BY <1>2, <1>9
  <2> QED
    BY <1>9, <2>6, <2>7 DEF Dropping
<1>13. ASSUME NEW u \in Thread \ {t}
       PROVE  AtTop(u)' /\ AsksAll(u)' /\ Pinner(u)'
  <2>1. stack'[u] = stack[u] /\ AtTop(u) /\ AsksAll(u) /\ Pinner(u) /\ u # NoThread
    BY <1>11, CacheAssumption DEF DiskInv
  <2>2. Pinner(u)'
    BY <2>1 DEF Pinner
  <2>3. AsksAll(u)'
    <3> SUFFICES ASSUME NEW i \in DOMAIN stack[u], stack[u][i].fn \in CopyFns \cup {"NxcGetBlock"},
                        NEW k \in stack[u][i].ks
                 PROVE  Inside(k, size')
      BY <2>1 DEF AsksAll, Asks
    <3>1. k \notin Data
      BY <1>3, AsksOnIt
    <3>2. Inside(k, size)
      BY <2>1 DEF AsksAll, Asks
    <3> QED
      BY <3>1, <3>2 DEF Inside
  <2>4. AtTop(u)'
    <3> SUFFICES ASSUME stack[u] # <<>>
                 PROVE  AtTop(u)'
      BY <2>1 DEF AtTop
    <3>0. PICK g : g = TopOf(u)
      OBVIOUS
    <3>1. TopOf(u)' = g /\ g \in FrameType /\ Formed(g) /\ Linked(block, g)
      BY <2>1, <3>0, TopIs DEF TopOf
    <3>2. g.fn \notin CopyFns
      BY <1>1, <2>1, <3>0 DEF AtTop
    <3>3. ASSUME g.fn = "NxcFlushBlock", g.pc = "done", g.ok = TRUE
          PROVE  Saved(g.b)'
      <4>1. g.b \in Slots /\ block[g.b].key \in Key
        BY <3>1, <3>3 DEF Formed, Linked, Transfers
      <4>2. Saved(g.b)
        BY <2>1, <3>0, <3>3 DEF AtTop
      <4> QED
        BY <1>1, <1>6, <4>1, <4>2 DEF Saved, Sure
    <3> QED
      BY <3>1, <3>2, <3>3 DEF AtTop
  <2> QED
    BY <2>2, <2>3, <2>4
<1> HIDE DEF K
<1>14. AtTop(t)' /\ AsksAll(t)' /\ Pinner(t)'
  <2>1. CASE stack'[t] = <<>>
    BY <2>1 DEF AtTop, AsksAll, Pinner
  <2>2. CASE stack'[t] = <<f>>
    <3>1. /\ stack'[t] # <<>> /\ Len(stack'[t]) = 1 /\ stack'[t][1] = f
          /\ \A i \in DOMAIN stack'[t] : stack'[t][i] = f
      BY <2>2
    <3>2. TopOf(t)' = f
      BY <3>1 DEF TopOf
    <3> QED
      BY <1>9, <3>1, <3>2 DEF AtTop, AsksAll, Asks, Pinner, CopyFns
  <2> QED
    BY <1>10, <2>1, <2>2
<1> QED
  BY <1>s, <1>7, <1>12, <1>13, <1>14 DEF DiskInv

\* Nothing is cached, and no thread inside, at boot.
LEMMA InitDisk ==
    ASSUME Init
    PROVE  DiskInv
<1>1. \A t \in Thread : stack[t] = <<>>
  BY DEF Init
<1>2. \A b \in Slots : block[b].key = NoKey /\ block[b].valid = FALSE
  BY EmptyFacts DEF Init
<1>3. \A b \in Slots : ~CutOff(b)
  BY <1>2, KeyFacts DEF CutOff
<1>4. \A t \in Thread : AtTop(t) /\ AsksAll(t) /\ Pinner(t)
  BY <1>1 DEF AtTop, AsksAll, Pinner
<1>5. size <= alloc
  BY DEF Init, Clusters
<1> QED
  BY <1>2, <1>3, <1>4, <1>5 DEF DiskInv, Clean

\* Every step of a thread preserves it.
LEMMA ThreadDisk ==
    ASSUME TableInv, FileHeld, NoOrphan, DiskInv, NEW t \in Thread, Enters(t) \/ Continues(t)
    PROVE  DiskInv'
<1>1. CASE Enters(t)
  BY <1>1, Zenon, CcInitializeCacheMapDisk, CcUninitializeCacheMapDisk, CcSetFileSizesDisk, CcCopyReadDisk,
     CcCopyWriteDisk, CcPinReadDisk, CcFlushCacheDisk, CcPurgeCacheSectionDisk, NxcFlushAllDisk,
     FscSetCacheSizeDisk, FscInvalidateIdleBlocksDisk DEF Enters
<1>2. CASE Continues(t)
  BY <1>2, Zenon, GetHitDisk, GetRetryDisk, GetClaimDisk, GetEvictDisk, NxcReadBlockDisk, FsdUnmapDisk,
     NxcFlushIoDisk, NxcFlushBlockDisk, FlushMapWriteDisk, FlushMapDropDisk, FlushMapDoneDisk,
     NxcShortWaitDisk, CopyBlockDisk, CopyFaultDisk, PinnedWriteDisk, CcSetDirtyPinnedDataDisk, CcUnpinDataDisk,
     PurgeBlocksDisk, UninitializeDisk, FlushAllMapsDisk, ShrinkCacheDisk DEF Continues
<1> QED
  BY <1>1, <1>2

\* With the table invariant and what holds of the calls on the file, it is
\* inductive.
LEMMA DiskNext ==
    ASSUME TableInv, FileHeld, NoOrphan, DiskInv, [Next]_vars
    PROVE  DiskInv'
<1>1. CASE Next
  BY <1>1, ThreadDisk DEF Next
<1>2. CASE UNCHANGED vars
  <2>1. /\ block' = block /\ mutex' = mutex /\ size' = size /\ alloc' = alloc /\ disk' = disk /\ stack' = stack
    BY <1>2 DEF vars
  <2>2. \A b \in Slots : Clean(b)' => Saved(b)'
    BY <2>1 DEF DiskInv, Saved, Sure, Clean
  <2>3. \A b \in Slots : CutOff(b)' => \E t \in Thread : Dropping(t)'
    BY <2>1 DEF DiskInv, CutOff, Dropping
  <2>4. \A t \in Thread : AtTop(t)' /\ AsksAll(t)' /\ Pinner(t)'
    BY <2>1 DEF DiskInv, AtTop, AsksAll, Pinner, TopOf, Saved, Sure
  <2> QED
    BY <2>1, <2>2, <2>3, <2>4 DEF DiskInv
<1> QED
  BY <1>1, <1>2

\* DiskInv: a block of the file that is marked clean is on the medium (the end of
\* NxcFlushBlock and of NxcReadBlock), so is one of the FAT if nobody pins the FAT,
\* but for a block that passes for clean after a copy into it faulted (CcCopyWrite)
\* or that was cleaned unwritten past FileSize; what a cut of AllocationSize leaves
\* behind, and only that, is dropped before anybody comes in (CcSetFileSizes).
THEOREM CleanIsSaved == Spec => []DiskInv
<1>1. Init => DiskInv
  BY InitDisk
<1>2. TableInv /\ (FileHeld /\ NoOrphan) /\ DiskInv /\ [Next]_vars => DiskInv'
  BY DiskNext
<1> QED
  BY <1>1, <1>2, TableInvariant, FileIsHeld, PTL DEF Spec

\* A block nobody has to write back reads as the medium has it.
LEMMA CleanReads ==
    ASSUME TableInv, DiskInv, NEW k \in Key \ Unsaved, Sure(k),
           \A b \in Slots : block[b].key = k => ~(block[b].dirty /\ block[b].valid)
    PROVE  Content[k] = Durable[k]
<1>1. Content[k] = (IF ~InFile(k) THEN 0
                    ELSE IF Cached(k) # {} THEN block[CHOOSE b \in Cached(k) : TRUE].data ELSE disk[k])
  BY DEF Content
<1>2. Durable[k] = IF InFile(k) THEN disk[k] ELSE 0
  BY DEF Durable
<1>3. ASSUME InFile(k), Cached(k) # {}
      PROVE  block[CHOOSE b \in Cached(k) : TRUE].data = disk[k]
  <2>1. PICK c : c = CHOOSE b \in Cached(k) : TRUE
    OBVIOUS
  <2>2. c \in Cached(k)
    BY <1>3, <2>1
  <2>3. c \in Slots /\ block[c].key = k /\ block[c].valid
    BY <2>2 DEF Cached, NxcLookupBlock
  <2>4. Clean(c)
    <3>1. block[c] \in BlockType /\ ~block[c].unsaved
      BY <2>3, Known DEF Unsaved
    <3> QED
      BY <2>3, <3>1 DEF BlockType, Clean
  <2>5. Saved(c)
    BY <2>3, <2>4 DEF DiskInv
  <2> QED
    BY <2>1, <2>3, <2>5 DEF Saved
<1> QED
  BY <1>1, <1>2, <1>3

\* To begin a write-back is not to return from the call that asks for it.
LEMMA StartFlushGrows ==
    ASSUME TableInv, NEW t \in Thread, Busy(t), NEW f \in FrameType, NEW b \in Slots, block[b].key \in Key,
           StartFlush(t, b, f)
    PROVE  ~(Len(stack'[t]) < Len(stack[t]))
<1> DEFINE s == stack[t]
           k == block[b].key
           G == [Frame("NxcFlushBlock", "io", {}) EXCEPT !.b = b]
<1>1. s \in Seq(FrameType) /\ Len(s) \in Place /\ Len(s) \in Nat
  <2>1. s \in Seq(FrameType)
    BY Known
  <2>2. Len(s) \in Place
    BY TopFacts
  <2> QED
    BY <2>1, <2>2
<1>2. PICK g0 : g0 = G
  OBVIOUS
<1>3. g0 \in FrameType /\ g0.fn = "NxcFlushBlock" /\ g0.b = b /\ g0.m = NoSlot
  <2>1. PICK a : a = Frame("NxcFlushBlock", "io", {})
    OBVIOUS
  <2>2. "NxcFlushBlock" \in Fns /\ "io" \in Points /\ {} \in SUBSET Key
    BY DEF Fns, Transfers, Points
  <2>3. NewAs(a, "NxcFlushBlock", "io", {})
    BY <2>1, <2>2, NewFrame
  <2>4. a \in FrameType /\ a.fn = "NxcFlushBlock" /\ a.m = NoSlot
    BY <2>3 DEF NewAs
  <2>5. g0 = [a EXCEPT !.b = b] /\ b \in Int
    BY <1>2, <2>1, SlotFacts
  <2>6. FieldsAs(g0, a, a.pc, a.todo, b, a.m, a.ok)
    BY <2>4, <2>5, SetB
  <2> QED
    BY <2>4, <2>6 DEF FieldsAs
<1>4. SetTop(t, f) \/ Replace(t, <<f>> \o Transfer(G, k))
  BY Zenon DEF StartFlush
<1> HIDE DEF G, k
<1>5. \E fs \in Seq(FrameType) : Len(fs) >= 1 /\ Replace(t, fs)
  <2>1. CASE SetTop(t, f)
    <3>1. PICK fs : fs = <<f>>
      OBVIOUS
    <3>2. fs \in Seq(FrameType) /\ Len(fs) >= 1 /\ Replace(t, fs)
      BY <2>1, <3>1 DEF SetTop
    <3> QED
      BY <3>2
  <2>2. CASE Replace(t, <<f>> \o Transfer(G, k))
    <3>1. PICK q : q = Transfer(G, k)
      OBVIOUS
    <3>2. q \in Seq(FrameType)
      <4>1. k \in Key /\ q = Transfer(g0, k)
        BY <1>2, <3>1 DEF k
      <4>2. (\E g \in FrameType : q = <<g>>) \/ (\E g, h \in FrameType : q = <<g, h>>)
        BY <1>3, <4>1, TransferFrames DEF Transfers
      <4>3. ASSUME NEW g \in FrameType, q = <<g>>
            PROVE  q \in Seq(FrameType)
        BY <4>3
      <4>4. ASSUME NEW g \in FrameType, NEW h \in FrameType, q = <<g, h>>
            PROVE  q \in Seq(FrameType)
        BY <4>4
      <4> QED
        BY <4>2, <4>3, <4>4
    <3>3. PICK p : p = <<f>>
      OBVIOUS
    <3>4. p \in Seq(FrameType) /\ Len(p) = 1
      BY <3>3
    <3>5. PICK fs : fs = p \o q
      OBVIOUS
    <3>6. fs \in Seq(FrameType) /\ Len(fs) = Len(p) + Len(q)
      BY <3>2, <3>4, <3>5, ConcatProperties
    <3>7. Len(q) \in Nat
      BY <3>2
    <3>8. Len(fs) >= 1
      BY <3>4, <3>6, <3>7
    <3>9. Replace(t, fs)
      BY <2>2, <3>1, <3>3, <3>5
    <3> QED
      BY <3>6, <3>8, <3>9
  <2> QED
    BY <1>4, <2>1, <2>2
<1>6. PICK fs \in Seq(FrameType) : Len(fs) >= 1 /\ Replace(t, fs)
  BY <1>5
<1>7. stack'[t] = Front(s) \o fs
  BY <1>6, Known DEF Replace
<1>8. IsReplaced(s, fs, stack'[t])
  BY <1>1, <1>7, Replaced
<1>9. Len(stack'[t]) = Len(s) - 1 + Len(fs) /\ Len(fs) \in Nat
  BY <1>8 DEF IsReplaced
<1> QED
  BY <1>1, <1>6, <1>9 DEF s

\* The others stay where they are, whatever a thread does.
LEMMA OthersStay ==
    ASSUME TableInv, NEW t \in Thread, Moves(t)
    PROVE  \A u \in Thread \ {t} : stack'[u] = stack[u]
BY DEF Moves, Steady, Kept, Resting, Begins, Opens, Closes, Finished

\* A flush of a range returns only when none of its blocks is in the way,
LEMMA FlushReturns ==
    ASSUME TableInv, NEW t \in Thread, Continues(t), In(t, "NxcFlushMap", {"flush"}),
           Len(stack'[t]) < Len(stack[t])
    PROVE  InTheWay(Reach(Top(t))) = {}
<1> DEFINE e == Top(t)
<1>1. Busy(t) /\ e.fn = "NxcFlushMap" /\ e.pc = "flush"
  BY DEF In
<1>2. e \in FrameType /\ stack[t] \in Seq(FrameType) /\ Reach(e) \subseteq Key
  BY <1>1, TopFacts, Known DEF FrameType, Reach
<1>3. FlushMapWrite(t) \/ FlushMapDone(t) \/ NxcShortWait(t)
  BY <1>1 DEF Continues, GetHit, GetRetry, GetClaim, GetEvict, NxcReadBlock, FsdUnmap, NxcFlushIo, NxcFlushBlock,
     FlushMapDrop, CopyBlock, CopyFault, PinnedWrite, CcSetDirtyPinnedData, CcUnpinData, PurgeBlocks, Uninitialize,
     FlushAllMaps, ShrinkCache, In, Keeps, Transfers
<1>4. ~NxcShortWait(t)
  <2>1. Len(stack[t]) \in Nat
    BY <1>2
  <2> QED
    BY <1>1, <2>1 DEF NxcShortWait, ClaimBlocked, In
<1>5. ~FlushMapWrite(t)
  <2> SUFFICES ASSUME FlushMapWrite(t)
               PROVE  FALSE
    OBVIOUS
  <2>1. PICK b : b = Min(InTheWay(Reach(e)))
    OBVIOUS
  <2>2. InTheWay(Reach(e)) # {} /\ StartFlush(t, b, e)
    BY <2>1 DEF FlushMapWrite
  <2>3. InTheWay(Reach(e)) \subseteq Nat
    BY SlotFacts DEF InTheWay, Blocks
  <2>4. b \in InTheWay(Reach(e))
    BY <2>1, <2>2, <2>3, MinIn
  <2>5. b \in Slots /\ block[b].key \in Key
    BY <1>2, <2>4 DEF InTheWay, Blocks
  <2> QED
    BY <1>1, <1>2, <2>2, <2>5, StartFlushGrows
<1> QED
  BY <1>1, <1>3, <1>4, <1>5 DEF FlushMapDone, In

\* and a flush of everything when no block is dirty.
LEMMA FlushAllReturns ==
    ASSUME TableInv, NEW t \in Thread, Continues(t), In(t, "NxcFlushAll", {"scan"}),
           Len(stack'[t]) < Len(stack[t])
    PROVE  \A b \in Blocks(Key) : ~block[b].dirty
<1> DEFINE e == Top(t)
<1>1. Busy(t) /\ e.fn = "NxcFlushAll"
  BY DEF In
<1>2. e \in FrameType /\ stack[t] \in Seq(FrameType) /\ Len(stack[t]) \in Place /\ Len(stack[t]) \in Nat
  <2>1. stack[t] \in Seq(FrameType)
    BY Known
  <2>2. e \in FrameType /\ Len(stack[t]) \in Place
    BY <1>1, TopFacts
  <2> QED
    BY <2>1, <2>2
<1>3. FlushAllMaps(t) \/ NxcShortWait(t)
  BY <1>1 DEF Continues, GetHit, GetRetry, GetClaim, GetEvict, NxcReadBlock, FsdUnmap, NxcFlushIo, NxcFlushBlock,
     FlushMapDrop, CopyBlock, CopyFault, PinnedWrite, CcSetDirtyPinnedData, CcUnpinData, PurgeBlocks, Uninitialize,
     FlushMapWrite, FlushMapDone, ShrinkCache, In, Keeps, Transfers
<1>4. ~NxcShortWait(t)
  BY <1>1, <1>2 DEF NxcShortWait, ClaimBlocked, In
<1>5. ASSUME NEW K \in {Data, Fat}, Push(t, e, Flushing("flush", K))
      PROVE  FALSE
  <2>1. PICK g : g = Flushing("flush", K)
    OBVIOUS
  <2>2. g \in FrameType
    BY <2>1, KeyFacts, MapFrame
  <2>3. stack'[t] = Front(stack[t]) \o <<e, g>>
    BY <1>5, <2>1, Known DEF Push, Replace
  <2>4. TopTwo(stack[t], e, g, stack'[t])
    BY <1>2, <2>2, <2>3, ReplacedByTwo
  <2> QED
    BY <1>2, <2>4 DEF TopTwo
<1> QED
  BY <1>3, <1>4, <1>5, Zenon DEF FlushAllMaps

\* When t returns from a flush, what it flushed reads as the medium has it, but
\* for blocks that are left unsaved.
Flushed(t) ==
  Busy(t) /\ Len(stack'[t]) < Len(stack[t]) =>
    /\ In(t, "NxcFlushMap", {"flush"}) => \A k \in Reach(Top(t)) \ Unsaved : Sure(k) => Content[k] = Durable[k]
    /\ In(t, "NxcFlushAll", {"scan"}) => \A k \in Key \ Unsaved : Sure(k) => Content[k] = Durable[k]

\* So it is after any step.
LEMMA FlushedStep ==
    ASSUME TableInv, DiskInv, [Next]_vars, NEW t \in Thread
    PROVE  Flushed(t)
<1> SUFFICES ASSUME Busy(t), Len(stack'[t]) < Len(stack[t])
             PROVE  /\ In(t, "NxcFlushMap", {"flush"}) => \A k \in Reach(Top(t)) \ Unsaved : Sure(k) => Content[k] = Durable[k]
                    /\ In(t, "NxcFlushAll", {"scan"}) => \A k \in Key \ Unsaved : Sure(k) => Content[k] = Durable[k]
  BY DEF Flushed
<1>1. stack'[t] # stack[t]
  <2>1. Len(stack[t]) \in Nat
    BY Known
  <2> QED
    BY <2>1
<1>2. PICK u \in Thread : Enters(u) \/ Continues(u)
  BY <1>1 DEF Next, vars
<1>3. u = t
  <2>1. Moves(u)
    BY <1>2, ThreadStep
  <2> QED
    BY <1>1, <2>1, OthersStay
<1>4. Continues(t)
  BY <1>2, <1>3 DEF Enters, CcInitializeCacheMap, CcUninitializeCacheMap, CcSetFileSizes, CcCopyRead, CcCopyWrite,
     CcPinRead, CcFlushCache, CcPurgeCacheSection, NxcFlushAll, FscSetCacheSize, FscInvalidateIdleBlocks, Enter
<1>5. ASSUME In(t, "NxcFlushMap", {"flush"}), NEW k \in Reach(Top(t)) \ Unsaved, Sure(k)
      PROVE  Content[k] = Durable[k]
  <2>1. InTheWay(Reach(Top(t))) = {}
    BY <1>4, <1>5, FlushReturns
  <2>2. k \in Key
    <3>1. Top(t) \in FrameType
      BY TopFacts
    <3> QED
      BY <1>5, <3>1 DEF FrameType, Reach
  <2>3. \A b \in Slots : block[b].key = k => ~(block[b].dirty /\ block[b].valid)
    BY <1>5, <2>1 DEF InTheWay, Blocks
  <2> QED
    BY <1>5, <2>2, <2>3, CleanReads
<1>6. ASSUME In(t, "NxcFlushAll", {"scan"}), NEW k \in Key \ Unsaved, Sure(k)
      PROVE  Content[k] = Durable[k]
  <2>1. \A b \in Blocks(Key) : ~block[b].dirty
    BY <1>4, <1>6, FlushAllReturns
  <2>2. \A b \in Slots : block[b].key = k => ~(block[b].dirty /\ block[b].valid)
    BY <1>6, <2>1 DEF Blocks
  <2> QED
    BY <1>6, <2>2, CleanReads
<1> QED
  BY <1>5, <1>6

\* When a flush returns (NxcFlushMap, NxcFlushAll), the medium holds what the file
\* reads back, but for unsaved blocks: whatever other threads write back, evict or
\* resize meanwhile, and whoever pins blocks of the FAT and changes them without
\* the mutex.
THEOREM FlushedFileIsDurable == Spec => [][\A t \in Thread : Flushed(t)]_vars
<1>1. TableInv /\ DiskInv /\ [Next]_vars => \A t \in Thread : Flushed(t)
  BY FlushedStep
<1> QED
  BY <1>1, TableInvariant, CleanIsSaved, PTL DEF Spec

\* FlushDurable: with nobody pinning a block of the FAT (a pinned block changes
\* under a write-back, CcSetDirtyPinnedData), the medium holds what every
\* flushed block reads back, those of the FAT too, unless it is unsaved: a copy
\* into it faulted (CcCopyWrite) or it was cleaned past FileSize (NxcFlushBlock).
THEOREM FlushIsDurable ==
    ASSUME \A t \in Thread : "CcPinRead" \notin Calls[t]
    PROVE  Spec => FlushDurable
<1>1. \A k : Sure(k)
  BY DEF Sure
<1>3. ASSUME NEW t \in Thread, Flushed(t)
      PROVE  Busy(t) /\ Len(stack'[t]) < Len(stack[t]) =>
               /\ In(t, "NxcFlushMap", {"flush"}) => \A k \in Reach(Top(t)) \ Unsaved : Content[k] = Durable[k]
               /\ In(t, "NxcFlushAll", {"scan"}) => \A k \in Key \ Unsaved : Content[k] = Durable[k]
  BY <1>1, <1>3 DEF Flushed
<1>4. [\A t \in Thread : Flushed(t)]_vars =>
        [\A t \in Thread :
           Busy(t) /\ Len(stack'[t]) < Len(stack[t]) =>
             /\ In(t, "NxcFlushMap", {"flush"}) => \A k \in Reach(Top(t)) \ Unsaved : Content[k] = Durable[k]
             /\ In(t, "NxcFlushAll", {"scan"}) => \A k \in Key \ Unsaved : Content[k] = Durable[k]]_vars
  BY <1>3
<1> QED
  BY <1>4, FlushedFileIsDurable, PTL DEF FlushDurable
===============================================================================
