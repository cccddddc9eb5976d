----------------------------- MODULE PoolProofs -----------------------------
(* Theorems about the pool, for every set of threads, table of classes,    *)
(* page size, window and number of table entries.                          *)
EXTENDS Pool, TLAPS, FiniteSetTheorems, SequenceTheorems, WellFoundedInduction

USE PoolAssumption

-----------------------------------------------------------------------------
(* The inductive invariant.                                                *)

Blk     == [page : Page, offset : Offset]
Points  == {"idle", "pages", "retry", "carve", "header", "record", "sweep",
            "sweepfree", "unheld", "bigfree"}
Locals  == [bytes : Nat, class : Class, block : Blk, idx : Nat, freed : Nat, pages : Nat]
Words   == [class : Class \cup {NoClass}, magic : {"junk", "free", "alloc"}]
Entry   == [va : Nat, pages : Nat]

\* The request an allocation works on: whole pages, or a page for its class.
Asks(l) == IF l.bytes > SmallMax THEN l.pages # 0
           ELSE l.pages = 1 /\ l.class = ClassOf(l.bytes)

\* What the local variables of a thread mean at each point of its call.
LocalOK(p, l) ==
  /\ p = "idle" => l = Idle
  /\ p \in {"pages", "retry", "carve", "record"} => Asks(l)
  /\ p \in {"sweep", "sweepfree"} => l.pages = 0 \/ Asks(l)
  /\ p = "carve" => l.bytes <= SmallMax /\ l.block.offset = 0
  /\ p = "sweepfree" => l.idx \in Page
  /\ p = "bigfree" => l.pages # 0
  /\ p = "header" => l.bytes + HeaderSize <= NxpClassSize[l.class]

DataShape ==
  /\ lists \in [Class -> Seq(Blk)]
  /\ state \in [Page -> Int]
  /\ header \in [Page -> [Offset -> Words]]
  /\ big \in [1..BigEntries -> Entry]
  /\ window \subseteq Page
  /\ held \subseteq [page : Page, offset : Offset, bytes : Nat]
  /\ runs \subseteq [page : Page, pages : Nat \ {0}]
ThreadShape ==
  /\ pc \in [Thread -> Points]
  /\ local \in [Thread -> Locals]
  /\ \A t \in Thread : LocalOK(pc[t], local[t])
Shape == DataShape /\ ThreadShape

\* The pages a thread has in its hands, and those of a whole-page block.
InHand(p, l) ==
  IF p \in {"carve", "record", "bigfree"} THEN PageRun(l.block.page, l.pages)
  ELSE IF p = "sweepfree" THEN {l.idx} ELSE {}
Hand(t) == InHand(pc[t], local[t])
Hands   == [t \in Thread |-> Hand(t)]
Run(r)  == PageRun(r.page, r.pages)

\* Every page has one place: the window W, the buckets B, a whole-page block
\* of R or the hands H of a thread.
Placed(W, B, R, H) ==
  /\ W \cap B = {} /\ W \subseteq Page
  /\ \A r \in R : Run(r) \subseteq Page \ (W \cup B)
  /\ \A t \in Thread : H[t] \subseteq Page \ (W \cup B)
  /\ \A q, r \in R : q # r => Run(q) \cap Run(r) = {}
  /\ \A t, u \in Thread : t # u => H[t] \cap H[u] = {}
  /\ \A r \in R, t \in Thread : Run(r) \cap H[t] = {}
  /\ \A p \in Page : \/ p \in W \cup B
                     \/ \E r \in R : p \in Run(r)
                     \/ \E t \in Thread : p \in H[t]
Places == Placed(window, Buckets, runs, Hands)

\* An entry of the table belongs to a whole-page block, and to it alone.
Table ==
  /\ \A i \in 1..BigEntries : big[i].va # 0 => [page |-> big[i].va, pages |-> big[i].pages] \in runs
  /\ \A i, j \in 1..BigEntries : i # j /\ big[i].va # 0 => big[i].va # big[j].va

\* t has a block that is on no list and in no caller's hands.
Carries(t) == pc[t] \in {"header", "unheld"}

\* A block is out once.
OutApart ==
  /\ \A a, b \in held : a.page = b.page /\ a.offset = b.offset => a = b
  /\ \A t, u \in Thread : Carries(t) /\ Carries(u) /\ local[t].block = local[u].block => t = u
  /\ \A b \in held, t \in Thread : Carries(t) => local[t].block # Block(b.page, b.offset)

\* A list has a block once.
ListsOnce == \A c \in Class : IsInjective(lists[c])

\* The blocks of page p are those of class c, all of them are out (O) or
\* listed (L), and their headers say so, except where one is still to be
\* written (X).
CarvedAs(O, L, h, X, p, c) ==
  /\ \A o \in Offsets(c) : Block(p, o) \in O \cup L[c]
  /\ \A b \in O : b.page = p => b.offset \in Offsets(c)
  /\ \A d \in Class : \A b \in L[d] : b.page = p => d = c /\ b.offset \in Offsets(c)
  /\ \A o \in Offsets(c) : h[p][o].class = c \/ <<Block(p, o), c>> \in X
  /\ \A x \in X : x[1].page = p => x[2] = c

\* A block is out or on one list, the list of its page's class; the count of
\* a page is that of its blocks that are out.
OutOf(O, p) == {b \in O : b.page = p}
Sound(O, L, st, B, h, X) ==
  /\ \A c \in Class : L[c] \cap O = {}
  /\ \A c, d \in Class : c # d => L[c] \cap L[d] = {}
  /\ \A b \in O : b.page \in B
  /\ \A c \in Class : \A b \in L[c] : b.page \in B /\ h[b.page][b.offset].magic = "free"
  /\ \A x \in X : x[1] \in O
  /\ \A p \in B : st[p] = Cardinality(OutOf(O, p))
  /\ \A p \in B : \E c \in Class : CarvedAs(O, L, h, X, p, c)

Listing == [c \in Class |-> Listed(c)]
Pending == {<<local[t].block, local[t].class>> : t \in {u \in Thread : pc[u] = "header"}}
Counted == Sound(Out, Listing, state, Buckets, header, Pending)

\* The magic in a header tells a live block from a free one, and a live
\* block is as large as its caller asked for.
Marked ==
  /\ \A b \in held : /\ header[b.page][b.offset].magic = "alloc"
                     /\ b.bytes + HeaderSize <= NxpClassSize[header[b.page][b.offset].class]
  /\ \A t \in Thread : pc[t] = "unheld" =>
        header[local[t].block.page][local[t].block.offset].magic = "free"

Blocks == OutApart /\ ListsOnce /\ Counted /\ Marked
IInv   == Shape /\ Places /\ Table /\ Blocks

-----------------------------------------------------------------------------
(* Classes and offsets.                                                    *)

\* Products with a positive factor are ordered as the other factors are.
LEMMA TimesMonotone ==
    ASSUME NEW i \in Nat, NEW j \in Nat, NEW k \in Nat \ {0}, i < j
    PROVE  i * k + k <= j * k
<1>1. PICK d \in Nat : j = i + 1 + d
  <2>1. j - i - 1 \in Nat /\ j = i + 1 + (j - i - 1)
    OBVIOUS
  <2> QED
    BY <2>1
<1>2. j * k = i * k + k + d * k
  BY <1>1
<1>3. d * k \in Nat /\ i * k \in Nat
  OBVIOUS
<1> QED
  BY <1>2, <1>3

\* A quotient, times its divisor and by how much that falls short.
LEMMA Quotient ==
    ASSUME NEW x \in Nat, NEW k \in Nat \ {0}
    PROVE  x \div k \in Nat /\ (x \div k) * k <= x /\ x < (x \div k) * k + k
<1>1. x = k * (x \div k) + (x % k) /\ x % k \in 0..k - 1 /\ x \div k \in Int
  OBVIOUS
<1>2. PICK q \in Int : q = x \div k
  BY <1>1
<1>3. PICK r \in Nat : r = x % k /\ r < k
  BY <1>1
<1>4. PICK y \in Int : y = k * q
  OBVIOUS
<1>5. x = y + r
  BY <1>1, <1>2, <1>3, <1>4
<1>6. q >= 0
  <2>1. ASSUME q <= -1 PROVE FALSE
    <3>1. k * q <= -k
      BY <2>1
    <3> QED
      BY <1>3, <1>4, <1>5, <3>1
  <2> QED
    BY <2>1
<1>7. y = q * k
  BY <1>4
<1> QED
  BY <1>2, <1>3, <1>5, <1>6, <1>7

\* The classes, and the size of a block of each.
LEMMA ClassFacts ==
    /\ Len(NxpClassSize) \in Nat \ {0} /\ Class = 1..Len(NxpClassSize)
    /\ Len(NxpClassSize) \in Class /\ Class \subseteq Nat /\ 0 \notin Class
    /\ \A c \in Class : NxpClassSize[c] \in Nat \ {0} /\ NxpClassSize[c] <= PageSize
<1>1. NxpClassSize \in Seq(1..PageSize)
  BY DEF Class
<1>2. Len(NxpClassSize) \in Nat \ {0} /\ DOMAIN NxpClassSize = 1..Len(NxpClassSize)
  BY <1>1
<1>3. \A c \in Class : NxpClassSize[c] \in 1..PageSize
  BY <1>1, <1>2 DEF Class
<1> QED
  BY <1>2, <1>3 DEF Class

\* A nonempty set of naturals has a least element.
LEMMA MinIsLeast ==
    ASSUME NEW S, S \subseteq Nat, S # {}
    PROVE  Min(S) \in S /\ \A n \in S : Min(S) <= n
<1> DEFINE R == {ss \in Nat \X Nat : ss[1] < ss[2]}
<1>1. IsWellFoundedOn(R, Nat)
  BY NatLessThanWellFounded, Zenon DEF OpToRel
<1>2. S \in SUBSET Nat
  OBVIOUS
<1>3. PICK m \in S : \A n \in S : ~(<<n, m>> \in R)
  BY <1>1, <1>2, WFMin, Zenon
<1>4. \A n \in S : m <= n
  <2>1. SUFFICES ASSUME NEW n \in S
                 PROVE  m <= n
    OBVIOUS
  <2>2. m \in Nat /\ n \in Nat /\ ~(n < m)
    BY <1>3
  <2> QED
    BY <2>2
<1> HIDE DEF R
<1> QED
  BY <1>4 DEF Min

\* The class map gives every request it serves a class whose blocks hold it.
LEMMA ClassOfFits ==
    ASSUME NEW n \in Nat, n <= SmallMax
    PROVE  ClassOf(n) \in Class /\ n + HeaderSize <= NxpClassSize[ClassOf(n)]
<1>1. PICK m \in Nat : m = Max({n, 1}) /\ n <= m
  <2>1. \E x \in {n, 1} : \A y \in {n, 1} : x >= y
    <3>1. CASE n >= 1
      BY <3>1
    <3>2. CASE ~(n >= 1)
      BY <3>2
    <3> QED
      BY <3>1, <3>2
  <2>2. Max({n, 1}) \in {n, 1} /\ \A y \in {n, 1} : Max({n, 1}) >= y
    BY <2>1 DEF Max
  <2> QED
    BY <2>2
<1>2. PICK u \in Nat : u = (m + HeaderSize + Granule - 1) \div Granule
  <2>1. m + HeaderSize + Granule - 1 \in Nat
    OBVIOUS
  <2> QED
    BY <2>1, Quotient
<1>3. n + HeaderSize <= u * Granule
  <2>1. PICK x \in Nat : x = m + HeaderSize + Granule - 1
    OBVIOUS
  <2>2. u = x \div Granule
    BY <1>2, <2>1
  <2>3. x < u * Granule + Granule
    BY <2>2, Quotient
  <2>4. PICK y \in Nat : y = u * Granule
    OBVIOUS
  <2> QED
    BY <1>1, <2>1, <2>3, <2>4
<1>4. ClassOf(n) = NxpClassMap(u)
  BY <1>1, <1>2 DEF ClassOf
<1> DEFINE S == {c \in Class : NxpClassSize[c] >= u * Granule} \cup {Len(NxpClassSize)}
<1>5. S \subseteq Class /\ S \subseteq Nat /\ S # {}
  BY ClassFacts
<1>6. ClassOf(n) = Min(S)
  BY <1>4 DEF NxpClassMap
<1>7. ClassOf(n) \in S
  <2> HIDE DEF S
  <2> QED
    BY <1>5, <1>6, MinIsLeast
<1>8. CASE ClassOf(n) = Len(NxpClassSize)
  <2>1. SmallMax + HeaderSize <= NxpClassSize[ClassOf(n)] /\ NxpClassSize[ClassOf(n)] \in Nat
    BY <1>8, ClassFacts
  <2> QED
    BY <1>5, <1>7, <2>1
<1>9. CASE ClassOf(n) # Len(NxpClassSize)
  <2>1. ClassOf(n) \in Class /\ NxpClassSize[ClassOf(n)] >= u * Granule
    BY <1>7, <1>9
  <2>2. PICK y \in Nat : y = u * Granule
    OBVIOUS
  <2>3. PICK z \in Nat : z = NxpClassSize[ClassOf(n)]
    BY <2>1, ClassFacts
  <2> QED
    BY <1>3, <2>1, <2>2, <2>3
<1> QED
  BY <1>8, <1>9

\* The offsets of the blocks of a page: multiples of the block size, with
\* room for a block behind each.
LEMMA OffsetFacts ==
    ASSUME NEW c \in Class
    PROVE  \E n \in Nat \ {0} : /\ Offsets(c) = {i * NxpClassSize[c] : i \in 0..n - 1}
                                /\ 0 \in Offsets(c) /\ Offsets(c) \subseteq Offset
<1>1. PICK z \in Nat \ {0} : z = NxpClassSize[c] /\ z <= PageSize
  BY ClassFacts
<1>2. PICK n \in Nat : n = PageSize \div z /\ n * z <= PageSize /\ PageSize < n * z + z
  BY Quotient
<1>3. n # 0
  <2>1. ASSUME n = 0 PROVE FALSE
    <3>1. n * z = 0
      BY <2>1
    <3> QED
      BY <1>1, <1>2, <3>1
  <2> QED
    BY <2>1
<1>4. Offsets(c) = {i * z : i \in 0..n - 1}
  BY <1>1, <1>2 DEF Offsets
<1>5. 0 \in Offsets(c)
  <2>1. 0 \in 0..n - 1 /\ 0 * z = 0
    BY <1>3
  <2> QED
    BY <1>4, <2>1
<1>6. Offsets(c) \subseteq Offset
  <2>1. SUFFICES ASSUME NEW i \in 0..n - 1
                 PROVE  i * z \in Offset
    BY <1>4
  <2>2. i \in Nat /\ i < n
    OBVIOUS
  <2>3. i * z + z <= n * z
    BY <2>2, TimesMonotone
  <2>4. i * z \in Nat /\ n * z \in Nat
    BY <2>2
  <2>5. PICK x \in Nat, y \in Nat : x = i * z /\ y = n * z
    BY <2>4
  <2> QED
    BY <1>2, <2>3, <2>5 DEF Offset
<1> QED
  BY <1>1, <1>3, <1>4, <1>5, <1>6

\* The blocks of page p that Carve puts on a list, and how.
Chain(c, p) ==
  [i \in 1..Cardinality(Offsets(c) \ {0}) |->
     Block(p, (Cardinality(Offsets(c) \ {0}) + 1 - i) * NxpClassSize[c])]

\* They are the blocks of the page other than the first, each once.
LEMMA ChainFacts ==
    ASSUME NEW c \in Class, NEW p \in Page
    PROVE  /\ Chain(c, p) \in Seq(Blk) /\ IsInjective(Chain(c, p))
           /\ \A b : b \in Range(Chain(c, p)) <=> \E o \in Offsets(c) \ {0} : b = Block(p, o)
<1>1. PICK z \in Nat \ {0} : z = NxpClassSize[c]
  BY ClassFacts
<1>2. PICK n \in Nat \ {0} : /\ Offsets(c) = {i * z : i \in 0..n - 1}
                             /\ Offsets(c) \subseteq Offset
  BY <1>1, OffsetFacts
<1> DEFINE rest == Offsets(c) \ {0}
           f == [i \in 1..n - 1 |-> i * z]
<1>3. \A i, j \in Nat : i * z = j * z => i = j
  <2>1. SUFFICES ASSUME NEW i \in Nat, NEW j \in Nat, i * z = j * z, i < j
                 PROVE  FALSE
    OBVIOUS
  <2>2. i * z + z <= j * z
    BY <2>1, TimesMonotone
  <2>3. PICK x \in Nat : x = i * z
    OBVIOUS
  <2> QED
    BY <2>1, <2>2, <2>3
<1>4. \A o : o \in rest <=> \E i \in 1..n - 1 : o = i * z
  <2>1. ASSUME NEW o \in rest PROVE \E i \in 1..n - 1 : o = i * z
    <3>1. PICK i \in 0..n - 1 : o = i * z
      BY <1>2, <2>1
    <3>2. i # 0
      BY <2>1, <3>1
    <3> QED
      BY <3>1, <3>2
  <2>2. ASSUME NEW i \in 1..n - 1 PROVE i * z \in rest
    <3>1. i \in 0..n - 1 /\ i \in Nat /\ i # 0
      OBVIOUS
    <3>2. i * z \in Offsets(c)
      BY <1>2, <3>1
    <3>3. 0 * z = 0 /\ 0 \in Nat
      OBVIOUS
    <3>4. i * z # 0
      BY <1>3, <3>1, <3>3
    <3> QED
      BY <3>2, <3>4
  <2> QED
    BY <2>1, <2>2
<1>5. f \in Bijection(1..n - 1, rest)
  <2>1. f \in [1..n - 1 -> rest]
    BY <1>4
  <2>2. IsInjective(f)
    <3>1. SUFFICES ASSUME NEW i \in 1..n - 1, NEW j \in 1..n - 1, i * z = j * z PROVE i = j
      BY DEF IsInjective
    <3>2. i \in Nat /\ j \in Nat
      OBVIOUS
    <3> QED
      BY <1>3, <3>1, <3>2
  <2>3. \A o \in rest : \E i \in 1..n - 1 : f[i] = o
    BY <1>4
  <2> HIDE DEF f, rest
  <2> QED
    BY <2>1, <2>2, <2>3 DEF Bijection, Injection, Surjection
<1>6. Cardinality(rest) = n - 1
  <2>1. ExistsBijection(1..n - 1, rest)
    BY <1>5 DEF ExistsBijection
  <2>2. IsFiniteSet(1..n - 1) /\ Cardinality(1..n - 1) = IF 1 > n - 1 THEN 0 ELSE (n - 1) - 1 + 1
    <3>1. 1 \in Int /\ n - 1 \in Int
      OBVIOUS
    <3> QED
      BY <3>1, FS_Interval
  <2>3. Cardinality(rest) = Cardinality(1..n - 1)
    <3> HIDE DEF rest
    <3> QED
      BY <2>1, <2>2, FS_Bijection
  <2> QED
    BY <2>2, <2>3
<1>7. Chain(c, p) = [i \in 1..n - 1 |-> Block(p, (n - i) * z)]
  <2>1. \A i \in 1..n - 1 : (n - 1) + 1 - i = n - i
    OBVIOUS
  <2> QED
    BY <1>1, <1>6, <2>1 DEF Chain
<1>8. \A i \in 1..n - 1 : n - i \in 1..n - 1 /\ (n - i) * z \in rest /\ (n - i) * z \in Offset
  <2>1. SUFFICES ASSUME NEW i \in 1..n - 1
                 PROVE  n - i \in 1..n - 1 /\ (n - i) * z \in rest /\ (n - i) * z \in Offset
    OBVIOUS
  <2>2. n - i \in 1..n - 1
    OBVIOUS
  <2>3. (n - i) * z \in rest
    BY <1>4, <2>2
  <2> QED
    BY <1>2, <2>2, <2>3
<1>9. Chain(c, p) \in Seq(Blk)
  <2>1. \A i \in 1..n - 1 : Block(p, (n - i) * z) \in Blk
    BY <1>8 DEF Blk, Block
  <2>2. n - 1 \in Nat
    OBVIOUS
  <2>3. Chain(c, p) \in [1..n - 1 -> Blk]
    BY <1>7, <2>1
  <2> QED
    BY <2>2, <2>3
<1>10. IsInjective(Chain(c, p))
  <2>1. SUFFICES ASSUME NEW i \in 1..n - 1, NEW j \in 1..n - 1,
                        Block(p, (n - i) * z) = Block(p, (n - j) * z)
                 PROVE  i = j
    BY <1>7 DEF IsInjective
  <2>2. (n - i) * z = (n - j) * z
    BY <2>1 DEF Block
  <2>3. n - i \in Nat /\ n - j \in Nat
    OBVIOUS
  <2>4. n - i = n - j
    BY <1>3, <2>2, <2>3
  <2> QED
    BY <2>4
<1>11. \A b : b \in Range(Chain(c, p)) <=> \E o \in rest : b = Block(p, o)
  <2>1. ASSUME NEW b \in Range(Chain(c, p)) PROVE \E o \in rest : b = Block(p, o)
    <3>1. PICK i \in 1..n - 1 : b = Block(p, (n - i) * z)
      BY <1>7, <2>1 DEF Range
    <3> QED
      BY <1>8, <3>1
  <2>2. ASSUME NEW o \in rest PROVE Block(p, o) \in Range(Chain(c, p))
    <3>1. PICK i \in 1..n - 1 : o = i * z
      BY <1>4
    <3>2. n - i \in 1..n - 1 /\ n - (n - i) = i
      OBVIOUS
    <3>3. Chain(c, p)[n - i] = Block(p, o)
      BY <1>7, <3>1, <3>2
    <3>4. DOMAIN Chain(c, p) = 1..n - 1
      BY <1>7
    <3> QED
      BY <3>2, <3>3, <3>4 DEF Range
  <2> QED
    BY <2>1, <2>2
<1> QED
  BY <1>9, <1>10, <1>11

-----------------------------------------------------------------------------
(* Lists.                                                                  *)

\* Taking the first block off a list.
LEMMA TailFacts ==
    ASSUME NEW s \in Seq(Blk), s # << >>, IsInjective(s)
    PROVE  /\ Head(s) \in Blk /\ Head(s) \in Range(s)
           /\ Tail(s) \in Seq(Blk) /\ IsInjective(Tail(s))
           /\ \A b : b \in Range(Tail(s)) <=> b \in Range(s) /\ b # Head(s)
<1>1. PICK n \in Nat : n = Len(s) /\ n > 0
  OBVIOUS
<1>2. DOMAIN s = 1..n /\ Head(s) = s[1] /\ 1 \in 1..n /\ s[1] \in Blk
  BY <1>1
<1>3. Tail(s) \in Seq(Blk) /\ DOMAIN Tail(s) = 1..n - 1
  BY <1>1
<1>4. \A i \in 1..n - 1 : Tail(s)[i] = s[i + 1] /\ i + 1 \in 1..n
  BY <1>1
<1>5. IsInjective(Tail(s))
  <2>1. SUFFICES ASSUME NEW i \in 1..n - 1, NEW j \in 1..n - 1, Tail(s)[i] = Tail(s)[j]
                 PROVE  i = j
    BY <1>3 DEF IsInjective
  <2>2. s[i + 1] = s[j + 1] /\ i + 1 \in DOMAIN s /\ j + 1 \in DOMAIN s
    BY <1>2, <1>4, <2>1
  <2>3. i + 1 = j + 1
    BY <2>2 DEF IsInjective
  <2> QED
    BY <2>3
<1>6. ASSUME NEW b \in Range(Tail(s)) PROVE b \in Range(s) /\ b # Head(s)
  <2>1. PICK i \in 1..n - 1 : b = Tail(s)[i]
    BY <1>3, <1>6 DEF Range
  <2>2. b = s[i + 1] /\ i + 1 \in DOMAIN s /\ 1 \in DOMAIN s /\ i + 1 # 1
    BY <1>2, <1>4, <2>1
  <2> QED
    BY <1>2, <2>2 DEF Range, IsInjective
<1>7. ASSUME NEW b \in Range(s), b # Head(s) PROVE b \in Range(Tail(s))
  <2>1. PICK i \in 1..n : b = s[i]
    BY <1>2, <1>7 DEF Range
  <2>2. i - 1 \in 1..n - 1 /\ (i - 1) + 1 = i
    BY <1>2, <1>7, <2>1
  <2>3. Tail(s)[i - 1] = b
    BY <1>4, <2>1, <2>2
  <2> QED
    BY <1>3, <2>2, <2>3 DEF Range
<1>8. Head(s) \in Range(s)
  BY <1>2 DEF Range
<1> QED
  BY <1>2, <1>3, <1>5, <1>6, <1>7, <1>8

\* Putting blocks in front of a list that has none of them.
LEMMA JoinFacts ==
    ASSUME NEW q \in Seq(Blk), NEW s \in Seq(Blk)
    PROVE  /\ q \o s \in Seq(Blk)
           /\ \A b : b \in Range(q \o s) <=> b \in Range(q) \/ b \in Range(s)
           /\ IsInjective(q) /\ IsInjective(s) /\ (\A b : b \in Range(q) => b \notin Range(s))
                => IsInjective(q \o s)
<1>1. PICK m \in Nat, n \in Nat : m = Len(q) /\ n = Len(s)
  OBVIOUS
<1>2. DOMAIN q = 1..m /\ DOMAIN s = 1..n
  BY <1>1
<1>3. q \o s \in Seq(Blk) /\ DOMAIN (q \o s) = 1..m + n
  BY <1>1
<1>4. \A i \in 1..m : (q \o s)[i] = q[i] /\ i \in 1..m + n
  BY <1>1
<1>5. \A i \in 1..n : (q \o s)[m + i] = s[i] /\ m + i \in 1..m + n
  <2>1. \A i \in 1..n : (m + i) - m = i /\ m + i > m /\ m + i \in 1..m + n
    OBVIOUS
  <2>2. \A k \in 1..m + n : k > m => (q \o s)[k] = s[k - m]
    BY <1>1
  <2> QED
    BY <2>1, <2>2
<1>6. \A k \in 1..m + n : k \in 1..m \/ (k - m \in 1..n /\ m + (k - m) = k)
  OBVIOUS
<1>7. ASSUME NEW b PROVE b \in Range(q \o s) <=> b \in Range(q) \/ b \in Range(s)
  <2>1. ASSUME b \in Range(q \o s) PROVE b \in Range(q) \/ b \in Range(s)
    <3>1. PICK k \in 1..m + n : b = (q \o s)[k]
      BY <1>3, <2>1 DEF Range
    <3>2. CASE k \in 1..m
      BY <1>2, <1>4, <3>1, <3>2 DEF Range
    <3>3. CASE k - m \in 1..n /\ m + (k - m) = k
      <4>1. b = s[k - m]
        BY <1>5, <3>1, <3>3
      <4> QED
        BY <1>2, <3>3, <4>1 DEF Range
    <3> QED
      BY <1>6, <3>2, <3>3
  <2>2. ASSUME b \in Range(q) PROVE b \in Range(q \o s)
    BY <1>2, <1>3, <1>4, <2>2 DEF Range
  <2>3. ASSUME b \in Range(s) PROVE b \in Range(q \o s)
    <3>1. PICK i \in 1..n : b = s[i]
      BY <1>2, <2>3 DEF Range
    <3>2. b = (q \o s)[m + i] /\ m + i \in DOMAIN (q \o s)
      BY <1>3, <1>5, <3>1
    <3> QED
      BY <3>2 DEF Range
  <2> QED
    BY <2>1, <2>2, <2>3
<1>8. ASSUME IsInjective(q), IsInjective(s), \A b : b \in Range(q) => b \notin Range(s)
      PROVE  IsInjective(q \o s)
  <2>1. SUFFICES ASSUME NEW k \in 1..m + n, NEW l \in 1..m + n, (q \o s)[k] = (q \o s)[l]
                 PROVE  k = l
    BY <1>3 DEF IsInjective
  <2>2. CASE k \in 1..m /\ l \in 1..m
    BY <1>2, <1>4, <1>8, <2>1, <2>2 DEF IsInjective
  <2>3. CASE k - m \in 1..n /\ m + (k - m) = k /\ l - m \in 1..n /\ m + (l - m) = l
    <3>1. s[k - m] = s[l - m]
      BY <1>5, <2>1, <2>3
    <3>2. k - m = l - m
      BY <1>2, <1>8, <2>3, <3>1 DEF IsInjective
    <3> QED
      BY <2>3, <3>2
  <2>4. ASSUME NEW i \in 1..m, NEW j \in 1..n, (q \o s)[i] = (q \o s)[m + j] PROVE FALSE
    <3>1. q[i] = s[j]
      BY <1>4, <1>5, <2>4
    <3>2. q[i] \in Range(q) /\ s[j] \in Range(s)
      BY <1>2 DEF Range
    <3> QED
      BY <1>8, <3>1, <3>2
  <2> QED
    BY <1>6, <2>1, <2>2, <2>3, <2>4
<1> QED
  BY <1>3, <1>7, <1>8

\* One block is a list.
LEMMA OneFacts ==
    ASSUME NEW b \in Blk
    PROVE  /\ <<b>> \in Seq(Blk) /\ IsInjective(<<b>>) /\ \A x : x \in Range(<<b>>) <=> x = b
<1>1. <<b>> \in Seq(Blk) /\ DOMAIN <<b>> = 1..1 /\ <<b>>[1] = b
  OBVIOUS
<1>2. 1..1 = {1}
  OBVIOUS
<1> QED
  BY <1>1, <1>2 DEF IsInjective, Range

\* The walk, block by block.
LEMMA WalkStep ==
    ASSUME NEW s \in Seq(Blk), NEW p
    PROVE  /\ Walk(s, p)[0] = << >>
           /\ \A i \in 1..Len(s) : Walk(s, p)[i] = IF s[i].page = p THEN Walk(s, p)[i - 1]
                                                   ELSE Append(Walk(s, p)[i - 1], s[i])
<1> DEFINE E(f, i) == IF i = 0 THEN << >> ELSE IF s[i].page = p THEN f[i - 1] ELSE Append(f[i - 1], s[i])
           Good(n) == \E f : f = [i \in 0..n |-> E(f, i)]
           N == Len(s)
<1>1. N \in Nat
  OBVIOUS
<1>2. Walk(s, p) = CHOOSE f : f = [i \in 0..N |-> E(f, i)]
  BY DEF Walk
<1>3. Good(0)
  <2> DEFINE g == [i \in 0..0 |-> << >>]
  <2>1. \A i \in 0..0 : E(g, i) = << >>
    OBVIOUS
  <2>2. g = [i \in 0..0 |-> E(g, i)]
    BY <2>1
  <2> QED
    BY <2>2
<1>4. ASSUME NEW n \in Nat, Good(n) PROVE Good(n + 1)
  <2>1. PICK f : f = [i \in 0..n |-> E(f, i)]
    BY <1>4
  <2> DEFINE g == [i \in 0..n + 1 |-> IF i = n + 1 THEN E(f, n + 1) ELSE f[i]]
  <2>2. \A i \in 0..n : g[i] = f[i]
    OBVIOUS
  <2>3. \A i \in 1..n + 1 : i - 1 \in 0..n
    OBVIOUS
  <2>4. ASSUME NEW i \in 0..n + 1 PROVE g[i] = E(g, i)
    <3>1. CASE i = 0
      BY <2>1, <2>2, <3>1
    <3>2. CASE i \in 1..n
      <4>1. f[i] = E(f, i)
        <5>1. i \in 0..n
          BY <3>2
        <5> HIDE DEF E
        <5> QED
          BY <2>1, <5>1
      <4>2. g[i - 1] = f[i - 1] /\ g[i] = f[i]
        BY <2>2, <2>3, <3>2
      <4> HIDE DEF g
      <4> QED
        BY <4>1, <4>2
    <3>3. CASE i = n + 1
      <4>1. g[i] = E(f, i)
        BY <3>3
      <4>2. g[i - 1] = f[i - 1]
        BY <2>2, <2>3, <3>3
      <4> HIDE DEF g
      <4> QED
        BY <4>1, <4>2
    <3> QED
      BY <3>1, <3>2, <3>3
  <2>5. g = [i \in 0..n + 1 |-> E(g, i)]
    <3>1. g = [i \in 0..n + 1 |-> g[i]]
      OBVIOUS
    <3> HIDE DEF g, E
    <3> QED
      BY <2>4, <3>1
  <2> HIDE DEF g, E
  <2> QED
    BY <2>5
<1>5. Good(N)
  <2> DEFINE T == {n \in Nat : ~Good(n)}
  <2> HIDE DEF Good
  <2>1. ASSUME T # {} PROVE FALSE
    <3>1. T \subseteq Nat
      OBVIOUS
    <3>2. PICK m \in T : \A n \in T : m <= n
      <4> HIDE DEF T
      <4> QED
        BY <2>1, <3>1, MinIsLeast
    <3>3. m \in Nat /\ ~Good(m) /\ m # 0
      BY <1>3, <3>2
    <3>4. m - 1 \in Nat /\ m - 1 \notin T /\ (m - 1) + 1 = m
      BY <3>2, <3>3
    <3>5. Good(m - 1)
      BY <3>4
    <3>6. Good((m - 1) + 1)
      BY <1>4, <3>4, <3>5
    <3> QED
      BY <3>3, <3>4, <3>6
  <2> QED
    BY <1>1, <2>1
<1>6. Walk(s, p) = [i \in 0..N |-> E(Walk(s, p), i)]
  <2> HIDE DEF E
  <2> QED
    BY <1>2, <1>5
<1>7. \A i \in 0..N : Walk(s, p)[i] = E(Walk(s, p), i)
  <2> HIDE DEF E
  <2> QED
    BY <1>6
<1>8. Walk(s, p)[0] = << >>
  <2>1. 0 \in 0..N
    BY <1>1
  <2> QED
    BY <1>7, <2>1
<1>9. ASSUME NEW i \in 1..N
      PROVE  Walk(s, p)[i] = IF s[i].page = p THEN Walk(s, p)[i - 1] ELSE Append(Walk(s, p)[i - 1], s[i])
  <2>1. i \in 0..N /\ i # 0
    BY <1>1
  <2> QED
    BY <1>7, <2>1
<1> QED
  BY <1>8, <1>9

\* What the sweep leaves of a list: the blocks of other pages, each once.
LEMMA UnlinkedFacts ==
    ASSUME NEW s \in Seq(Blk), NEW p, IsInjective(s)
    PROVE  /\ Unlinked(s, p) \in Seq(Blk) /\ IsInjective(Unlinked(s, p))
           /\ \A b : b \in Range(Unlinked(s, p)) <=> b \in Range(s) /\ b.page # p
<1> DEFINE w == Walk(s, p)
           Kept(i, b) == \E j \in 1..i : s[j] = b /\ b.page # p
           Good(i) == /\ w[i] \in Seq(Blk) /\ IsInjective(w[i])
                      /\ \A b : b \in Range(w[i]) <=> Kept(i, b)
<1>1. PICK n \in Nat : n = Len(s) /\ DOMAIN s = 1..n
  OBVIOUS
<1>2. w[0] = << >> /\ \A i \in 1..n : w[i] = IF s[i].page = p THEN w[i - 1] ELSE Append(w[i - 1], s[i])
  BY <1>1, WalkStep
<1> HIDE DEF w
<1>3. Good(0)
  BY <1>2 DEF IsInjective, Range
<1>4. ASSUME NEW i \in 1..n, Good(i - 1) PROVE Good(i)
  <2>1. s[i] \in Blk /\ i \in DOMAIN s /\ 1..i = (1..i - 1) \cup {i}
    BY <1>1
  <2>2. \A b : Kept(i, b) <=> Kept(i - 1, b) \/ (s[i] = b /\ b.page # p)
    BY <2>1
  <2>3. CASE s[i].page = p
    <3>1. w[i] = w[i - 1]
      BY <1>2, <2>3
    <3>2. \A b : Kept(i, b) <=> Kept(i - 1, b)
      BY <2>2, <2>3
    <3> HIDE DEF Kept
    <3> QED
      BY <1>4, <3>1, <3>2
  <2>4. CASE s[i].page # p
    <3>1. w[i] = Append(w[i - 1], s[i])
      BY <1>2, <2>4
    <3>2. w[i] = w[i - 1] \o <<s[i]>>
      <4>1. PICK q \in Seq(Blk) : q = w[i - 1]
        BY <1>4
      <4>2. Append(q, s[i]) = q \o <<s[i]>>
        BY <2>1, AppendIsConcat
      <4> QED
        BY <3>1, <4>1, <4>2
    <3>3. ~Kept(i - 1, s[i])
      <4>1. ASSUME NEW j \in 1..i - 1, s[j] = s[i] PROVE FALSE
        <5>1. j \in DOMAIN s /\ j # i
          BY <1>1
        <5> QED
          BY <2>1, <4>1, <5>1 DEF IsInjective
      <4> QED
        BY <4>1
    <3>4. \A b : Kept(i, b) <=> Kept(i - 1, b) \/ b = s[i]
      BY <2>2, <2>4
    <3> HIDE DEF Kept
    <3>5. <<s[i]>> \in Seq(Blk) /\ IsInjective(<<s[i]>>) /\ \A x : x \in Range(<<s[i]>>) <=> x = s[i]
      BY <2>1, OneFacts
    <3>6. \A b : b \in Range(w[i - 1]) => b \notin Range(<<s[i]>>)
      BY <1>4, <3>3, <3>5
    <3>7. /\ w[i] \in Seq(Blk) /\ IsInjective(w[i])
          /\ \A b : b \in Range(w[i]) <=> b \in Range(w[i - 1]) \/ b \in Range(<<s[i]>>)
      <4>1. PICK q \in Seq(Blk) : q = w[i - 1] /\ IsInjective(q)
        BY <1>4
      <4>2. PICK r \in Seq(Blk) : r = <<s[i]>> /\ IsInjective(r)
        BY <3>5
      <4>3. \A b : b \in Range(q) => b \notin Range(r)
        BY <3>6, <4>1, <4>2
      <4>4. /\ q \o r \in Seq(Blk) /\ IsInjective(q \o r)
            /\ \A b : b \in Range(q \o r) <=> b \in Range(q) \/ b \in Range(r)
        BY <4>1, <4>2, <4>3, JoinFacts
      <4> QED
        BY <3>2, <4>1, <4>2, <4>4
    <3> QED
      BY <1>4, <3>4, <3>5, <3>7
  <2> QED
    BY <2>3, <2>4
<1>5. Good(n)
  <2> DEFINE T == {i \in Nat : i <= n /\ ~Good(i)}
  <2> HIDE DEF Good
  <2>1. ASSUME T # {} PROVE FALSE
    <3>1. T \subseteq Nat
      OBVIOUS
    <3>2. PICK m \in T : \A i \in T : m <= i
      <4> HIDE DEF T
      <4> QED
        BY <2>1, <3>1, MinIsLeast
    <3>3. m \in Nat /\ m <= n /\ ~Good(m) /\ m # 0
      BY <1>3, <3>2
    <3>4. m - 1 \in Nat /\ m - 1 <= n /\ m - 1 \notin T /\ m \in 1..n
      BY <3>2, <3>3
    <3>5. Good(m - 1)
      BY <3>4
    <3> QED
      BY <1>4, <3>3, <3>4, <3>5
  <2> QED
    BY <1>1, <2>1
<1>6. Unlinked(s, p) = w[n]
  BY <1>1 DEF Unlinked, w
<1>7. \A b : Kept(n, b) <=> b \in Range(s) /\ b.page # p
  BY <1>1 DEF Range
<1> HIDE DEF Kept
<1> QED
  BY <1>5, <1>6, <1>7

-----------------------------------------------------------------------------
(* Types.                                                                  *)

\* Thread t goes on at point p with the local variables l.
Steps(t, p, l) ==
  /\ p \in Points /\ l \in Locals /\ LocalOK(p, l)
  /\ pc' = [pc EXCEPT ![t] = p] /\ local' = [local EXCEPT ![t] = l]

\* What such a step leaves as it is.
LEMMA StepsFacts ==
    ASSUME ThreadShape, NEW t \in Thread, NEW p, NEW l, Steps(t, p, l)
    PROVE  /\ ThreadShape'
           /\ pc'[t] = p /\ local'[t] = l /\ Hand(t)' = InHand(p, l)
           /\ \A u \in Thread : u # t => pc'[u] = pc[u] /\ local'[u] = local[u] /\ Hand(u)' = Hand(u)
           /\ Hands' = [Hands EXCEPT ![t] = InHand(p, l)] /\ Hands[t] = Hand(t)
<1>1. pc \in [Thread -> Points] /\ local \in [Thread -> Locals]
  BY DEF ThreadShape
<1>2. pc'[t] = p /\ local'[t] = l
  BY <1>1 DEF Steps
<1>3. \A u \in Thread : u # t => pc'[u] = pc[u] /\ local'[u] = local[u]
  BY <1>1 DEF Steps
<1>4. pc' \in [Thread -> Points] /\ local' \in [Thread -> Locals]
  BY <1>1 DEF Steps
<1>5. \A u \in Thread : LocalOK(pc'[u], local'[u])
  BY <1>2, <1>3 DEF Steps, ThreadShape
<1>6. ThreadShape'
  BY <1>4, <1>5 DEF ThreadShape, LocalOK
<1>7. Hand(t)' = InHand(p, l)
  BY <1>2 DEF Hand, InHand
<1>8. \A u \in Thread : u # t => Hand(u)' = Hand(u)
  BY <1>3 DEF Hand, InHand
<1>9. Hands' = [u \in Thread |-> IF u = t THEN InHand(p, l) ELSE Hand(u)]
  BY <1>7, <1>8 DEF Hands
<1>10. Hands' = [Hands EXCEPT ![t] = InHand(p, l)] /\ Hands[t] = Hand(t)
  BY <1>9 DEF Hands
<1> QED
  BY <1>2, <1>3, <1>6, <1>7, <1>8, <1>10

\* The local variables of a thread at rest.
LEMMA IdleFacts ==
    /\ Idle \in Locals /\ LocalOK("idle", Idle) /\ InHand("idle", Idle) = {}
    /\ 1 \in Page /\ 0 \in Offset /\ Page \subseteq Nat \ {0}
<1>1. 1 \in Page /\ 0 \in Offset /\ Page \subseteq Nat \ {0}
  BY DEF Page, Offset
<1>2. NoBlock \in Blk
  BY <1>1 DEF NoBlock, Block, Blk
<1>3. 1 \in Class
  BY ClassFacts
<1>4. Idle \in Locals
  BY <1>2, <1>3 DEF Idle, Locals
<1>5. LocalOK("idle", Idle)
  BY DEF LocalOK
<1>6. InHand("idle", Idle) = {}
  BY DEF InHand
<1> QED
  BY <1>1, <1>4, <1>5, <1>6

\* A call that ends.
LEMMA DoneSteps ==
    ASSUME NEW t \in Thread, Done(t)
    PROVE  Steps(t, "idle", Idle)
  BY IdleFacts DEF Done, Steps, Points

\* The fields of the local variables.
LEMMA FieldTypes ==
    ASSUME NEW l \in Locals
    PROVE  /\ l.bytes \in Nat /\ l.class \in Class /\ l.block \in Blk /\ l.idx \in Nat
           /\ l.freed \in Nat /\ l.pages \in Nat /\ l.block.page \in Page /\ l.block.offset \in Offset
<1>1. l \in [bytes : Nat, class : Class, block : Blk, idx : Nat, freed : Nat, pages : Nat]
  BY DEF Locals
<1>2. l.block \in Blk
  BY <1>1
<1>3. l.block.page \in Page /\ l.block.offset \in Offset
  BY <1>2 DEF Blk
<1>4. l.bytes \in Nat /\ l.class \in Class /\ l.idx \in Nat /\ l.freed \in Nat /\ l.pages \in Nat
  BY <1>1
<1> QED
  BY <1>2, <1>3, <1>4

\* Changing bytes keeps the other fields.
LEMMA SetBytes ==
    ASSUME NEW l \in Locals, NEW x \in Nat
    PROVE  \E m \in Locals : /\ m = [l EXCEPT !.bytes = x] /\ m.bytes = x
                             /\ m.class = l.class /\ m.block = l.block /\ m.idx = l.idx /\ m.freed = l.freed /\ m.pages = l.pages
<1>1. l \in [bytes : Nat, class : Class, block : Blk, idx : Nat, freed : Nat, pages : Nat]
  BY DEF Locals
<1>2. PICK m : m = [l EXCEPT !.bytes = x]
  OBVIOUS
<1>3. m \in Locals
  BY <1>1, <1>2 DEF Locals
<1>4. m.bytes = x /\ m.class = l.class /\ m.block = l.block /\ m.idx = l.idx /\ m.freed = l.freed /\ m.pages = l.pages
  BY <1>1, <1>2
<1> QED
  BY <1>2, <1>3, <1>4

\* Changing class keeps the other fields.
LEMMA SetClass ==
    ASSUME NEW l \in Locals, NEW x \in Class
    PROVE  \E m \in Locals : /\ m = [l EXCEPT !.class = x] /\ m.class = x
                             /\ m.bytes = l.bytes /\ m.block = l.block /\ m.idx = l.idx /\ m.freed = l.freed /\ m.pages = l.pages
<1>1. l \in [bytes : Nat, class : Class, block : Blk, idx : Nat, freed : Nat, pages : Nat]
  BY DEF Locals
<1>2. PICK m : m = [l EXCEPT !.class = x]
  OBVIOUS
<1>3. m \in Locals
  BY <1>1, <1>2 DEF Locals
<1>4. m.class = x /\ m.bytes = l.bytes /\ m.block = l.block /\ m.idx = l.idx /\ m.freed = l.freed /\ m.pages = l.pages
  BY <1>1, <1>2
<1> QED
  BY <1>2, <1>3, <1>4

\* Changing block keeps the other fields.
LEMMA SetBlock ==
    ASSUME NEW l \in Locals, NEW x \in Blk
    PROVE  \E m \in Locals : /\ m = [l EXCEPT !.block = x] /\ m.block = x
                             /\ m.bytes = l.bytes /\ m.class = l.class /\ m.idx = l.idx /\ m.freed = l.freed /\ m.pages = l.pages
<1>1. l \in [bytes : Nat, class : Class, block : Blk, idx : Nat, freed : Nat, pages : Nat]
  BY DEF Locals
<1>2. PICK m : m = [l EXCEPT !.block = x]
  OBVIOUS
<1>3. m \in Locals
  BY <1>1, <1>2 DEF Locals
<1>4. m.block = x /\ m.bytes = l.bytes /\ m.class = l.class /\ m.idx = l.idx /\ m.freed = l.freed /\ m.pages = l.pages
  BY <1>1, <1>2
<1> QED
  BY <1>2, <1>3, <1>4

\* Changing idx keeps the other fields.
LEMMA SetIdx ==
    ASSUME NEW l \in Locals, NEW x \in Nat
    PROVE  \E m \in Locals : /\ m = [l EXCEPT !.idx = x] /\ m.idx = x
                             /\ m.bytes = l.bytes /\ m.class = l.class /\ m.block = l.block /\ m.freed = l.freed /\ m.pages = l.pages
<1>1. l \in [bytes : Nat, class : Class, block : Blk, idx : Nat, freed : Nat, pages : Nat]
  BY DEF Locals
<1>2. PICK m : m = [l EXCEPT !.idx = x]
  OBVIOUS
<1>3. m \in Locals
  BY <1>1, <1>2 DEF Locals
<1>4. m.idx = x /\ m.bytes = l.bytes /\ m.class = l.class /\ m.block = l.block /\ m.freed = l.freed /\ m.pages = l.pages
  BY <1>1, <1>2
<1> QED
  BY <1>2, <1>3, <1>4

\* Changing freed keeps the other fields.
LEMMA SetFreed ==
    ASSUME NEW l \in Locals, NEW x \in Nat
    PROVE  \E m \in Locals : /\ m = [l EXCEPT !.freed = x] /\ m.freed = x
                             /\ m.bytes = l.bytes /\ m.class = l.class /\ m.block = l.block /\ m.idx = l.idx /\ m.pages = l.pages
<1>1. l \in [bytes : Nat, class : Class, block : Blk, idx : Nat, freed : Nat, pages : Nat]
  BY DEF Locals
<1>2. PICK m : m = [l EXCEPT !.freed = x]
  OBVIOUS
<1>3. m \in Locals
  BY <1>1, <1>2 DEF Locals
<1>4. m.freed = x /\ m.bytes = l.bytes /\ m.class = l.class /\ m.block = l.block /\ m.idx = l.idx /\ m.pages = l.pages
  BY <1>1, <1>2
<1> QED
  BY <1>2, <1>3, <1>4

\* Changing pages keeps the other fields.
LEMMA SetPages ==
    ASSUME NEW l \in Locals, NEW x \in Nat
    PROVE  \E m \in Locals : /\ m = [l EXCEPT !.pages = x] /\ m.pages = x
                             /\ m.bytes = l.bytes /\ m.class = l.class /\ m.block = l.block /\ m.idx = l.idx /\ m.freed = l.freed
<1>1. l \in [bytes : Nat, class : Class, block : Blk, idx : Nat, freed : Nat, pages : Nat]
  BY DEF Locals
<1>2. PICK m : m = [l EXCEPT !.pages = x]
  OBVIOUS
<1>3. m \in Locals
  BY <1>1, <1>2 DEF Locals
<1>4. m.pages = x /\ m.bytes = l.bytes /\ m.class = l.class /\ m.block = l.block /\ m.idx = l.idx /\ m.freed = l.freed
  BY <1>1, <1>2
<1> QED
  BY <1>2, <1>3, <1>4

\* A call that finds a block on its list.
LEMMA PopSteps ==
    ASSUME Shape, ListsOnce, NEW t \in Thread, NEW n \in Sizes, PopBlock(t, n)
    PROVE  /\ ClassOf(n) \in Class /\ Head(lists[ClassOf(n)]) \in Blk
           /\ \E l \in Locals : /\ Steps(t, "header", l)
                                /\ l.class = ClassOf(n) /\ l.block = Head(lists[ClassOf(n)])
<1>1. n \in Nat /\ n <= SmallMax
  BY DEF PopBlock
<1>2. PICK c \in Class : c = ClassOf(n) /\ n + HeaderSize <= NxpClassSize[c]
  BY <1>1, ClassOfFits
<1>3. PICK s \in Seq(Blk) : s = lists[c] /\ s # << >> /\ IsInjective(s)
  BY <1>2 DEF PopBlock, Shape, DataShape, ListsOnce
<1>4. PICK b \in Blk : b = Head(s)
  BY <1>3, TailFacts
<1>5. PICK l \in Locals : l = local[t]
  BY DEF Shape, ThreadShape
<1>6. PICK l1 \in Locals : l1 = [l EXCEPT !.bytes = n] /\ l1.bytes = n
  BY <1>1, SetBytes
<1>7. PICK l2 \in Locals : l2 = [l1 EXCEPT !.class = c] /\ l2.bytes = l1.bytes /\ l2.class = c
  BY SetClass
<1>8. PICK l3 \in Locals : /\ l3 = [l2 EXCEPT !.block = b] /\ l3.block = b
                           /\ l3.bytes = l2.bytes /\ l3.class = l2.class
  BY SetBlock
<1>9. local' = [local EXCEPT ![t] = l3]
  <2>1. local' = [local EXCEPT ![t].bytes = n, ![t].class = c, ![t].block = b]
    BY <1>2, <1>3, <1>4 DEF PopBlock
  <2>2. local \in [Thread -> Locals]
    BY DEF Shape, ThreadShape
  <2>3. local' = [local EXCEPT ![t] = [[[local[t] EXCEPT !.bytes = n] EXCEPT !.class = c] EXCEPT !.block = b]]
    BY <2>1, <2>2
  <2> QED
    BY <1>5, <1>6, <1>7, <1>8, <2>3
<1>10. l3.bytes = n /\ l3.class = c
  BY <1>6, <1>7, <1>8
<1>11. LocalOK("header", l3)
  BY <1>2, <1>10 DEF LocalOK
<1>12. Steps(t, "header", l3)
  BY <1>9, <1>11 DEF Steps, PopBlock, Goto, Points
<1> QED
  BY <1>2, <1>3, <1>4, <1>8, <1>10, <1>12

\* A call that asks for pages.
LEMMA BeginSteps ==
    ASSUME Shape, NEW t \in Thread, NEW n \in Sizes, RefillBegin(t, n) \/ BigBegin(t, n)
    PROVE  \E l \in Locals : Steps(t, "pages", l)
<1>1. n \in Nat /\ local \in [Thread -> Locals]
  BY DEF Shape, ThreadShape
<1>2. PICK l \in Locals : l = local[t]
  BY <1>1
<1>3. PICK l1 \in Locals : l1 = [l EXCEPT !.bytes = n] /\ l1.bytes = n
  BY <1>1, SetBytes
<1>4. CASE RefillBegin(t, n)
  <2>1. PICK c \in Class : c = ClassOf(n) /\ n <= SmallMax
    BY <1>1, <1>4, ClassOfFits DEF RefillBegin
  <2>2. PICK l2 \in Locals : l2 = [l1 EXCEPT !.class = c] /\ l2.bytes = l1.bytes /\ l2.class = c
    BY SetClass
  <2>3. PICK l3 \in Locals : /\ l3 = [l2 EXCEPT !.pages = 1] /\ l3.pages = 1
                             /\ l3.bytes = l2.bytes /\ l3.class = l2.class
    BY SetPages
  <2>4. local' = [local EXCEPT ![t].bytes = n, ![t].class = c, ![t].pages = 1]
    BY <1>4, <2>1 DEF RefillBegin
  <2>5. local' = [local EXCEPT ![t] = [[[local[t] EXCEPT !.bytes = n] EXCEPT !.class = c] EXCEPT !.pages = 1]]
    BY <1>1, <2>4
  <2>6. local' = [local EXCEPT ![t] = l3]
    BY <1>2, <1>3, <2>2, <2>3, <2>5
  <2>7. LocalOK("pages", l3)
    BY <1>1, <1>3, <2>1, <2>2, <2>3 DEF LocalOK, Asks
  <2>8. pc' = [pc EXCEPT ![t] = "pages"]
    BY <1>4 DEF RefillBegin, Goto
  <2> QED
    BY <2>6, <2>7, <2>8 DEF Steps, Points
<1>5. CASE BigBegin(t, n)
  <2>1. n > SmallMax
    BY <1>5 DEF BigBegin
  <2>2. PICK g \in Nat \ {0} : g = BytesToPages(n)
    <3>1. PICK x \in Nat : x = n + PageSize - 1
      BY <1>1
    <3>2. PICK q \in Nat : q = x \div PageSize /\ x < q * PageSize + PageSize
      BY Quotient
    <3>3. q # 0
      <4>1. ASSUME q = 0 PROVE FALSE
        <5>1. q * PageSize = 0
          BY <4>1
        <5> QED
          BY <1>1, <2>1, <3>1, <3>2, <5>1
      <4> QED
        BY <4>1
    <3> QED
      BY <3>1, <3>2, <3>3 DEF BytesToPages
  <2>3. PICK l2 \in Locals : l2 = [l1 EXCEPT !.pages = g] /\ l2.bytes = l1.bytes /\ l2.pages = g
    BY SetPages
  <2>4. local' = [local EXCEPT ![t].bytes = n, ![t].pages = g]
    BY <1>5, <2>2 DEF BigBegin
  <2>5. local' = [local EXCEPT ![t] = [[local[t] EXCEPT !.bytes = n] EXCEPT !.pages = g]]
    BY <1>1, <2>4
  <2>6. local' = [local EXCEPT ![t] = l2]
    BY <1>2, <1>3, <2>3, <2>5
  <2>7. LocalOK("pages", l2)
    BY <1>1, <1>3, <2>1, <2>3 DEF LocalOK, Asks
  <2>8. pc' = [pc EXCEPT ![t] = "pages"]
    BY <1>5 DEF BigBegin, Goto
  <2> QED
    BY <2>6, <2>7, <2>8 DEF Steps, Points
<1> QED
  BY <1>4, <1>5

\* Pages taken from the window: the call has them in its hands.
LEMMA TakeSteps ==
    ASSUME Shape, NEW t \in Thread, GetPages(t) \/ RetryPages(t)
    PROVE  /\ AfterPages(t) \in {"carve", "record"} /\ Hand(t) = {} /\ pc[t] \in {"pages", "retry"}
           /\ \E p \in window, l \in Locals :
                /\ Steps(t, AfterPages(t), l) /\ l.block = Block(p, 0) /\ l.pages = local[t].pages
                /\ PageRun(p, l.pages) \subseteq window /\ window' = window \ PageRun(p, l.pages)
                /\ header' = [q \in Page |-> IF q \in PageRun(p, l.pages) THEN [o \in Offset |-> Junk]
                                             ELSE header[q]]
<1>1. pc[t] \in {"pages", "retry"} /\ TakePages(t, local[t].pages) /\ Goto(t, AfterPages(t))
  BY DEF GetPages, RetryPages
<1>2. local \in [Thread -> Locals] /\ Asks(local[t]) /\ window \subseteq Page
  BY <1>1 DEF Shape, ThreadShape, DataShape, LocalOK
<1>3. PICK k \in Locals : k = local[t]
  BY <1>2
<1>4. PICK p \in window :
         /\ PageRun(p, k.pages) \subseteq window /\ window' = window \ PageRun(p, k.pages)
         /\ header' = [q \in Page |-> IF q \in PageRun(p, k.pages) THEN [o \in Offset |-> Junk] ELSE header[q]]
         /\ local' = [local EXCEPT ![t].block = Block(p, 0)]
  BY <1>1, <1>3 DEF TakePages
<1>5. Block(p, 0) \in Blk
  BY <1>2, IdleFacts DEF Block, Blk
<1>6. PICK l \in Locals : /\ l = [k EXCEPT !.block = Block(p, 0)] /\ l.block = Block(p, 0)
                          /\ l.bytes = k.bytes /\ l.class = k.class /\ l.pages = k.pages
  BY <1>5, SetBlock
<1>7. local' = [local EXCEPT ![t] = l]
  <2>1. local' = [local EXCEPT ![t] = [local[t] EXCEPT !.block = Block(p, 0)]]
    BY <1>2, <1>4
  <2> QED
    BY <1>3, <1>6, <2>1
<1>8. Asks(l)
  BY <1>2, <1>3, <1>6 DEF Asks
<1>9. CASE k.bytes > SmallMax
  <2>1. AfterPages(t) = "record"
    BY <1>3, <1>9 DEF AfterPages
  <2>2. LocalOK("record", l)
    BY <1>8 DEF LocalOK
  <2>3. Steps(t, AfterPages(t), l)
    BY <1>1, <1>7, <2>1, <2>2 DEF Steps, Goto, Points
  <2>4. Hand(t) = {}
    BY <1>1 DEF Hand, InHand
  <2> QED
    BY <1>1, <1>3, <1>4, <1>6, <2>1, <2>3, <2>4
<1>10. CASE ~(k.bytes > SmallMax)
  <2>1. AfterPages(t) = "carve"
    BY <1>3, <1>10 DEF AfterPages
  <2>2. l.bytes <= SmallMax /\ l.block.offset = 0
    <3>1. l.bytes \in Nat
      BY FieldTypes
    <3> QED
      BY <1>6, <1>10, <3>1 DEF Block
  <2>3. LocalOK("carve", l)
    BY <1>8, <2>2 DEF LocalOK
  <2>4. Steps(t, AfterPages(t), l)
    BY <1>1, <1>7, <2>1, <2>3 DEF Steps, Goto, Points
  <2>5. Hand(t) = {}
    BY <1>1 DEF Hand, InHand
  <2> QED
    BY <1>1, <1>3, <1>4, <1>6, <2>1, <2>4, <2>5
<1> QED
  BY <1>9, <1>10

\* Going on with the same local variables.
LEMMA GotoSteps ==
    ASSUME Shape, NEW t \in Thread, NEW p \in Points, Goto(t, p), local' = local,
           LocalOK(p, local[t])
    PROVE  Steps(t, p, local[t])
<1>1. local \in [Thread -> Locals]
  BY DEF Shape, ThreadShape
<1>2. local' = [local EXCEPT ![t] = local[t]] /\ local[t] \in Locals
  BY <1>1
<1> QED
  BY <1>2 DEF Steps, Goto

\* The steps that leave the local variables alone.
LEMMA PlainSteps ==
    ASSUME Shape, NEW t \in Thread
    PROVE  /\ GetPagesFails(t) => Steps(t, "sweep", local[t])
           /\ SweepCall(t) => Steps(t, "sweep", local[t])
           /\ SweepTake(t) => Steps(t, "sweepfree", local[t])
           /\ SweepEnd(t) => Steps(t, "idle", Idle) \/ Steps(t, "retry", local[t])
           /\ Carve(t) => Steps(t, "header", local[t])
<1>1. LocalOK(pc[t], local[t]) /\ local[t] \in Locals
  BY DEF Shape, ThreadShape
<1>2. ASSUME GetPagesFails(t) PROVE Steps(t, "sweep", local[t])
  <2>1. LocalOK("sweep", local[t])
    BY <1>1, <1>2 DEF GetPagesFails, LocalOK
  <2> QED
    BY <1>2, <2>1, GotoSteps DEF GetPagesFails, Points
<1>3. ASSUME SweepCall(t) PROVE Steps(t, "sweep", local[t])
  <2>1. local[t] = Idle
    BY <1>1, <1>3 DEF SweepCall, LocalOK
  <2>2. local[t].pages = 0
    BY <2>1 DEF Idle
  <2>3. LocalOK("sweep", local[t])
    BY <2>2 DEF LocalOK
  <2> QED
    BY <1>3, <2>3, GotoSteps DEF SweepCall, Points
<1>4. ASSUME SweepTake(t) PROVE Steps(t, "sweepfree", local[t])
  <2>1. LocalOK("sweepfree", local[t])
    BY <1>1, <1>4 DEF SweepTake, LocalOK
  <2>2. Goto(t, "sweepfree") /\ local' = local
    BY <1>4 DEF SweepTake
  <2> QED
    BY <2>1, <2>2, GotoSteps DEF Points
<1>5. ASSUME SweepEnd(t) PROVE Steps(t, "idle", Idle) \/ Steps(t, "retry", local[t])
  <2>1. CASE local[t].pages = 0
    BY <1>5, <2>1, DoneSteps DEF SweepEnd
  <2>2. CASE local[t].pages # 0
    <3>1. LocalOK("retry", local[t])
      BY <1>1, <1>5, <2>2 DEF SweepEnd, LocalOK
    <3> QED
      BY <1>5, <2>2, <3>1, GotoSteps DEF SweepEnd, Points
  <2> QED
    BY <2>1, <2>2
<1>6. ASSUME Carve(t) PROVE Steps(t, "header", local[t])
  <2>1. Goto(t, "header") /\ local' = local /\ pc[t] = "carve"
    BY <1>6 DEF Carve
  <2>2. local[t].bytes <= SmallMax /\ local[t].class = ClassOf(local[t].bytes) /\ local[t].bytes \in Nat
    BY <1>1, <2>1, FieldTypes DEF LocalOK, Asks
  <2>3. local[t].bytes + HeaderSize <= NxpClassSize[local[t].class]
    BY <2>2, ClassOfFits
  <2>4. LocalOK("header", local[t])
    BY <2>3 DEF LocalOK
  <2> QED
    BY <2>1, <2>4, GotoSteps DEF Points
<1> QED
  BY <1>2, <1>3, <1>4, <1>5, <1>6

\* The sweep goes on to the next page, after a page it passes over or one
\* it has given back.
LEMMA SweepSteps ==
    ASSUME Shape, NEW t \in Thread, SweepSkip(t) \/ SweepFree(t)
    PROVE  \E l \in Locals : Steps(t, "sweep", l)
<1>1. local \in [Thread -> Locals] /\ pc \in [Thread -> Points]
  BY DEF Shape, ThreadShape
<1>2. PICK k \in Locals : k = local[t]
  BY <1>1
<1>3. PICK i \in Nat, f \in Nat : i = k.idx + 1 /\ f = k.freed + 1
  BY FieldTypes
<1>4. k.pages = 0 \/ Asks(k)
  BY <1>2 DEF SweepSkip, SweepFree, Shape, ThreadShape, LocalOK
<1>5. PICK l \in Locals : l = [k EXCEPT !.idx = i] /\ l.bytes = k.bytes /\ l.class = k.class /\ l.pages = k.pages
  BY SetIdx
<1>6. l.pages = 0 \/ Asks(l)
  BY <1>4, <1>5 DEF Asks
<1>7. CASE SweepSkip(t)
  <2>1. local' = [local EXCEPT ![t] = [local[t] EXCEPT !.idx = i]]
    BY <1>1, <1>2, <1>3, <1>7 DEF SweepSkip
  <2>2. pc' = [pc EXCEPT ![t] = "sweep"]
    BY <1>1, <1>7 DEF SweepSkip
  <2>3. LocalOK("sweep", l)
    BY <1>6 DEF LocalOK
  <2> QED
    BY <1>2, <1>5, <2>1, <2>2, <2>3 DEF Steps, Points
<1>8. CASE SweepFree(t)
  <2>1. PICK m \in Locals : m = [l EXCEPT !.freed = f] /\ m.bytes = l.bytes /\ m.class = l.class /\ m.pages = l.pages
    BY SetFreed
  <2>2. local' = [local EXCEPT ![t].idx = i, ![t].freed = f]
    BY <1>1, <1>2, <1>3, <1>8 DEF SweepFree
  <2>3. local' = [local EXCEPT ![t] = [[local[t] EXCEPT !.idx = i] EXCEPT !.freed = f]]
    BY <1>1, <2>2
  <2>4. local' = [local EXCEPT ![t] = m]
    BY <1>2, <1>5, <2>1, <2>3
  <2>5. LocalOK("sweep", m)
    BY <1>6, <2>1 DEF LocalOK, Asks
  <2> QED
    BY <1>8, <2>4, <2>5 DEF Steps, Points, SweepFree, Goto
<1> QED
  BY <1>7, <1>8

\* A block handed back by its caller is carried to its list.
LEMMA FreeSteps ==
    ASSUME Shape, NEW t \in Thread, NEW b \in held, FreeBegin(t, b)
    PROVE  \E l \in Locals : Steps(t, "unheld", l) /\ l.block = Block(b.page, b.offset)
<1>1. local \in [Thread -> Locals]
  BY DEF Shape, ThreadShape
<1>2. PICK k \in Locals : k = local[t]
  BY <1>1
<1>3. Block(b.page, b.offset) \in Blk
  BY DEF Shape, DataShape, Block, Blk
<1>4. PICK l \in Locals : l = [k EXCEPT !.block = Block(b.page, b.offset)] /\ l.block = Block(b.page, b.offset)
  BY <1>3, SetBlock
<1>5. local' = [local EXCEPT ![t] = [local[t] EXCEPT !.block = Block(b.page, b.offset)]]
  BY <1>1 DEF FreeBegin
<1>6. LocalOK("unheld", l)
  BY DEF LocalOK
<1> QED
  BY <1>2, <1>4, <1>5, <1>6 DEF Steps, Points, FreeBegin, Goto

\* The pages of a whole-page block are in the hands of the call that frees it.
LEMMA FreeBigSteps ==
    ASSUME Shape, NEW t \in Thread, NEW r \in runs, FreeBig(t, r)
    PROVE  /\ Hand(t) = {}
           /\ \E l \in Locals : Steps(t, "bigfree", l) /\ InHand("bigfree", l) = Run(r)
<1>1. local \in [Thread -> Locals]
  BY DEF Shape, ThreadShape
<1>2. PICK k \in Locals : k = local[t]
  BY <1>1
<1>3. r.page \in Page /\ r.pages \in Nat \ {0}
  BY DEF Shape, DataShape
<1>4. PICK b \in Blk : b = Block(r.page, 0) /\ b.page = r.page
  <2>1. Block(r.page, 0) \in Blk
    BY <1>3, IdleFacts DEF Block, Blk
  <2>2. Block(r.page, 0).page = r.page
    BY DEF Block
  <2> QED
    BY <2>1, <2>2
<1>5. PICK l \in Locals : l = [k EXCEPT !.block = b] /\ l.block = b
  BY SetBlock
<1>6. PICK m \in Locals : m = [l EXCEPT !.pages = r.pages] /\ m.pages = r.pages /\ m.block = l.block
  BY <1>3, SetPages
<1>7. local' = [local EXCEPT ![t].block = b, ![t].pages = r.pages]
  BY <1>4 DEF FreeBig
<1>8. local' = [local EXCEPT ![t] = [[local[t] EXCEPT !.block = b] EXCEPT !.pages = r.pages]]
  BY <1>1, <1>7
<1>9. local' = [local EXCEPT ![t] = m]
  BY <1>2, <1>5, <1>6, <1>8
<1>10. LocalOK("bigfree", m)
  BY <1>3, <1>6 DEF LocalOK
<1>11. Steps(t, "bigfree", m)
  BY <1>9, <1>10 DEF Steps, Points, FreeBig, Goto
<1>12. InHand("bigfree", m) = Run(r)
  BY <1>4, <1>5, <1>6 DEF InHand, Run
<1>13. Hand(t) = {}
  BY DEF FreeBig, Hand, InHand
<1> QED
  BY <1>11, <1>12, <1>13

-----------------------------------------------------------------------------
(* Places of pages.                                                        *)

\* The pages of a run.
LEMMA RunFacts ==
    ASSUME NEW p \in Nat, NEW n \in Nat \ {0}
    PROVE  p \in PageRun(p, n) /\ PageRun(p, 1) = {p}
<1>1. p \in PageRun(p, n)
  BY DEF PageRun
<1>2. PageRun(p, 1) = {p}
  BY DEF PageRun
<1> QED
  BY <1>1, <1>2

\* A thread takes pages S from the window, or puts those it has there.
LEMMA PlacedWindow ==
    ASSUME NEW W, NEW B, NEW R, NEW H \in [Thread -> SUBSET Int], Placed(W, B, R, H), NEW t \in Thread
    PROVE  /\ \A S : H[t] = {} /\ S \subseteq W => Placed(W \ S, B, R, [H EXCEPT ![t] = S])
           /\ Placed(W \cup H[t], B, R, [H EXCEPT ![t] = {}])
<1>1. ASSUME NEW S, H[t] = {}, S \subseteq W PROVE Placed(W \ S, B, R, [H EXCEPT ![t] = S])
  <2> DEFINE G == [H EXCEPT ![t] = S]
  <2>1. G[t] = S /\ \A u \in Thread : u # t => G[u] = H[u]
    OBVIOUS
  <2> HIDE DEF G
  <2> QED
    BY <1>1, <2>1 DEF Placed
<1>2. Placed(W \cup H[t], B, R, [H EXCEPT ![t] = {}])
  <2> DEFINE G == [H EXCEPT ![t] = {}]
  <2>1. G[t] = {} /\ \A u \in Thread : u # t => G[u] = H[u]
    OBVIOUS
  <2> HIDE DEF G
  <2> QED
    BY <2>1 DEF Placed
<1> QED
  BY <1>1, <1>2

\* A page in its hands becomes a bucket, or a bucket comes into its hands.
LEMMA PlacedBucket ==
    ASSUME NEW W, NEW B, NEW R, NEW H \in [Thread -> SUBSET Int], Placed(W, B, R, H),
           NEW t \in Thread, NEW p \in Page
    PROVE  /\ H[t] = {p} => Placed(W, B \cup {p}, R, [H EXCEPT ![t] = {}])
           /\ H[t] = {} /\ p \in B => Placed(W, B \ {p}, R, [H EXCEPT ![t] = {p}])
<1>1. ASSUME H[t] = {p} PROVE Placed(W, B \cup {p}, R, [H EXCEPT ![t] = {}])
  <2> DEFINE G == [H EXCEPT ![t] = {}]
  <2>1. G[t] = {} /\ \A u \in Thread : u # t => G[u] = H[u]
    OBVIOUS
  <2> HIDE DEF G
  <2> QED
    BY <1>1, <2>1 DEF Placed
<1>2. ASSUME H[t] = {}, p \in B PROVE Placed(W, B \ {p}, R, [H EXCEPT ![t] = {p}])
  <2> DEFINE G == [H EXCEPT ![t] = {p}]
  <2>1. G[t] = {p} /\ \A u \in Thread : u # t => G[u] = H[u]
    OBVIOUS
  <2> HIDE DEF G
  <2> QED
    BY <1>2, <2>1 DEF Placed
<1> QED
  BY <1>1, <1>2

\* The pages in its hands become a block, or a block comes into its hands.
LEMMA PlacedRun ==
    ASSUME NEW W, NEW B, NEW R, NEW H \in [Thread -> SUBSET Int], Placed(W, B, R, H),
           NEW t \in Thread, NEW r
    PROVE  /\ H[t] = Run(r) => Placed(W, B, R \cup {r}, [H EXCEPT ![t] = {}])
           /\ H[t] = {} /\ r \in R => Placed(W, B, R \ {r}, [H EXCEPT ![t] = Run(r)])
<1>1. ASSUME H[t] = Run(r) PROVE Placed(W, B, R \cup {r}, [H EXCEPT ![t] = {}])
  <2> DEFINE G == [H EXCEPT ![t] = {}]
  <2>1. G[t] = {} /\ \A u \in Thread : u # t => G[u] = H[u]
    OBVIOUS
  <2> HIDE DEF G
  <2> QED
    BY <1>1, <2>1 DEF Placed
<1>2. ASSUME H[t] = {}, r \in R PROVE Placed(W, B, R \ {r}, [H EXCEPT ![t] = Run(r)])
  <2> DEFINE G == [H EXCEPT ![t] = Run(r)]
  <2>1. G[t] = Run(r) /\ \A u \in Thread : u # t => G[u] = H[u]
    OBVIOUS
  <2> HIDE DEF G
  <2> QED
    BY <1>2, <2>1 DEF Placed
<1> QED
  BY <1>1, <1>2

-----------------------------------------------------------------------------
(* Blocks.                                                                 *)

\* The blocks of a page are finitely many.
LEMMA OutFinite ==
    ASSUME NEW O, O \subseteq Blk, NEW p
    PROVE  IsFiniteSet(OutOf(O, p)) /\ Cardinality(OutOf(O, p)) \in Nat
<1>1. IsFiniteSet(Offset)
  <2>1. 0 \in Int /\ PageSize - 1 \in Int
    OBVIOUS
  <2> QED
    BY <2>1, FS_Interval DEF Offset
<1> DEFINE f == [b \in OutOf(O, p) |-> b.offset]
<1>2. f \in [OutOf(O, p) -> Offset]
  BY DEF OutOf, Blk
<1>3. ASSUME NEW a \in OutOf(O, p), NEW b \in OutOf(O, p), a.offset = b.offset PROVE a = b
  <2>1. a \in [page : Page, offset : Offset] /\ b \in [page : Page, offset : Offset] /\ a.page = b.page
    BY DEF OutOf, Blk
  <2> QED
    BY <1>3, <2>1
<1>4. f \in Injection(OutOf(O, p), Offset)
  <2>1. IsInjective(f)
    BY <1>3 DEF IsInjective
  <2> HIDE DEF f
  <2> QED
    BY <1>2, <2>1 DEF Injection
<1>5. IsFiniteSet(OutOf(O, p))
  <2> HIDE DEF f
  <2> QED
    BY <1>1, <1>4, FS_Injection DEF ExistsInjection
<1> QED
  BY <1>5, FS_CardinalityType

\* A block is determined by its page and its offset.
LEMMA BlockIs ==
    ASSUME NEW b \in Blk
    PROVE  /\ b.page \in Page /\ b.offset \in Offset /\ b = Block(b.page, b.offset)
           /\ \A q, o : b = Block(q, o) <=> b.page = q /\ b.offset = o
<1>1. b \in [page : Page, offset : Offset]
  BY DEF Blk
<1>2. b.page \in Page /\ b.offset \in Offset /\ b = Block(b.page, b.offset)
  BY <1>1 DEF Block
<1>3. \A q, o : Block(q, o).page = q /\ Block(q, o).offset = o
  BY DEF Block
<1> QED
  BY <1>2, <1>3

\* A listed block goes out.
LEMMA SoundPop ==
    ASSUME NEW O, O \subseteq Blk, NEW L \in [Class -> SUBSET Blk], NEW st \in [Page -> Int],
           NEW B, B \subseteq Page, NEW h, NEW X, Sound(O, L, st, B, h, X),
           NEW c \in Class, NEW x \in L[c]
    PROVE  /\ x \in Blk /\ x.page \in B /\ st[x.page] \in Nat
           /\ Sound(O \cup {x}, [L EXCEPT ![c] = @ \ {x}], [st EXCEPT ![x.page] = @ + 1], B, h,
                    X \cup {<<x, c>>})
<1> DEFINE P == O \cup {x}
           M == [L EXCEPT ![c] = @ \ {x}]
           s2 == [st EXCEPT ![x.page] = @ + 1]
           Y == X \cup {<<x, c>>}
<1>1. x \in Blk /\ x \notin O
  BY DEF Sound
<1>2. x.page \in B /\ x.page \in Page /\ h[x.page][x.offset].magic = "free"
  BY <1>1 DEF Sound
<1>3. st[x.page] = Cardinality(OutOf(O, x.page)) /\ st[x.page] \in Nat
  BY <1>2, OutFinite DEF Sound
<1>4. M[c] = L[c] \ {x} /\ \A d \in Class : d # c => M[d] = L[d]
  OBVIOUS
<1>5. \A d \in Class : M[d] \subseteq L[d]
  BY <1>4
<1>6. s2[x.page] = st[x.page] + 1 /\ \A p \in Page : p # x.page => s2[p] = st[p]
  BY <1>2
<1>7. x \notin UNION {M[d] : d \in Class}
  <2>1. ASSUME NEW d \in Class, x \in M[d] PROVE FALSE
    BY <1>4, <1>5, <2>1 DEF Sound
  <2> QED
    BY <2>1
<1> HIDE DEF M, s2
<1>8. \A d \in Class : M[d] \cap P = {}
  BY <1>5, <1>7 DEF Sound
<1>9. \A d, e \in Class : d # e => M[d] \cap M[e] = {}
  BY <1>5 DEF Sound
<1>10. \A b \in P : b.page \in B
  BY <1>2 DEF Sound
<1>11. \A d \in Class : \A b \in M[d] : b.page \in B /\ h[b.page][b.offset].magic = "free"
  BY <1>5 DEF Sound
<1>12. \A y \in Y : y[1] \in P
  BY DEF Sound
<1>13. ASSUME NEW p \in B PROVE s2[p] = Cardinality(OutOf(P, p))
  <2>1. CASE p # x.page
    <3>1. OutOf(P, p) = OutOf(O, p)
      BY <2>1 DEF OutOf
    <3>2. st[p] = Cardinality(OutOf(O, p))
      BY DEF Sound
    <3> QED
      BY <1>6, <2>1, <3>1, <3>2
  <2>2. CASE p = x.page
    <3>1. OutOf(P, p) = OutOf(O, p) \cup {x} /\ x \notin OutOf(O, p)
      BY <1>1, <2>2 DEF OutOf
    <3>2. Cardinality(OutOf(O, p) \cup {x}) = Cardinality(OutOf(O, p)) + 1
      BY <3>1, OutFinite, FS_AddElement
    <3> QED
      BY <1>3, <1>6, <2>2, <3>1, <3>2
  <2> QED
    BY <2>1, <2>2
<1>14. ASSUME NEW p \in B PROVE \E e \in Class : CarvedAs(P, M, h, Y, p, e)
  <2>1. PICK e \in Class : CarvedAs(O, L, h, X, p, e)
    BY DEF Sound
  <2>2. \A o \in Offsets(e) : Block(p, o) \in P \cup M[e]
    <3>1. SUFFICES ASSUME NEW o \in Offsets(e) PROVE Block(p, o) \in P \cup M[e]
      OBVIOUS
    <3>2. Block(p, o) \in O \cup L[e]
      BY <2>1 DEF CarvedAs
    <3>3. L[e] \subseteq M[e] \cup {x}
      BY <1>4
    <3> QED
      BY <3>2, <3>3
  <2>3. x.page = p => c = e /\ x.offset \in Offsets(e)
    BY <2>1 DEF CarvedAs
  <2>4. \A b \in P : b.page = p => b.offset \in Offsets(e)
    BY <2>1, <2>3 DEF CarvedAs
  <2>5. \A d \in Class : \A b \in M[d] : b.page = p => d = e /\ b.offset \in Offsets(e)
    BY <1>5, <2>1 DEF CarvedAs
  <2>6. \A o \in Offsets(e) : h[p][o].class = e \/ <<Block(p, o), e>> \in Y
    BY <2>1 DEF CarvedAs
  <2>7. \A y \in Y : y[1].page = p => y[2] = e
    BY <2>1, <2>3 DEF CarvedAs
  <2> QED
    BY <2>2, <2>4, <2>5, <2>6, <2>7 DEF CarvedAs
<1>15. Sound(P, M, s2, B, h, Y)
  <2> HIDE DEF P, Y
  <2> QED
    BY <1>8, <1>9, <1>10, <1>11, <1>12, <1>13, <1>14 DEF Sound
<1> QED
  BY <1>1, <1>2, <1>3, <1>15 DEF M, s2

\* The header of block x is written and says that it is free.
FreeAt(h, X, x) == h[x.page][x.offset].magic = "free" /\ \A y \in X : y[1] # x

\* A block that is out goes back on the list its header names.
Pushed(O, L, st, B, h, X, x) ==
  /\ x.page \in B /\ st[x.page] \in Nat \ {0}
  /\ \E c \in Class :
       /\ c = h[x.page][x.offset].class
       /\ Sound(O \ {x}, [L EXCEPT ![c] = {x} \cup @], [st EXCEPT ![x.page] = @ - 1], B, h, X)

\* That keeps the blocks sound.
LEMMA SoundPush ==
    ASSUME NEW O, O \subseteq Blk, NEW L \in [Class -> SUBSET Blk], NEW st \in [Page -> Int],
           NEW B, B \subseteq Page, NEW h, NEW X, Sound(O, L, st, B, h, X),
           NEW x \in O, FreeAt(h, X, x)
    PROVE  Pushed(O, L, st, B, h, X, x)
<1> USE DEF FreeAt
<1>1. x \in Blk /\ x.page \in B /\ x.page \in Page /\ x = Block(x.page, x.offset)
  BY BlockIs DEF Sound
<1>2. PICK c \in Class : CarvedAs(O, L, h, X, x.page, c)
  BY <1>1 DEF Sound
<1>3. x.offset \in Offsets(c)
  BY <1>2 DEF CarvedAs
<1>4. h[x.page][x.offset].class = c
  <2>1. <<Block(x.page, x.offset), c>> \notin X
    <3>1. ASSUME NEW y \in X, y = <<Block(x.page, x.offset), c>> PROVE FALSE
      BY <1>1, <3>1
    <3> QED
      BY <3>1
  <2> QED
    BY <1>2, <1>3, <2>1 DEF CarvedAs
<1> DEFINE P == O \ {x}
           M == [L EXCEPT ![c] = {x} \cup @]
           s2 == [st EXCEPT ![x.page] = @ - 1]
<1>5. st[x.page] = Cardinality(OutOf(O, x.page)) /\ x \in OutOf(O, x.page)
  BY <1>1 DEF Sound, OutOf
<1>6. /\ st[x.page] \in Nat \ {0}
      /\ Cardinality(OutOf(O, x.page) \ {x}) = Cardinality(OutOf(O, x.page)) - 1
      /\ Cardinality(OutOf(O, x.page) \ {x}) \in Nat
  <2>1. IsFiniteSet(OutOf(O, x.page)) /\ Cardinality(OutOf(O, x.page)) \in Nat
    BY OutFinite
  <2>2. /\ IsFiniteSet(OutOf(O, x.page) \ {x})
        /\ Cardinality(OutOf(O, x.page) \ {x}) = Cardinality(OutOf(O, x.page)) - 1
    BY <1>5, <2>1, FS_RemoveElement
  <2>3. Cardinality(OutOf(O, x.page) \ {x}) \in Nat
    BY <2>2, FS_CardinalityType
  <2> QED
    BY <1>5, <2>1, <2>2, <2>3
<1>7. M[c] = L[c] \cup {x} /\ \A d \in Class : d # c => M[d] = L[d]
  OBVIOUS
<1>8. s2[x.page] = st[x.page] - 1 /\ \A p \in Page : p # x.page => s2[p] = st[p]
  BY <1>1
<1> HIDE DEF M, s2
<1>9. \A d \in Class : x \notin L[d]
  BY DEF Sound
<1>10. \A d \in Class : M[d] \cap P = {}
  BY <1>7 DEF Sound
<1>11. \A d, e \in Class : d # e => M[d] \cap M[e] = {}
  BY <1>7, <1>9 DEF Sound
<1>12. \A b \in P : b.page \in B
  BY DEF Sound
<1>13. \A d \in Class : \A b \in M[d] : b.page \in B /\ h[b.page][b.offset].magic = "free"
  <2>1. SUFFICES ASSUME NEW d \in Class, NEW b \in M[d]
                 PROVE  b.page \in B /\ h[b.page][b.offset].magic = "free"
    OBVIOUS
  <2>2. b \in L[d] \/ b = x
    BY <1>7
  <2>3. CASE b \in L[d]
    BY <2>3 DEF Sound
  <2>4. CASE b = x
    BY <1>1, <2>4
  <2> QED
    BY <2>2, <2>3, <2>4
<1>14. \A y \in X : y[1] \in P
  BY DEF Sound
<1>15. ASSUME NEW p \in B PROVE s2[p] = Cardinality(OutOf(P, p))
  <2>1. CASE p # x.page
    <3>1. OutOf(P, p) = OutOf(O, p)
      BY <2>1 DEF OutOf
    <3>2. st[p] = Cardinality(OutOf(O, p))
      BY DEF Sound
    <3> QED
      BY <1>8, <2>1, <3>1, <3>2
  <2>2. CASE p = x.page
    <3>1. OutOf(P, p) = OutOf(O, p) \ {x}
      BY <2>2 DEF OutOf
    <3> QED
      BY <1>5, <1>6, <1>8, <2>2, <3>1
  <2> QED
    BY <2>1, <2>2
<1>16. ASSUME NEW p \in B PROVE \E e \in Class : CarvedAs(P, M, h, X, p, e)
  <2>1. PICK e \in Class : CarvedAs(O, L, h, X, p, e) /\ (p = x.page => e = c)
    BY <1>2 DEF Sound
  <2>2. \A o \in Offsets(e) : Block(p, o) \in P \cup M[e]
    <3>1. SUFFICES ASSUME NEW o \in Offsets(e) PROVE Block(p, o) \in P \cup M[e]
      OBVIOUS
    <3>2. Block(p, o) \in O \cup L[e] /\ L[e] \subseteq M[e]
      BY <1>7, <2>1 DEF CarvedAs
    <3>3. Block(p, o) = x => p = x.page
      BY <1>1, BlockIs
    <3> QED
      BY <1>7, <2>1, <3>2, <3>3
  <2>3. \A b \in P : b.page = p => b.offset \in Offsets(e)
    BY <2>1 DEF CarvedAs
  <2>4. \A d \in Class : \A b \in M[d] : b.page = p => d = e /\ b.offset \in Offsets(e)
    BY <1>3, <1>7, <2>1 DEF CarvedAs
  <2>5. \A o \in Offsets(e) : h[p][o].class = e \/ <<Block(p, o), e>> \in X
    BY <2>1 DEF CarvedAs
  <2>6. \A y \in X : y[1].page = p => y[2] = e
    BY <2>1 DEF CarvedAs
  <2> QED
    BY <2>2, <2>3, <2>4, <2>5, <2>6 DEF CarvedAs
<1>17. Sound(P, M, s2, B, h, X)
  <2> HIDE DEF P
  <2> QED
    BY <1>10, <1>11, <1>12, <1>13, <1>14, <1>15, <1>16 DEF Sound
<1> QED
  BY <1>1, <1>4, <1>6, <1>17 DEF M, s2, Pushed

\* A header is written: of a block that is out, with the class it is to
\* have, and where one was to be written it is now.
LEMMA SoundWrite ==
    ASSUME NEW O, O \subseteq Blk, NEW L \in [Class -> SUBSET Blk], NEW st, NEW B, NEW h, NEW X,
           Sound(O, L, st, B, h, X), NEW x \in O, NEW c, NEW g, NEW Y,
           \A b \in Blk : b # x => g[b.page][b.offset] = h[b.page][b.offset],
           g[x.page][x.offset].class = c,
           \/ <<x, c>> \in X /\ Y = X \ {<<x, c>>}
           \/ Y = X /\ c = h[x.page][x.offset].class,
           B \subseteq Page
    PROVE  Sound(O, L, st, B, g, Y)
<1>1. x \in Blk /\ x = Block(x.page, x.offset)
  BY BlockIs
<1>2. \A d \in Class : \A b \in L[d] : b \in Blk /\ b # x
  BY DEF Sound
<1>3. \A d \in Class : \A b \in L[d] : b.page \in B /\ g[b.page][b.offset].magic = "free"
  BY <1>2 DEF Sound
<1>4. \A y \in Y : y \in X /\ y[1] \in O
  BY DEF Sound
<1>5. ASSUME NEW p \in B PROVE \E e \in Class : CarvedAs(O, L, g, Y, p, e)
  <2>1. PICK e \in Class : CarvedAs(O, L, h, X, p, e)
    BY DEF Sound
  <2>2. ASSUME NEW o \in Offsets(e) PROVE g[p][o].class = e \/ <<Block(p, o), e>> \in Y
    <3>1. h[p][o].class = e \/ <<Block(p, o), e>> \in X
      BY <2>1 DEF CarvedAs
    <3>2. PICK b \in Blk : b = Block(p, o) /\ b.page = p /\ b.offset = o
      <4>1. Block(p, o) \in Blk
        BY <2>1, <2>2 DEF CarvedAs
      <4>2. Block(p, o).page = p /\ Block(p, o).offset = o
        BY DEF Block
      <4> QED
        BY <4>1, <4>2
    <3>3. CASE b # x
      <4>1. g[p][o] = h[p][o]
        BY <3>2, <3>3
      <4>2. <<b, e>> # <<x, c>>
        BY <3>3
      <4> QED
        BY <3>1, <3>2, <4>1, <4>2
    <3>4. CASE b = x
      <4>1. g[p][o].class = c
        BY <3>2, <3>4
      <4>2. <<x, c>> \in X => c = e
        <5>1. ASSUME NEW y \in X, y = <<x, c>> PROVE c = e
          <6>1. y[1].page = p /\ y[2] = c
            BY <3>2, <3>4, <5>1
          <6> QED
            BY <2>1, <6>1 DEF CarvedAs
        <5> QED
          BY <5>1
      <4> QED
        BY <3>1, <3>2, <3>4, <4>1, <4>2
    <3> QED
      BY <3>3, <3>4
  <2>3. \A y \in Y : y[1].page = p => y[2] = e
    BY <1>4, <2>1 DEF CarvedAs
  <2>4. CarvedAs(O, L, g, Y, p, e)
    BY <2>1, <2>2, <2>3 DEF CarvedAs
  <2> QED
    BY <2>4
<1> QED
  BY <1>3, <1>4, <1>5 DEF Sound

\* Headers of pages that are no buckets do not matter.
LEMMA SoundElsewhere ==
    ASSUME NEW O, NEW L, NEW st, NEW B, NEW h, NEW X, Sound(O, L, st, B, h, X),
           NEW g, \A p \in B : g[p] = h[p]
    PROVE  Sound(O, L, st, B, g, X)
<1>1. \A c \in Class : \A b \in L[c] : b.page \in B /\ g[b.page][b.offset].magic = "free"
  BY DEF Sound
<1>2. ASSUME NEW p \in B PROVE \E e \in Class : CarvedAs(O, L, g, X, p, e)
  <2>1. PICK e \in Class : CarvedAs(O, L, h, X, p, e)
    BY DEF Sound
  <2>2. CarvedAs(O, L, g, X, p, e)
    BY <2>1 DEF CarvedAs
  <2> QED
    BY <2>2
<1> QED
  BY <1>1, <1>2 DEF Sound

\* A page in nobody's use is carved: its first block is out, with a header
\* to be written, and the others are listed with theirs.
LEMMA SoundCarve ==
    ASSUME NEW O, O \subseteq Blk, NEW L \in [Class -> SUBSET Blk], NEW st \in [Page -> Int],
           NEW B, B \subseteq Page, NEW h, NEW X, Sound(O, L, st, B, h, X),
           NEW c \in Class, NEW p \in Page \ B, NEW N,
           \A b : b \in N <=> \E o \in Offsets(c) \ {0} : b = Block(p, o),
           NEW g, \A q \in B : g[q] = h[q],
           \A o \in Offsets(c) \ {0} : g[p][o] = [class |-> c, magic |-> "free"]
    PROVE  Sound(O \cup {Block(p, 0)}, [L EXCEPT ![c] = N \cup @], [st EXCEPT ![p] = 1], B \cup {p}, g,
                 X \cup {<<Block(p, 0), c>>})
<1>1. PICK x \in Blk : x = Block(p, 0) /\ x.page = p /\ x.offset = 0
  <2>1. Block(p, 0) \in Blk
    BY IdleFacts DEF Block, Blk
  <2>2. Block(p, 0).page = p /\ Block(p, 0).offset = 0
    BY DEF Block
  <2> QED
    BY <2>1, <2>2
<1>2. 0 \in Offsets(c) /\ Offsets(c) \subseteq Offset
  BY OffsetFacts
<1>3. \A b \in N : /\ b.page = p /\ b.offset \in Offsets(c) /\ b # x
                   /\ g[b.page][b.offset] = [class |-> c, magic |-> "free"]
  <2>1. SUFFICES ASSUME NEW o \in Offsets(c) \ {0}, NEW b, b = Block(p, o)
                 PROVE  /\ b.page = p /\ b.offset \in Offsets(c) /\ b # x
                        /\ g[b.page][b.offset] = [class |-> c, magic |-> "free"]
    OBVIOUS
  <2>2. b.page = p /\ b.offset = o
    BY <2>1 DEF Block
  <2> QED
    BY <1>1, <2>2
<1> DEFINE P == O \cup {x}
           M == [L EXCEPT ![c] = N \cup @]
           s2 == [st EXCEPT ![p] = 1]
           Y == X \cup {<<x, c>>}
           C == B \cup {p}
<1>4. M[c] = N \cup L[c] /\ \A d \in Class : d # c => M[d] = L[d]
  OBVIOUS
<1>5. s2[p] = 1 /\ \A q \in Page : q # p => s2[q] = st[q]
  OBVIOUS
<1> HIDE DEF M, s2
<1>6. \A b \in O : b.page \in B /\ b.page # p
  BY DEF Sound
<1>7. \A d \in Class : \A b \in L[d] : b.page \in B /\ b.page # p
  BY DEF Sound
<1>8. \A d \in Class : \A b \in M[d] : b \in L[d] \/ (d = c /\ b \in N)
  BY <1>4
<1>9. \A d \in Class : M[d] \cap P = {}
  <2>1. SUFFICES ASSUME NEW d \in Class, NEW b \in M[d], b \in P PROVE FALSE
    OBVIOUS
  <2>2. CASE b \in L[d]
    BY <1>1, <1>7, <2>1, <2>2 DEF Sound
  <2>3. CASE b \in N
    BY <1>3, <1>6, <2>1, <2>3
  <2> QED
    BY <1>8, <2>2, <2>3
<1>10. \A d, e \in Class : d # e => M[d] \cap M[e] = {}
  <2>1. SUFFICES ASSUME NEW d \in Class, NEW e \in Class, d # e, NEW b \in M[d], b \in M[e] PROVE FALSE
    OBVIOUS
  <2>2. CASE b \in L[d] /\ b \in L[e]
    BY <2>1, <2>2 DEF Sound
  <2>3. CASE b \in N
    BY <1>3, <1>7, <1>8, <2>1, <2>3
  <2> QED
    BY <1>8, <2>1, <2>2, <2>3
<1>11. \A b \in P : b.page \in C
  BY <1>1, <1>6
<1>12. \A d \in Class : \A b \in M[d] : b.page \in C /\ g[b.page][b.offset].magic = "free"
  <2>1. SUFFICES ASSUME NEW d \in Class, NEW b \in M[d]
                 PROVE  b.page \in C /\ g[b.page][b.offset].magic = "free"
    OBVIOUS
  <2>2. CASE b \in L[d]
    BY <2>2 DEF Sound
  <2>3. CASE b \in N
    BY <1>3, <2>3
  <2> QED
    BY <1>8, <2>2, <2>3
<1>13. \A y \in Y : y[1] \in P
  BY DEF Sound
<1>14. ASSUME NEW q \in C PROVE s2[q] = Cardinality(OutOf(P, q))
  <2>1. CASE q # p
    <3>1. OutOf(P, q) = OutOf(O, q) /\ q \in B
      BY <1>1, <2>1 DEF OutOf
    <3>2. st[q] = Cardinality(OutOf(O, q))
      BY <3>1 DEF Sound
    <3> QED
      BY <1>5, <2>1, <3>1, <3>2
  <2>2. CASE q = p
    <3>1. OutOf(P, q) = {x}
      BY <1>1, <1>6, <2>2 DEF OutOf
    <3>2. Cardinality({x}) = 1
      BY FS_Singleton
    <3> QED
      BY <1>5, <2>2, <3>1, <3>2
  <2> QED
    BY <2>1, <2>2
<1>15. ASSUME NEW q \in B PROVE \E e \in Class : CarvedAs(P, M, g, Y, q, e)
  <2>1. PICK e \in Class : CarvedAs(O, L, h, X, q, e)
    BY DEF Sound
  <2>2. q # p /\ g[q] = h[q]
    OBVIOUS
  <2>3. \A o \in Offsets(e) : Block(q, o) \in P \cup M[e]
    BY <1>4, <2>1 DEF CarvedAs
  <2>4. \A b \in P : b.page = q => b.offset \in Offsets(e)
    BY <1>1, <2>1, <2>2 DEF CarvedAs
  <2>5. \A d \in Class : \A b \in M[d] : b.page = q => d = e /\ b.offset \in Offsets(e)
    BY <1>3, <1>8, <2>1, <2>2 DEF CarvedAs
  <2>6. \A o \in Offsets(e) : g[q][o].class = e \/ <<Block(q, o), e>> \in Y
    BY <2>1, <2>2 DEF CarvedAs
  <2>7. \A y \in Y : y[1].page = q => y[2] = e
    BY <1>1, <2>1, <2>2 DEF CarvedAs
  <2>8. CarvedAs(P, M, g, Y, q, e)
    BY <2>3, <2>4, <2>5, <2>6, <2>7 DEF CarvedAs
  <2> QED
    BY <2>8
<1>16. CarvedAs(P, M, g, Y, p, c)
  <2>1. ASSUME NEW o \in Offsets(c) PROVE Block(p, o) \in P \cup M[c]
    <3>1. CASE o = 0
      BY <1>1, <3>1
    <3>2. CASE o # 0
      BY <1>4, <3>2
    <3> QED
      BY <3>1, <3>2
  <2>2. \A b \in P : b.page = p => b.offset \in Offsets(c)
    BY <1>1, <1>2, <1>6
  <2>3. \A d \in Class : \A b \in M[d] : b.page = p => d = c /\ b.offset \in Offsets(c)
    BY <1>3, <1>7, <1>8
  <2>4. ASSUME NEW o \in Offsets(c) PROVE g[p][o].class = c \/ <<Block(p, o), c>> \in Y
    <3>1. CASE o = 0
      BY <1>1, <3>1
    <3>2. CASE o # 0
      <4>1. g[p][o] = [class |-> c, magic |-> "free"]
        BY <3>2
      <4> QED
        BY <4>1
    <3> QED
      BY <3>1, <3>2
  <2>5. \A y \in Y : y[1].page = p => y[2] = c
    <3>1. \A y \in X : y[1].page # p
      BY <1>6 DEF Sound
    <3> QED
      BY <3>1
  <2> QED
    BY <2>1, <2>2, <2>3, <2>4, <2>5 DEF CarvedAs
<1>17. Sound(P, M, s2, C, g, Y)
  <2>1. \A q \in C : \E e \in Class : CarvedAs(P, M, g, Y, q, e)
    BY <1>15, <1>16
  <2> HIDE DEF P, Y, C
  <2> QED
    BY <1>9, <1>10, <1>11, <1>12, <1>13, <1>14, <2>1 DEF Sound
<1> QED
  BY <1>1, <1>17 DEF M, s2

\* M are the lists L after the list that the first header of page p names
\* has lost the blocks of that page.
Shortened(M, L, h, p) ==
  \A d \in Class : IF d = h[p][0].class THEN \A b : b \in M[d] <=> b \in L[d] /\ b.page # p
                   ELSE M[d] = L[d]
Agree(s2, st, B) == \A q \in B : s2[q] = st[q]

\* An empty page is given up: all its blocks are on the list that its first
\* header names.
LEMMA SoundTake ==
    ASSUME NEW O, O \subseteq Blk, NEW L \in [Class -> SUBSET Blk], NEW st \in [Page -> Int],
           NEW B, B \subseteq Page, NEW h, NEW X, Sound(O, L, st, B, h, X),
           NEW p \in B, st[p] = 0, NEW M \in [Class -> SUBSET Blk], Shortened(M, L, h, p),
           NEW s2, Agree(s2, st, B \ {p})
    PROVE  Sound(O, M, s2, B \ {p}, h, X)
<1> USE DEF Shortened, Agree
<1>1. OutOf(O, p) = {}
  <2>1. IsFiniteSet(OutOf(O, p)) /\ Cardinality(OutOf(O, p)) = 0
    BY OutFinite DEF Sound
  <2> QED
    BY <2>1, FS_EmptySet
<1>2. \A b \in O : b.page # p
  BY <1>1 DEF OutOf
<1>3. PICK c \in Class : CarvedAs(O, L, h, X, p, c)
  BY DEF Sound
<1>4. h[p][0].class = c
  <2>1. 0 \in Offsets(c)
    BY OffsetFacts
  <2>2. <<Block(p, 0), c>> \notin X
    <3>1. ASSUME NEW y \in X, y = <<Block(p, 0), c>> PROVE FALSE
      <4>1. y[1] \in O /\ y[1].page = p
        BY <3>1 DEF Sound, Block
      <4> QED
        BY <1>2, <4>1
    <3> QED
      BY <3>1
  <2> QED
    BY <1>3, <2>1, <2>2 DEF CarvedAs
<1>5. \A d \in Class : \A b : b \in M[d] <=> b \in L[d] /\ b.page # p
  <2>1. SUFFICES ASSUME NEW d \in Class PROVE \A b : b \in M[d] <=> b \in L[d] /\ b.page # p
    OBVIOUS
  <2>2. CASE d = c
    BY <1>4, <2>2
  <2>3. CASE d # c
    <3>1. M[d] = L[d]
      BY <1>4, <2>3
    <3>2. \A b \in L[d] : b.page # p
      BY <1>3, <2>3 DEF CarvedAs
    <3> QED
      BY <3>1, <3>2
  <2> QED
    BY <2>2, <2>3
<1>6. \A d \in Class : M[d] \cap O = {}
  BY <1>5 DEF Sound
<1>7. \A d, e \in Class : d # e => M[d] \cap M[e] = {}
  BY <1>5 DEF Sound
<1>8. \A b \in O : b.page \in B \ {p}
  BY <1>2 DEF Sound
<1>9. \A d \in Class : \A b \in M[d] : b.page \in B \ {p} /\ h[b.page][b.offset].magic = "free"
  BY <1>5 DEF Sound
<1>10. \A y \in X : y[1] \in O
  BY DEF Sound
<1>11. \A q \in B \ {p} : s2[q] = Cardinality(OutOf(O, q))
  BY DEF Sound
<1>12. ASSUME NEW q \in B \ {p} PROVE \E e \in Class : CarvedAs(O, M, h, X, q, e)
  <2>1. PICK e \in Class : CarvedAs(O, L, h, X, q, e)
    BY DEF Sound
  <2>2. ASSUME NEW o \in Offsets(e) PROVE Block(q, o) \in O \cup M[e]
    <3>1. Block(q, o) \in O \cup L[e]
      BY <2>1 DEF CarvedAs
    <3>2. Block(q, o).page # p
      BY DEF Block
    <3> QED
      BY <1>5, <3>1, <3>2
  <2>3. \A d \in Class : \A b \in M[d] : b.page = q => d = e /\ b.offset \in Offsets(e)
    BY <1>5, <2>1 DEF CarvedAs
  <2>4. CarvedAs(O, M, h, X, q, e)
    BY <2>1, <2>2, <2>3 DEF CarvedAs
  <2> QED
    BY <2>4
<1> QED
  BY <1>6, <1>7, <1>8, <1>9, <1>10, <1>11, <1>12 DEF Sound

-----------------------------------------------------------------------------
(* The steps.                                                              *)

\* The types of what the block lemmas speak of.
LEMMA BlockTypes ==
    ASSUME Shape
    PROVE  /\ Out \subseteq Blk /\ Listing \in [Class -> SUBSET Blk] /\ state \in [Page -> Int]
           /\ Buckets \subseteq Page /\ Hands \in [Thread -> SUBSET Int]
           /\ \A b : b \in Out <=> \/ \E a \in held : b = Block(a.page, a.offset)
                                   \/ \E t \in Thread : Carries(t) /\ b = local[t].block
           /\ \A x : x \in Pending <=> \E t \in Thread : pc[t] = "header" /\ x = <<local[t].block, local[t].class>>
<1>1. \A a \in held : Block(a.page, a.offset) \in Blk
  BY DEF Shape, DataShape, Block, Blk
<1>2. \A t \in Thread : local[t].block \in Blk
  BY FieldTypes DEF Shape, ThreadShape
<1>3. \A b : b \in Out <=> \/ \E a \in held : b = Block(a.page, a.offset)
                           \/ \E t \in Thread : Carries(t) /\ b = local[t].block
  BY DEF Out, InTransit, Carries
<1>4. Out \subseteq Blk
  BY <1>1, <1>2, <1>3
<1>5. Listing \in [Class -> SUBSET Blk]
  <2>1. ASSUME NEW c \in Class PROVE Listed(c) \subseteq Blk
    <3>1. lists[c] \in Seq(Blk)
      BY DEF Shape, DataShape
    <3> QED
      BY <3>1 DEF Listed, Range
  <2> QED
    BY <2>1 DEF Listing
<1>6. state \in [Page -> Int] /\ Buckets \subseteq Page
  BY DEF Shape, DataShape, Buckets
<1>7. Hands \in [Thread -> SUBSET Int]
  <2>1. ASSUME NEW t \in Thread PROVE Hand(t) \subseteq Int
    <3>1. local[t].idx \in Nat /\ PageRun(local[t].block.page, local[t].pages) \subseteq Int
      BY FieldTypes DEF Shape, ThreadShape, PageRun
    <3> QED
      BY <3>1 DEF Hand, InHand
  <2> QED
    BY <2>1 DEF Hands
<1>8. \A x : x \in Pending <=> \E t \in Thread : pc[t] = "header" /\ x = <<local[t].block, local[t].class>>
  BY DEF Pending
<1> QED
  BY <1>3, <1>4, <1>5, <1>6, <1>7, <1>8

\* A thread that carries no block before or after a step: the others' blocks
\* are what they were.
LEMMA OthersCarry ==
    ASSUME Shape, NEW t \in Thread, NEW p, NEW l, Steps(t, p, l),
           ~Carries(t), p \notin {"header", "unheld"}
    PROVE  /\ ~Carries(t)' /\ \A u \in Thread : Carries(u)' <=> Carries(u)
           /\ \A u \in Thread : Carries(u) => pc'[u] = pc[u] /\ local'[u] = local[u]
<1>1. pc'[t] = p /\ \A u \in Thread : u # t => pc'[u] = pc[u] /\ local'[u] = local[u]
  BY StepsFacts DEF Shape
<1> QED
  BY <1>1 DEF Carries

\* Nor does anything else about blocks change, except in pages that are no
\* buckets.
LEMMA BlocksStill ==
    ASSUME Shape, Shape', Blocks, NEW t \in Thread, NEW p, NEW l, Steps(t, p, l),
           ~Carries(t), p \notin {"header", "unheld"},
           lists' = lists, state' = state, held' = held,
           \A q \in Buckets : header'[q] = header[q]
    PROVE  Blocks' /\ Buckets' = Buckets
<1>1. /\ ~Carries(t)' /\ \A u \in Thread : Carries(u)' <=> Carries(u)
      /\ \A u \in Thread : Carries(u) => pc'[u] = pc[u] /\ local'[u] = local[u]
  BY OthersCarry
<1>2. Buckets' = Buckets
  BY DEF Buckets
<1>3. Listing' = Listing /\ ListsOnce'
  BY DEF Blocks, ListsOnce, Listing, Listed
<1>4. Out' = Out
  <2>1. \A b : b \in Out <=> \/ \E a \in held : b = Block(a.page, a.offset)
                             \/ \E u \in Thread : Carries(u) /\ b = local[u].block
    BY BlockTypes
  <2>2. \A b : b \in Out' <=> \/ \E a \in held' : b = Block(a.page, a.offset)
                              \/ \E u \in Thread : Carries(u)' /\ b = local'[u].block
    BY DEF Out, InTransit, Carries
  <2>3. \A b : b \in Out' <=> b \in Out
    BY <1>1, <2>1, <2>2
  <2> QED
    BY <2>3
<1>5. \A u \in Thread : /\ pc'[u] = "header" <=> pc[u] = "header"
                        /\ pc'[u] = "unheld" <=> pc[u] = "unheld"
                        /\ pc[u] \in {"header", "unheld"} => local'[u] = local[u]
  BY <1>1 DEF Carries
<1>6. Pending' = Pending
  <2>1. \A x : x \in Pending <=> \E u \in Thread : pc[u] = "header" /\ x = <<local[u].block, local[u].class>>
    BY BlockTypes
  <2>2. \A x : x \in Pending' <=> \E u \in Thread : pc'[u] = "header" /\ x = <<local'[u].block, local'[u].class>>
    BY DEF Pending
  <2>3. \A x : x \in Pending' <=> x \in Pending
    BY <1>5, <2>1, <2>2
  <2> QED
    BY <2>3
<1>7. OutApart'
  BY <1>1 DEF Blocks, OutApart
<1>8. Counted'
  <2>1. Sound(Out, Listing, state, Buckets, header, Pending)
    BY DEF Blocks, Counted
  <2>2. Sound(Out, Listing, state, Buckets, header', Pending)
    BY <2>1, SoundElsewhere
  <2>3. Sound(Out', Listing', state', Buckets', header', Pending')
    BY <1>2, <1>3, <1>4, <1>6, <2>2
  <2> QED
    BY <2>3 DEF Counted, Sound, CarvedAs, OutOf
<1>9. Marked'
  <2>1. \A b \in Out : b.page \in Buckets
    BY DEF Blocks, Counted, Sound
  <2>2. \A b \in held : header'[b.page] = header[b.page]
    <3>1. SUFFICES ASSUME NEW b \in held PROVE header'[b.page] = header[b.page]
      OBVIOUS
    <3>2. Block(b.page, b.offset) \in Out
      BY BlockTypes
    <3>3. Block(b.page, b.offset).page = b.page
      BY DEF Block
    <3> QED
      BY <2>1, <3>2, <3>3
  <2>3. \A u \in Thread : pc[u] = "unheld" => header'[local[u].block.page] = header[local[u].block.page]
    <3>1. \A u \in Thread : pc[u] = "unheld" => local[u].block \in Out
      BY BlockTypes DEF Carries
    <3> QED
      BY <2>1, <3>1
  <2>4. \A b \in held : /\ header'[b.page][b.offset].magic = "alloc"
                        /\ b.bytes + HeaderSize <= NxpClassSize[header'[b.page][b.offset].class]
    BY <2>2 DEF Blocks, Marked
  <2>5. \A u \in Thread : pc'[u] = "unheld" =>
            header'[local'[u].block.page][local'[u].block.offset].magic = "free"
    BY <1>5, <2>3 DEF Blocks, Marked
  <2> QED
    BY <2>4, <2>5 DEF Marked
<1> QED
  BY <1>2, <1>3, <1>7, <1>8, <1>9 DEF Blocks

\* A step that changes a thread's place in its call and nothing else.
LEMMA QuietStep ==
    ASSUME IInv, NEW t \in Thread, NEW p, NEW l, Steps(t, p, l),
           UNCHANGED <<lists, state, header, big, window, held, runs>>,
           Hand(t) = {}, InHand(p, l) = {}, ~Carries(t), p \notin {"header", "unheld"}
    PROVE  IInv'
<1>1. ThreadShape' /\ Hands' = [Hands EXCEPT ![t] = {}] /\ Hands[t] = {}
  BY StepsFacts DEF IInv, Shape
<1>2. Shape'
  BY <1>1 DEF IInv, Shape, DataShape
<1>3. Blocks' /\ Buckets' = Buckets
  BY <1>2, BlocksStill DEF IInv
<1>4. Hands' = Hands
  BY <1>1, BlockTypes DEF IInv
<1>5. Places'
  <2>1. Placed(window', Buckets', runs', Hands')
    BY <1>3, <1>4 DEF IInv, Places
  <2> QED
    BY <2>1 DEF Places, Placed, Run, PageRun
<1>6. Table'
  BY DEF IInv, Table
<1> QED
  BY <1>2, <1>3, <1>5, <1>6 DEF IInv

\* The steps that are of this kind.
LEMMA QuietSteps ==
    ASSUME IInv, NEW t \in Thread,
           \/ \E n \in Sizes : RefillBegin(t, n) \/ BigBegin(t, n)
           \/ GetPagesFails(t) \/ AllocFails(t) \/ SweepCall(t) \/ SweepSkip(t) \/ SweepEnd(t)
    PROVE  IInv'
<1>1. Shape
  BY DEF IInv
<1>2. /\ pc[t] \in {"idle", "pages", "retry", "sweep"}
      /\ UNCHANGED <<lists, state, header, big, window, held, runs>>
  BY DEF RefillBegin, BigBegin, GetPagesFails, AllocFails, SweepCall, SweepSkip, SweepEnd
<1>3. Hand(t) = {} /\ ~Carries(t)
  BY <1>2 DEF Hand, InHand, Carries
<1>4. \E p \in {"idle", "pages", "retry", "sweep"}, l \in Locals : Steps(t, p, l)
  <2>1. ASSUME NEW n \in Sizes, RefillBegin(t, n) \/ BigBegin(t, n)
        PROVE  \E l \in Locals : Steps(t, "pages", l)
    BY <1>1, <2>1, BeginSteps
  <2>2. ASSUME AllocFails(t) PROVE Steps(t, "idle", Idle)
    BY <2>2, DoneSteps DEF AllocFails
  <2>3. ASSUME GetPagesFails(t) \/ SweepCall(t) PROVE Steps(t, "sweep", local[t])
    BY <1>1, <2>3, PlainSteps
  <2>4. ASSUME SweepEnd(t) PROVE Steps(t, "idle", Idle) \/ Steps(t, "retry", local[t])
    BY <1>1, <2>4, PlainSteps
  <2>5. ASSUME SweepSkip(t) PROVE \E l \in Locals : Steps(t, "sweep", l)
    BY <1>1, <2>5, SweepSteps
  <2>6. Idle \in Locals /\ local[t] \in Locals
    BY <1>1, IdleFacts DEF Shape, ThreadShape
  <2> QED
    BY <2>1, <2>2, <2>3, <2>4, <2>5, <2>6
<1>5. PICK p \in {"idle", "pages", "retry", "sweep"}, l \in Locals : Steps(t, p, l)
  BY <1>4
<1>6. InHand(p, l) = {} /\ p \notin {"header", "unheld"}
  BY DEF InHand
<1> QED
  BY <1>2, <1>3, <1>5, <1>6, QuietStep

\* Pages taken from the window.
LEMMA TakeStep ==
    ASSUME IInv, NEW t \in Thread, GetPages(t) \/ RetryPages(t)
    PROVE  IInv'
<1>1. Shape /\ UNCHANGED <<lists, state, big, held, runs>>
  BY DEF IInv, GetPages, RetryPages
<1>2. AfterPages(t) \in {"carve", "record"} /\ Hand(t) = {} /\ pc[t] \in {"pages", "retry"}
  BY <1>1, TakeSteps
<1>3. PICK p \in window, l \in Locals :
         /\ Steps(t, AfterPages(t), l) /\ l.block = Block(p, 0)
         /\ PageRun(p, l.pages) \subseteq window /\ window' = window \ PageRun(p, l.pages)
         /\ header' = [q \in Page |-> IF q \in PageRun(p, l.pages) THEN [o \in Offset |-> Junk] ELSE header[q]]
  BY <1>1, TakeSteps
<1>4. InHand(AfterPages(t), l) = PageRun(p, l.pages)
  BY <1>2, <1>3 DEF InHand, Block
<1>5. ThreadShape' /\ Hands' = [Hands EXCEPT ![t] = PageRun(p, l.pages)] /\ Hands[t] = {}
  BY <1>1, <1>2, <1>3, <1>4, StepsFacts DEF Shape
<1>6. Shape'
  <2>1. Junk \in Words
    BY DEF Junk, Words
  <2>2. header' \in [Page -> [Offset -> Words]]
    <3>1. header \in [Page -> [Offset -> Words]]
      BY <1>1 DEF Shape, DataShape
    <3> QED
      BY <1>3, <2>1, <3>1
  <2>3. window' \subseteq Page
    BY <1>1, <1>3 DEF Shape, DataShape
  <2> QED
    BY <1>1, <1>5, <2>2, <2>3 DEF Shape, DataShape
<1>7. \A q \in Buckets : header'[q] = header[q]
  <2>1. window \cap Buckets = {} /\ Buckets \subseteq Page
    BY <1>1, BlockTypes DEF IInv, Places, Placed
  <2> QED
    BY <1>3, <2>1
<1>8. Blocks' /\ Buckets' = Buckets
  <2>1. ~Carries(t) /\ AfterPages(t) \notin {"header", "unheld"}
    BY <1>2 DEF Carries
  <2> QED
    BY <1>1, <1>3, <1>6, <1>7, <2>1, BlocksStill DEF IInv
<1>9. Places'
  <2>1. Placed(window, Buckets, runs, Hands) /\ Hands \in [Thread -> SUBSET Int]
    BY <1>1, BlockTypes DEF IInv, Places
  <2>2. Placed(window', Buckets', runs', Hands')
    BY <1>1, <1>3, <1>5, <1>8, <2>1, PlacedWindow
  <2> QED
    BY <2>2 DEF Places, Placed, Run, PageRun
<1>10. Table'
  BY <1>1 DEF IInv, Table
<1> QED
  BY <1>6, <1>8, <1>9, <1>10 DEF IInv

\* Pages given back to the window, by the sweep or by a free.
LEMMA GiveStep ==
    ASSUME IInv, NEW t \in Thread, SweepFree(t) \/ FreeBigPages(t)
    PROVE  IInv'
<1>1. Shape /\ UNCHANGED <<lists, state, header, big, held, runs>>
  BY DEF IInv, SweepFree, FreeBigPages
<1>2. window' = window \cup Hand(t) /\ pc[t] \in {"sweepfree", "bigfree"}
  BY DEF SweepFree, FreeBigPages, Hand, InHand
<1>3. \E p \in {"sweep", "idle"}, l \in Locals : Steps(t, p, l)
  <2>1. ASSUME SweepFree(t) PROVE \E l \in Locals : Steps(t, "sweep", l)
    BY <1>1, <2>1, SweepSteps
  <2>2. ASSUME FreeBigPages(t) PROVE Steps(t, "idle", Idle)
    BY <2>2, DoneSteps DEF FreeBigPages
  <2> QED
    BY <2>1, <2>2, IdleFacts
<1>4. PICK p \in {"sweep", "idle"}, l \in Locals : Steps(t, p, l)
  BY <1>3
<1>5. InHand(p, l) = {} /\ p \notin {"header", "unheld"} /\ ~Carries(t)
  BY <1>2 DEF InHand, Carries
<1>6. ThreadShape' /\ Hands' = [Hands EXCEPT ![t] = {}] /\ Hands[t] = Hand(t)
  BY <1>1, <1>4, <1>5, StepsFacts DEF Shape
<1>7. Placed(window, Buckets, runs, Hands) /\ Hands \in [Thread -> SUBSET Int]
  BY <1>1, BlockTypes DEF IInv, Places
<1>8. Shape'
  <2>1. window' \subseteq Page
    BY <1>2, <1>6, <1>7 DEF Placed
  <2> QED
    BY <1>1, <1>6, <2>1 DEF Shape, DataShape
<1>9. Blocks' /\ Buckets' = Buckets
  BY <1>1, <1>4, <1>5, <1>8, BlocksStill DEF IInv
<1>10. Places'
  <2>1. Placed(window', Buckets', runs', Hands')
    BY <1>1, <1>2, <1>6, <1>7, <1>9, PlacedWindow
  <2> QED
    BY <2>1 DEF Places, Placed, Run, PageRun
<1>11. Table'
  BY <1>1 DEF IInv, Table
<1> QED
  BY <1>8, <1>9, <1>10, <1>11 DEF IInv

\* Blocks that begin at the same page are the same block.
LEMMA RunIs ==
    ASSUME Shape, Places, NEW q \in runs, NEW r \in runs, q.page = r.page
    PROVE  q = r
<1>1. q.page \in Nat /\ q.pages \in Nat \ {0} /\ r.page \in Nat /\ r.pages \in Nat \ {0}
  BY IdleFacts DEF Shape, DataShape
<1>2. q.page \in Run(q) /\ r.page \in Run(r)
  BY <1>1, RunFacts DEF Run
<1> QED
  BY <1>2 DEF Places, Placed

\* A whole-page block is recorded and handed out.
LEMMA RecordStep ==
    ASSUME IInv, NEW t \in Thread, RecordBig(t)
    PROVE  IInv'
<1>1. Shape /\ Places /\ UNCHANGED <<lists, state, header, window, held>> /\ pc[t] = "record"
  BY DEF IInv, RecordBig
<1>2. PICK l \in Locals : l = local[t] /\ l.pages # 0
  BY <1>1, FieldTypes DEF Shape, ThreadShape, LocalOK, Asks
<1> DEFINE b == l.block.page
           r == [page |-> b, pages |-> l.pages]
<1>3. b \in Page /\ b \in Nat \ {0} /\ l.pages \in Nat \ {0}
  BY <1>2, FieldTypes, IdleFacts
<1>4. runs' = runs \cup {r}
  BY <1>2 DEF RecordBig
<1>5. Hand(t) = Run(r) /\ b \in Run(r)
  BY <1>1, <1>2, <1>3, RunFacts DEF Hand, InHand, Run
<1>6. Steps(t, "idle", Idle) /\ InHand("idle", Idle) = {} /\ ~Carries(t)
  BY <1>1, DoneSteps, IdleFacts DEF RecordBig, Carries
<1>7. ThreadShape' /\ Hands' = [Hands EXCEPT ![t] = {}] /\ Hands[t] = Run(r)
  BY <1>1, <1>5, <1>6, StepsFacts DEF Shape
<1>8. Placed(window, Buckets, runs, Hands) /\ Hands \in [Thread -> SUBSET Int]
  BY <1>1, BlockTypes DEF Places
<1>9. r \in [page : Page, pages : Nat \ {0}] /\ r.page = b /\ r.pages = l.pages
  BY <1>3
<1>10. \A q \in runs : q.page # b
  <2>1. SUFFICES ASSUME NEW q \in runs, q.page = b PROVE FALSE
    OBVIOUS
  <2>2. q.pages \in Nat \ {0}
    BY <1>1 DEF Shape, DataShape
  <2>3. b \in Run(q)
    BY <1>3, <2>1, <2>2, RunFacts DEF Run
  <2> QED
    BY <1>5, <1>7, <1>8, <2>3 DEF Placed
<1> HIDE DEF r, b
<1>11. big \in [1..BigEntries -> Entry]
  BY <1>1 DEF Shape, DataShape
<1>12. CASE EmptyEntries = {}
  <2>1. big' = big
    BY <1>12 DEF RecordBig
  <2>2. Shape'
    BY <1>1, <1>4, <1>7, <1>9, <2>1 DEF Shape, DataShape
  <2>3. Table'
    BY <1>4, <2>1 DEF IInv, Table
  <2>4. Blocks' /\ Buckets' = Buckets
    BY <1>1, <1>6, <2>2, BlocksStill DEF IInv
  <2>5. Placed(window', Buckets', runs', Hands')
    BY <1>1, <1>4, <1>7, <1>8, <2>4, PlacedRun
  <2>6. Places'
    BY <2>5 DEF Places, Placed, Run, PageRun
  <2> QED
    BY <2>2, <2>3, <2>4, <2>6 DEF IInv
<1>13. CASE EmptyEntries # {}
  <2>1. PICK i \in 1..BigEntries : i = Min(EmptyEntries) /\ big[i].va = 0
    <3>1. EmptyEntries \subseteq Nat
      BY DEF EmptyEntries
    <3>2. Min(EmptyEntries) \in EmptyEntries
      BY <1>13, <3>1, MinIsLeast
    <3> QED
      BY <3>2 DEF EmptyEntries
  <2> DEFINE e == [va |-> b, pages |-> l.pages]
  <2>2. big' = [big EXCEPT ![i] = e]
    BY <1>2, <1>13, <2>1 DEF RecordBig, b
  <2>3. e \in Entry /\ e.va = b /\ e.pages = l.pages
    BY <1>3 DEF Entry
  <2> HIDE DEF e
  <2>4. big'[i] = e /\ \A j \in 1..BigEntries : j # i => big'[j] = big[j]
    BY <1>11, <2>2
  <2>5. Shape'
    <3>1. big' \in [1..BigEntries -> Entry]
      BY <1>11, <2>2, <2>3
    <3> QED
      BY <1>1, <1>4, <1>7, <1>9, <3>1 DEF Shape, DataShape
  <2>6. Table'
    <3>1. ASSUME NEW j \in 1..BigEntries, big'[j].va # 0
          PROVE  [page |-> big'[j].va, pages |-> big'[j].pages] \in runs'
      <4>1. CASE j = i
        BY <1>4, <2>3, <2>4, <4>1 DEF r
      <4>2. CASE j # i
        <5>1. [page |-> big[j].va, pages |-> big[j].pages] \in runs
          BY <2>4, <3>1, <4>2 DEF IInv, Table
        <5> QED
          BY <1>4, <2>4, <4>2, <5>1
      <4> QED
        BY <4>1, <4>2
    <3>2. \A j \in 1..BigEntries : big[j].va # 0 => big[j].va # b
      <4>1. SUFFICES ASSUME NEW j \in 1..BigEntries, big[j].va # 0, big[j].va = b PROVE FALSE
        OBVIOUS
      <4>2. PICK q \in runs : q = [page |-> big[j].va, pages |-> big[j].pages]
        BY <4>1 DEF IInv, Table
      <4>3. q.page = b
        BY <4>1, <4>2
      <4> QED
        BY <1>10, <4>3
    <3>3. ASSUME NEW j \in 1..BigEntries, NEW k \in 1..BigEntries, j # k, big'[j].va # 0
          PROVE  big'[j].va # big'[k].va
      <4>1. CASE j = i
        BY <1>3, <2>3, <2>4, <3>2, <3>3, <4>1
      <4>2. CASE k = i
        BY <1>3, <2>3, <2>4, <3>2, <3>3, <4>2
      <4>3. CASE j # i /\ k # i
        BY <2>4, <3>3, <4>3 DEF IInv, Table
      <4> QED
        BY <4>1, <4>2, <4>3
    <3> QED
      BY <3>1, <3>3 DEF Table
  <2>7. Blocks' /\ Buckets' = Buckets
    BY <1>1, <1>6, <2>5, BlocksStill DEF IInv
  <2>8. Placed(window', Buckets', runs', Hands')
    BY <1>1, <1>4, <1>7, <1>8, <2>7, PlacedRun
  <2>9. Places'
    BY <2>8 DEF Places, Placed, Run, PageRun
  <2> QED
    BY <2>5, <2>6, <2>7, <2>9 DEF IInv
<1> QED
  BY <1>12, <1>13

\* A whole-page block is freed: its entry, the only one it has, goes.
LEMMA FreeBigStep ==
    ASSUME IInv, NEW t \in Thread, NEW r \in runs, FreeBig(t, r)
    PROVE  IInv'
<1>1. Shape /\ Places /\ UNCHANGED <<lists, state, header, window, held>> /\ pc[t] = "idle"
  BY DEF IInv, FreeBig
<1>2. runs' = runs \ {r} /\ Hand(t) = {}
  BY <1>1, FreeBigSteps DEF FreeBig
<1>3. PICK l \in Locals : Steps(t, "bigfree", l) /\ InHand("bigfree", l) = Run(r)
  BY <1>1, FreeBigSteps
<1>4. ThreadShape' /\ Hands' = [Hands EXCEPT ![t] = Run(r)] /\ Hands[t] = {}
  BY <1>1, <1>2, <1>3, StepsFacts DEF Shape
<1>5. Placed(window, Buckets, runs, Hands) /\ Hands \in [Thread -> SUBSET Int]
  BY <1>1, BlockTypes DEF Places
<1>6. big \in [1..BigEntries -> Entry] /\ r.page \in Nat \ {0}
  BY <1>1, IdleFacts DEF Shape, DataShape
<1>8. big' \in [1..BigEntries -> Entry] /\ \A j \in 1..BigEntries : \/ big'[j] = big[j] /\ big[j].va # r.page
                                                                   \/ big'[j].va = 0
  <2>1. CASE EntriesOf(r) = {}
    <3>1. big' = big
      BY <2>1 DEF FreeBig
    <3> QED
      BY <1>6, <2>1, <3>1 DEF EntriesOf
  <2>2. CASE EntriesOf(r) # {}
    <3>1. PICK i \in 1..BigEntries : i = Min(EntriesOf(r)) /\ big[i].va = r.page
      <4>1. EntriesOf(r) \subseteq Nat
        BY DEF EntriesOf
      <4>2. Min(EntriesOf(r)) \in EntriesOf(r)
        BY <2>2, <4>1, MinIsLeast
      <4> QED
        BY <4>2 DEF EntriesOf
    <3> DEFINE e == [va |-> 0, pages |-> 0]
    <3>2. big' = [big EXCEPT ![i] = e]
      BY <2>2, <3>1 DEF FreeBig
    <3>3. e \in Entry /\ e.va = 0
      BY DEF Entry
    <3> HIDE DEF e
    <3>4. big'[i] = e /\ \A j \in 1..BigEntries : j # i => big'[j] = big[j]
      BY <1>6, <3>2
    <3>5. \A j \in 1..BigEntries : j # i => big[j].va # r.page
      BY <1>6, <3>1 DEF IInv, Table
    <3>6. big' \in [1..BigEntries -> Entry]
      BY <1>6, <3>2, <3>3
    <3> QED
      BY <3>3, <3>4, <3>5, <3>6
  <2> QED
    BY <2>1, <2>2
<1>9. Shape'
  BY <1>1, <1>2, <1>4, <1>8 DEF Shape, DataShape
<1>10. Table'
  <2>1. ASSUME NEW j \in 1..BigEntries, big'[j].va # 0
        PROVE  [page |-> big'[j].va, pages |-> big'[j].pages] \in runs'
    <3>1. big'[j] = big[j] /\ big[j].va # r.page
      BY <1>8, <2>1
    <3>2. big[j].va # 0
      BY <2>1, <3>1
    <3> DEFINE q == [page |-> big[j].va, pages |-> big[j].pages]
    <3>3. q \in runs
      BY <3>2 DEF IInv, Table
    <3>4. q # r
      BY <3>1
    <3>5. q \in runs'
      BY <1>2, <3>3, <3>4
    <3> QED
      BY <3>1, <3>5
  <2>2. ASSUME NEW j \in 1..BigEntries, NEW k \in 1..BigEntries, j # k, big'[j].va # 0
        PROVE  big'[j].va # big'[k].va
    BY <1>8, <2>2 DEF IInv, Table
  <2> QED
    BY <2>1, <2>2 DEF Table
<1>11. Blocks' /\ Buckets' = Buckets
  <2>1. ~Carries(t)
    BY <1>1 DEF Carries
  <2> QED
    BY <1>1, <1>3, <1>9, <2>1, BlocksStill DEF IInv
<1>12. Placed(window', Buckets', runs', Hands')
  BY <1>1, <1>2, <1>4, <1>5, <1>11, PlacedRun
<1>13. Places'
  BY <1>12 DEF Places, Placed, Run, PageRun
<1> QED
  BY <1>9, <1>10, <1>11, <1>13 DEF IInv

\* A step that changes nothing but blocks: pages and their table stay.
LEMMA PagesStill ==
    ASSUME IInv, NEW t \in Thread, NEW p, NEW l, Steps(t, p, l), Hand(t) = {}, InHand(p, l) = {},
           Buckets' = Buckets, UNCHANGED <<big, window, runs>>
    PROVE  ThreadShape' /\ Places' /\ Table'
<1>1. ThreadShape' /\ Hands' = [Hands EXCEPT ![t] = {}] /\ Hands[t] = {}
  BY StepsFacts DEF IInv, Shape
<1>2. Hands' = Hands
  BY <1>1, BlockTypes DEF IInv
<1>3. Placed(window', Buckets', runs', Hands')
  BY <1>2 DEF IInv, Places
<1>4. Places'
  BY <1>3 DEF Places, Placed, Run, PageRun
<1>5. Table'
  BY DEF IInv, Table
<1> QED
  BY <1>1, <1>4, <1>5

\* Headers of other blocks are those of other addresses.
LEMMA HeaderAt ==
    ASSUME NEW h \in [Page -> [Offset -> Words]], NEW x \in Blk, NEW w
    PROVE  LET g == [h EXCEPT ![x.page][x.offset] = w]
           IN  /\ g[x.page][x.offset] = w
               /\ \A b \in Blk : b # x => g[b.page][b.offset] = h[b.page][b.offset]
               /\ w \in Words => g \in [Page -> [Offset -> Words]]
<1> DEFINE g == [h EXCEPT ![x.page][x.offset] = w]
<1>1. x.page \in Page /\ x.offset \in Offset
  BY BlockIs
<1>2. g[x.page] = [h[x.page] EXCEPT ![x.offset] = w] /\ \A q \in Page : q # x.page => g[q] = h[q]
  BY <1>1
<1>3. h[x.page] \in [Offset -> Words]
  BY <1>1
<1>4. g[x.page][x.offset] = w /\ \A o \in Offset : o # x.offset => g[x.page][o] = h[x.page][o]
  BY <1>1, <1>2, <1>3
<1>5. ASSUME NEW b \in Blk, b # x PROVE g[b.page][b.offset] = h[b.page][b.offset]
  <2>1. b.page \in Page /\ b.offset \in Offset /\ (b.page # x.page \/ b.offset # x.offset)
    BY <1>5, BlockIs
  <2> HIDE DEF g
  <2> QED
    BY <1>2, <1>4, <2>1
<1>6. ASSUME w \in Words PROVE g \in [Page -> [Offset -> Words]]
  BY <1>1, <1>3, <1>6
<1> QED
  BY <1>4, <1>5, <1>6

\* Held blocks, and those the threads other than t carry or owe a header.
InHeld(S, b)   == \E a \in S : b = Block(a.page, a.offset)
Others(t, b)   == \E u \in Thread : u # t /\ Carries(u) /\ b = local[u].block
OthersOwe(t, y) == \E u \in Thread : u # t /\ pc[u] = "header" /\ y = <<local[u].block, local[u].class>>

\* What a step of t does to the blocks that are out.
LEMMA OutSplit ==
    ASSUME Shape, NEW t \in Thread, NEW p, NEW l, Steps(t, p, l)
    PROVE  /\ \A b : b \in Out <=> \/ InHeld(held, b) \/ Others(t, b)
                                   \/ pc[t] \in {"header", "unheld"} /\ b = local[t].block
           /\ \A b : b \in Out' <=> \/ InHeld(held', b) \/ Others(t, b)
                                    \/ p \in {"header", "unheld"} /\ b = l.block
           /\ \A y : y \in Pending <=> \/ OthersOwe(t, y)
                                       \/ pc[t] = "header" /\ y = <<local[t].block, local[t].class>>
           /\ \A y : y \in Pending' <=> OthersOwe(t, y) \/ (p = "header" /\ y = <<l.block, l.class>>)
<1>1. pc'[t] = p /\ local'[t] = l /\ \A u \in Thread : u # t => pc'[u] = pc[u] /\ local'[u] = local[u]
  BY StepsFacts DEF Shape
<1>2. \A b : b \in Out <=> \/ InHeld(held, b)
                           \/ \E u \in Thread : Carries(u) /\ b = local[u].block
  BY BlockTypes DEF InHeld
<1>3. \A b : b \in Out' <=> \/ \E a \in held' : b = Block(a.page, a.offset)
                            \/ \E u \in Thread : Carries(u)' /\ b = local'[u].block
  BY DEF Out, InTransit, Carries
<1>4. Carries(t)' <=> p \in {"header", "unheld"}
  BY <1>1 DEF Carries
<1>5. \A u \in Thread : u # t => (Carries(u)' <=> Carries(u))
  BY <1>1 DEF Carries
<1>6. ASSUME NEW b
      PROVE  (\E u \in Thread : Carries(u)' /\ b = local'[u].block)
                <=> Others(t, b) \/ (p \in {"header", "unheld"} /\ b = l.block)
  BY <1>1, <1>4, <1>5 DEF Others
<1>7. ASSUME NEW b
      PROVE  (\E u \in Thread : Carries(u) /\ b = local[u].block)
                <=> Others(t, b) \/ (pc[t] \in {"header", "unheld"} /\ b = local[t].block)
  BY DEF Others, Carries
<1>8. \A y : y \in Pending <=> \E u \in Thread : pc[u] = "header" /\ y = <<local[u].block, local[u].class>>
  BY BlockTypes
<1>9. \A y : y \in Pending' <=> \E u \in Thread : pc'[u] = "header" /\ y = <<local'[u].block, local'[u].class>>
  BY DEF Pending
<1>10. ASSUME NEW y
       PROVE  (\E u \in Thread : pc'[u] = "header" /\ y = <<local'[u].block, local'[u].class>>)
                 <=> OthersOwe(t, y) \/ (p = "header" /\ y = <<l.block, l.class>>)
  BY <1>1 DEF OthersOwe
<1>11. ASSUME NEW y
       PROVE  (\E u \in Thread : pc[u] = "header" /\ y = <<local[u].block, local[u].class>>)
                 <=> OthersOwe(t, y) \/ (pc[t] = "header" /\ y = <<local[t].block, local[t].class>>)
  BY DEF OthersOwe
<1>12. \A b : b \in Out <=> \/ InHeld(held, b) \/ Others(t, b)
                            \/ pc[t] \in {"header", "unheld"} /\ b = local[t].block
  BY <1>2, <1>7
<1>13. \A b : b \in Out' <=> \/ InHeld(held', b) \/ Others(t, b)
                             \/ p \in {"header", "unheld"} /\ b = l.block
  BY <1>3, <1>6 DEF InHeld
<1>14. \A y : y \in Pending <=> \/ OthersOwe(t, y)
                                \/ pc[t] = "header" /\ y = <<local[t].block, local[t].class>>
  BY <1>8, <1>11
<1>15. \A y : y \in Pending' <=> OthersOwe(t, y) \/ (p = "header" /\ y = <<l.block, l.class>>)
  BY <1>9, <1>10
<1> QED
  BY <1>12, <1>13, <1>14, <1>15

\* A block that is not out goes out with t.
LEMMA BlockComes ==
    ASSUME Shape, OutApart, NEW t \in Thread, NEW l, Steps(t, "header", l), ~Carries(t), held' = held,
           l.block \notin Out
    PROVE  /\ Out' = Out \cup {l.block} /\ Pending' = Pending \cup {<<l.block, l.class>>}
           /\ OutApart'
<1>1. ~(pc[t] \in {"header", "unheld"}) /\ pc[t] # "header"
  BY DEF Carries
<1>2. \A b : b \in Out' <=> b \in Out \/ b = l.block
  BY <1>1, OutSplit
<1>3. \A y : y \in Pending' <=> y \in Pending \/ y = <<l.block, l.class>>
  BY <1>1, OutSplit
<1>4. pc'[t] = "header" /\ local'[t] = l /\ \A u \in Thread : u # t => pc'[u] = pc[u] /\ local'[u] = local[u]
  BY StepsFacts DEF Shape
<1>5. \A a \in held : Block(a.page, a.offset) # l.block
  BY BlockTypes
<1>6. \A u \in Thread : Carries(u) => local[u].block # l.block
  BY BlockTypes
<1>7. \A u \in Thread : u # t => (Carries(u)' <=> Carries(u))
  BY <1>4 DEF Carries
<1>8. \A u, v \in Thread : Carries(u)' /\ Carries(v)' /\ local'[u].block = local'[v].block => u = v
  BY <1>4, <1>6, <1>7 DEF OutApart
<1>9. \A a \in held, u \in Thread : Carries(u)' => local'[u].block # Block(a.page, a.offset)
  BY <1>4, <1>5, <1>7 DEF OutApart
<1>10. OutApart'
  BY <1>8, <1>9 DEF OutApart
<1> QED
  BY <1>2, <1>3, <1>10

\* A block leaves its list for a call that will hand it out.
LEMMA PopStep ==
    ASSUME IInv, NEW t \in Thread, NEW n \in Sizes, PopBlock(t, n)
    PROVE  IInv'
<1>1. Shape /\ Blocks /\ pc[t] = "idle" /\ UNCHANGED <<header, big, window, held, runs>>
  BY DEF IInv, PopBlock
<1>2. PICK c \in Class : c = ClassOf(n)
  BY <1>1, PopSteps DEF Blocks
<1>3. PICK s \in Seq(Blk) : s = lists[c] /\ s # << >> /\ IsInjective(s)
  BY <1>1, <1>2 DEF PopBlock, Shape, DataShape, Blocks, ListsOnce
<1>4. PICK x \in Blk : x = Head(s) /\ x \in Range(s)
  BY <1>3, TailFacts
<1>5. PICK l \in Locals : Steps(t, "header", l) /\ l.class = c /\ l.block = x
  BY <1>1, <1>2, <1>3, <1>4, PopSteps DEF Blocks
<1>6. /\ Tail(s) \in Seq(Blk) /\ IsInjective(Tail(s))
      /\ \A b : b \in Range(Tail(s)) <=> b \in Range(s) /\ b # x
  BY <1>3, <1>4, TailFacts
<1>7. lists' = [lists EXCEPT ![c] = Tail(s)] /\ state' = [state EXCEPT ![x.page] = @ + 1]
  BY <1>2, <1>3, <1>4 DEF PopBlock
<1>8. lists \in [Class -> Seq(Blk)]
  BY <1>1 DEF Shape, DataShape
<1>9. lists' \in [Class -> Seq(Blk)] /\ lists'[c] = Tail(s) /\ \A d \in Class : d # c => lists'[d] = lists[d]
  BY <1>6, <1>7, <1>8
<1>10. Listing[c] = Range(s) /\ Listing' = [Listing EXCEPT ![c] = @ \ {x}]
  <2>1. Listing = [d \in Class |-> Range(lists[d])] /\ Listing' = [d \in Class |-> Range(lists'[d])]
    BY DEF Listing, Listed
  <2>2. Range(Tail(s)) = Range(s) \ {x}
    BY <1>6
  <2>3. \A d \in Class : Range(lists'[d]) = IF d = c THEN Range(s) \ {x} ELSE Range(lists[d])
    BY <1>9, <2>2
  <2>4. Listing[c] = Range(s)
    BY <1>3, <2>1
  <2> QED
    BY <1>3, <2>1, <2>3, <2>4
<1>11. /\ Out \subseteq Blk /\ Listing \in [Class -> SUBSET Blk] /\ state \in [Page -> Int]
       /\ Buckets \subseteq Page /\ Sound(Out, Listing, state, Buckets, header, Pending)
  BY <1>1, BlockTypes DEF Blocks, Counted
<1>12. x \in Listing[c]
  BY <1>4, <1>10
<1>13. /\ x.page \in Buckets /\ state[x.page] \in Nat
       /\ Sound(Out \cup {x}, Listing', state', Buckets, header, Pending \cup {<<x, c>>})
  BY <1>7, <1>10, <1>11, <1>12, SoundPop
<1>14. Buckets' = Buckets
  <2>1. \A p \in Page : state'[p] # NotBucket <=> state[p] # NotBucket
    <3>1. SUFFICES ASSUME NEW p \in Page PROVE state'[p] # NotBucket <=> state[p] # NotBucket
      OBVIOUS
    <3>2. CASE p = x.page
      BY <1>7, <1>11, <1>13, <3>2 DEF NotBucket
    <3>3. CASE p # x.page
      BY <1>7, <1>11, <3>3
    <3> QED
      BY <3>2, <3>3
  <2> QED
    BY <2>1 DEF Buckets
<1>15. /\ pc'[t] = "header" /\ local'[t] = l
       /\ \A u \in Thread : u # t => pc'[u] = pc[u] /\ local'[u] = local[u]
  BY <1>1, <1>5, StepsFacts DEF Shape
<1>16. x \notin Out
  BY <1>11, <1>12 DEF Sound
<1>17. Out' = Out \cup {x} /\ Pending' = Pending \cup {<<x, c>>} /\ OutApart'
  <2>1. ~Carries(t) /\ l.block \notin Out
    BY <1>1, <1>5, <1>16 DEF Carries
  <2> QED
    BY <1>1, <1>5, <2>1, BlockComes DEF Blocks
<1>18. Counted'
  <2>1. Sound(Out', Listing', state', Buckets', header', Pending')
    BY <1>1, <1>13, <1>14, <1>17
  <2> QED
    BY <2>1 DEF Counted, Sound, CarvedAs, OutOf
<1>21. ListsOnce'
  BY <1>1, <1>6, <1>9 DEF Blocks, ListsOnce
<1>22. Marked'
  <2>1. \A u \in Thread : pc'[u] = "unheld" => pc[u] = "unheld" /\ local'[u] = local[u]
    BY <1>1, <1>15
  <2> QED
    BY <1>1, <2>1 DEF Blocks, Marked
<1>23. ThreadShape' /\ Places' /\ Table'
  <2>1. Hand(t) = {} /\ InHand("header", l) = {}
    BY <1>1 DEF Hand, InHand
  <2> QED
    BY <1>1, <1>5, <1>14, <2>1, PagesStill
<1>24. DataShape'
  <2>1. state' \in [Page -> Int]
    <3>1. x.page \in Page /\ state[x.page] + 1 \in Int
      BY <1>13, BlockIs
    <3> QED
      BY <1>7, <1>11, <3>1
  <2> QED
    BY <1>1, <1>9, <2>1 DEF Shape, DataShape
<1> QED
  BY <1>17, <1>18, <1>21, <1>22, <1>23, <1>24 DEF IInv, Shape, Blocks

\* A page is carved: it becomes a bucket, with its first block on its way to
\* the caller.
LEMMA CarveStep ==
    ASSUME IInv, NEW t \in Thread, Carve(t)
    PROVE  IInv'
<1>1. /\ Shape /\ Blocks /\ Places /\ pc[t] = "carve" /\ Steps(t, "header", local[t])
      /\ UNCHANGED <<big, window, held, runs>>
  BY PlainSteps DEF IInv, Carve
<1>2. PICK l \in Locals : l = local[t] /\ l.block.offset = 0 /\ l.bytes <= SmallMax /\ Asks(l)
  BY <1>1 DEF Shape, ThreadShape, LocalOK
<1>3. PICK c \in Class : c = l.class
  BY FieldTypes
<1>4. PICK p \in Page : p = l.block.page
  BY FieldTypes
<1>5. l.block = Block(p, 0)
  BY <1>2, <1>4, FieldTypes, BlockIs
<1>6. Hand(t) = {p}
  <2>1. l.pages = 1
    BY <1>2, FieldTypes DEF Asks
  <2>2. Hand(t) = PageRun(p, 1)
    BY <1>1, <1>2, <1>4, <2>1 DEF Hand, InHand
  <2> QED
    BY <2>2, RunFacts, IdleFacts
<1>7. ThreadShape' /\ Hands' = [Hands EXCEPT ![t] = {}] /\ Hands[t] = {p}
  <2>1. InHand("header", local[t]) = {}
    BY DEF InHand
  <2> QED
    BY <1>1, <1>6, <2>1, StepsFacts DEF Shape
<1>8. /\ Out \subseteq Blk /\ Listing \in [Class -> SUBSET Blk] /\ state \in [Page -> Int]
      /\ Buckets \subseteq Page /\ Hands \in [Thread -> SUBSET Int]
  BY <1>1, BlockTypes
<1>9. Sound(Out, Listing, state, Buckets, header, Pending) /\ Placed(window, Buckets, runs, Hands)
  BY <1>1 DEF Blocks, Counted, Places
<1>10. p \notin Buckets
  BY <1>7, <1>9 DEF Placed
<1> DEFINE rest == Offsets(c) \ {0}
           q == Chain(c, p)
<1>11. /\ state' = [state EXCEPT ![p] = 1]
       /\ header' = [header EXCEPT ![p] = [o \in Offset |->
                       IF o \in rest THEN [class |-> c, magic |-> "free"] ELSE @[o]]]
       /\ lists' = [lists EXCEPT ![c] = q \o @]
  BY <1>2, <1>3, <1>4 DEF Carve, Chain
<1>12. /\ q \in Seq(Blk) /\ IsInjective(q)
       /\ \A b : b \in Range(q) <=> \E o \in rest : b = Block(p, o)
  BY ChainFacts
<1>13. rest \subseteq Offset
  BY OffsetFacts
<1>14. header \in [Page -> [Offset -> Words]] /\ lists \in [Class -> Seq(Blk)]
  BY <1>1 DEF Shape, DataShape
<1>15. /\ header' \in [Page -> [Offset -> Words]] /\ \A r \in Page : r # p => header'[r] = header[r]
       /\ \A o \in rest : header'[p][o] = [class |-> c, magic |-> "free"]
  <2> DEFINE w == [class |-> c, magic |-> "free"]
             row == [o \in Offset |-> IF o \in rest THEN w ELSE header[p][o]]
  <2>1. w \in Words /\ header[p] \in [Offset -> Words]
    BY <1>14 DEF Words
  <2>2. header' = [header EXCEPT ![p] = row]
    BY <1>11, <1>14
  <2> HIDE DEF w, rest
  <2>3. row \in [Offset -> Words] /\ \A o \in rest : row[o] = w
    BY <1>13, <2>1
  <2> HIDE DEF row
  <2>4. header'[p] = row /\ header' \in [Page -> [Offset -> Words]]
    BY <1>14, <2>2, <2>3
  <2>5. \A r \in Page : r # p => header'[r] = header[r]
    BY <1>14, <2>2
  <2>6. \A o \in rest : header'[p][o] = w
    BY <2>3, <2>4
  <2> QED
    BY <2>4, <2>5, <2>6 DEF w
<1> HIDE DEF q, rest
<1>16. PICK s \in Seq(Blk) : s = lists[c] /\ IsInjective(s)
  BY <1>1, <1>14 DEF Blocks, ListsOnce
<1>17. lists'[c] = q \o s /\ \A d \in Class : d # c => lists'[d] = lists[d]
  BY <1>11, <1>14, <1>16
<1>18. Listing[c] = Range(s) /\ \A b \in Range(q) : b \notin Range(s)
  <2>1. Listing[c] = Range(s)
    BY <1>16 DEF Listing, Listed
  <2>2. ASSUME NEW b \in Range(q) PROVE b \notin Range(s)
    <3>1. PICK o \in rest : b = Block(p, o)
      BY <1>12, <2>2
    <3>2. b.page = p
      BY <3>1 DEF Block
    <3> QED
      BY <1>9, <1>10, <2>1, <3>2 DEF Sound
  <2> QED
    BY <2>1, <2>2
<1>19. /\ q \o s \in Seq(Blk) /\ IsInjective(q \o s)
       /\ \A b : b \in Range(q \o s) <=> b \in Range(q) \/ b \in Range(s)
  BY <1>12, <1>16, <1>18, JoinFacts
<1>20. lists' \in [Class -> Seq(Blk)] /\ ListsOnce'
  <2>1. lists' \in [Class -> Seq(Blk)]
    BY <1>11, <1>14, <1>16, <1>19
  <2>2. \A d \in Class : IsInjective(lists'[d])
    BY <1>1, <1>17, <1>19 DEF Blocks, ListsOnce
  <2> QED
    BY <2>1, <2>2 DEF ListsOnce
<1>21. Listing' = [Listing EXCEPT ![c] = Range(q) \cup @]
  <2>1. Listing = [d \in Class |-> Range(lists[d])] /\ Listing' = [d \in Class |-> Range(lists'[d])]
    BY DEF Listing, Listed
  <2>2. Range(q \o s) = Range(q) \cup Range(s)
    BY <1>19
  <2>3. \A d \in Class : Range(lists'[d]) = IF d = c THEN Range(q) \cup Range(s) ELSE Range(lists[d])
    BY <1>17, <2>2
  <2> QED
    BY <1>18, <2>1, <2>3
<1>22. Sound(Out \cup {Block(p, 0)}, Listing', state', Buckets \cup {p}, header',
             Pending \cup {<<Block(p, 0), c>>})
  <2>1. \A r \in Buckets : header'[r] = header[r]
    BY <1>8, <1>10, <1>15
  <2>2. \A o \in Offsets(c) \ {0} : header'[p][o] = [class |-> c, magic |-> "free"]
    BY <1>15 DEF rest
  <2>3. \A b : b \in Range(q) <=> \E o \in Offsets(c) \ {0} : b = Block(p, o)
    BY <1>12 DEF rest
  <2>4. p \in Page \ Buckets
    BY <1>10
  <2>5. PICK N : N = Range(q)
    OBVIOUS
  <2>6. \A b : b \in N <=> \E o \in Offsets(c) \ {0} : b = Block(p, o)
    BY <2>3, <2>5
  <2>7. PICK g : g = header'
    OBVIOUS
  <2>8. (\A r \in Buckets : g[r] = header[r])
          /\ \A o \in Offsets(c) \ {0} : g[p][o] = [class |-> c, magic |-> "free"]
    BY <2>1, <2>2, <2>7
  <2>9. Sound(Out \cup {Block(p, 0)}, [Listing EXCEPT ![c] = N \cup @], [state EXCEPT ![p] = 1],
              Buckets \cup {p}, g, Pending \cup {<<Block(p, 0), c>>})
    BY <1>8, <1>9, <2>4, <2>6, <2>8, SoundCarve
  <2> QED
    BY <1>11, <1>21, <2>5, <2>7, <2>9
<1>23. state' \in [Page -> Int] /\ Buckets' = Buckets \cup {p}
  <2>1. state' \in [Page -> Int] /\ state'[p] = 1 /\ \A r \in Page : r # p => state'[r] = state[r]
    BY <1>8, <1>11
  <2> QED
    BY <2>1 DEF Buckets, NotBucket
<1>24. Block(p, 0) \notin Out
  <2>1. Block(p, 0).page = p
    BY DEF Block
  <2> QED
    BY <1>9, <1>10, <2>1 DEF Sound
<1>25. Out' = Out \cup {Block(p, 0)} /\ Pending' = Pending \cup {<<Block(p, 0), c>>} /\ OutApart'
  <2>1. ~Carries(t) /\ l.block \notin Out /\ Steps(t, "header", l)
    BY <1>1, <1>2, <1>5, <1>24 DEF Carries
  <2>2. Out' = Out \cup {l.block} /\ Pending' = Pending \cup {<<l.block, l.class>>} /\ OutApart'
    BY <1>1, <2>1, BlockComes DEF Blocks
  <2> QED
    BY <1>3, <1>5, <2>2
<1>26. Counted'
  <2>1. Sound(Out', Listing', state', Buckets', header', Pending')
    BY <1>22, <1>23, <1>25
  <2> QED
    BY <2>1 DEF Counted, Sound, CarvedAs, OutOf
<1>27. Marked'
  <2>1. \A b \in Out : header'[b.page] = header[b.page]
    BY <1>8, <1>9, <1>10, <1>15 DEF Sound
  <2>2. \A b \in held : header'[b.page] = header[b.page]
    <3>1. SUFFICES ASSUME NEW b \in held PROVE header'[b.page] = header[b.page]
      OBVIOUS
    <3>2. Block(b.page, b.offset) \in Out
      BY <1>1, BlockTypes
    <3>3. Block(b.page, b.offset).page = b.page
      BY DEF Block
    <3> QED
      BY <2>1, <3>2, <3>3
  <2>3. \A u \in Thread : pc[u] = "unheld" => header'[local[u].block.page] = header[local[u].block.page]
    <3>1. \A u \in Thread : pc[u] = "unheld" => local[u].block \in Out
      BY <1>1, BlockTypes DEF Carries
    <3> QED
      BY <2>1, <3>1
  <2>4. \A u \in Thread : pc'[u] = "unheld" => pc[u] = "unheld" /\ local'[u] = local[u]
    BY <1>1, StepsFacts DEF Shape
  <2>5. \A b \in held : /\ header'[b.page][b.offset].magic = "alloc"
                        /\ b.bytes + HeaderSize <= NxpClassSize[header'[b.page][b.offset].class]
    BY <1>1, <2>2 DEF Blocks, Marked
  <2>6. \A u \in Thread : pc'[u] = "unheld" =>
            header'[local'[u].block.page][local'[u].block.offset].magic = "free"
    BY <1>1, <2>3, <2>4 DEF Blocks, Marked
  <2> QED
    BY <1>1, <2>5, <2>6 DEF Marked
<1>28. Places'
  <2>1. Placed(window', Buckets', runs', Hands')
    BY <1>1, <1>7, <1>8, <1>9, <1>23, PlacedBucket
  <2> QED
    BY <2>1 DEF Places, Placed, Run, PageRun
<1>29. Table'
  BY <1>1 DEF IInv, Table
<1>30. DataShape'
  BY <1>1, <1>15, <1>20, <1>23 DEF Shape, DataShape
<1> QED
  BY <1>7, <1>20, <1>25, <1>26, <1>27, <1>28, <1>29, <1>30 DEF IInv, Shape, Blocks

\* A block that t carries is out nowhere else.
LEMMA CarriedAlone ==
    ASSUME OutApart, NEW t \in Thread, Carries(t)
    PROVE  /\ ~InHeld(held, local[t].block) /\ ~Others(t, local[t].block)
           /\ \A y : OthersOwe(t, y) => y[1] # local[t].block
<1>1. ~InHeld(held, local[t].block)
  BY DEF OutApart, InHeld
<1>2. ~Others(t, local[t].block)
  BY DEF OutApart, Others
<1>3. ASSUME NEW y, OthersOwe(t, y) PROVE y[1] # local[t].block
  <2>1. PICK u \in Thread : u # t /\ pc[u] = "header" /\ y = <<local[u].block, local[u].class>>
    BY <1>3 DEF OthersOwe
  <2>2. Carries(u) /\ y[1] = local[u].block
    BY <2>1 DEF Carries
  <2> QED
    BY <2>1, <2>2 DEF OutApart
<1> QED
  BY <1>1, <1>2, <1>3

\* The header of a block is written and the block is its caller's.
LEMMA WriteHeaderStep ==
    ASSUME IInv, NEW t \in Thread, WriteHeader(t)
    PROVE  IInv'
<1>1. /\ Shape /\ Blocks /\ OutApart /\ pc[t] = "header" /\ Steps(t, "idle", Idle)
      /\ UNCHANGED <<lists, state, big, window, runs>>
  BY DoneSteps DEF IInv, Blocks, WriteHeader
<1>2. PICK k \in Locals : k = local[t] /\ k.bytes + HeaderSize <= NxpClassSize[k.class]
  BY <1>1 DEF Shape, ThreadShape, LocalOK
<1>3. PICK x \in Blk : x = k.block /\ x = Block(x.page, x.offset) /\ x.page \in Page /\ x.offset \in Offset
  BY FieldTypes, BlockIs
<1>4. PICK c \in Class : c = k.class
  BY FieldTypes
<1> DEFINE w == [class |-> c, magic |-> "alloc"]
           a == [page |-> x.page, offset |-> x.offset, bytes |-> k.bytes]
<1>5. header' = [header EXCEPT ![x.page][x.offset] = w] /\ held' = held \cup {a}
  BY <1>2, <1>3, <1>4 DEF WriteHeader
<1>6. w \in Words /\ w.class = c /\ w.magic = "alloc"
  BY DEF Words
<1>7. a \in [page : Page, offset : Offset, bytes : Nat] /\ a.page = x.page /\ a.offset = x.offset /\ a.bytes = k.bytes
  BY <1>3, FieldTypes
<1> HIDE DEF w, a
<1>8. header \in [Page -> [Offset -> Words]] /\ held \subseteq [page : Page, offset : Offset, bytes : Nat]
  BY <1>1 DEF Shape, DataShape
<1>9. /\ header'[x.page][x.offset] = w /\ header' \in [Page -> [Offset -> Words]]
      /\ \A b \in Blk : b # x => header'[b.page][b.offset] = header[b.page][b.offset]
  BY <1>5, <1>6, <1>8, HeaderAt
<1>10. Carries(t) /\ local[t].block = x /\ local[t].class = c
  BY <1>1, <1>2, <1>3, <1>4 DEF Carries
<1>11. ~InHeld(held, x) /\ ~Others(t, x) /\ \A y : OthersOwe(t, y) => y[1] # x
  BY <1>1, <1>10, CarriedAlone
<1>12. \A b : InHeld(held', b) <=> InHeld(held, b) \/ b = x
  BY <1>3, <1>5, <1>7 DEF InHeld
<1>13. Out' = Out /\ x \in Out
  <2>1. \A b : b \in Out <=> InHeld(held, b) \/ Others(t, b) \/ b = x
    BY <1>1, <1>10, OutSplit
  <2>2. \A b : b \in Out' <=> InHeld(held', b) \/ Others(t, b)
    BY <1>1, OutSplit
  <2>3. \A b : b \in Out' <=> b \in Out
    BY <1>12, <2>1, <2>2
  <2> QED
    BY <2>1, <2>3
<1>14. Pending' = Pending \ {<<x, c>>} /\ <<x, c>> \in Pending
  <2>1. \A y : y \in Pending <=> OthersOwe(t, y) \/ y = <<x, c>>
    BY <1>1, <1>10, OutSplit
  <2>2. \A y : y \in Pending' <=> OthersOwe(t, y)
    BY <1>1, OutSplit
  <2>3. ~OthersOwe(t, <<x, c>>)
    BY <1>11
  <2>4. \A y : y \in Pending' <=> y \in Pending /\ y # <<x, c>>
    BY <2>1, <2>2, <2>3
  <2> QED
    BY <2>1, <2>4
<1>15. Buckets' = Buckets /\ Listing' = Listing /\ ListsOnce'
  BY <1>1 DEF Buckets, Listing, Listed, Blocks, ListsOnce
<1>16. Counted'
  <2>1. /\ Out \subseteq Blk /\ Listing \in [Class -> SUBSET Blk] /\ Buckets \subseteq Page
        /\ Sound(Out, Listing, state, Buckets, header, Pending)
    BY <1>1, BlockTypes DEF Blocks, Counted
  <2>2. PICK g : g = header'
    OBVIOUS
  <2>3. (\A b \in Blk : b # x => g[b.page][b.offset] = header[b.page][b.offset])
           /\ g[x.page][x.offset].class = c
    BY <1>6, <1>9, <2>2
  <2>4. Sound(Out, Listing, state, Buckets, g, Pending \ {<<x, c>>})
    BY <1>13, <1>14, <2>1, <2>3, SoundWrite
  <2>5. Sound(Out', Listing', state', Buckets', header', Pending')
    BY <1>1, <1>13, <1>14, <1>15, <2>2, <2>4
  <2> QED
    BY <2>5 DEF Counted, Sound, CarvedAs, OutOf
<1>17. pc'[t] = "idle" /\ \A u \in Thread : u # t => pc'[u] = pc[u] /\ local'[u] = local[u]
  BY <1>1, StepsFacts DEF Shape
<1>18. \A e \in held : Block(e.page, e.offset) # x /\ Block(e.page, e.offset) \in Blk
  BY <1>8, <1>11 DEF InHeld, Block, Blk
<1>19. \A e \in held : ~(e.page = x.page /\ e.offset = x.offset)
  BY <1>3, <1>18
<1>20. \A u \in Thread : Carries(u)' => u # t /\ Carries(u) /\ local'[u] = local[u]
  BY <1>17 DEF Carries
<1>21. \A u \in Thread : u # t /\ Carries(u) => local[u].block # x
  BY <1>11 DEF Others
<1>22. OutApart'
  <2>1. \A e, f \in held' : e.page = f.page /\ e.offset = f.offset => e = f
    <3>1. SUFFICES ASSUME NEW e \in held', NEW f \in held', e.page = f.page, e.offset = f.offset
                   PROVE  e = f
      OBVIOUS
    <3>2. CASE e \in held /\ f \in held
      BY <1>1, <3>1, <3>2 DEF OutApart
    <3>3. CASE e = a \/ f = a
      BY <1>5, <1>7, <1>19, <3>1, <3>3
    <3> QED
      BY <1>5, <3>2, <3>3
  <2>2. \A u, v \in Thread : Carries(u)' /\ Carries(v)' /\ local'[u].block = local'[v].block => u = v
    BY <1>1, <1>20 DEF OutApart
  <2>3. ASSUME NEW e \in held', NEW u \in Thread, Carries(u)' PROVE local'[u].block # Block(e.page, e.offset)
    <3>1. u # t /\ Carries(u) /\ local'[u] = local[u] /\ local[u].block # x
      BY <1>20, <1>21, <2>3
    <3>2. CASE e \in held
      BY <1>1, <3>1, <3>2 DEF OutApart
    <3>3. CASE e = a
      BY <1>3, <1>7, <3>1, <3>3
    <3> QED
      BY <1>5, <2>3, <3>2, <3>3
  <2> QED
    BY <2>1, <2>2, <2>3 DEF OutApart
<1>23. Marked'
  <2>1. ASSUME NEW e \in held'
        PROVE  /\ header'[e.page][e.offset].magic = "alloc"
               /\ e.bytes + HeaderSize <= NxpClassSize[header'[e.page][e.offset].class]
    <3>1. CASE e \in held
      <4>1. PICK b \in Blk : b = Block(e.page, e.offset) /\ b # x
        BY <1>18, <3>1
      <4>2. b.page = e.page /\ b.offset = e.offset
        BY <4>1 DEF Block
      <4>3. header'[e.page][e.offset] = header[e.page][e.offset]
        BY <1>9, <4>1, <4>2
      <4> QED
        BY <1>1, <3>1, <4>3 DEF Blocks, Marked
    <3>2. CASE e = a
      BY <1>2, <1>4, <1>6, <1>7, <1>9, <3>2
    <3> QED
      BY <1>5, <2>1, <3>1, <3>2
  <2>2. ASSUME NEW u \in Thread, pc'[u] = "unheld"
        PROVE  header'[local'[u].block.page][local'[u].block.offset].magic = "free"
    <3>1. u # t /\ pc[u] = "unheld" /\ local'[u] = local[u]
      BY <1>17, <2>2
    <3>2. local[u].block # x /\ local[u].block \in Blk
      BY <1>1, <1>21, <3>1, FieldTypes DEF Carries, Shape, ThreadShape
    <3>3. header[local[u].block.page][local[u].block.offset].magic = "free"
      BY <1>1, <3>1 DEF Blocks, Marked
    <3> QED
      BY <1>9, <3>1, <3>2, <3>3
  <2> QED
    BY <2>1, <2>2 DEF Marked
<1>24. ThreadShape' /\ Places' /\ Table'
  <2>1. Hand(t) = {} /\ InHand("idle", Idle) = {}
    BY <1>1 DEF Hand, InHand
  <2> QED
    BY <1>1, <1>15, <2>1, PagesStill
<1>25. DataShape'
  BY <1>1, <1>5, <1>7, <1>8, <1>9 DEF Shape, DataShape
<1> QED
  BY <1>15, <1>16, <1>22, <1>23, <1>24, <1>25 DEF IInv, Shape, Blocks

\* A caller hands its block back: the header loses the magic of a live block,
\* and the block is on its way to its list.
LEMMA FreeBeginStep ==
    ASSUME IInv, NEW t \in Thread, NEW b \in held, FreeBegin(t, b)
    PROVE  IInv'
<1>1. /\ Shape /\ Blocks /\ OutApart /\ pc[t] = "idle" /\ held' = held \ {b}
      /\ UNCHANGED <<lists, state, big, window, runs>>
  BY DEF IInv, Blocks, FreeBegin
<1>2. header \in [Page -> [Offset -> Words]] /\ held \subseteq [page : Page, offset : Offset, bytes : Nat]
  BY <1>1 DEF Shape, DataShape
<1>3. b.page \in Page /\ b.offset \in Offset
  BY <1>2
<1>4. PICK x \in Blk : x = Block(b.page, b.offset) /\ x.page = b.page /\ x.offset = b.offset
  <2>1. Block(b.page, b.offset) \in Blk
    BY <1>3 DEF Block, Blk
  <2>2. Block(b.page, b.offset).page = b.page /\ Block(b.page, b.offset).offset = b.offset
    BY DEF Block
  <2> QED
    BY <2>1, <2>2
<1>5. PICK l \in Locals : Steps(t, "unheld", l) /\ l.block = x
  BY <1>1, <1>4, FreeSteps
<1>6. PICK v \in Words : v = header[x.page][x.offset]
  BY <1>2, <1>3, <1>4
<1>7. PICK w \in Words : w = [v EXCEPT !.magic = "free"] /\ w.magic = "free" /\ w.class = v.class
  <2>1. [v EXCEPT !.magic = "free"] \in Words
    BY DEF Words
  <2>2. [v EXCEPT !.magic = "free"].magic = "free" /\ [v EXCEPT !.magic = "free"].class = v.class
    BY DEF Words
  <2> QED
    BY <2>1, <2>2
<1>8. header' = [header EXCEPT ![x.page][x.offset] = w]
  BY <1>2, <1>3, <1>4, <1>6, <1>7 DEF FreeBegin
<1>9. /\ header'[x.page][x.offset] = w /\ header' \in [Page -> [Offset -> Words]]
      /\ \A y \in Blk : y # x => header'[y.page][y.offset] = header[y.page][y.offset]
  BY <1>2, <1>8, HeaderAt
<1>10. \A e \in held' : e \in held /\ Block(e.page, e.offset) # x /\ Block(e.page, e.offset) \in Blk
  <2>1. SUFFICES ASSUME NEW e \in held' PROVE e \in held /\ Block(e.page, e.offset) # x /\ Block(e.page, e.offset) \in Blk
    OBVIOUS
  <2>2. e \in held /\ e # b
    BY <1>1
  <2>3. ~(e.page = b.page /\ e.offset = b.offset)
    BY <1>1, <2>2 DEF OutApart
  <2>4. Block(e.page, e.offset) \in Blk
    BY <1>2, <2>2 DEF Block, Blk
  <2>5. Block(e.page, e.offset).page = e.page /\ Block(e.page, e.offset).offset = e.offset
    BY DEF Block
  <2> QED
    BY <1>4, <2>2, <2>3, <2>4, <2>5
<1>11. \A y : InHeld(held, y) <=> InHeld(held', y) \/ y = x
  BY <1>1, <1>4 DEF InHeld
<1>12. Out' = Out /\ x \in Out
  <2>1. \A y : y \in Out <=> InHeld(held, y) \/ Others(t, y)
    BY <1>1, <1>5, OutSplit
  <2>2. \A y : y \in Out' <=> InHeld(held', y) \/ Others(t, y) \/ y = x
    BY <1>1, <1>5, OutSplit
  <2>3. \A y : y \in Out' <=> y \in Out
    BY <1>11, <2>1, <2>2
  <2> QED
    BY <1>11, <2>1, <2>3
<1>13. Pending' = Pending
  <2>1. \A y : y \in Pending <=> OthersOwe(t, y)
    BY <1>1, <1>5, OutSplit
  <2>2. \A y : y \in Pending' <=> OthersOwe(t, y)
    BY <1>1, <1>5, OutSplit
  <2>3. \A y : y \in Pending' <=> y \in Pending
    BY <2>1, <2>2
  <2> QED
    BY <2>3
<1>14. Buckets' = Buckets /\ Listing' = Listing /\ ListsOnce'
  BY <1>1 DEF Buckets, Listing, Listed, Blocks, ListsOnce
<1>15. Counted'
  <2>1. /\ Out \subseteq Blk /\ Listing \in [Class -> SUBSET Blk] /\ Buckets \subseteq Page
        /\ Sound(Out, Listing, state, Buckets, header, Pending)
    BY <1>1, BlockTypes DEF Blocks, Counted
  <2>2. PICK g : g = header'
    OBVIOUS
  <2>3. (\A y \in Blk : y # x => g[y.page][y.offset] = header[y.page][y.offset])
           /\ g[x.page][x.offset].class = header[x.page][x.offset].class
    BY <1>6, <1>7, <1>9, <2>2
  <2>4. Sound(Out, Listing, state, Buckets, g, Pending)
    BY <1>12, <2>1, <2>3, SoundWrite
  <2>5. Sound(Out', Listing', state', Buckets', header', Pending')
    BY <1>1, <1>12, <1>13, <1>14, <2>2, <2>4
  <2> QED
    BY <2>5 DEF Counted, Sound, CarvedAs, OutOf
<1>16. pc'[t] = "unheld" /\ local'[t] = l /\ \A u \in Thread : u # t => pc'[u] = pc[u] /\ local'[u] = local[u]
  BY <1>1, <1>5, StepsFacts DEF Shape
<1>17. \A u \in Thread : u # t => (Carries(u)' <=> Carries(u))
  BY <1>16 DEF Carries
<1>18. \A u \in Thread : Carries(u) => u # t /\ local[u].block # x
  BY <1>1, <1>4 DEF OutApart, Carries
<1>19. OutApart'
  <2>1. \A e, f \in held' : e.page = f.page /\ e.offset = f.offset => e = f
    BY <1>1, <1>10 DEF OutApart
  <2>2. \A u, z \in Thread : Carries(u)' /\ Carries(z)' /\ local'[u].block = local'[z].block => u = z
    BY <1>1, <1>5, <1>16, <1>17, <1>18 DEF OutApart
  <2>3. ASSUME NEW e \in held', NEW u \in Thread, Carries(u)' PROVE local'[u].block # Block(e.page, e.offset)
    <3>1. CASE u = t
      BY <1>5, <1>10, <1>16, <3>1
    <3>2. CASE u # t
      BY <1>1, <1>10, <1>16, <1>17, <2>3, <3>2 DEF OutApart
    <3> QED
      BY <3>1, <3>2
  <2> QED
    BY <2>1, <2>2, <2>3 DEF OutApart
<1>20. Marked'
  <2>1. ASSUME NEW e \in held'
        PROVE  /\ header'[e.page][e.offset].magic = "alloc"
               /\ e.bytes + HeaderSize <= NxpClassSize[header'[e.page][e.offset].class]
    <3>1. PICK y \in Blk : y = Block(e.page, e.offset) /\ y # x
      BY <1>10
    <3>2. y.page = e.page /\ y.offset = e.offset /\ e \in held
      BY <1>10, <3>1 DEF Block
    <3>3. header'[e.page][e.offset] = header[e.page][e.offset]
      BY <1>9, <3>1, <3>2
    <3> QED
      BY <1>1, <3>2, <3>3 DEF Blocks, Marked
  <2>2. ASSUME NEW u \in Thread, pc'[u] = "unheld"
        PROVE  header'[local'[u].block.page][local'[u].block.offset].magic = "free"
    <3>1. CASE u = t
      BY <1>5, <1>7, <1>9, <1>16, <3>1
    <3>2. CASE u # t
      <4>1. pc[u] = "unheld" /\ local'[u] = local[u]
        BY <1>16, <2>2, <3>2
      <4>2. local[u].block # x /\ local[u].block \in Blk
        BY <1>1, <1>18, <4>1, FieldTypes DEF Carries, Shape, ThreadShape
      <4>3. header[local[u].block.page][local[u].block.offset].magic = "free"
        BY <1>1, <4>1 DEF Blocks, Marked
      <4> QED
        BY <1>9, <4>1, <4>2, <4>3
    <3> QED
      BY <3>1, <3>2
  <2> QED
    BY <2>1, <2>2 DEF Marked
<1>21. ThreadShape' /\ Places' /\ Table'
  <2>1. Hand(t) = {} /\ InHand("unheld", l) = {}
    BY <1>1 DEF Hand, InHand
  <2> QED
    BY <1>1, <1>5, <1>14, <2>1, PagesStill
<1>22. DataShape'
  BY <1>1, <1>2, <1>9 DEF Shape, DataShape
<1> QED
  BY <1>14, <1>15, <1>19, <1>20, <1>21, <1>22 DEF IInv, Shape, Blocks

\* A block comes back to the list of its class, and its page counts it out
\* no more.
LEMMA PushStep ==
    ASSUME IInv, NEW t \in Thread, PushBlock(t)
    PROVE  IInv'
<1>1. /\ Shape /\ Blocks /\ OutApart /\ pc[t] = "unheld" /\ Steps(t, "idle", Idle)
      /\ UNCHANGED <<header, big, window, held, runs>>
  BY DoneSteps DEF IInv, Blocks, PushBlock
<1>2. PICK x \in Blk : x = local[t].block /\ x.page \in Page
  BY <1>1, FieldTypes, BlockIs DEF Shape, ThreadShape
<1>3. Carries(t) /\ header[x.page][x.offset].magic = "free"
  BY <1>1, <1>2 DEF Carries, Blocks, Marked
<1>4. ~InHeld(held, x) /\ ~Others(t, x) /\ \A y : OthersOwe(t, y) => y[1] # x
  BY <1>1, <1>2, <1>3, CarriedAlone
<1>5. /\ \A b : b \in Out <=> InHeld(held, b) \/ Others(t, b) \/ b = x
      /\ \A b : b \in Out' <=> InHeld(held, b) \/ Others(t, b)
      /\ \A y : y \in Pending <=> OthersOwe(t, y)
      /\ \A y : y \in Pending' <=> OthersOwe(t, y)
  BY <1>1, <1>2, OutSplit
<1>6. x \in Out /\ Out' = Out \ {x}
  <2>1. \A b : b \in Out' <=> b \in Out /\ b # x
    BY <1>4, <1>5
  <2> QED
    BY <1>5, <2>1
<1>7. Pending' = Pending /\ \A y \in Pending : y[1] # x
  <2>1. \A y : y \in Pending' <=> y \in Pending
    BY <1>5
  <2>2. \A y \in Pending : y[1] # x
    BY <1>4, <1>5
  <2> QED
    BY <2>1, <2>2
<1>8. /\ Out \subseteq Blk /\ Listing \in [Class -> SUBSET Blk] /\ state \in [Page -> Int]
      /\ Buckets \subseteq Page /\ Sound(Out, Listing, state, Buckets, header, Pending)
  BY <1>1, BlockTypes DEF Blocks, Counted
<1>9. /\ x.page \in Buckets /\ state[x.page] \in Nat \ {0}
      /\ \E c \in Class : /\ c = header[x.page][x.offset].class
                          /\ Sound(Out \ {x}, [Listing EXCEPT ![c] = {x} \cup @],
                                   [state EXCEPT ![x.page] = @ - 1], Buckets, header, Pending)
  <2>1. x \in Out /\ FreeAt(header, Pending, x)
    BY <1>3, <1>6, <1>7 DEF FreeAt
  <2>2. Pushed(Out, Listing, state, Buckets, header, Pending, x)
    BY <1>8, <2>1, SoundPush
  <2> QED
    BY <2>2 DEF Pushed
<1>10. PICK c \in Class : /\ c = header[x.page][x.offset].class
                          /\ Sound(Out \ {x}, [Listing EXCEPT ![c] = {x} \cup @],
                                   [state EXCEPT ![x.page] = @ - 1], Buckets, header, Pending)
  BY <1>9
<1>11. lists' = [lists EXCEPT ![c] = <<x>> \o @] /\ state' = [state EXCEPT ![x.page] = @ - 1]
  BY <1>2, <1>10 DEF PushBlock
<1>12. lists \in [Class -> Seq(Blk)]
  BY <1>1 DEF Shape, DataShape
<1>13. PICK s \in Seq(Blk) : s = lists[c] /\ IsInjective(s)
  BY <1>1, <1>10, <1>12 DEF Blocks, ListsOnce
<1>14. Listing[c] = Range(s) /\ x \notin Range(s)
  <2>1. Listing[c] = Range(s)
    BY <1>10, <1>13 DEF Listing, Listed
  <2> QED
    BY <1>6, <1>8, <1>10, <2>1 DEF Sound
<1>15. PICK q \in Seq(Blk) : q = <<x>> /\ IsInjective(q) /\ \A b : b \in Range(q) <=> b = x
  BY OneFacts
<1>16. /\ q \o s \in Seq(Blk) /\ IsInjective(q \o s)
       /\ \A b : b \in Range(q \o s) <=> b = x \/ b \in Range(s)
  <2>1. \A b : b \in Range(q) => b \notin Range(s)
    BY <1>14, <1>15
  <2>2. q \o s \in Seq(Blk) /\ IsInjective(q \o s)
    BY <1>13, <1>15, <2>1, JoinFacts
  <2>3. \A b : b \in Range(q \o s) <=> b \in Range(q) \/ b \in Range(s)
    BY JoinFacts
  <2> QED
    BY <1>15, <2>2, <2>3
<1>17. lists'[c] = q \o s /\ \A d \in Class : d # c => lists'[d] = lists[d]
  BY <1>10, <1>11, <1>12, <1>13, <1>15
<1>18. lists' \in [Class -> Seq(Blk)] /\ ListsOnce'
  <2>1. lists' \in [Class -> Seq(Blk)]
    BY <1>10, <1>11, <1>12, <1>13, <1>15, <1>16
  <2>2. \A d \in Class : IsInjective(lists'[d])
    BY <1>1, <1>16, <1>17 DEF Blocks, ListsOnce
  <2> QED
    BY <2>1, <2>2 DEF ListsOnce
<1>19. Listing' = [Listing EXCEPT ![c] = {x} \cup @]
  <2>1. Listing = [d \in Class |-> Range(lists[d])] /\ Listing' = [d \in Class |-> Range(lists'[d])]
    BY DEF Listing, Listed
  <2>2. Range(q \o s) = {x} \cup Range(s)
    BY <1>16
  <2>3. \A d \in Class : Range(lists'[d]) = IF d = c THEN {x} \cup Range(s) ELSE Range(lists[d])
    BY <1>17, <2>2
  <2> QED
    BY <1>14, <2>1, <2>3
<1>20. state' \in [Page -> Int] /\ Buckets' = Buckets
  <2>1. PICK n \in Nat : n = state[x.page] - 1
    BY <1>9
  <2>2. state' \in [Page -> Int] /\ state'[x.page] = n /\ \A p \in Page : p # x.page => state'[p] = state[p]
    BY <1>2, <1>8, <1>11, <2>1
  <2>3. \A p \in Page : state'[p] # NotBucket <=> state[p] # NotBucket
    BY <1>9, <2>2 DEF NotBucket
  <2> QED
    BY <2>2, <2>3 DEF Buckets
<1>21. Counted'
  <2>1. Sound(Out', Listing', state', Buckets', header', Pending')
    BY <1>1, <1>6, <1>7, <1>10, <1>11, <1>19, <1>20
  <2> QED
    BY <2>1 DEF Counted, Sound, CarvedAs, OutOf
<1>22. pc'[t] = "idle" /\ \A u \in Thread : u # t => pc'[u] = pc[u] /\ local'[u] = local[u]
  BY <1>1, StepsFacts DEF Shape
<1>23. \A u \in Thread : Carries(u)' => Carries(u) /\ local'[u] = local[u]
  BY <1>22 DEF Carries
<1>24. OutApart'
  BY <1>1, <1>23 DEF OutApart
<1>25. Marked'
  <2>1. \A u \in Thread : pc'[u] = "unheld" => pc[u] = "unheld" /\ local'[u] = local[u]
    BY <1>22
  <2> QED
    BY <1>1, <2>1 DEF Blocks, Marked
<1>26. ThreadShape' /\ Places' /\ Table'
  <2>1. Hand(t) = {} /\ InHand("idle", Idle) = {}
    BY <1>1 DEF Hand, InHand
  <2> QED
    BY <1>1, <1>20, <2>1, PagesStill
<1>27. DataShape'
  BY <1>1, <1>18, <1>20 DEF Shape, DataShape
<1> QED
  BY <1>18, <1>21, <1>24, <1>25, <1>26, <1>27 DEF IInv, Shape, Blocks

\* A sweep takes an empty page out of the buckets, and all its blocks off
\* their list.
LEMMA SweepTakeStep ==
    ASSUME IInv, NEW t \in Thread, SweepTake(t)
    PROVE  IInv'
<1>1. /\ Shape /\ Blocks /\ Places /\ pc[t] = "sweep" /\ Steps(t, "sweepfree", local[t])
      /\ UNCHANGED <<header, big, window, held, runs>>
  BY PlainSteps DEF IInv, SweepTake
<1>2. PICK p \in Page : p = local[t].idx /\ state[p] = 0
  BY DEF SweepTake
<1>3. PICK c : c = header[p][0].class
  OBVIOUS
<1>4. /\ lists' = [d \in Class |-> IF d = c THEN Unlinked(lists[d], p) ELSE lists[d]]
      /\ state' = [state EXCEPT ![p] = NotBucket]
  BY <1>2, <1>3 DEF SweepTake
<1>5. /\ Out \subseteq Blk /\ Listing \in [Class -> SUBSET Blk] /\ state \in [Page -> Int]
      /\ Buckets \subseteq Page /\ Hands \in [Thread -> SUBSET Int]
  BY <1>1, BlockTypes
<1>6. Sound(Out, Listing, state, Buckets, header, Pending) /\ Placed(window, Buckets, runs, Hands)
  BY <1>1 DEF Blocks, Counted, Places
<1>7. p \in Buckets
  BY <1>2 DEF Buckets, NotBucket
<1>8. ThreadShape' /\ Hands' = [Hands EXCEPT ![t] = {p}] /\ Hands[t] = {}
  <2>1. InHand("sweepfree", local[t]) = {p} /\ Hand(t) = {}
    BY <1>1, <1>2 DEF InHand, Hand
  <2> QED
    BY <1>1, <2>1, StepsFacts DEF Shape
<1>9. lists \in [Class -> Seq(Blk)] /\ \A d \in Class : IsInjective(lists[d])
  BY <1>1 DEF Shape, DataShape, Blocks, ListsOnce
<1>10. ASSUME NEW d \in Class
       PROVE  /\ lists'[d] \in Seq(Blk) /\ IsInjective(lists'[d])
              /\ IF d = c THEN \A b : b \in Range(lists'[d]) <=> b \in Range(lists[d]) /\ b.page # p
                 ELSE Range(lists'[d]) = Range(lists[d])
  <2>1. PICK s \in Seq(Blk) : s = lists[d] /\ IsInjective(s)
    BY <1>9
  <2>2. CASE d = c
    <3>1. lists'[d] = Unlinked(s, p)
      BY <1>4, <2>1, <2>2
    <3>2. /\ Unlinked(s, p) \in Seq(Blk) /\ IsInjective(Unlinked(s, p))
          /\ \A b : b \in Range(Unlinked(s, p)) <=> b \in Range(s) /\ b.page # p
      BY <2>1, UnlinkedFacts
    <3> QED
      BY <2>1, <2>2, <3>1, <3>2
  <2>3. CASE d # c
    <3>1. lists'[d] = s
      BY <1>4, <2>1, <2>3
    <3> QED
      BY <2>1, <2>3, <3>1
  <2> QED
    BY <2>2, <2>3
<1>11. lists' \in [Class -> Seq(Blk)] /\ ListsOnce'
  <2>1. lists' = [d \in Class |-> lists'[d]]
    BY <1>4
  <2>2. lists' \in [Class -> Seq(Blk)]
    BY <1>10, <2>1
  <2> QED
    BY <1>10, <2>2 DEF ListsOnce
<1>12. state' \in [Page -> Int] /\ Buckets' = Buckets \ {p} /\ \A q \in Buckets \ {p} : state'[q] = state[q]
  <2>1. state' \in [Page -> Int] /\ state'[p] = NotBucket /\ \A q \in Page : q # p => state'[q] = state[q]
    BY <1>4, <1>5 DEF NotBucket
  <2>2. Buckets' = Buckets \ {p}
    BY <2>1 DEF Buckets
  <2> QED
    BY <1>5, <2>1, <2>2
<1>13. /\ ~Carries(t)' /\ \A u \in Thread : Carries(u)' <=> Carries(u)
       /\ \A u \in Thread : Carries(u) => pc'[u] = pc[u] /\ local'[u] = local[u]
  <2>1. ~Carries(t)
    BY <1>1 DEF Carries
  <2> QED
    BY <1>1, <2>1, OthersCarry
<1>14. Out' = Out
  <2>1. \A b : b \in Out <=> InHeld(held, b) \/ Others(t, b)
    BY <1>1, OutSplit
  <2>2. \A b : b \in Out' <=> InHeld(held, b) \/ Others(t, b)
    BY <1>1, OutSplit
  <2>3. \A b : b \in Out' <=> b \in Out
    BY <2>1, <2>2
  <2> QED
    BY <2>3
<1>15. Pending' = Pending
  <2>1. \A y : y \in Pending <=> OthersOwe(t, y)
    BY <1>1, OutSplit
  <2>2. \A y : y \in Pending' <=> OthersOwe(t, y)
    BY <1>1, OutSplit
  <2>3. \A y : y \in Pending' <=> y \in Pending
    BY <2>1, <2>2
  <2> QED
    BY <2>3
<1>16. Counted'
  <2>1. PICK M : M = Listing'
    OBVIOUS
  <2>2. /\ \A d \in Class : Listing[d] = Range(lists[d]) /\ M[d] = Range(lists'[d])
        /\ M = [d \in Class |-> Range(lists'[d])]
    BY <2>1 DEF Listing, Listed
  <2>3. M \in [Class -> SUBSET Blk]
    <3>1. ASSUME NEW d \in Class PROVE Range(lists'[d]) \subseteq Blk
      BY <1>10 DEF Range
    <3> QED
      BY <2>2, <3>1
  <2>4. Shortened(M, Listing, header, p)
    BY <1>3, <1>10, <2>2 DEF Shortened
  <2>5. PICK z : z = state'
    OBVIOUS
  <2>6. Agree(z, state, Buckets \ {p})
    BY <1>12, <2>5 DEF Agree
  <2>7. Sound(Out, M, z, Buckets \ {p}, header, Pending)
    BY <1>2, <1>5, <1>6, <1>7, <2>3, <2>4, <2>6, SoundTake
  <2>8. Sound(Out', Listing', state', Buckets', header', Pending')
    BY <1>1, <1>12, <1>14, <1>15, <2>1, <2>5, <2>7
  <2> QED
    BY <2>8 DEF Counted, Sound, CarvedAs, OutOf
<1>17. OutApart'
  BY <1>1, <1>13 DEF Blocks, OutApart
<1>18. Marked'
  <2>1. \A u \in Thread : pc'[u] = "unheld" => pc[u] = "unheld" /\ local'[u] = local[u]
    BY <1>13 DEF Carries
  <2> QED
    BY <1>1, <2>1 DEF Blocks, Marked
<1>19. Places'
  <2>1. Placed(window', Buckets', runs', Hands')
    BY <1>1, <1>5, <1>6, <1>7, <1>8, <1>12, PlacedBucket
  <2> QED
    BY <2>1 DEF Places, Placed, Run, PageRun
<1>20. Table'
  BY <1>1 DEF IInv, Table
<1>21. DataShape'
  BY <1>1, <1>11, <1>12 DEF Shape, DataShape
<1> QED
  BY <1>8, <1>11, <1>16, <1>17, <1>18, <1>19, <1>20, <1>21 DEF IInv, Shape, Blocks

-----------------------------------------------------------------------------
(* The invariant holds.                                                    *)

\* All pages are the page layer's, and there is no block.
LEMMA InitIInv == Init => IInv
<1>1. SUFFICES ASSUME Init PROVE IInv
  OBVIOUS
<1>2. ThreadShape
  <2>1. \A t \in Thread : pc[t] = "idle" /\ local[t] = Idle
    BY <1>1 DEF Init
  <2>2. \A t \in Thread : LocalOK(pc[t], local[t])
    BY <2>1, IdleFacts
  <2>3. pc \in [Thread -> Points] /\ local \in [Thread -> Locals]
    BY <1>1, IdleFacts DEF Init, Points
  <2> QED
    BY <2>2, <2>3 DEF ThreadShape
<1>3. DataShape
  <2>1. Junk \in Words
    BY DEF Junk, Words
  <2>2. header \in [Page -> [Offset -> Words]]
    BY <1>1, <2>1 DEF Init
  <2>3. lists \in [Class -> Seq(Blk)] /\ state \in [Page -> Int] /\ window \subseteq Page
    BY <1>1 DEF Init, NotBucket
  <2>4. big \in [1..BigEntries -> Entry]
    BY <1>1 DEF Init, Entry
  <2> QED
    BY <1>1, <2>2, <2>3, <2>4 DEF DataShape, Init
<1>4. Buckets = {} /\ held = {} /\ runs = {} /\ window = Page
  BY <1>1 DEF Init, Buckets
<1>5. \A t \in Thread : pc[t] = "idle"
  BY <1>1 DEF Init
<1>6. \A t \in Thread : Hands[t] = {} /\ ~Carries(t)
  BY <1>5 DEF Hands, Hand, InHand, Carries
<1>7. Places
  BY <1>4, <1>6 DEF Places, Placed
<1>8. Table
  BY <1>1 DEF Init, Table
<1>9. Out = {} /\ Pending = {}
  BY <1>4, <1>5 DEF Out, InTransit, Pending
<1>10. \A c \in Class : Listing[c] = {} /\ IsInjective(lists[c])
  <2>1. \A c \in Class : lists[c] = << >>
    BY <1>1 DEF Init
  <2> QED
    BY <2>1 DEF Listing, Listed, Range, IsInjective
<1>11. Counted
  BY <1>4, <1>9, <1>10 DEF Counted, Sound
<1>12. OutApart /\ ListsOnce /\ Marked
  BY <1>4, <1>5, <1>6, <1>10 DEF OutApart, ListsOnce, Marked
<1> QED
  BY <1>2, <1>3, <1>7, <1>8, <1>11, <1>12 DEF IInv, Shape, Blocks

\* No step of any thread disturbs it.
LEMMA NextIInv == IInv /\ [Next]_vars => IInv'
<1>1. SUFFICES ASSUME IInv, [Next]_vars PROVE IInv'
  OBVIOUS
<1>2. CASE UNCHANGED vars
  <2>1. UNCHANGED <<lists, state, header, big, window, held, runs, pc, local>>
    BY <1>2 DEF vars
  <2>2. DataShape' /\ ThreadShape'
    BY <1>1, <2>1 DEF IInv, Shape, DataShape, ThreadShape, LocalOK
  <2>3. Out' = Out /\ Pending' = Pending /\ Listing' = Listing /\ Buckets' = Buckets /\ Hands' = Hands
    BY <2>1 DEF Out, InTransit, Pending, Listing, Listed, Buckets, Hands, Hand, InHand
  <2>4. Counted'
    <3>1. Sound(Out', Listing', state', Buckets', header', Pending')
      BY <1>1, <2>1, <2>3 DEF IInv, Blocks, Counted
    <3> QED
      BY <3>1 DEF Counted, Sound, CarvedAs, OutOf
  <2>5. Places'
    <3>1. Placed(window', Buckets', runs', Hands')
      BY <1>1, <2>1, <2>3 DEF IInv, Places
    <3> QED
      BY <3>1 DEF Places, Placed, Run, PageRun
  <2>6. Table' /\ OutApart' /\ ListsOnce' /\ Marked'
    BY <1>1, <2>1 DEF IInv, Blocks, Table, OutApart, ListsOnce, Marked, Carries
  <2> QED
    BY <2>2, <2>4, <2>5, <2>6 DEF IInv, Shape, Blocks
<1>3. CASE Next
  <2>1. PICK t \in Thread :
          \/ \E n \in Sizes : PopBlock(t, n) \/ RefillBegin(t, n) \/ BigBegin(t, n)
          \/ GetPages(t) \/ GetPagesFails(t) \/ RetryPages(t) \/ AllocFails(t)
          \/ Carve(t) \/ WriteHeader(t) \/ RecordBig(t)
          \/ SweepCall(t) \/ SweepSkip(t) \/ SweepTake(t) \/ SweepFree(t) \/ SweepEnd(t)
          \/ \E b \in held : FreeBegin(t, b)
          \/ PushBlock(t)
          \/ \E r \in runs : FreeBig(t, r)
          \/ FreeBigPages(t)
    BY <1>3 DEF Next
  <2>2. ASSUME NEW n \in Sizes, PopBlock(t, n) PROVE IInv'
    BY <1>1, <2>2, PopStep
  <2>3. ASSUME \/ \E n \in Sizes : RefillBegin(t, n) \/ BigBegin(t, n)
               \/ GetPagesFails(t) \/ AllocFails(t) \/ SweepCall(t) \/ SweepSkip(t) \/ SweepEnd(t)
        PROVE  IInv'
    BY <1>1, <2>3, QuietSteps
  <2>4. ASSUME GetPages(t) \/ RetryPages(t) PROVE IInv'
    BY <1>1, <2>4, TakeStep
  <2>5. ASSUME Carve(t) PROVE IInv'
    BY <1>1, <2>5, CarveStep
  <2>6. ASSUME WriteHeader(t) PROVE IInv'
    BY <1>1, <2>6, WriteHeaderStep
  <2>7. ASSUME RecordBig(t) PROVE IInv'
    BY <1>1, <2>7, RecordStep
  <2>8. ASSUME SweepTake(t) PROVE IInv'
    BY <1>1, <2>8, SweepTakeStep
  <2>9. ASSUME SweepFree(t) \/ FreeBigPages(t) PROVE IInv'
    BY <1>1, <2>9, GiveStep
  <2>10. ASSUME NEW b \in held, FreeBegin(t, b) PROVE IInv'
    BY <1>1, <2>10, FreeBeginStep
  <2>11. ASSUME PushBlock(t) PROVE IInv'
    BY <1>1, <2>11, PushStep
  <2>12. ASSUME NEW r \in runs, FreeBig(t, r) PROVE IInv'
    BY <1>1, <2>12, FreeBigStep
  <2> QED
    BY <2>1, <2>2, <2>3, <2>4, <2>5, <2>6, <2>7, <2>8, <2>9, <2>10, <2>11, <2>12
<1> QED
  BY <1>1, <1>2, <1>3

-----------------------------------------------------------------------------
(* What the invariant says.                                                *)

\* The values of f on S, and that f keeps the elements of S apart.
Img(f, S)   == {f[a] : a \in S}
Apart(f, S) == \A a, b \in S : f[a] = f[b] => a = b

\* Counting through a function that keeps elements apart.
LEMMA SameCount ==
    ASSUME NEW S, NEW F, IsFiniteSet(F), NEW f \in [S -> F], Apart(f, S)
    PROVE  /\ IsFiniteSet(S) /\ Cardinality(S) \in Nat
           /\ IsFiniteSet(Img(f, S)) /\ Cardinality(Img(f, S)) = Cardinality(S)
<1>1. IsInjective(f)
  BY DEF IsInjective, Apart
<1>2. f \in Injection(S, F)
  BY <1>1 DEF Injection
<1>3. IsFiniteSet(S)
  BY <1>2, FS_Injection
<1> DEFINE T == Img(f, S)
<1>4. f \in [S -> T] /\ \A b \in T : \E a \in S : f[a] = b
  <2>1. \A a \in S : f[a] \in T
    BY DEF Img
  <2>2. \A b \in T : \E a \in S : f[a] = b
    BY DEF Img
  <2> HIDE DEF T
  <2> QED
    BY <2>1, <2>2
<1>5. ExistsBijection(S, T)
  <2> HIDE DEF T
  <2>1. f \in Bijection(S, T)
    BY <1>1, <1>4 DEF Bijection, Injection, Surjection
  <2> QED
    BY <2>1 DEF ExistsBijection
<1>6. IsFiniteSet(T) /\ Cardinality(T) = Cardinality(S)
  <2> HIDE DEF T
  <2> QED
    BY <1>3, <1>5, FS_Bijection
<1> QED
  BY <1>3, <1>6, FS_CardinalityType

\* There are finitely many blocks.
LEMMA BlkFinite == IsFiniteSet(Blk)
<1>1. IsFiniteSet(Page) /\ IsFiniteSet(Offset)
  <2>1. 1 \in Int /\ Pages \in Int /\ 0 \in Int /\ PageSize - 1 \in Int
    OBVIOUS
  <2> QED
    BY <2>1, FS_Interval DEF Page, Offset
<1>2. IsFiniteSet(Page \X Offset)
  BY <1>1, FS_Product
<1> DEFINE f == [b \in Blk |-> <<b.page, b.offset>>]
<1>3. f \in [Blk -> Page \X Offset]
  BY BlockIs
<1>4. Apart(f, Blk)
  <2>1. SUFFICES ASSUME NEW a \in Blk, NEW b \in Blk, <<a.page, a.offset>> = <<b.page, b.offset>>
                 PROVE  a = b
    BY DEF Apart
  <2>2. a.page = b.page /\ a.offset = b.offset
    BY <2>1
  <2> QED
    BY <2>2, BlockIs
<1> HIDE DEF f
<1> QED
  BY <1>2, <1>3, <1>4, SameCount

\* The blocks that are out are as many as the holders of one.
LEMMA OutCount ==
    ASSUME IInv
    PROVE  Cardinality(Out) = Cardinality(held) + Cardinality({t \in Thread : pc[t] \in {"header", "unheld"}})
<1>1. Shape /\ OutApart
  BY DEF IInv, Blocks
<1> DEFINE C == {t \in Thread : pc[t] \in {"header", "unheld"}}
           f == [a \in held |-> Block(a.page, a.offset)]
           g == [t \in C |-> local[t].block]
           F == Img(f, held)
           G == Img(g, C)
<1>2. /\ \A a \in held : f[a] = Block(a.page, a.offset)
      /\ f \in [held -> Blk] /\ Apart(f, held)
  <2>1. \A a \in held : f[a] = Block(a.page, a.offset)
    OBVIOUS
  <2>2. \A a \in held : Block(a.page, a.offset) \in Blk
    BY <1>1 DEF Shape, DataShape, Block, Blk
  <2>3. f \in [held -> Blk]
    BY <2>2
  <2>4. \A a, b \in held : f[a] = f[b] => a = b
    <3>1. SUFFICES ASSUME NEW a \in held, NEW b \in held, Block(a.page, a.offset) = Block(b.page, b.offset)
                   PROVE  a = b
      BY <2>1
    <3>2. Block(a.page, a.offset).page = a.page /\ Block(b.page, b.offset).page = b.page
      BY DEF Block
    <3>3. Block(a.page, a.offset).offset = a.offset /\ Block(b.page, b.offset).offset = b.offset
      BY DEF Block
    <3> QED
      BY <1>1, <3>1, <3>2, <3>3 DEF OutApart
  <2> QED
    BY <2>1, <2>3, <2>4 DEF Apart
<1>3. /\ \A t \in C : g[t] = local[t].block
      /\ g \in [C -> Blk] /\ Apart(g, C)
  <2>1. \A t \in C : local[t].block \in Blk /\ Carries(t) /\ t \in Thread
    BY <1>1, FieldTypes DEF Shape, ThreadShape, Carries
  <2> HIDE DEF C
  <2>2. \A t \in C : g[t] = local[t].block
    OBVIOUS
  <2> QED
    BY <1>1, <2>1, <2>2 DEF OutApart, Apart
<1>4. \A b : b \in Out <=> b \in F \/ b \in G
  <2>1. \A b : b \in Out <=> \/ \E a \in held : b = Block(a.page, a.offset)
                             \/ \E t \in Thread : Carries(t) /\ b = local[t].block
    BY <1>1, BlockTypes
  <2>2. \A t \in Thread : t \in C <=> Carries(t)
    BY DEF Carries
  <2>3. \A b : b \in F <=> \E a \in held : b = Block(a.page, a.offset)
    <3> HIDE DEF f
    <3> QED
      BY <1>2 DEF Img
  <2>4. \A b : b \in G <=> \E t \in Thread : Carries(t) /\ b = local[t].block
    <3>1. C \subseteq Thread
      OBVIOUS
    <3> HIDE DEF g, C
    <3> QED
      BY <1>3, <2>2, <3>1 DEF Img
  <2> HIDE DEF F, G
  <2> QED
    BY <2>1, <2>3, <2>4
<1>5. F \cap G = {}
  <2>1. SUFFICES ASSUME NEW a \in held, NEW t \in C, f[a] = g[t] PROVE FALSE
    BY DEF Img
  <2>2. Carries(t) /\ local[t].block = Block(a.page, a.offset)
    BY <1>2, <1>3, <2>1 DEF Carries
  <2> QED
    BY <1>1, <2>2 DEF OutApart
<1> HIDE DEF C, f, g
<1>6. IsFiniteSet(held) /\ Cardinality(held) \in Nat /\ IsFiniteSet(F) /\ Cardinality(F) = Cardinality(held)
  BY <1>2, BlkFinite, SameCount
<1>7. IsFiniteSet(C) /\ Cardinality(C) \in Nat /\ IsFiniteSet(G) /\ Cardinality(G) = Cardinality(C)
  BY <1>3, BlkFinite, SameCount
<1> HIDE DEF F, G
<1>8. Out = F \cup G
  BY <1>4
<1>9. Cardinality(F \cup G) = Cardinality(F) + Cardinality(G) - Cardinality(F \cap G)
  BY <1>6, <1>7, FS_Union
<1>10. Cardinality(F \cap G) = 0
  BY <1>5, FS_EmptySet
<1>11. Cardinality(Out) = Cardinality(held) + Cardinality(C)
  BY <1>6, <1>7, <1>8, <1>9, <1>10
<1> QED
  BY <1>11 DEF C

\* A block in a caller's hands has the header of its page's class.
LEMMA HeldClass ==
    ASSUME IInv, NEW b \in held
    PROVE  header[b.page][b.offset].class \in Class
<1>1. Shape /\ OutApart /\ Sound(Out, Listing, state, Buckets, header, Pending)
  BY DEF IInv, Blocks, Counted
<1>2. PICK x \in Blk : x = Block(b.page, b.offset)
  BY <1>1 DEF Shape, DataShape, Block, Blk
<1>3. x \in Out /\ x.page = b.page /\ x.offset = b.offset
  BY <1>1, <1>2, BlockTypes, BlockIs
<1>4. b.page \in Buckets
  BY <1>1, <1>3 DEF Sound
<1>5. PICK c \in Class : CarvedAs(Out, Listing, header, Pending, b.page, c)
  BY <1>1, <1>4 DEF Sound
<1>6. b.offset \in Offsets(c)
  BY <1>3, <1>5 DEF CarvedAs
<1>7. <<Block(b.page, b.offset), c>> \notin Pending
  <2>1. ASSUME NEW t \in Thread, pc[t] = "header",
               <<Block(b.page, b.offset), c>> = <<local[t].block, local[t].class>>
        PROVE  FALSE
    BY <1>1, <2>1 DEF OutApart, Carries
  <2> QED
    BY <1>1, <2>1, BlockTypes
<1> QED
  BY <1>5, <1>6, <1>7 DEF CarvedAs

\* A page has no more blocks out than its class has blocks, and the smallest
\* class has the most.
LEMMA CountBound ==
    ASSUME IInv, NEW p \in Buckets
    PROVE  state[p] \in 0..(PageSize \div NxpClassSize[1])
<1>1. Shape /\ Sound(Out, Listing, state, Buckets, header, Pending)
  BY DEF IInv, Blocks, Counted
<1>2. Out \subseteq Blk
  BY <1>1, BlockTypes
<1>3. PICK c \in Class : CarvedAs(Out, Listing, header, Pending, p, c)
  BY <1>1 DEF Sound
<1>4. PICK z \in Nat \ {0}, y \in Nat \ {0} : z = NxpClassSize[c] /\ y = NxpClassSize[1]
  <2>1. 1 \in Class
    BY ClassFacts
  <2> QED
    BY <2>1, ClassFacts
<1>5. y <= z
  <2>1. c = 1 \/ 1 < c
    BY ClassFacts
  <2>2. 1 \in Class
    BY ClassFacts
  <2>3. CASE c = 1
    BY <1>4, <2>3
  <2>4. CASE 1 < c
    <3>1. NxpClassSize[1] < NxpClassSize[c]
      BY <2>2, <2>4
    <3> QED
      BY <1>4, <3>1
  <2> QED
    BY <2>1, <2>3, <2>4
<1>6. PICK n \in Nat : n = PageSize \div z /\ n * z <= PageSize
  BY Quotient
<1>7. PICK m \in Nat : m = PageSize \div y /\ PageSize < m * y + y
  BY Quotient
<1>8. n <= m
  <2>1. SUFFICES ASSUME m < n PROVE FALSE
    OBVIOUS
  <2>2. m * y + y <= n * y
    BY <2>1, TimesMonotone
  <2>3. n * y <= n * z
    <3>1. PICK d \in Nat : z = y + d
      <4>1. z - y \in Nat /\ z = y + (z - y)
        BY <1>5
      <4> QED
        BY <4>1
    <3>2. n * z = n * y + n * d /\ n * d \in Nat /\ n * y \in Nat
      BY <3>1
    <3> QED
      BY <3>2
  <2>4. PICK i \in Nat, j \in Nat, k \in Nat : i = m * y /\ j = n * y /\ k = n * z
    OBVIOUS
  <2> QED
    BY <1>6, <1>7, <2>2, <2>3, <2>4
<1>9. Offsets(c) = {i * z : i \in 0..n - 1}
  BY <1>4, <1>6 DEF Offsets
<1> DEFINE S == OutOf(Out, p)
           f == [b \in S |-> CHOOSE i \in 0..n - 1 : b.offset = i * z]
<1>10. \A b \in S : b \in Blk /\ b.page = p /\ \E i \in 0..n - 1 : b.offset = i * z
  BY <1>2, <1>3, <1>9 DEF OutOf, CarvedAs
<1> HIDE DEF S
<1>11. \A b \in S : f[b] \in 0..n - 1 /\ b.offset = f[b] * z
  BY <1>10
<1>12. f \in [S -> 0..n - 1]
  BY <1>11
<1>13. Apart(f, S)
  <2>1. SUFFICES ASSUME NEW a \in S, NEW b \in S, f[a] = f[b] PROVE a = b
    BY DEF Apart
  <2> HIDE DEF f
  <2>2. a.offset = b.offset /\ a.page = b.page
    BY <1>10, <1>11, <2>1
  <2> QED
    BY <1>10, <2>2, BlockIs
<1>14. IsFiniteSet(0..n - 1) /\ Cardinality(0..n - 1) = n
  <2>1. 0 \in Int /\ n - 1 \in Int
    OBVIOUS
  <2>2. IsFiniteSet(0..n - 1) /\ Cardinality(0..n - 1) = IF 0 > n - 1 THEN 0 ELSE (n - 1) - 0 + 1
    BY <2>1, FS_Interval
  <2> QED
    BY <2>2
<1>15. Cardinality(S) \in Nat /\ Cardinality(S) <= n
  <2> HIDE DEF f
  <2>1. IsInjective(f)
    BY <1>12, <1>13 DEF IsInjective, Apart
  <2>2. f \in Injection(S, 0..n - 1)
    BY <1>12, <2>1 DEF Injection
  <2>3. Cardinality(S) <= Cardinality(0..n - 1)
    BY <1>14, <2>2, FS_Injection
  <2>4. Cardinality(S) \in Nat
    BY <1>12, <1>13, <1>14, SameCount
  <2> QED
    BY <1>14, <2>3, <2>4
<1>16. state[p] = Cardinality(S)
  BY <1>1 DEF Sound, S
<1> QED
  BY <1>4, <1>7, <1>8, <1>15, <1>16

\* The types.
LEMMA TypesFollow == IInv => TypeOK
<1>1. SUFFICES ASSUME IInv PROVE TypeOK
  OBVIOUS
<1>2. \A p \in Page : state[p] \in {NotBucket} \cup 0..(PageSize \div NxpClassSize[1])
  BY <1>1, CountBound DEF Buckets
<1>3. window \subseteq Page
  BY <1>1 DEF IInv, Shape, DataShape
<1>4. ASSUME NEW c \in Class, NEW i \in DOMAIN lists[c] PROVE lists[c][i].page \in Page
  <2>1. PICK s \in Seq(Blk) : s = lists[c]
    BY <1>1 DEF IInv, Shape, DataShape
  <2>2. s[i] \in Blk
    BY <1>4, <2>1
  <2> QED
    BY <2>1, <2>2, BlockIs
<1> QED
  BY <1>2, <1>3, <1>4 DEF TypeOK

\* The blocks.
LEMMA BlocksFollow == IInv => BlocksDisjoint
<1>1. SUFFICES ASSUME IInv PROVE BlocksDisjoint
  OBVIOUS
<1>2. Sound(Out, Listing, state, Buckets, header, Pending) /\ \A c \in Class : Listing[c] = Listed(c)
  BY <1>1 DEF IInv, Blocks, Counted, Listing
<1>3. \A c \in Class : IsInjective(lists[c]) /\ Listed(c) \cap Out = {}
  BY <1>1, <1>2 DEF IInv, Blocks, ListsOnce, Sound
<1>4. \A c, d \in Class : c # d => Listed(c) \cap Listed(d) = {}
  BY <1>2 DEF Sound
<1>5. \A b \in Out \cup UNION {Listed(c) : c \in Class} : b.page \in Buckets
  <2>1. ASSUME NEW c \in Class, NEW b \in Listed(c) PROVE b.page \in Buckets
    BY <1>2, <2>1 DEF Sound
  <2>2. ASSUME NEW b \in Out PROVE b.page \in Buckets
    BY <1>2, <2>2 DEF Sound
  <2> QED
    BY <2>1, <2>2
<1>6. Cardinality(Out) = Cardinality(held) + Cardinality({t \in Thread : pc[t] \in {"header", "unheld"}})
  BY <1>1, OutCount
<1> QED
  BY <1>3, <1>4, <1>5, <1>6 DEF BlocksDisjoint

\* The buckets.
LEMMA BucketsFollow == IInv => BucketsExact
<1>1. SUFFICES ASSUME IInv PROVE BucketsExact
  OBVIOUS
<1>2. /\ Shape /\ Sound(Out, Listing, state, Buckets, header, Pending)
      /\ \A c \in Class : Listing[c] = Listed(c)
  BY <1>1 DEF IInv, Blocks, Counted, Listing
<1>3. Out \subseteq Blk /\ Listing \in [Class -> SUBSET Blk] /\ Buckets \subseteq Page
  BY <1>2, BlockTypes
<1>4. \A p \in Buckets : state[p] = Cardinality({b \in Out : b.page = p})
  BY <1>2 DEF Sound, OutOf
<1>5. ASSUME NEW c \in Class, NEW b \in Listed(c)
      PROVE  header[b.page][b.offset] = [class |-> c, magic |-> "free"]
  <2>1. b \in Blk /\ b \in Listing[c] /\ b \notin Out
    BY <1>2, <1>3, <1>5 DEF Sound
  <2>2. b.page \in Buckets /\ header[b.page][b.offset].magic = "free"
    BY <1>2, <2>1 DEF Sound
  <2>3. PICK e \in Class : CarvedAs(Out, Listing, header, Pending, b.page, e)
    BY <1>2, <2>2 DEF Sound
  <2>4. c = e /\ b.offset \in Offsets(e)
    BY <2>1, <2>3 DEF CarvedAs
  <2>5. <<Block(b.page, b.offset), e>> \notin Pending
    <3>1. ASSUME NEW y \in Pending, y = <<Block(b.page, b.offset), e>> PROVE FALSE
      <4>1. y[1] \in Out
        BY <1>2 DEF Sound
      <4>2. y[1] = Block(b.page, b.offset) /\ b = Block(b.page, b.offset)
        BY <2>1, <3>1, BlockIs
      <4> QED
        BY <2>1, <4>1, <4>2
    <3> QED
      BY <3>1
  <2>6. header[b.page][b.offset].class = c
    BY <2>3, <2>4, <2>5 DEF CarvedAs
  <2>7. PICK w \in Words : w = header[b.page][b.offset]
    <3>1. b.page \in Page /\ b.offset \in Offset
      BY <2>1, BlockIs
    <3> QED
      BY <1>2, <3>1 DEF Shape, DataShape
  <2>8. w = [class |-> w.class, magic |-> w.magic]
    BY DEF Words
  <2> QED
    BY <2>2, <2>6, <2>7, <2>8
<1>6. \A b \in held : header[b.page][b.offset].magic = "alloc"
  BY <1>1 DEF IInv, Blocks, Marked
<1>7. ASSUME NEW p \in Buckets, state[p] = 0, NEW c, c = header[p][0].class
      PROVE  c \in Class /\ {b.offset : b \in {x \in Listed(c) : x.page = p}} = Offsets(c)
  <2>1. PICK e \in Class : CarvedAs(Out, Listing, header, Pending, p, e)
    BY <1>2 DEF Sound
  <2>2. OutOf(Out, p) = {}
    <3>1. IsFiniteSet(OutOf(Out, p)) /\ Cardinality(OutOf(Out, p)) = 0
      BY <1>2, <1>3, <1>7, OutFinite DEF Sound
    <3> QED
      BY <3>1, FS_EmptySet
  <2>3. \A o \in Offsets(e) : Block(p, o) \notin Out
    <3>1. \A o : Block(p, o).page = p
      BY DEF Block
    <3> QED
      BY <2>2, <3>1 DEF OutOf
  <2>4. \A o \in Offsets(e) : <<Block(p, o), e>> \notin Pending
    <3>1. ASSUME NEW o \in Offsets(e), NEW y \in Pending, y = <<Block(p, o), e>> PROVE FALSE
      <4>1. y[1] \in Out /\ y[1] = Block(p, o)
        BY <1>2, <3>1 DEF Sound
      <4> QED
        BY <2>3, <4>1
    <3> QED
      BY <3>1
  <2>5. 0 \in Offsets(e)
    BY OffsetFacts
  <2>6. c = e
    BY <1>7, <2>1, <2>4, <2>5 DEF CarvedAs
  <2>7. \A o \in Offsets(e) : Block(p, o) \in Listed(e)
    BY <1>2, <2>1, <2>3 DEF CarvedAs
  <2>8. \A b \in Listed(e) : b.page = p => b.offset \in Offsets(e)
    BY <1>2, <2>1 DEF CarvedAs
  <2>9. \A o : o \in {b.offset : b \in {x \in Listed(e) : x.page = p}} <=> o \in Offsets(e)
    <3>1. ASSUME NEW o \in Offsets(e) PROVE \E b \in Listed(e) : b.page = p /\ o = b.offset
      <4>1. Block(p, o).page = p /\ Block(p, o).offset = o
        BY DEF Block
      <4> QED
        BY <2>7, <4>1
    <3> QED
      BY <2>8, <3>1
  <2> QED
    BY <2>6, <2>9
<1> QED
  BY <1>4, <1>5, <1>6, <1>7 DEF BucketsExact

\* The pages.
LEMMA PagesFollow == IInv => PagesPartitioned
<1>1. SUFFICES ASSUME IInv PROVE PagesPartitioned
  OBVIOUS
<1>2. Placed(window, Buckets, runs, Hands)
  BY <1>1 DEF IInv, Places
<1>3. \A p : p \in RunPages <=> \E r \in runs : p \in Run(r)
  BY DEF RunPages, Run
<1>4. \A p : p \in PagesMoving <=> \E t \in Thread : p \in Hands[t]
  <2>1. \A t \in Thread : Hands[t] = InHand(pc[t], local[t])
    BY DEF Hands, Hand
  <2>2. SUFFICES ASSUME NEW p PROVE p \in PagesMoving <=> \E t \in Thread : p \in Hands[t]
    OBVIOUS
  <2>3. p \in PagesMoving <=>
          \/ \E t \in Thread : pc[t] \in {"carve", "record", "bigfree"} /\ p \in PageRun(local[t].block.page, local[t].pages)
          \/ \E t \in Thread : pc[t] = "sweepfree" /\ p = local[t].idx
    BY DEF PagesMoving
  <2>4. \A t \in Thread : p \in Hands[t] <=>
          \/ pc[t] \in {"carve", "record", "bigfree"} /\ p \in PageRun(local[t].block.page, local[t].pages)
          \/ pc[t] = "sweepfree" /\ p = local[t].idx
    BY <2>1 DEF InHand
  <2> QED
    BY <2>3, <2>4
<1>5. Page = window \cup Buckets \cup RunPages \cup PagesMoving
  <2>1. Buckets \subseteq Page
    BY DEF Buckets
  <2>2. \A p : p \in Page <=> p \in window \/ p \in Buckets \/ p \in RunPages \/ p \in PagesMoving
    BY <1>2, <1>3, <1>4, <2>1 DEF Placed
  <2> QED
    BY <2>2
<1>6. /\ window \cap Buckets = {} /\ window \cap RunPages = {} /\ window \cap PagesMoving = {}
      /\ Buckets \cap RunPages = {} /\ Buckets \cap PagesMoving = {} /\ RunPages \cap PagesMoving = {}
  BY <1>2, <1>3, <1>4 DEF Placed
<1> DEFINE place == <<window, Buckets, RunPages, PagesMoving>>
<1>7. ASSUME NEW i \in 1..4, NEW j \in 1..4, i < j PROVE place[i] \cap place[j] = {}
  <2>1. \/ i = 1 /\ j \in {2, 3, 4}
        \/ i = 2 /\ j \in {3, 4}
        \/ i = 3 /\ j = 4
    BY <1>7
  <2>2. place[1] = window /\ place[2] = Buckets /\ place[3] = RunPages /\ place[4] = PagesMoving
    OBVIOUS
  <2> HIDE DEF place
  <2> QED
    BY <1>6, <2>1, <2>2
<1> QED
  BY <1>5, <1>7 DEF PagesPartitioned

\* The table.
LEMMA TableFollows == IInv => BigTableExact
<1>1. SUFFICES ASSUME IInv PROVE BigTableExact
  OBVIOUS
<1>2. Shape /\ Places /\ Table
  BY <1>1 DEF IInv
<1>3. ASSUME NEW r \in runs PROVE QueryBig(r) \in {0, r.pages * PageSize}
  <2>1. CASE EntriesOf(r) = {}
    BY <2>1 DEF QueryBig
  <2>2. CASE EntriesOf(r) # {}
    <3>1. PICK i \in 1..BigEntries : i = Min(EntriesOf(r)) /\ big[i].va = r.page
      <4>1. EntriesOf(r) \subseteq Nat
        BY DEF EntriesOf
      <4>2. Min(EntriesOf(r)) \in EntriesOf(r)
        BY <2>2, <4>1, MinIsLeast
      <4> QED
        BY <4>2 DEF EntriesOf
    <3>2. r.page # 0
      BY <1>2, IdleFacts DEF Shape, DataShape
    <3>3. PICK q \in runs : q = [page |-> big[i].va, pages |-> big[i].pages]
      BY <1>2, <3>1, <3>2 DEF Table
    <3>4. q.page = r.page /\ q.pages = big[i].pages
      BY <3>1, <3>3
    <3>5. q = r
      BY <1>2, <3>4, RunIs
    <3>6. QueryBig(r) = big[i].pages * PageSize
      BY <2>2, <3>1 DEF QueryBig
    <3> QED
      BY <3>4, <3>5, <3>6
  <2> QED
    BY <2>1, <2>2
<1> QED
  BY <1>2, <1>3 DEF BigTableExact, Table

\* The sizes.
LEMMA SizesFollow == IInv => BlockFits
<1>1. SUFFICES ASSUME IInv, NEW b \in held PROVE b.bytes <= QuerySmall(b)
  BY DEF BlockFits
<1>2. PICK z \in Nat : z = NxpClassSize[header[b.page][b.offset].class]
  BY <1>1, HeldClass, ClassFacts
<1>3. b.bytes \in Nat /\ b.bytes + HeaderSize <= z
  BY <1>1, <1>2 DEF IInv, Shape, DataShape, Blocks, Marked
<1>4. QuerySmall(b) = z - HeaderSize
  BY <1>2 DEF QuerySmall
<1> QED
  BY <1>3, <1>4

-----------------------------------------------------------------------------
(* The theorems.                                                           *)

\* The invariant: the blocks of every bucket page are those of one class,
\* each out or listed once, with its header to show for it, and every page
\* of the window has one place.
THEOREM Invariance == Spec => []IInv
  BY InitIInv, NextIInv, PTL DEF Spec

\* The live counts of NxpPageState stay within what a page can have, whoever
\* allocates, frees or sweeps at the same time.
THEOREM CountsAreTyped == Spec => []TypeOK
  BY Invariance, TypesFollow, PTL

\* ExAllocatePoolWithTag never hands out a block twice.
THEOREM BlocksAreDisjoint == Spec => []BlocksDisjoint
  BY Invariance, BlocksFollow, PTL

\* The count of a page is the number of its blocks in use, and the header of
\* its first block names the list that the sweep has to walk.
THEOREM BucketsAreExact == Spec => []BucketsExact
  BY Invariance, BucketsFollow, PTL

\* No page of the window is lost, or used for two things.
THEOREM PagesArePartitioned == Spec => []PagesPartitioned
  BY Invariance, PagesFollow, PTL

\* ExQueryPoolBlockSize answers for whole-page blocks that exist, with their
\* size or, when the table was full, with zero.
THEOREM BigTableIsExact == Spec => []BigTableExact
  BY Invariance, TableFollows, PTL

\* A block of ExAllocatePoolWithTag has the room its caller asked for.
THEOREM BlocksFit == Spec => []BlockFits
  BY Invariance, SizesFollow, PTL
=============================================================================
