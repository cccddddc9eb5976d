----------------------------- MODULE SListProofs -----------------------------
(* The interlocked lists implement the stack of module Stack, for every    *)
(* set of threads and of entries, as long as no flush meets a pop.         *)
EXTENDS SList, TLAPS, FiniteSetTheorems, SequenceTheorems, WellFoundedInduction

USE SListAssumption

-------------------------------------------------------------------------------
(* The inductive invariant.                                                *)

\* A link, the two words of a header, and the state of a call.
Ref == Entry \cup {NoEntry}
Header == [low : Ref, high : [depth : 0 .. UShort - 1, sequence : 0 .. UShort - 1]]
Op == [call : {"none", "pop", "push", "flush"}, pc : {"idle", "load", "loaded", "swap"},
       got : SUBSET {"low", "high"}, old : Header, next : Ref, entry : Ref]

\* Every variable has its type.
TypeOK ==
  /\ header \in Header
  /\ link \in [Entry -> Ref]
  /\ owner \in [Entry -> Thread \cup {NoThread}]
  /\ op \in [Thread -> Op]

\* How far an attempt has got and what it has in hand.
CallOK(t) ==
  /\ op[t].call = "none" => op[t] = NoOp
  /\ op[t].pc \in {"loaded", "swap"} => op[t].got = {"low", "high"}
  /\ op[t].call = "push" => op[t].entry \in Entry /\ owner[op[t].entry] = t
  /\ op[t].call = "push" /\ op[t].pc = "swap"
        => op[t].next = op[t].entry /\ link[op[t].entry] = op[t].old.low
  /\ op[t].call = "pop" /\ op[t].pc = "swap" => op[t].old.low \in Entry

\* A pop whose sequence is still the header's has seen no pop succeed since
\* it read it, so the depth has only grown; and if the whole header is the
\* one it read, the link it read is the link now.
PopFollows(t) ==
  op[t].call = "pop" /\ "high" \in op[t].got /\ header.high.sequence = op[t].old.high.sequence
     => /\ header.high.depth >= op[t].old.high.depth
        /\ header = op[t].old /\ op[t].pc = "swap" => op[t].next = link[op[t].old.low]

\* Where flushes keep away from pops, none is in progress beside one.
Alone == FlushAlone => ~\E t, u \in Thread : op[t].call = "pop" /\ op[u].call = "flush"

\* The words spell the sequence s, whose entries are those nobody has.
Holds(s) ==
  /\ s \in Chains /\ Spells(s, header.low)
  /\ \A i, j \in DOMAIN s : s[i] = s[j] => i = j
  /\ \A e \in Entry : owner[e] = NoThread <=> \E i \in DOMAIN s : s[i] = e
  /\ header.high.depth = Len(s)

\* The inductive invariant.
IInv ==
  /\ TypeOK
  /\ \A t \in Thread : CallOK(t) /\ PopFollows(t)
  /\ Alone
  /\ Holds(Items)

-------------------------------------------------------------------------------
(* The words of a list spell one sequence.                                 *)

\* Spells and Chain for links l, to speak of the links before and after.
SpellsIn(l, s, e) ==
  /\ e = IF s = <<>> THEN NoEntry ELSE s[1]
  /\ \A i \in DOMAIN s : l[s[i]] = IF i = Len(s) THEN NoEntry ELSE s[i + 1]
ChainIn(l, e) ==
  IF \E s \in Chains : SpellsIn(l, s, e) THEN CHOOSE s \in Chains : SpellsIn(l, s, e) ELSE <<>>

\* A chain is a sequence of entries, at most as long as there are entries.
LEMMA ChainFacts ==
  ASSUME NEW s \in Chains
  PROVE  /\ s \in Seq(Entry) /\ Len(s) \in 0 .. Cardinality(Entry) /\ DOMAIN s = 1 .. Len(s)
         /\ \A i \in 1 .. Len(s) : s[i] \in Entry
         /\ s = <<>> <=> Len(s) = 0
<1>0. Cardinality(Entry) \in Nat
  BY FS_CardinalityType
<1>1. PICK n \in 0 .. Cardinality(Entry) : s \in [1 .. n -> Entry]
  BY DEF Chains
<1>2. n \in Nat /\ n <= Cardinality(Entry)
  BY <1>0, <1>1
<1>3. s \in Seq(Entry)
  BY <1>1, <1>2, SeqDef
<1>4. Len(s) \in Nat /\ DOMAIN s = 1 .. Len(s)
  BY <1>3, LenProperties
<1>5. 1 .. n = 1 .. Len(s)
  BY <1>1, <1>4
<1>6. Len(s) = n
  <2>1. ASSUME NEW m \in Nat, 1 .. n = 1 .. m PROVE m = n
    <3>1. m \in 1 .. m => m \in 1 .. n
      BY <2>1
    <3>2. n \in 1 .. n => n \in 1 .. m
      BY <2>1
    <3> QED
      BY <1>2, <3>1, <3>2
  <2> QED
    BY <1>4, <1>5, <2>1
<1>7. s = <<>> <=> Len(s) = 0
  BY <1>3, EmptySeq
<1> QED
  BY <1>1, <1>2, <1>3, <1>4, <1>6, <1>7

\* A sequence of entries without repetition is a chain.
LEMMA InjectiveChain ==
  ASSUME NEW s \in Seq(Entry), \A i, j \in DOMAIN s : s[i] = s[j] => i = j
  PROVE  s \in Chains /\ Len(s) \in 0 .. Cardinality(Entry)
<1>0. Cardinality(Entry) \in Nat
  BY FS_CardinalityType
<1>1. Len(s) \in Nat /\ DOMAIN s = 1 .. Len(s) /\ s \in [1 .. Len(s) -> Entry]
  BY LenProperties
<1>2. s \in Injection(1 .. Len(s), Entry)
  BY <1>1 DEF Injection, IsInjective
<1>3. Cardinality(1 .. Len(s)) <= Cardinality(Entry)
  BY <1>2, FS_Injection DEF ExistsInjection
<1>4. Cardinality(1 .. Len(s)) = Len(s)
  <2>1. 1 \in Int /\ Len(s) \in Int
    BY <1>1
  <2>2. Cardinality(1 .. Len(s)) = IF 1 > Len(s) THEN 0 ELSE Len(s) - 1 + 1
    BY <2>1, FS_Interval
  <2> QED
    BY <1>1, <2>2
<1>5. Len(s) \in 0 .. Cardinality(Entry)
  BY <1>0, <1>1, <1>3, <1>4
<1> QED
  BY <1>1, <1>5 DEF Chains

\* A nonempty set of naturals has a least element.
LEMMA LeastExists ==
  ASSUME NEW S, S \subseteq Nat, S # {}
  PROVE  \E m \in S : \A n \in S : m <= n
<1> DEFINE R == {ss \in Nat \X Nat : ss[1] < ss[2]}
<1>1. IsWellFoundedOn(R, Nat)
  BY NatLessThanWellFounded, Zenon DEF OpToRel
<1>2. S \in SUBSET Nat
  OBVIOUS
<1>3. PICK m \in S : \A n \in S : ~(<<n, m>> \in R)
  BY <1>1, <1>2, WFMin, Zenon
<1>4. ASSUME NEW n \in S PROVE m <= n
  <2>1. m \in Nat /\ n \in Nat /\ ~(n < m)
    BY <1>3
  <2> QED
    BY <2>1
<1> QED
  BY <1>4

\* Two chains that the same words spell agree as far as both go ...
LEMMA CommonPrefix ==
  ASSUME NEW l, NEW e, NEW s \in Chains, NEW q \in Chains, SpellsIn(l, s, e), SpellsIn(l, q, e),
         NEW k \in Nat \ {0}, k <= Len(s), k <= Len(q)
  PROVE  s[k] = q[k]
<1> DEFINE D == {i \in Nat \ {0} : i <= Len(s) /\ i <= Len(q) /\ s[i] # q[i]}
<1>0. /\ Len(s) \in Nat /\ DOMAIN s = 1 .. Len(s) /\ (s = <<>> <=> Len(s) = 0)
      /\ Len(q) \in Nat /\ DOMAIN q = 1 .. Len(q) /\ (q = <<>> <=> Len(q) = 0)
  BY ChainFacts, FS_CardinalityType
<1>1. SUFFICES ASSUME D # {} PROVE FALSE
  OBVIOUS
<1>2. PICK m \in D : \A n \in D : m <= n
  <2>1. D \subseteq Nat
    OBVIOUS
  <2> QED
    BY <1>1, <2>1, LeastExists
<1>3. m # 1
  BY <1>0, <1>2 DEF SpellsIn
<1>4. m - 1 \in Nat \ {0} /\ m - 1 \notin D
  BY <1>2, <1>3
<1>5. s[m - 1] = q[m - 1]
  BY <1>0, <1>2, <1>4
<1>6. s[m] = l[s[m - 1]] /\ q[m] = l[q[m - 1]]
  <2>1. m - 1 \in DOMAIN s /\ m - 1 \in DOMAIN q /\ m - 1 # Len(s) /\ m - 1 # Len(q) /\ (m - 1) + 1 = m
    BY <1>0, <1>2, <1>4
  <2> QED
    BY <2>1 DEF SpellsIn
<1> QED
  BY <1>2, <1>5, <1>6

\* ... and neither goes further.
LEMMA ChainNotShorter ==
  ASSUME NEW l, NEW e, NEW s \in Chains, NEW q \in Chains, SpellsIn(l, s, e), SpellsIn(l, q, e)
  PROVE  ~(Len(s) < Len(q))
<1>0. /\ Len(s) \in Nat /\ DOMAIN s = 1 .. Len(s) /\ (s = <<>> <=> Len(s) = 0)
      /\ Len(q) \in Nat /\ DOMAIN q = 1 .. Len(q) /\ (q = <<>> <=> Len(q) = 0)
      /\ \A i \in 1 .. Len(q) : q[i] \in Entry
  BY ChainFacts, FS_CardinalityType
<1>1. SUFFICES ASSUME Len(s) < Len(q) PROVE FALSE
  OBVIOUS
<1>2. CASE Len(s) = 0
  BY <1>0, <1>1, <1>2 DEF SpellsIn
<1>3. CASE Len(s) # 0
  <2>0. PICK n \in Nat : n = Len(s)
    BY <1>0
  <2>1. n \in Nat \ {0} /\ n <= Len(s) /\ n <= Len(q) /\ n \in DOMAIN s /\ n \in DOMAIN q /\ n # Len(q)
    <3>1. PICK k \in Nat : k = Len(q)
      BY <1>0
    <3>2. n < k /\ n # 0 /\ DOMAIN s = 1 .. n /\ DOMAIN q = 1 .. k
      BY <1>0, <1>1, <1>3, <2>0, <3>1
    <3>3. n \in 1 .. n /\ n \in 1 .. k /\ n # k /\ n <= k /\ n <= n
      BY <3>2
    <3> QED
      BY <2>0, <3>1, <3>2, <3>3
  <2>2. s[n] = q[n]
    BY <2>1, CommonPrefix
  <2>3. l[s[n]] = NoEntry /\ l[q[n]] = q[n + 1]
    BY <2>0, <2>1 DEF SpellsIn
  <2>4. q[n + 1] \in Entry
    BY <1>0, <1>1, <2>0
  <2> QED
    BY <2>2, <2>3, <2>4
<1> QED
  BY <1>2, <1>3

\* So the words spell at most one chain.
LEMMA ChainIs ==
  ASSUME NEW l, NEW e, NEW s \in Chains, SpellsIn(l, s, e)
  PROVE  ChainIn(l, e) = s
<1> DEFINE q == ChainIn(l, e)
<1>1. q \in Chains /\ SpellsIn(l, q, e)
  BY DEF ChainIn
<1> HIDE DEF q
<1>2. /\ s \in Seq(Entry) /\ Len(s) \in Nat /\ q \in Seq(Entry) /\ Len(q) \in Nat
      /\ DOMAIN s = 1 .. Len(s) /\ DOMAIN q = 1 .. Len(q)
  BY <1>1, ChainFacts, FS_CardinalityType
<1>3. Len(s) = Len(q)
  <2>1. ~(Len(s) < Len(q)) /\ ~(Len(q) < Len(s))
    BY <1>1, ChainNotShorter
  <2>2. \A a, b \in Nat : ~(a < b) /\ ~(b < a) => a = b
    OBVIOUS
  <2> QED
    BY <1>2, <2>1, <2>2
<1>4. \A i \in 1 .. Len(s) : s[i] = q[i]
  <2>1. ASSUME NEW i \in 1 .. Len(s) PROVE s[i] = q[i]
    <3>1. i \in Nat \ {0} /\ i <= Len(s) /\ i <= Len(q)
      BY <1>2, <1>3
    <3> QED
      BY <1>1, <3>1, CommonPrefix
  <2> QED
    BY <2>1
<1>5. s = q
  BY <1>2, <1>3, <1>4, SeqEqual
<1> QED
  BY <1>5 DEF q

\* Before a step and after it.
LEMMA ItemsAre ==
  /\ \A s \in Chains : SpellsIn(link, s, header.low) => Items = s
  /\ \A s \in Chains : SpellsIn(link', s, header'.low) => Items' = s
  /\ \A s, e : Spells(s, e) <=> SpellsIn(link, s, e)
  /\ \A s, e : SpellsIn(link', s, e) => Spells(s, e)'
<1>1. Items = ChainIn(link, header.low) /\ Items' = ChainIn(link', header'.low)
  BY DEF Items, Chain, ChainIn, Spells, SpellsIn
<1>2. /\ \A s, e : Spells(s, e) <=> SpellsIn(link, s, e)
      /\ \A s, e : SpellsIn(link', s, e) => Spells(s, e)'
  BY DEF Spells, SpellsIn
<1> QED
  BY <1>1, <1>2, ChainIs

-------------------------------------------------------------------------------
(* What each kind of step does to the list.                                *)

\* Holds for links l, first entry e, owners o and depth d.
HoldsIn(l, e, o, d, s) ==
  /\ s \in Chains /\ SpellsIn(l, s, e)
  /\ \A i, j \in DOMAIN s : s[i] = s[j] => i = j
  /\ \A x \in Entry : o[x] = NoThread <=> \E i \in DOMAIN s : s[i] = x
  /\ d = Len(s)

\* The list of a state is the one its words spell.
LEMMA ListIs ==
  /\ Holds(Items) <=> HoldsIn(link, header.low, owner, header.high.depth, Items)
  /\ \A s : HoldsIn(link', header'.low, owner', header'.high.depth, s) => Items' = s /\ Holds(Items)'
<1>1. Holds(Items) <=> HoldsIn(link, header.low, owner, header.high.depth, Items)
  BY ItemsAre DEF Holds, HoldsIn
<1>2. ASSUME NEW s, HoldsIn(link', header'.low, owner', header'.high.depth, s)
      PROVE  Items' = s /\ Holds(Items)'
  <2>1. Items' = s
    BY <1>2, ItemsAre DEF HoldsIn
  <2>2. Spells(s, header.low)'
    BY <1>2 DEF HoldsIn, Spells, SpellsIn
  <2>3. Holds(Items)'
    BY <1>2, <2>1, <2>2 DEF Holds, HoldsIn
  <2> QED
    BY <2>1, <2>3
<1> QED
  BY <1>1, <1>2

\* Writing to entries that somebody has leaves the list alone.
LEMMA ListKept ==
  ASSUME NEW l, NEW e, NEW o, NEW d, NEW s, HoldsIn(l, e, o, d, s),
         NEW k, \A x \in Entry : o[x] = NoThread => k[x] = l[x]
  PROVE  HoldsIn(k, e, o, d, s)
<1>1. s \in Chains /\ DOMAIN s = 1 .. Len(s) /\ \A i \in DOMAIN s : s[i] \in Entry
  BY ChainFacts DEF HoldsIn
<1>2. \A i \in DOMAIN s : k[s[i]] = l[s[i]]
  BY <1>1 DEF HoldsIn
<1>3. SpellsIn(k, s, e)
  BY <1>2 DEF HoldsIn, SpellsIn
<1> QED
  BY <1>3 DEF HoldsIn

\* A push of an entry whose link is the first entry of the list.
LEMMA ListPushed ==
  ASSUME NEW l, NEW e, NEW o, NEW d, NEW s, HoldsIn(l, e, o, d, s),
         NEW x \in Entry, o[x] # NoThread, l[x] = e,
         NEW p, p[x] = NoThread, \A y \in Entry : y # x => p[y] = o[y]
  PROVE  HoldsIn(l, x, p, d + 1, <<x>> \o s) /\ d + 1 \in 0 .. Cardinality(Entry) /\ d \in Nat
<1> DEFINE q == <<x>> \o s
<1>1. /\ s \in Seq(Entry) /\ Len(s) \in Nat /\ DOMAIN s = 1 .. Len(s) /\ (s = <<>> <=> Len(s) = 0)
      /\ \A i \in 1 .. Len(s) : s[i] \in Entry
  BY ChainFacts, FS_CardinalityType DEF HoldsIn
<1>2. PICK n \in Nat : n = Len(s)
  BY <1>1
<1>3. /\ \A i, j \in 1 .. n : s[i] = s[j] => i = j
      /\ \A y \in Entry : o[y] = NoThread <=> \E i \in 1 .. n : s[i] = y
      /\ d = n /\ e = (IF n = 0 THEN NoEntry ELSE s[1])
      /\ \A i \in 1 .. n : l[s[i]] = IF i = n THEN NoEntry ELSE s[i + 1]
  BY <1>1, <1>2 DEF HoldsIn, SpellsIn
<1>4. <<x>> \in Seq(Entry) /\ Len(<<x>>) = 1 /\ <<x>>[1] = x
  OBVIOUS
<1>5. /\ q \in Seq(Entry) /\ Len(q) = 1 + n
      /\ \A i \in 1 .. 1 + n : q[i] = IF i <= 1 THEN <<x>>[i] ELSE s[i - 1]
  BY <1>1, <1>2, <1>4, ConcatProperties
<1> HIDE DEF q
<1>6. q[1] = x /\ \A i \in 1 .. n : q[i + 1] = s[i]
  <2>1. q[1] = x
    BY <1>4, <1>5
  <2>2. ASSUME NEW i \in 1 .. n PROVE q[i + 1] = s[i]
    <3>1. i + 1 \in 1 .. 1 + n /\ ~(i + 1 <= 1) /\ (i + 1) - 1 = i
      OBVIOUS
    <3> QED
      BY <1>5, <3>1
  <2> QED
    BY <2>1, <2>2
<1>7. DOMAIN q = 1 .. 1 + n /\ q # <<>>
  BY <1>5, LenProperties, EmptySeq
<1>8. \A k \in 1 .. 1 + n : k = 1 \/ \E i \in 1 .. n : k = i + 1
  <2>1. ASSUME NEW k \in 1 .. 1 + n, k # 1 PROVE \E i \in 1 .. n : k = i + 1
    <3>1. k - 1 \in 1 .. n /\ k = (k - 1) + 1
      BY <2>1
    <3> QED
      BY <3>1
  <2> QED
    BY <2>1
<1>9. \A i \in 1 .. n : s[i] # x
  BY <1>3
<1>10. ASSUME NEW i \in 1 .. 1 + n, NEW j \in 1 .. 1 + n, q[i] = q[j] PROVE i = j
  <2>1. CASE i = 1
    BY <1>6, <1>8, <1>9, <1>10, <2>1
  <2>2. CASE j = 1
    BY <1>6, <1>8, <1>9, <1>10, <2>2
  <2>3. CASE i # 1 /\ j # 1
    <3>1. PICK a \in 1 .. n : i = a + 1
      BY <1>8, <2>3
    <3>2. PICK b \in 1 .. n : j = b + 1
      BY <1>8, <2>3
    <3>3. s[a] = s[b]
      BY <1>6, <1>10, <3>1, <3>2
    <3> QED
      BY <1>3, <3>1, <3>2, <3>3
  <2> QED
    BY <2>1, <2>2, <2>3
<1>11. q \in Chains /\ 1 + n \in 0 .. Cardinality(Entry)
  BY <1>5, <1>7, <1>10, InjectiveChain
<1>12. ASSUME NEW k \in 1 .. 1 + n
       PROVE  l[q[k]] = IF k = 1 + n THEN NoEntry ELSE q[k + 1]
  <2>1. CASE k = 1
    <3>1. CASE n = 0
      BY <1>3, <1>6, <2>1, <3>1
    <3>2. CASE n # 0
      <4>1. 1 \in 1 .. n /\ k # 1 + n
        BY <2>1, <3>2
      <4>2. q[1 + 1] = s[1] /\ e = s[1]
        BY <1>3, <1>6, <3>2, <4>1
      <4> QED
        BY <1>6, <2>1, <4>1, <4>2
    <3> QED
      BY <3>1, <3>2
  <2>2. CASE k # 1
    <3>1. PICK i \in 1 .. n : k = i + 1
      BY <1>8, <2>2
    <3>2. q[k] = s[i] /\ l[s[i]] = IF i = n THEN NoEntry ELSE s[i + 1]
      BY <1>3, <1>6, <3>1
    <3>3. i # n => i + 1 \in 1 .. n
      OBVIOUS
    <3>4. i # n => q[k + 1] = s[i + 1]
      BY <1>6, <3>1, <3>3
    <3>5. k = 1 + n <=> i = n
      BY <3>1
    <3> QED
      BY <3>2, <3>4, <3>5
  <2> QED
    BY <2>1, <2>2
<1>13. SpellsIn(l, q, x)
  <2>1. x = IF q = <<>> THEN NoEntry ELSE q[1]
    BY <1>6, <1>7
  <2>2. \A k \in DOMAIN q : l[q[k]] = IF k = Len(q) THEN NoEntry ELSE q[k + 1]
    BY <1>5, <1>7, <1>12
  <2> QED
    BY <2>1, <2>2 DEF SpellsIn
<1>14. ASSUME NEW y \in Entry
       PROVE  p[y] = NoThread <=> \E k \in 1 .. 1 + n : q[k] = y
  <2>1. CASE y = x
    BY <1>6, <2>1
  <2>2. CASE y # x
    <3>1. p[y] = NoThread <=> \E i \in 1 .. n : s[i] = y
      BY <1>3, <2>2
    <3>2. ASSUME NEW i \in 1 .. n, s[i] = y PROVE \E k \in 1 .. 1 + n : q[k] = y
      <4>1. i + 1 \in 1 .. 1 + n /\ q[i + 1] = y
        BY <1>6, <3>2
      <4> QED
        BY <4>1
    <3>3. ASSUME NEW k \in 1 .. 1 + n, q[k] = y PROVE \E i \in 1 .. n : s[i] = y
      BY <1>6, <1>8, <2>2, <3>3
    <3> QED
      BY <3>1, <3>2, <3>3
  <2> QED
    BY <2>1, <2>2
<1>15. HoldsIn(l, x, p, d + 1, q)
  <2>1. d + 1 = Len(q)
    BY <1>3, <1>5
  <2> QED
    BY <1>7, <1>10, <1>11, <1>13, <1>14, <2>1 DEF HoldsIn
<1> QED
  BY <1>3, <1>11, <1>15 DEF q

\* The first entry is on the list.
LEMMA FirstListed ==
  ASSUME NEW l, NEW e \in Entry, NEW o, NEW d, NEW s, HoldsIn(l, e, o, d, s)
  PROVE  o[e] = NoThread
<1>1. s \in Chains /\ DOMAIN s = 1 .. Len(s) /\ Len(s) \in Nat /\ (s = <<>> <=> Len(s) = 0)
  BY ChainFacts, FS_CardinalityType DEF HoldsIn
<1>2. s # <<>> /\ e = s[1]
  BY DEF HoldsIn, SpellsIn
<1>3. 1 \in DOMAIN s
  BY <1>1, <1>2
<1> QED
  BY <1>2, <1>3 DEF HoldsIn

\* A pop of the first entry.
LEMMA ListPopped ==
  ASSUME NEW l, NEW e \in Entry, NEW o, NEW d, NEW s, HoldsIn(l, e, o, d, s),
         NEW p, p[e] # NoThread, \A y \in Entry : y # e => p[y] = o[y]
  PROVE  /\ HoldsIn(l, l[e], p, d - 1, Tail(s))
         /\ s # <<>> /\ Head(s) = e /\ o[e] = NoThread
         /\ d \in 1 .. Cardinality(Entry)
<1> DEFINE q == Tail(s)
<1>1. /\ s \in Seq(Entry) /\ Len(s) \in Nat /\ DOMAIN s = 1 .. Len(s) /\ (s = <<>> <=> Len(s) = 0)
      /\ \A i \in 1 .. Len(s) : s[i] \in Entry
      /\ Len(s) \in 0 .. Cardinality(Entry)
  BY ChainFacts, FS_CardinalityType DEF HoldsIn
<1>2. PICK n \in Nat : n = Len(s)
  BY <1>1
<1>3. /\ \A i, j \in 1 .. n : s[i] = s[j] => i = j
      /\ \A y \in Entry : o[y] = NoThread <=> \E i \in 1 .. n : s[i] = y
      /\ d = n /\ e = (IF n = 0 THEN NoEntry ELSE s[1])
      /\ \A i \in 1 .. n : l[s[i]] = IF i = n THEN NoEntry ELSE s[i + 1]
  BY <1>1, <1>2 DEF HoldsIn, SpellsIn
<1>4. n # 0 /\ e = s[1] /\ 1 \in 1 .. n /\ n \in 1 .. Cardinality(Entry)
  <2>1. PICK c \in Nat : c = Cardinality(Entry)
    BY FS_CardinalityType
  <2>2. n \in 0 .. c
    BY <1>1, <1>2, <2>1
  <2>3. n # 0 /\ e = s[1]
    BY <1>3
  <2> QED
    BY <2>1, <2>2, <2>3
<1>5. s # <<>> /\ Head(s) = e
  BY <1>1, <1>2, <1>4
<1>6. PICK m \in Nat : n = m + 1
  BY <1>4
<1>7. /\ q \in Seq(Entry) /\ Len(q) = m
      /\ \A i \in 1 .. m : q[i] = s[i + 1]
  BY <1>1, <1>2, <1>5, <1>6, HeadTailProperties
<1> HIDE DEF q
<1>8. DOMAIN q = 1 .. m /\ (q = <<>> <=> m = 0)
  BY <1>7, LenProperties, EmptySeq
<1>9. \A i \in 1 .. m : i + 1 \in 1 .. n /\ i + 1 # 1
  BY <1>6
<1>10. ASSUME NEW i \in 1 .. m, NEW j \in 1 .. m, q[i] = q[j] PROVE i = j
  <2>1. i + 1 \in 1 .. n /\ j + 1 \in 1 .. n /\ s[i + 1] = s[j + 1]
    BY <1>7, <1>9, <1>10
  <2>2. i + 1 = j + 1
    BY <1>3, <2>1
  <2> QED
    BY <2>2
<1>11. q \in Chains
  BY <1>7, <1>8, <1>10, InjectiveChain
<1>12. SpellsIn(l, q, l[e])
  <2>1. l[e] = IF q = <<>> THEN NoEntry ELSE q[1]
    <3>1. l[e] = IF 1 = n THEN NoEntry ELSE s[1 + 1]
      BY <1>3, <1>4
    <3>2. 1 = n <=> m = 0
      BY <1>6
    <3>3. m # 0 => q[1] = s[1 + 1]
      BY <1>7
    <3> QED
      BY <1>8, <3>1, <3>2, <3>3
  <2>2. ASSUME NEW i \in 1 .. m
        PROVE  l[q[i]] = IF i = m THEN NoEntry ELSE q[i + 1]
    <3>1. l[s[i + 1]] = IF i + 1 = n THEN NoEntry ELSE s[(i + 1) + 1]
      BY <1>3, <1>9
    <3>2. i + 1 = n <=> i = m
      BY <1>6
    <3>3. i # m => q[i + 1] = s[(i + 1) + 1]
      <4>1. i # m => i + 1 \in 1 .. m
        OBVIOUS
      <4> QED
        BY <1>7, <4>1
    <3> QED
      BY <1>7, <3>1, <3>2, <3>3
  <2> QED
    BY <1>7, <1>8, <2>1, <2>2 DEF SpellsIn
<1>13. ASSUME NEW y \in Entry
       PROVE  p[y] = NoThread <=> \E i \in 1 .. m : q[i] = y
  <2>1. CASE y = e
    <3>1. ASSUME NEW i \in 1 .. m, q[i] = e PROVE FALSE
      <4>1. s[i + 1] = s[1] /\ i + 1 \in 1 .. n /\ i + 1 # 1
        BY <1>4, <1>7, <1>9, <3>1
      <4> QED
        BY <1>3, <1>4, <4>1
    <3> QED
      BY <2>1, <3>1
  <2>2. CASE y # e
    <3>1. p[y] = NoThread <=> \E i \in 1 .. n : s[i] = y
      BY <1>3, <2>2
    <3>2. ASSUME NEW i \in 1 .. n, s[i] = y PROVE \E k \in 1 .. m : q[k] = y
      <4>1. i # 1
        BY <1>4, <2>2, <3>2
      <4>2. i - 1 \in 1 .. m /\ (i - 1) + 1 = i
        BY <1>6, <4>1
      <4>3. q[i - 1] = y
        BY <1>7, <3>2, <4>2
      <4> QED
        BY <4>2, <4>3
    <3>3. ASSUME NEW k \in 1 .. m, q[k] = y PROVE \E i \in 1 .. n : s[i] = y
      BY <1>7, <1>9, <3>3
    <3> QED
      BY <3>1, <3>2, <3>3
  <2> QED
    BY <2>1, <2>2
<1>14. HoldsIn(l, l[e], p, d - 1, q)
  <2>1. d - 1 = Len(q)
    BY <1>3, <1>6, <1>7
  <2> QED
    BY <1>8, <1>10, <1>11, <1>12, <1>13, <2>1 DEF HoldsIn
<1>15. o[e] = NoThread
  BY <1>3, <1>4
<1> QED
  BY <1>3, <1>4, <1>5, <1>14, <1>15 DEF q

\* A flush that leaves no entry without an owner.
LEMMA ListFlushed ==
  ASSUME NEW l, NEW p, \A y \in Entry : p[y] # NoThread
  PROVE  HoldsIn(l, NoEntry, p, 0, <<>>)
<1>1. <<>> \in Seq(Entry) /\ Len(<<>>) = 0 /\ DOMAIN <<>> = {}
  BY EmptySeq
<1>2. <<>> \in Chains
  BY <1>1, InjectiveChain
<1> QED
  BY <1>1, <1>2 DEF HoldsIn, SpellsIn

-------------------------------------------------------------------------------
(* Steps that leave the header and the owners alone.                       *)

\* Depth and sequence are words of the header, and neither wraps at zero.
LEMMA WordFacts ==
  /\ UShort \in Nat \ {0} /\ Cardinality(Entry) \in Nat /\ Cardinality(Entry) < UShort
  /\ \A x \in 0 .. UShort - 1 : x % UShort = x
  /\ \A x \in Int : x % UShort \in 0 .. UShort - 1
<1>1. Cardinality(Entry) \in Nat
  BY FS_CardinalityType
<1>2. UShort \in Nat \ {0}
  BY <1>1
<1>3. \A x \in 0 .. UShort - 1 : x % UShort = x
  BY <1>2
<1>4. \A x \in Int : x % UShort \in 0 .. UShort - 1
  BY <1>2
<1> QED
  BY <1>1, <1>2, <1>3, <1>4

\* The empty header and the idle thread.
LEMMA IdleFacts ==
  /\ Empty = [low |-> NoEntry, high |-> [depth |-> 0, sequence |-> 0]] /\ Empty \in Header
  /\ NoOp \in Op /\ NoOp.call = "none" /\ NoOp.pc = "idle" /\ NoOp.got = {}
<1>1. 0 % UShort = 0 /\ 0 \in 0 .. UShort - 1
  BY WordFacts
<1>2. Empty = [low |-> NoEntry, high |-> [depth |-> 0, sequence |-> 0]]
  BY <1>1 DEF Empty, NxpSListPack
<1>3. Empty \in Header
  BY <1>1, <1>2 DEF Header, Ref
<1> QED
  BY <1>2, <1>3 DEF NoOp, Op, Ref

\* A call that begins, or begins again, has read nothing.
LEMMA BeginFacts ==
  ASSUME NEW c \in {"pop", "push", "flush"}, NEW e \in Ref
  PROVE  /\ Begin(c, e) \in Op /\ Begin(c, e).call = c /\ Begin(c, e).pc = "load"
         /\ Begin(c, e).got = {} /\ Begin(c, e).entry = e
<1>1. NoOp \in Op /\ NoOp.got = {}
  BY IdleFacts
<1> QED
  BY <1>1 DEF Op, Begin

\* One thread moves on and writes at most to entries it has.
Moves(t, o) ==
  /\ op' = [op EXCEPT ![t] = o] /\ UNCHANGED <<header, owner>>
  /\ link' \in [Entry -> Ref] /\ \A x \in Entry : owner[x] # t => link'[x] = link[x]

\* Such a step is a stuttering step of the stack, and preserves the invariant
\* when the thread itself is in order.
LEMMA MoveStep ==
  ASSUME IInv, NEW t \in Thread, NEW o \in Op, Moves(t, o),
         CallOK(t)', PopFollows(t)', Alone'
  PROVE  IInv' /\ UNCHANGED <<Items, header, owner>>
<1>0. /\ header' = header /\ owner' = owner /\ link' \in [Entry -> Ref]
      /\ op' = [op EXCEPT ![t] = o] /\ \A x \in Entry : owner[x] # t => link'[x] = link[x]
  BY DEF Moves
<1>1. /\ header \in Header /\ link \in [Entry -> Ref] /\ op \in [Thread -> Op]
      /\ owner \in [Entry -> Thread \cup {NoThread}]
  BY DEF IInv, TypeOK
<1>2. op'[t] = o /\ \A u \in Thread : u # t => op'[u] = op[u]
  BY <1>0, <1>1
<1>3. TypeOK'
  BY <1>0, <1>1 DEF TypeOK
<1>4. Items' = Items /\ Holds(Items)'
  <2>1. HoldsIn(link, header.low, owner, header.high.depth, Items)
    BY ListIs DEF IInv
  <2>2. HoldsIn(link', header.low, owner, header.high.depth, Items)
    BY <1>0, <2>1, ListKept
  <2> QED
    BY <1>0, <2>2, ListIs
<1>5. ASSUME NEW u \in Thread
      PROVE  CallOK(u)' /\ PopFollows(u)'
  <2>1. CASE u = t
    BY <2>1
  <2>2. CASE u # t
    <3>0. CallOK(u) /\ PopFollows(u) /\ op'[u] = op[u]
      BY <1>2, <2>2 DEF IInv
    <3>1. CallOK(u)'
      <4>1. op[u].call = "push" => op[u].entry \in Entry /\ owner[op[u].entry] = u
        BY <3>0 DEF CallOK
      <4>2. op[u].call = "push" => link'[op[u].entry] = link[op[u].entry]
        BY <1>0, <2>2, <4>1
      <4> QED
        BY <1>0, <3>0, <4>2 DEF CallOK
    <3>2. PopFollows(u)'
      <4>1. ASSUME op[u].call = "pop", op[u].pc = "swap", header = op[u].old
            PROVE  link'[op[u].old.low] = link[op[u].old.low]
        <5>1. header.low \in Entry
          BY <3>0, <4>1 DEF CallOK
        <5>2. owner[header.low] = NoThread
          <6>1. HoldsIn(link, header.low, owner, header.high.depth, Items)
            BY ListIs DEF IInv
          <6> QED
            BY <5>1, <6>1, FirstListed
        <5> QED
          BY <1>0, <4>1, <5>1, <5>2
      <4> QED
        BY <1>0, <3>0, <4>1 DEF PopFollows
    <3> QED
      BY <3>1, <3>2
  <2> QED
    BY <2>1, <2>2
<1> QED
  BY <1>0, <1>3, <1>4, <1>5 DEF IInv

\* What a thread that is alone in moving sees of the others.
LEMMA MoveFacts ==
  ASSUME IInv, NEW t \in Thread
  PROVE  /\ header \in Header /\ link \in [Entry -> Ref] /\ op \in [Thread -> Op] /\ op[t] \in Op
         /\ owner \in [Entry -> Thread \cup {NoThread}]
         /\ CallOK(t) /\ PopFollows(t) /\ Alone
         /\ NoOp \in Op /\ NoOp.call = "none" /\ NoOp.pc = "idle" /\ NoOp.got = {}
         /\ header.low \in Entry => owner[header.low] = NoThread
<1>1. HoldsIn(link, header.low, owner, header.high.depth, Items)
  BY ListIs DEF IInv
<1>2. header.low \in Entry => owner[header.low] = NoThread
  BY <1>1, FirstListed
<1> QED
  BY <1>2, IdleFacts DEF IInv, TypeOK

\* A thread whose call stays the same, or ends, keeps pops and flushes apart.
LEMMA AloneKept ==
  ASSUME IInv, NEW t \in Thread, NEW o \in Op, op' = [op EXCEPT ![t] = o],
         o.call = op[t].call \/ o.call = "none"
  PROVE  Alone'
<1>1. op'[t] = o /\ \A u \in Thread : u # t => op'[u] = op[u]
  BY MoveFacts
<1>2. \A u \in Thread, c \in {"pop", "flush"} : op'[u].call = c => op[u].call = c
  BY <1>1
<1> QED
  BY <1>2 DEF IInv, Alone

\* The start of a call.
LEMMA CallStep ==
  ASSUME IInv, NEW t \in Thread, Pop(t) \/ Flush(t) \/ \E e \in Entry : Push(t, e)
  PROVE  IInv' /\ UNCHANGED <<Items, header, owner>>
<1>0. /\ link \in [Entry -> Ref] /\ op \in [Thread -> Op] /\ Alone
  BY MoveFacts
<1>1. ASSUME NEW c \in {"pop", "push", "flush"}, NEW e \in Ref, SetOp(t, Begin(c, e)),
             UNCHANGED <<header, link, owner>>, c = "push" => e \in Entry /\ owner[e] = t, Alone'
      PROVE  IInv' /\ UNCHANGED <<Items, header, owner>>
  <2> DEFINE o == Begin(c, e)
  <2>1. o \in Op /\ o.call = c /\ o.pc = "load" /\ o.got = {} /\ o.entry = e
    BY BeginFacts
  <2>2. Moves(t, o)
    BY <1>0, <1>1 DEF Moves, SetOp
  <2> HIDE DEF o
  <2>3. op'[t] = o
    BY <1>0, <2>2 DEF Moves
  <2>4. CallOK(t)' /\ PopFollows(t)'
    BY <1>1, <2>1, <2>3 DEF CallOK, PopFollows
  <2> QED
    BY <1>1, <2>1, <2>2, <2>4, MoveStep
<1>2. NoEntry \in Ref /\ Entry \subseteq Ref
  BY DEF Ref
<1>3. ASSUME NEW c \in {"pop", "push", "flush"}, NEW e \in Ref, SetOp(t, Begin(c, e)),
             FlushAlone /\ c = "pop" => \A u \in Thread : op[u].call # "flush",
             FlushAlone /\ c = "flush" => \A u \in Thread : op[u].call # "pop"
      PROVE  Alone'
  <2>1. op'[t].call = c /\ \A u \in Thread : u # t => op'[u] = op[u]
    BY <1>0, <1>3, BeginFacts DEF SetOp
  <2>2. ASSUME FlushAlone, NEW u \in Thread, NEW v \in Thread, op'[u].call = "pop", op'[v].call = "flush"
        PROVE  FALSE
    <3>1. CASE u = t
      BY <1>3, <2>1, <2>2, <3>1
    <3>2. CASE v = t
      BY <1>3, <2>1, <2>2, <3>2
    <3>3. CASE u # t /\ v # t
      BY <1>0, <2>1, <2>2, <3>3 DEF Alone
    <3> QED
      BY <3>1, <3>2, <3>3
  <2> QED
    BY <2>2 DEF Alone
<1>4. CASE Pop(t)
  <2>1. Alone'
    BY <1>2, <1>3, <1>4 DEF Pop
  <2> QED
    BY <1>1, <1>2, <1>4, <2>1 DEF Pop
<1>5. CASE Flush(t)
  <2>1. Alone'
    BY <1>2, <1>3, <1>5 DEF Flush, InPop
  <2> QED
    BY <1>1, <1>2, <1>5, <2>1 DEF Flush
<1>6. CASE \E e \in Entry : Push(t, e)
  <2>1. PICK e \in Entry : Push(t, e)
    BY <1>6
  <2>2. Alone'
    BY <1>2, <1>3, <2>1 DEF Push
  <2> QED
    BY <1>1, <1>2, <2>1, <2>2 DEF Push
<1> QED
  BY <1>4, <1>5, <1>6

\* A thread writes to an entry it has.
LEMMA UseStep ==
  ASSUME IInv, NEW t \in Thread, NEW e \in Entry, Use(t, e)
  PROVE  IInv' /\ UNCHANGED <<Items, header, owner>>
<1>0. /\ link \in [Entry -> Ref] /\ op \in [Thread -> Op] /\ op[t] \in Op /\ Alone
      /\ CallOK(t) /\ PopFollows(t)
      /\ header.low \in Entry => owner[header.low] = NoThread
  BY MoveFacts
<1>1. PICK v \in Ref : link' = [link EXCEPT ![e] = v]
  BY DEF Use, Ref
<1>2. owner[e] = t /\ op[t].entry # e /\ op' = op /\ header' = header /\ owner' = owner
  BY DEF Use
<1>3. /\ link' \in [Entry -> Ref] /\ \A x \in Entry : x # e => link'[x] = link[x]
  BY <1>0, <1>1
<1>4. Moves(t, op[t])
  BY <1>0, <1>2, <1>3 DEF Moves
<1>5. CallOK(t)'
  BY <1>0, <1>2, <1>3 DEF CallOK
<1>6. PopFollows(t)'
  <2>1. ASSUME op[t].call = "pop", op[t].pc = "swap", header = op[t].old
        PROVE  link'[op[t].old.low] = link[op[t].old.low]
    <3>1. header.low \in Entry
      BY <1>0, <2>1 DEF CallOK
    <3>2. header.low # e
      BY <1>0, <1>2, <3>1
    <3> QED
      BY <1>3, <2>1, <3>1, <3>2
  <2> QED
    BY <1>0, <1>2, <2>1 DEF PopFollows
<1>7. Alone'
  BY <1>0, <1>2 DEF Alone
<1> QED
  BY <1>0, <1>4, <1>5, <1>6, <1>7, MoveStep

\* One of the two loads of the header.
LEMMA LoadHalfStep ==
  ASSUME IInv, NEW t \in Thread, NEW half \in {"low", "high"}, LoadHalf(t, half)
  PROVE  IInv' /\ UNCHANGED <<Items, header, owner>>
<1>0. /\ header \in Header /\ link \in [Entry -> Ref] /\ op \in [Thread -> Op] /\ op[t] \in Op
      /\ CallOK(t) /\ PopFollows(t) /\ NoOp.pc = "idle"
  BY MoveFacts
<1> DEFINE g == op[t].got \cup {half}
           h == IF half = "low" THEN [op[t].old EXCEPT !.low = header.low]
                ELSE [op[t].old EXCEPT !.high = header.high]
           p == IF op[t].got = {} THEN "load" ELSE "loaded"
           o == [op[t] EXCEPT !.got = g, !.old = h, !.pc = p]
<1>1. op[t].pc = "load" /\ half \notin op[t].got /\ op' = [op EXCEPT ![t] = o]
      /\ UNCHANGED <<header, link, owner>>
  BY DEF LoadHalf, SetOp
<1>2. /\ h \in Header /\ (half = "high" => h.high = header.high)
      /\ (half = "low" => h.high = op[t].old.high)
  <2>1. op[t].old \in Header
    BY <1>0 DEF Op
  <2> QED
    BY <1>0, <2>1 DEF Header
<1>3. g \in SUBSET {"low", "high"} /\ (op[t].got # {} => g = {"low", "high"})
  BY <1>0, <1>1 DEF Op
<1>4. p \in {"load", "loaded"} /\ (p = "loaded" => op[t].got # {})
  OBVIOUS
<1>5. "high" \in g <=> half = "high" \/ "high" \in op[t].got
  OBVIOUS
<1> HIDE DEF g, h, p
<1>6. /\ o \in Op /\ o.call = op[t].call /\ o.pc = p /\ o.got = g /\ o.old = h
      /\ o.next = op[t].next /\ o.entry = op[t].entry
  BY <1>0, <1>2, <1>3, <1>4 DEF Op
<1> HIDE DEF o
<1>7. op'[t] = o
  BY <1>0, <1>1
<1>8. Moves(t, o)
  BY <1>0, <1>1 DEF Moves
<1>9. CallOK(t)'
  BY <1>0, <1>1, <1>3, <1>4, <1>6, <1>7 DEF CallOK
<1>10. PopFollows(t)'
  <2>1. CASE half = "high"
    <3>1. header.high.depth \in Nat
      BY <1>0 DEF Header
    <3>2. header.high.depth >= header.high.depth
      BY <3>1
    <3> QED
      BY <1>1, <1>2, <1>4, <1>6, <1>7, <2>1, <3>2 DEF PopFollows
  <2>2. CASE half = "low"
    BY <1>0, <1>1, <1>2, <1>4, <1>5, <1>6, <1>7, <2>2 DEF PopFollows
  <2> QED
    BY <2>1, <2>2
<1>11. Alone'
  BY <1>1, <1>6, AloneKept
<1> QED
  BY <1>6, <1>8, <1>9, <1>10, <1>11, MoveStep

\* The rest of an attempt up to its swap.
LEMMA LinkStep ==
  ASSUME IInv, NEW t \in Thread, ReturnEmpty(t) \/ PopLink(t) \/ PushLink(t) \/ FlushLink(t) \/ SwapFails(t)
  PROVE  IInv' /\ UNCHANGED <<Items, header, owner>>
<1>0. /\ header \in Header /\ link \in [Entry -> Ref] /\ op \in [Thread -> Op] /\ op[t] \in Op
      /\ CallOK(t) /\ PopFollows(t)
      /\ NoOp \in Op /\ NoOp.call = "none" /\ NoOp.pc = "idle" /\ NoOp.got = {}
  BY MoveFacts
<1>1. CASE ReturnEmpty(t)
  <2>1. op' = [op EXCEPT ![t] = NoOp] /\ UNCHANGED <<header, link, owner>>
    BY <1>1 DEF ReturnEmpty, SetOp
  <2>2. Moves(t, NoOp) /\ op'[t] = NoOp
    BY <1>0, <2>1 DEF Moves
  <2>3. CallOK(t)' /\ PopFollows(t)'
    BY <1>0, <2>2 DEF CallOK, PopFollows
  <2>4. Alone'
    BY <1>0, <2>1, AloneKept
  <2> QED
    BY <1>0, <2>2, <2>3, <2>4, MoveStep
<1>2. CASE PopLink(t)
  <2> DEFINE o == [op[t] EXCEPT !.next = link[op[t].old.low], !.pc = "swap"]
  <2>1. /\ op[t].call = "pop" /\ op[t].pc = "loaded" /\ op[t].old.low # NoEntry
        /\ op' = [op EXCEPT ![t] = o] /\ UNCHANGED <<header, link, owner>>
    BY <1>2 DEF PopLink, SetOp, In
  <2>2. op[t].old.low \in Entry /\ link[op[t].old.low] \in Ref
    BY <1>0, <2>1 DEF Op, Header, Ref
  <2>3. /\ o \in Op /\ o.call = op[t].call /\ o.pc = "swap" /\ o.got = op[t].got /\ o.old = op[t].old
        /\ o.next = link[op[t].old.low] /\ o.entry = op[t].entry
    BY <1>0, <2>2 DEF Op
  <2> HIDE DEF o
  <2>4. Moves(t, o) /\ op'[t] = o
    BY <1>0, <2>1 DEF Moves
  <2>5. CallOK(t)'
    BY <1>0, <2>1, <2>2, <2>3, <2>4 DEF CallOK
  <2>6. PopFollows(t)'
    BY <1>0, <2>1, <2>3, <2>4 DEF PopFollows
  <2>7. Alone'
    BY <2>1, <2>3, AloneKept
  <2> QED
    BY <2>3, <2>4, <2>5, <2>6, <2>7, MoveStep
<1>3. CASE PushLink(t)
  <2> DEFINE e == op[t].entry
             o == [op[t] EXCEPT !.next = e, !.pc = "swap"]
  <2>1. /\ op[t].call = "push" /\ op[t].pc = "loaded" /\ link' = [link EXCEPT ![e] = op[t].old.low]
        /\ op' = [op EXCEPT ![t] = o] /\ UNCHANGED <<header, owner>>
    BY <1>3 DEF PushLink, SetOp, In
  <2>2. e \in Entry /\ owner[e] = t /\ op[t].old.low \in Ref /\ e \in Ref
    BY <1>0, <2>1 DEF CallOK, Op, Header
  <2>3. /\ o \in Op /\ o.call = op[t].call /\ o.pc = "swap" /\ o.got = op[t].got /\ o.old = op[t].old
        /\ o.next = e /\ o.entry = e
    BY <1>0, <2>2 DEF Op
  <2> HIDE DEF o, e
  <2>4. Moves(t, o) /\ op'[t] = o /\ link'[e] = op[t].old.low
    BY <1>0, <2>1, <2>2 DEF Moves
  <2>5. CallOK(t)'
    BY <1>0, <2>1, <2>2, <2>3, <2>4 DEF CallOK
  <2>6. PopFollows(t)'
    BY <2>1, <2>3, <2>4 DEF PopFollows
  <2>7. Alone'
    BY <2>1, <2>3, AloneKept
  <2> QED
    BY <2>3, <2>4, <2>5, <2>6, <2>7, MoveStep
<1>4. CASE FlushLink(t)
  <2> DEFINE o == [op[t] EXCEPT !.pc = "swap"]
  <2>1. /\ op[t].call = "flush" /\ op[t].pc = "loaded"
        /\ op' = [op EXCEPT ![t] = o] /\ UNCHANGED <<header, link, owner>>
    BY <1>4 DEF FlushLink, SetOp, In
  <2>2. o \in Op /\ o.call = op[t].call /\ o.pc = "swap" /\ o.got = op[t].got
    BY <1>0 DEF Op
  <2> HIDE DEF o
  <2>3. Moves(t, o) /\ op'[t] = o
    BY <1>0, <2>1 DEF Moves
  <2>4. CallOK(t)' /\ PopFollows(t)'
    BY <1>0, <2>1, <2>2, <2>3 DEF CallOK, PopFollows
  <2>5. Alone'
    BY <2>1, <2>2, AloneKept
  <2> QED
    BY <2>2, <2>3, <2>4, <2>5, MoveStep
<1>5. CASE SwapFails(t)
  <2>1. op[t].pc = "swap" /\ op' = [op EXCEPT ![t] = Retry(op[t])] /\ UNCHANGED <<header, link, owner>>
    BY <1>5 DEF SwapFails, SetOp
  <2>2. op[t].call \in {"pop", "push", "flush"} /\ op[t].entry \in Ref
    BY <1>0, <2>1 DEF CallOK, Op
  <2>3. CASE op[t].call = "flush"
    <3> DEFINE o == [op[t] EXCEPT !.old = header, !.pc = "loaded"]
    <3>1. op' = [op EXCEPT ![t] = o]
      BY <2>1, <2>3 DEF Retry
    <3>2. o \in Op /\ o.call = op[t].call /\ o.pc = "loaded" /\ o.got = op[t].got
      BY <1>0 DEF Op
    <3> HIDE DEF o
    <3>3. Moves(t, o) /\ op'[t] = o
      BY <1>0, <2>1, <3>1 DEF Moves
    <3>4. CallOK(t)' /\ PopFollows(t)'
      BY <1>0, <2>1, <2>3, <3>2, <3>3 DEF CallOK, PopFollows
    <3>5. Alone'
      BY <3>1, <3>2, AloneKept
    <3> QED
      BY <3>2, <3>3, <3>4, <3>5, MoveStep
  <2>4. CASE op[t].call # "flush"
    <3> DEFINE o == Begin(op[t].call, op[t].entry)
    <3>1. op' = [op EXCEPT ![t] = o]
      BY <2>1, <2>4 DEF Retry
    <3>2. o \in Op /\ o.call = op[t].call /\ o.pc = "load" /\ o.got = {} /\ o.entry = op[t].entry
      BY <2>2, BeginFacts
    <3> HIDE DEF o
    <3>3. Moves(t, o) /\ op'[t] = o
      BY <1>0, <2>1, <3>1 DEF Moves
    <3>4. CallOK(t)' /\ PopFollows(t)'
      BY <1>0, <2>1, <2>2, <3>2, <3>3 DEF CallOK, PopFollows
    <3>5. Alone'
      BY <3>1, <3>2, AloneKept
    <3> QED
      BY <3>2, <3>3, <3>4, <3>5, MoveStep
  <2> QED
    BY <2>3, <2>4
<1> QED
  BY <1>1, <1>2, <1>3, <1>4, <1>5

-------------------------------------------------------------------------------
(* The swap, where an operation takes effect.                              *)

\* What a successful swap leaves of the invariant to be shown: that the list
\* is in order, and that no other pop can mistake the new header for the one
\* it has read.
LEMMA SwapOthers ==
  ASSUME IInv, NEW t \in Thread, op' = [op EXCEPT ![t] = NoOp], link' = link,
         header' \in Header, owner' \in [Entry -> Thread \cup {NoThread}],
         \A x \in Entry : owner[x] \in Thread /\ owner[x] # t => owner'[x] = owner[x],
         \A u \in Thread : u # t /\ op[u].call = "pop" /\ "high" \in op[u].got
            => \/ header'.high.sequence # op[u].old.high.sequence
               \/ header'.high.depth > op[u].old.high.depth,
         Holds(Items)'
  PROVE  IInv'
<1>0. /\ link \in [Entry -> Ref] /\ op \in [Thread -> Op]
      /\ NoOp \in Op /\ NoOp.call = "none" /\ NoOp.pc = "idle" /\ NoOp.got = {}
  BY MoveFacts
<1>1. op'[t] = NoOp /\ \A u \in Thread : u # t => op'[u] = op[u]
  BY <1>0
<1>2. TypeOK'
  BY <1>0 DEF TypeOK
<1>3. Alone'
  BY <1>0, AloneKept
<1>4. ASSUME NEW u \in Thread
      PROVE  CallOK(u)' /\ PopFollows(u)'
  <2>1. CASE u = t
    BY <1>0, <1>1, <2>1 DEF CallOK, PopFollows
  <2>2. CASE u # t
    <3>0. CallOK(u) /\ op'[u] = op[u] /\ op[u] \in Op
      BY <1>0, <1>1, <2>2 DEF IInv
    <3>1. CallOK(u)'
      <4>1. op[u].call = "push" => owner'[op[u].entry] = u
        BY <2>2, <3>0 DEF CallOK
      <4> QED
        BY <3>0, <4>1 DEF CallOK
    <3>2. PopFollows(u)'
      <4>1. ASSUME op[u].call = "pop", "high" \in op[u].got, header'.high.sequence = op[u].old.high.sequence
            PROVE  header'.high.depth >= op[u].old.high.depth /\ header' # op[u].old
        <5>1. header'.high.depth > op[u].old.high.depth
          BY <2>2, <4>1
        <5>2. header'.high.depth \in Nat /\ op[u].old.high.depth \in Nat
          BY <3>0 DEF Op, Header
        <5>3. ASSUME NEW a \in Nat, NEW b \in Nat, a > b PROVE a >= b /\ a # b
          BY <5>3
        <5>4. header'.high.depth >= op[u].old.high.depth /\ header'.high.depth # op[u].old.high.depth
          BY <5>1, <5>2, <5>3
        <5> QED
          BY <5>4
      <4> QED
        BY <3>0, <4>1 DEF PopFollows
    <3> QED
      BY <3>1, <3>2
  <2> QED
    BY <2>1, <2>2
<1> QED
  BY <1>2, <1>3, <1>4 DEF IInv

\* A header that is packed from parts in range.
LEMMA PackFacts ==
  ASSUME NEW r \in Ref, NEW d \in Int, NEW q \in Int
  PROVE  /\ NxpSListPack(r, d, q) \in Header
         /\ NxpSListPack(r, d, q).low = r
         /\ NxpSListPack(r, d, q).high.depth = d % UShort
         /\ NxpSListPack(r, d, q).high.sequence = q % UShort
<1>1. d % UShort \in 0 .. UShort - 1 /\ q % UShort \in 0 .. UShort - 1
  BY WordFacts
<1> QED
  BY <1>1 DEF NxpSListPack, Header

\* Depth and sequence of a header are integers.
LEMMA HeaderFacts ==
  ASSUME NEW h \in Header
  PROVE  h.low \in Ref /\ h.high.depth \in 0 .. UShort - 1 /\ h.high.sequence \in 0 .. UShort - 1
         /\ h.high.depth \in Int /\ h.high.sequence \in Int
  BY WordFacts DEF Header

\* A pop takes the entry that is first now.
LEMMA SwapPop ==
  ASSUME IInv, NEW t \in Thread, Swap(t), op[t].call = "pop"
  PROVE  IInv' /\ Promise!Pop(t)
<1>0. /\ header \in Header /\ link \in [Entry -> Ref] /\ op \in [Thread -> Op] /\ op[t] \in Op
      /\ owner \in [Entry -> Thread \cup {NoThread}]
      /\ CallOK(t) /\ PopFollows(t)
  BY MoveFacts
<1> DEFINE e == header.low
           d == header.high.depth
           q == header.high.sequence
<1>1. /\ op[t].pc = "swap" /\ header = op[t].old /\ NoWrap(t)
      /\ header' = NewHeader(op[t]) /\ owner' = NewOwner(t, op[t])
      /\ op' = [op EXCEPT ![t] = NoOp] /\ link' = link
  BY DEF Swap, SetOp
<1>2. e \in Entry /\ op[t].next = link[e] /\ link[e] \in Ref
  BY <1>0, <1>1 DEF CallOK, PopFollows
<1>3. d \in Int /\ q \in Int
  BY <1>0, HeaderFacts
<1>4. header' = NxpSListPack(link[e], d - 1, q + 1)
  BY <1>1, <1>2 DEF NewHeader
<1>5. owner' = [x \in Entry |-> IF x = e THEN t ELSE owner[x]]
  BY <1>1 DEF NewOwner
<1>6. HoldsIn(link, e, owner, d, Items)
  BY ListIs DEF IInv
<1> HIDE DEF e, d, q
<1>7. owner'[e] = t /\ t # NoThread /\ \A y \in Entry : y # e => owner'[y] = owner[y]
  BY <1>2, <1>5
<1>8. PICK p : p = owner'
  OBVIOUS
<1>9. p[e] # NoThread /\ \A y \in Entry : y # e => p[y] = owner[y]
  BY <1>7, <1>8
<1>10. /\ HoldsIn(link, link[e], p, d - 1, Tail(Items))
       /\ Items # <<>> /\ Head(Items) = e /\ owner[e] = NoThread
       /\ d \in 1 .. Cardinality(Entry)
  BY <1>2, <1>6, <1>9, ListPopped
<1>11. /\ header' \in Header /\ header'.low = link[e]
       /\ header'.high.depth = (d - 1) % UShort /\ header'.high.sequence = (q + 1) % UShort
  BY <1>2, <1>3, <1>4, PackFacts
<1>12. header'.high.depth = d - 1
  <2>1. d - 1 \in 0 .. UShort - 1
    BY <1>10, WordFacts
  <2> QED
    BY <1>11, <2>1, WordFacts
<1>13. Items' = Tail(Items) /\ Holds(Items)'
  BY <1>1, <1>8, <1>10, <1>11, <1>12, ListIs
<1>14. owner' \in [Entry -> Thread \cup {NoThread}]
       /\ \A x \in Entry : owner[x] \in Thread /\ owner[x] # t => owner'[x] = owner[x]
  BY <1>0, <1>5, <1>10
<1>15. \A u \in Thread : u # t /\ op[u].call = "pop" /\ "high" \in op[u].got
          => header'.high.sequence # op[u].old.high.sequence
  BY <1>1, <1>11 DEF NoWrap, InPop, q
<1>16. IInv'
  BY <1>1, <1>11, <1>13, <1>14, <1>15, SwapOthers
<1>17. owner' = [owner EXCEPT ![Head(Items)] = t]
  BY <1>0, <1>5, <1>10
<1>18. Promise!Pop(t)
  BY <1>10, <1>12, <1>13, <1>17 DEF Promise!Pop, d
<1> QED
  BY <1>16, <1>18

\* A push puts its entry before the one that is first now.
LEMMA SwapPush ==
  ASSUME IInv, NEW t \in Thread, Swap(t), op[t].call = "push"
  PROVE  IInv' /\ \E x \in Entry : Promise!Push(t, x)
<1>0. /\ header \in Header /\ link \in [Entry -> Ref] /\ op \in [Thread -> Op] /\ op[t] \in Op
      /\ owner \in [Entry -> Thread \cup {NoThread}]
      /\ CallOK(t)
  BY MoveFacts
<1> DEFINE e == header.low
           d == header.high.depth
           q == header.high.sequence
<1>1. /\ op[t].pc = "swap" /\ header = op[t].old
      /\ header' = NewHeader(op[t]) /\ owner' = NewOwner(t, op[t])
      /\ op' = [op EXCEPT ![t] = NoOp] /\ link' = link
  BY DEF Swap, SetOp
<1>2. PICK x \in Entry : x = op[t].entry /\ owner[x] = t /\ op[t].next = x /\ link[x] = e /\ x \in Ref
  BY <1>0, <1>1 DEF CallOK, Ref
<1>3. d \in Int /\ q \in Int /\ q \in 0 .. UShort - 1
  BY <1>0, HeaderFacts
<1>4. header' = NxpSListPack(x, d + 1, q)
  BY <1>1, <1>2 DEF NewHeader
<1>5. owner' = [y \in Entry |-> IF y = x THEN NoThread ELSE owner[y]]
  BY <1>1, <1>2 DEF NewOwner
<1>6. HoldsIn(link, e, owner, d, Items)
  BY ListIs DEF IInv
<1> HIDE DEF e, d, q
<1>7. PICK p : p = owner'
  OBVIOUS
<1>8. p[x] = NoThread /\ owner[x] # NoThread /\ \A y \in Entry : y # x => p[y] = owner[y]
  BY <1>2, <1>5, <1>7
<1>9. HoldsIn(link, x, p, d + 1, <<x>> \o Items) /\ d + 1 \in 0 .. Cardinality(Entry) /\ d \in Nat
  BY <1>2, <1>6, <1>8, ListPushed
<1>10. /\ header' \in Header /\ header'.low = x
       /\ header'.high.depth = (d + 1) % UShort /\ header'.high.sequence = q % UShort
  BY <1>2, <1>3, <1>4, PackFacts
<1>11. header'.high.depth = d + 1 /\ header'.high.sequence = q
  <2>1. d + 1 \in 0 .. UShort - 1
    BY <1>9, WordFacts
  <2> QED
    BY <1>3, <1>10, <2>1, WordFacts
<1>12. Items' = <<x>> \o Items /\ Holds(Items)'
  BY <1>1, <1>7, <1>9, <1>10, <1>11, ListIs
<1>13. owner' \in [Entry -> Thread \cup {NoThread}]
       /\ \A y \in Entry : owner[y] \in Thread /\ owner[y] # t => owner'[y] = owner[y]
  BY <1>0, <1>2, <1>5
<1>14. ASSUME NEW u \in Thread, op[u].call = "pop", "high" \in op[u].got,
              header'.high.sequence = op[u].old.high.sequence
       PROVE  header'.high.depth > op[u].old.high.depth
  <2>1. PopFollows(u) /\ op[u] \in Op
    BY <1>0 DEF IInv
  <2>2. d >= op[u].old.high.depth
    BY <1>11, <1>14, <2>1 DEF PopFollows, d, q
  <2>3. op[u].old.high.depth \in Int
    BY <2>1, HeaderFacts DEF Op
  <2>4. \A a \in Int : d >= a => d + 1 > a
    BY <1>3
  <2> QED
    BY <1>11, <2>2, <2>3, <2>4
<1>15. IInv'
  BY <1>1, <1>10, <1>12, <1>13, <1>14, SwapOthers
<1>16. owner' = [owner EXCEPT ![x] = NoThread]
  BY <1>0, <1>5
<1>17. Promise!Push(t, x)
  BY <1>2, <1>11, <1>12, <1>16 DEF Promise!Push, d
<1> QED
  BY <1>15, <1>17

\* A flush that no pop overlaps takes the whole list.
LEMMA SwapFlush ==
  ASSUME FlushAlone, IInv, NEW t \in Thread, Swap(t), op[t].call = "flush"
  PROVE  IInv' /\ Promise!Flush(t)
<1>0. /\ header \in Header /\ link \in [Entry -> Ref] /\ op \in [Thread -> Op] /\ op[t] \in Op
      /\ owner \in [Entry -> Thread \cup {NoThread}] /\ Alone
  BY MoveFacts
<1>1. /\ op[t].pc = "swap" /\ header = op[t].old
      /\ header' = NewHeader(op[t]) /\ owner' = NewOwner(t, op[t])
      /\ op' = [op EXCEPT ![t] = NoOp] /\ link' = link
  BY DEF Swap, SetOp
<1>2. header.high.sequence \in Int /\ NoEntry \in Ref
  BY <1>0, HeaderFacts DEF Ref
<1>3. header' = NxpSListPack(NoEntry, 0, header.high.sequence)
  BY <1>1 DEF NewHeader
<1>4. HoldsIn(link, header.low, owner, header.high.depth, Items)
  BY ListIs DEF IInv
<1>5. \A x : x \in Listed(header.low) <=> \E i \in DOMAIN Items : Items[i] = x
  BY DEF Listed, Items
<1>6. owner' = [x \in Entry |-> IF \E i \in DOMAIN Items : Items[i] = x THEN t ELSE owner[x]]
  BY <1>1, <1>5 DEF NewOwner
<1>7. \A x \in Entry : owner[x] = NoThread <=> \E i \in DOMAIN Items : Items[i] = x
  BY <1>4 DEF HoldsIn
<1>8. \A x \in Entry : owner'[x] = IF owner[x] = NoThread THEN t ELSE owner[x]
  BY <1>6, <1>7
<1>9. PICK p : p = owner'
  OBVIOUS
<1>10. \A x \in Entry : p[x] # NoThread
  BY <1>0, <1>8, <1>9
<1>11. HoldsIn(link, NoEntry, p, 0, <<>>)
  BY <1>10, ListFlushed
<1>12. header' \in Header /\ header'.low = NoEntry /\ header'.high.depth = 0
  <2>1. 0 % UShort = 0
    BY WordFacts
  <2> QED
    BY <1>2, <1>3, <2>1, PackFacts
<1>13. Items' = <<>> /\ Holds(Items)'
  BY <1>1, <1>9, <1>11, <1>12, ListIs
<1>14. owner' \in [Entry -> Thread \cup {NoThread}]
       /\ \A x \in Entry : owner[x] \in Thread /\ owner[x] # t => owner'[x] = owner[x]
  <2>1. \A x \in Entry : owner'[x] \in Thread \cup {NoThread}
    BY <1>0, <1>8
  <2> QED
    BY <1>6, <1>8, <2>1
<1>15. \A u \in Thread : op[u].call # "pop"
  BY <1>0 DEF Alone
<1>16. IInv'
  BY <1>1, <1>12, <1>13, <1>14, <1>15, SwapOthers
<1>17. Promise!Flush(t)
  BY <1>6, <1>12, <1>13 DEF Promise!Flush
<1> QED
  BY <1>16, <1>17

-------------------------------------------------------------------------------
(* The theorems.                                                           *)

\* The initial state satisfies the invariant and is an empty stack.
LEMMA InitRefines == Init => IInv /\ Promise!Init
<1> SUFFICES ASSUME Init PROVE IInv /\ Promise!Init
  OBVIOUS
<1>1. /\ header = [low |-> NoEntry, high |-> [depth |-> 0, sequence |-> 0]] /\ header \in Header
      /\ NoOp \in Op /\ NoOp.call = "none" /\ NoOp.pc = "idle" /\ NoOp.got = {}
  BY IdleFacts DEF Init
<1>2. TypeOK
  BY <1>1 DEF TypeOK, Init, Ref
<1>3. \A t \in Thread : CallOK(t) /\ PopFollows(t)
  BY <1>1 DEF Init, CallOK, PopFollows
<1>4. Alone
  BY <1>1 DEF Init, Alone
<1>5. \A y \in Entry : owner[y] # NoThread
  BY DEF Init
<1>6. HoldsIn(link, header.low, owner, header.high.depth, <<>>)
  BY <1>1, <1>5, ListFlushed
<1>7. Items = <<>>
  BY <1>6, ItemsAre DEF HoldsIn
<1>8. Holds(Items)
  BY <1>6, <1>7, ListIs
<1>9. Promise!Init
  BY <1>1, <1>7 DEF Promise!Init, Init
<1> QED
  BY <1>2, <1>3, <1>4, <1>8, <1>9 DEF IInv

\* Every step preserves the invariant and is a step of the stack or leaves
\* the stack alone.
LEMMA NextRefines ==
  ASSUME FlushAlone, IInv, [Next]_vars
  PROVE  IInv' /\ [Promise!Next]_(Promise!vars)
<1>1. ASSUME NEW t \in Thread, Pop(t) \/ Flush(t) \/ \E e \in Entry : Push(t, e)
      PROVE  IInv' /\ [Promise!Next]_(Promise!vars)
  BY <1>1, CallStep DEF Promise!vars
<1>2. ASSUME NEW t \in Thread, NEW e \in Entry, Use(t, e)
      PROVE  IInv' /\ [Promise!Next]_(Promise!vars)
  BY <1>2, UseStep DEF Promise!vars
<1>3. ASSUME NEW t \in Thread, LoadHalf(t, "low") \/ LoadHalf(t, "high")
      PROVE  IInv' /\ [Promise!Next]_(Promise!vars)
  BY <1>3, LoadHalfStep DEF Promise!vars
<1>4. ASSUME NEW t \in Thread,
             ReturnEmpty(t) \/ PopLink(t) \/ PushLink(t) \/ FlushLink(t) \/ SwapFails(t)
      PROVE  IInv' /\ [Promise!Next]_(Promise!vars)
  BY <1>4, LinkStep DEF Promise!vars
<1>5. ASSUME NEW t \in Thread, Swap(t)
      PROVE  IInv' /\ [Promise!Next]_(Promise!vars)
  <2>1. op[t].call \in {"pop", "push", "flush"}
    <3>1. op[t] \in Op /\ CallOK(t) /\ NoOp.pc = "idle" /\ op[t].pc = "swap"
      BY <1>5, MoveFacts DEF Swap
    <3> QED
      BY <3>1 DEF CallOK, Op
  <2> QED
    BY <1>5, <2>1, SwapPop, SwapPush, SwapFlush DEF Promise!Next
<1>6. CASE UNCHANGED vars
  <2>1. UNCHANGED <<header, link, owner, op>>
    BY <1>6 DEF vars
  <2>2. Items' = Items
    BY <2>1 DEF Items, Chain, Spells
  <2>3. TypeOK' /\ Alone' /\ \A t \in Thread : CallOK(t)' /\ PopFollows(t)'
    BY <2>1 DEF IInv, TypeOK, Alone, CallOK, PopFollows
  <2>4. Holds(Items)'
    BY <2>1, <2>2 DEF IInv, Holds, Spells
  <2> QED
    BY <2>1, <2>2, <2>3, <2>4 DEF IInv, Promise!vars
<1> QED
  BY <1>1, <1>2, <1>3, <1>4, <1>5, <1>6 DEF Next, Attempt

\* When no flush meets a pop, every reachable state satisfies the invariant:
\* in particular the links never run in a circle, the depth is exact, and a
\* pop whose swap would succeed has the right link in hand.
THEOREM Invariance == ASSUME FlushAlone PROVE Spec => []IInv
<1>1. IInv /\ [Next]_vars => IInv'
  BY NextRefines
<1> QED
  BY <1>1, InitRefines, PTL DEF Spec

\* XeInterlockedPopEntrySList, XeInterlockedPushEntrySList and
\* ExInterlockedFlushSList implement a stack whose operations take effect at
\* one moment each, for every number of threads and entries.
THEOREM ImplementsStack == ASSUME FlushAlone PROVE Spec => RefinesStack
<1>1. Init => Promise!Init
  BY InitRefines
<1>2. IInv /\ [Next]_vars => [Promise!Next]_(Promise!vars)
  BY NextRefines
<1> QED
  BY <1>1, <1>2, Invariance, PTL DEF Spec, RefinesStack, Promise!Spec
==============================================================================
