-------------------------- MODULE PageSupplyProofs --------------------------
(* Theorems about the page supply, for every number of frames, every split *)
(* of the frames into classes, every boot layout, every set of owners and  *)
(* every set of contiguous requests.                                       *)
EXTENDS PageSupply, TLAPS, WellFoundedInduction, FiniteSetTheorems

USE HighestPfnAssumption, ClassAssumption, FloorAssumption, BootAssumption,
    ClaimAssumption, PtesAssumption, RequestsAssumption, WordSizeAssumption

-----------------------------------------------------------------------------
(* The scans: the lowest and the highest element they stop at exist.       *)

\* A nonempty set of naturals has a least element.
LEMMA LeastExists ==
    ASSUME NEW S \in SUBSET Nat, S # {}
    PROVE  \E m \in S : \A n \in S : m <= n
<1> DEFINE R == {ss \in Nat \X Nat : ss[1] < ss[2]}
<1>1. IsWellFoundedOn(R, Nat)
  BY NatLessThanWellFounded, Zenon DEF OpToRel
<1>2. \E m \in S : \A n \in S : ~(<<n, m>> \in R)
  BY <1>1, WFMin, Zenon
<1>3. ASSUME NEW m \in S, NEW n \in S, ~(<<n, m>> \in R)
      PROVE  m <= n
  <2>1. m \in Nat /\ n \in Nat /\ <<n, m>> \in Nat \X Nat
    OBVIOUS
  <2>2. ~ (n < m)
    BY <2>1, <1>3
  <2> QED
    BY <2>1, <2>2
<1> HIDE DEF R
<1> QED
  BY <1>2, <1>3, Zenon

\* A nonempty set of naturals with an upper bound has a greatest element.
LEMMA GreatestExists ==
    ASSUME NEW N \in Nat, NEW S \in SUBSET (0 .. N), S # {}
    PROVE  \E m \in S : \A n \in S : m >= n
<1> DEFINE T == {x \in 0 .. N : N - x \in S}
<1>1. T \in SUBSET Nat
  OBVIOUS
<1>2. T # {}
  <2>1. PICK s \in S : TRUE
    OBVIOUS
  <2>2. N - s \in T
    BY <2>1
  <2> QED
    BY <2>2
<1>3. PICK t \in T : \A u \in T : t <= u
  BY <1>1, <1>2, LeastExists
<1>4. N - t \in S
  OBVIOUS
<1>5. ASSUME NEW n \in S
      PROVE  N - t >= n
  <2>1. N - n \in T
    OBVIOUS
  <2> QED
    BY <2>1, <1>3
<1> QED
  BY <1>4, <1>5

\* The upward scan of TakeAny and TakeAnyOutside stops at the lowest element.
LEMMA LowestOfIsLowest ==
    ASSUME NEW S \in SUBSET Nat, S # {}
    PROVE  LowestOf(S) \in S /\ \A q \in S : LowestOf(S) <= q
  BY LeastExists DEF LowestOf

\* The downward scan of the run takers stops at the highest element.
LEMMA HighestOfIsHighest ==
    ASSUME NEW N \in Nat, NEW S \in SUBSET (0 .. N), S # {}
    PROVE  HighestOf(S) \in S /\ \A q \in S : HighestOf(S) >= q
  BY GreatestExists DEF HighestOf

\* TakeAny takes a free frame, and when it spills, the lowest generic one.
LEMMA AnyPfnIsFree ==
    ASSUME TypeOK, LinksAgree, AnyPfn # 0
    PROVE  /\ AnyPfn \in FreePages
           /\ NxpFreeHead["kernel"] = 0 =>
                 \A p \in FreePages : Generic(p) /\ p >= NxpSpillHint => p >= AnyPfn
<1>1. CASE NxpFreeHead["kernel"] # 0
  BY <1>1 DEF AnyPfn, TypeOK, LinksAgree, FreePages, Classes, Pages, PfnOrZero
<1>2. CASE NxpFreeHead["kernel"] = 0
  <2> DEFINE S == {p \in FreePages : p >= NxpSpillHint /\ Generic(p)}
  <2>1. AnyPfn = LowestOf(S)
    BY <1>2 DEF AnyPfn, SpillPfn
  <2>2. S \in SUBSET Nat
    BY DEF FreePages, Pages
  <2>3. S # {}
    BY <2>1 DEF LowestOf
  <2>4. LowestOf(S) \in S /\ \A q \in S : LowestOf(S) <= q
    BY <2>2, <2>3, LowestOfIsLowest
  <2> HIDE DEF S
  <2>5. AnyPfn \in S /\ \A q \in S : q >= AnyPfn
    BY <2>1, <2>4, <2>2
  <2> QED
    BY <2>5 DEF S
<1> QED
  BY <1>1, <1>2

\* TakeAnyOutside takes a free frame outside the window it was given.
LEMMA OutsidePfnIsOutside ==
    ASSUME NEW low, NEW high, OutsidePfn(low, high) # 0
    PROVE  /\ OutsidePfn(low, high) \in FreePages
           /\ OutsidePfn(low, high) < low \/ OutsidePfn(low, high) > high
<1> DEFINE out  == {p \in FreePages : p < low \/ p > high}
           up   == {p \in out : p >= NxpSpillHint}
           rest == {p \in out : NxpHeadFor(p) = "kernel" \/ Generic(p)}
<1>1. up # {} => LowestOf(up) \in up
  <2>1. up \in SUBSET Nat
    BY DEF FreePages, Pages
  <2> QED
    BY <2>1, LowestOfIsLowest
<1>2. OutsidePfn(low, high) \in out
  BY <1>1 DEF OutsidePfn
<1> QED
  BY <1>2

\* The base a contiguous request gets lies in its clamped window, and the run
\* holds only frames that are free or have an owner.
LEMMA RunBaseFits ==
    ASSUME NEW r \in Requests, RunBase(r) # 0
    PROVE  /\ RunBase(r) \in Pages
           /\ Window(RunBase(r), r.pages) \subseteq Pages
           /\ HighOf(r) \in PfnOrZero
           /\ \A p \in Window(RunBase(r), r.pages) : IsFree(p) \/ NxpLinks[p].owner # 0
<1>1. r.pages \in Nat \ {0} /\ r.low \in Nat /\ r.high \in Nat /\ r.align \in Nat \ {0}
  OBVIOUS
<1>2. LowOf(r) \in Nat \ {0} /\ HighOf(r) \in PfnOrZero
  BY <1>1 DEF LowOf, HighOf, PfnOrZero
<1>3. Bases(r) \in SUBSET (0 .. HighestPfn)
  BY <1>2 DEF Bases, PfnOrZero
<1>4. FreeRuns(r) \subseteq Bases(r) /\ RelocatableRuns(r) \subseteq Bases(r)
  BY DEF FreeRuns, RelocatableRuns
<1>5. RunBase(r) \in FreeRuns(r) \cup RelocatableRuns(r)
  <2>1. FreeRuns(r) # {} => HighestOf(FreeRuns(r)) \in FreeRuns(r)
    BY <1>3, <1>4, HighestOfIsHighest
  <2>2. RelocatableRuns(r) # {} => HighestOf(RelocatableRuns(r)) \in RelocatableRuns(r)
    BY <1>3, <1>4, HighestOfIsHighest
  <2>3. HighestOf({}) = 0
    BY DEF HighestOf
  <2> QED
    BY <2>1, <2>2, <2>3 DEF RunBase
<1>6. RunBase(r) \in Bases(r)
  BY <1>4, <1>5
<1>7. /\ RunBase(r) \in Pages
      /\ Window(RunBase(r), r.pages) \subseteq Pages
  BY <1>1, <1>2, <1>6 DEF Bases, Pages, PfnOrZero, Window
<1>8. \A p \in Window(RunBase(r), r.pages) : IsFree(p) \/ NxpLinks[p].owner # 0
  BY <1>5 DEF FreeRuns, RelocatableRuns, FreePages
<1> QED
  BY <1>2, <1>7, <1>8

-----------------------------------------------------------------------------
(* The free lists: what a push and an unlink do to the link words, stated   *)
(* frame by frame, and that this keeps links and heads in agreement.        *)

\* The links and heads after frame p has left the lists.
Left(p) ==
    /\ \A q \in Pages : NxpLinks'[q].free <=> NxpLinks[q].free /\ q # p
    /\ \A q \in Pages : NxpLinks'[q].free =>
          /\ NxpLinks'[q].prev = IF q = NxpLinks[p].next THEN NxpLinks[p].prev
                                 ELSE NxpLinks[q].prev
          /\ NxpLinks'[q].next = IF q = NxpLinks[p].prev THEN NxpLinks[p].next
                                 ELSE NxpLinks[q].next
    /\ \A c \in Classes : NxpFreeHead'[c] =
          IF NxpLinks[p].prev = 0 /\ c = NxpHeadFor(p) THEN NxpLinks[p].next
          ELSE NxpFreeHead[c]

\* The links and heads after frame p was pushed on its class's list.
Pushed(p) ==
    LET head == NxpFreeHead[NxpHeadFor(p)]
    IN  /\ \A q \in Pages : NxpLinks'[q].free <=> NxpLinks[q].free \/ q = p
        /\ NxpLinks'[p].prev = 0 /\ NxpLinks'[p].next = head
        /\ \A q \in Pages \ {p} : NxpLinks'[q].free =>
              /\ NxpLinks'[q].prev = IF q = head THEN p ELSE NxpLinks[q].prev
              /\ NxpLinks'[q].next = NxpLinks[q].next
        /\ \A c \in Classes : NxpFreeHead'[c] =
              IF c = NxpHeadFor(p) THEN p ELSE NxpFreeHead[c]

\* Taking a frame off its list keeps links and heads in agreement.
LEMMA LeftAgrees ==
    ASSUME TypeOK, LinksAgree, NEW p \in FreePages, Left(p)
    PROVE  LinksAgree'
<1> DEFINE prev(q) == NxpLinks[q].prev
           next(q) == NxpLinks[q].next
           free(q) == NxpLinks[q].free
           class(q) == NxpHeadFor(q)
<1>1. /\ p \in Pages /\ free(p)
      /\ \A q \in Pages : /\ prev(q) # 0 => prev(q) \in Pages
                          /\ next(q) # 0 => next(q) \in Pages
  BY DEF TypeOK, Entries, FreePages, IsFree, Pages, PfnOrZero
<1>2. \A q \in Pages : free(q) =>
         /\ prev(q) # 0 => free(prev(q)) /\ next(prev(q)) = q /\ class(prev(q)) = class(q)
         /\ next(q) # 0 => free(next(q)) /\ prev(next(q)) = q /\ class(next(q)) = class(q)
         /\ prev(q) = 0 => NxpFreeHead[class(q)] = q
  BY DEF LinksAgree, FreePages, IsFree
<1>3. \A c \in Classes : NxpFreeHead[c] # 0 =>
         /\ NxpFreeHead[c] \in Pages /\ free(NxpFreeHead[c])
         /\ prev(NxpFreeHead[c]) = 0 /\ class(NxpFreeHead[c]) = c
  BY DEF LinksAgree, IsFree, TypeOK, Pages, PfnOrZero
<1>4. \A q \in Pages : class(q) \in Classes
  BY DEF NxpHeadFor, Classes
<1>5. /\ \A q \in Pages : NxpLinks'[q].free <=> free(q) /\ q # p
      /\ \A q \in Pages : NxpLinks'[q].free =>
            /\ NxpLinks'[q].prev = IF q = next(p) THEN prev(p) ELSE prev(q)
            /\ NxpLinks'[q].next = IF q = prev(p) THEN next(p) ELSE next(q)
      /\ \A c \in Classes : NxpFreeHead'[c] =
            IF prev(p) = 0 /\ c = class(p) THEN next(p) ELSE NxpFreeHead[c]
  BY DEF Left
<1>6. 0 \notin Pages
  BY DEF Pages
<1> HIDE DEF prev, next, free, class
<1>7. ASSUME NEW q \in Pages, NxpLinks'[q].free
      PROVE  /\ NxpLinks'[q].prev # 0 =>
                   /\ NxpLinks'[NxpLinks'[q].prev].free
                   /\ NxpLinks'[NxpLinks'[q].prev].next = q
                   /\ class(NxpLinks'[q].prev) = class(q)
             /\ NxpLinks'[q].next # 0 =>
                   /\ NxpLinks'[NxpLinks'[q].next].free
                   /\ NxpLinks'[NxpLinks'[q].next].prev = q
                   /\ class(NxpLinks'[q].next) = class(q)
             /\ NxpLinks'[q].prev = 0 => NxpFreeHead'[class(q)] = q
  BY <1>1, <1>2, <1>3, <1>4, <1>5, <1>6, <1>7
<1>8. ASSUME NEW c \in Classes, NxpFreeHead'[c] # 0
      PROVE  /\ NxpLinks'[NxpFreeHead'[c]].free /\ NxpLinks'[NxpFreeHead'[c]].prev = 0
             /\ class(NxpFreeHead'[c]) = c
  BY <1>1, <1>2, <1>3, <1>4, <1>5, <1>6, <1>8
<1> QED
  BY <1>7, <1>8 DEF LinksAgree, FreePages, IsFree, class, NxpHeadFor

\* Pushing a frame that is in use keeps links and heads in agreement.
LEMMA PushedAgrees ==
    ASSUME TypeOK, LinksAgree, NEW p \in Pages, ~IsFree(p), Pushed(p)
    PROVE  LinksAgree'
<1> DEFINE prev(q) == NxpLinks[q].prev
           next(q) == NxpLinks[q].next
           free(q) == NxpLinks[q].free
           class(q) == NxpHeadFor(q)
           head == NxpFreeHead[NxpHeadFor(p)]
<1>1. ~free(p) /\ 0 \notin Pages
  BY DEF IsFree, Pages
<1>2. \A q \in Pages : free(q) =>
         /\ prev(q) # 0 => /\ prev(q) \in Pages /\ free(prev(q)) /\ next(prev(q)) = q
                           /\ class(prev(q)) = class(q)
         /\ next(q) # 0 => /\ next(q) \in Pages /\ free(next(q)) /\ prev(next(q)) = q
                           /\ class(next(q)) = class(q)
         /\ prev(q) = 0 => NxpFreeHead[class(q)] = q
  BY DEF LinksAgree, FreePages, IsFree, TypeOK, Entries, Pages, PfnOrZero
<1>3. \A c \in Classes : NxpFreeHead[c] # 0 =>
         /\ NxpFreeHead[c] \in Pages /\ free(NxpFreeHead[c])
         /\ prev(NxpFreeHead[c]) = 0 /\ class(NxpFreeHead[c]) = c
  BY DEF LinksAgree, IsFree, TypeOK, Pages, PfnOrZero
<1>4. \A q \in Pages : class(q) \in Classes
  BY DEF NxpHeadFor, Classes
<1>5. /\ \A q \in Pages : NxpLinks'[q].free <=> free(q) \/ q = p
      /\ NxpLinks'[p].prev = 0 /\ NxpLinks'[p].next = head
      /\ \A q \in Pages \ {p} : NxpLinks'[q].free =>
            /\ NxpLinks'[q].prev = IF q = head THEN p ELSE prev(q)
            /\ NxpLinks'[q].next = next(q)
      /\ \A c \in Classes : NxpFreeHead'[c] = IF c = class(p) THEN p ELSE NxpFreeHead[c]
      /\ head = NxpFreeHead[class(p)]
  BY DEF Pushed
<1> HIDE DEF prev, next, free, class, head
<1>7. ASSUME NEW q \in Pages, NxpLinks'[q].free
      PROVE  /\ NxpLinks'[q].prev # 0 =>
                   /\ NxpLinks'[NxpLinks'[q].prev].free
                   /\ NxpLinks'[NxpLinks'[q].prev].next = q
                   /\ class(NxpLinks'[q].prev) = class(q)
             /\ NxpLinks'[q].next # 0 =>
                   /\ NxpLinks'[NxpLinks'[q].next].free
                   /\ NxpLinks'[NxpLinks'[q].next].prev = q
                   /\ class(NxpLinks'[q].next) = class(q)
             /\ NxpLinks'[q].prev = 0 => NxpFreeHead'[class(q)] = q
  BY <1>1, <1>2, <1>3, <1>4, <1>5, <1>7
<1>8. ASSUME NEW c \in Classes, NxpFreeHead'[c] # 0
      PROVE  /\ NxpLinks'[NxpFreeHead'[c]].free /\ NxpLinks'[NxpFreeHead'[c]].prev = 0
             /\ class(NxpFreeHead'[c]) = c
  BY <1>1, <1>2, <1>3, <1>4, <1>5, <1>8
<1> QED
  BY <1>7, <1>8 DEF LinksAgree, FreePages, IsFree, class, NxpHeadFor

\* The link words of NxpUnlink(p).
LEMMA UnlinkedWords ==
    ASSUME TypeOK, LinksAgree, NEW p \in FreePages
    PROVE  /\ Unlinked(p) \in [Pages -> Entries]
           /\ Unlinked(p)[p] = InUse(0)
           /\ \A q \in Pages \ {p} :
                 /\ Unlinked(p)[q].free = NxpLinks[q].free
                 /\ ~IsFree(q) => Unlinked(p)[q] = NxpLinks[q]
                 /\ IsFree(q) =>
                       /\ Unlinked(p)[q].owner \in {0, NxpLinks[q].owner}
                       /\ Unlinked(p)[q].prev = IF q = NxpLinks[p].next THEN NxpLinks[p].prev
                                                ELSE NxpLinks[q].prev
                       /\ Unlinked(p)[q].next = IF q = NxpLinks[p].prev THEN NxpLinks[p].next
                                                ELSE NxpLinks[q].next
<1> DEFINE prev == NxpLinks[p].prev
           next == NxpLinks[p].next
           before == IF prev # 0 THEN [NxpLinks EXCEPT ![prev] = FreeEntry(@.prev, next)]
                     ELSE NxpLinks
           after == IF next # 0 THEN [before EXCEPT ![next] = FreeEntry(prev, @.next)]
                    ELSE before
<1>1. /\ p \in Pages /\ prev \in PfnOrZero /\ next \in PfnOrZero
      /\ NxpLinks \in [Pages -> Entries]
      /\ 0 \notin Pages
      /\ \A x \in PfnOrZero : x # 0 => x \in Pages
      /\ prev # 0 => NxpLinks[prev].free
      /\ next # 0 => NxpLinks[next].free
  BY DEF TypeOK, LinksAgree, FreePages, IsFree, Entries, PfnOrZero, Pages
<1>2. Unlinked(p) = [after EXCEPT ![p] = InUse(0)]
  BY DEF Unlinked
<1>3. before = [q \in Pages |-> IF q = prev THEN FreeEntry(NxpLinks[q].prev, next)
                               ELSE NxpLinks[q]]
  <2> HIDE DEF prev, next
  <2>1. CASE prev = 0
    BY <1>1, <2>1
  <2>2. CASE prev # 0
    BY <1>1, <2>2
  <2> QED
    BY <2>1, <2>2
<1> HIDE DEF prev, next, before
<1>4. after = [q \in Pages |-> IF q = next THEN FreeEntry(prev, before[q].next) ELSE before[q]]
  <2>1. CASE next = 0
    BY <1>1, <1>3, <2>1
  <2>2. CASE next # 0
    BY <1>1, <1>3, <2>2
  <2> QED
    BY <2>1, <2>2
<1> HIDE DEF after
<1>5. Unlinked(p) = [q \in Pages |-> IF q = p THEN InUse(0)
                                    ELSE IF q = next THEN FreeEntry(prev, before[q].next)
                                    ELSE before[q]]
  BY <1>2, <1>4
<1>6. \A x, y : /\ FreeEntry(x, y).free = TRUE /\ FreeEntry(x, y).owner = 0
                /\ FreeEntry(x, y).prev = x /\ FreeEntry(x, y).next = y
  BY DEF FreeEntry
<1>7. InUse(0) \in Entries /\ \A x, y \in PfnOrZero : FreeEntry(x, y) \in Entries
  BY DEF FreeEntry, InUse, Entries, PfnOrZero
<1>8. \A q \in Pages : NxpLinks[q].prev \in PfnOrZero /\ NxpLinks[q].next \in PfnOrZero
                     /\ NxpLinks[q].free \in BOOLEAN
  BY <1>1 DEF Entries
<1>9. ASSUME NEW q \in Pages
      PROVE  /\ before[q] = IF q = prev THEN FreeEntry(NxpLinks[q].prev, next) ELSE NxpLinks[q]
             /\ before[q] \in Entries /\ before[q].next \in PfnOrZero
             /\ before[q].free = NxpLinks[q].free
             /\ ~NxpLinks[q].free => before[q] = NxpLinks[q]
             /\ before[q].owner \in {0, NxpLinks[q].owner}
             /\ before[q].prev = NxpLinks[q].prev
             /\ before[q].next = IF q = prev THEN next ELSE NxpLinks[q].next
  <2>1. before[q] = IF q = prev THEN FreeEntry(NxpLinks[q].prev, next) ELSE NxpLinks[q]
    BY <1>3
  <2>2. NxpLinks[q] \in Entries
    BY <1>1
  <2>3. q = prev => NxpLinks[q].free = TRUE
    BY <1>1, <1>8
  <2>4. CASE q = prev
    <3>1. before[q] = FreeEntry(NxpLinks[q].prev, next)
      BY <2>1, <2>4
    <3>2. before[q].free = NxpLinks[q].free /\ NxpLinks[q].free
      <4>1. before[q].free = TRUE
        BY <1>6, <3>1
      <4> QED
        BY <2>3, <2>4, <4>1, Zenon
    <3> QED
      BY <1>1, <1>6, <1>7, <1>8, <2>4, <3>1, <3>2
  <2>5. CASE q # prev
    <3>1. before[q] = NxpLinks[q]
      BY <2>1, <2>5
    <3> QED
      BY <1>8, <2>2, <2>5, <3>1
  <2> QED
    BY <2>4, <2>5
<1>10. ASSUME NEW q \in Pages \ {p}
       PROVE  /\ Unlinked(p)[q].free = NxpLinks[q].free
              /\ ~NxpLinks[q].free => Unlinked(p)[q] = NxpLinks[q]
              /\ Unlinked(p)[q].owner \in {0, NxpLinks[q].owner}
              /\ Unlinked(p)[q].prev = IF q = next THEN prev ELSE NxpLinks[q].prev
              /\ Unlinked(p)[q].next = IF q = prev THEN next ELSE NxpLinks[q].next
  <2>1. Unlinked(p)[q] = IF q = next THEN FreeEntry(prev, before[q].next) ELSE before[q]
    BY <1>5
  <2>2. q = next => NxpLinks[q].free = TRUE
    BY <1>1, <1>8
  <2>3. CASE q = next
    <3>1. Unlinked(p)[q] = FreeEntry(prev, before[q].next)
      BY <2>1, <2>3
    <3>2. Unlinked(p)[q].free = NxpLinks[q].free /\ NxpLinks[q].free
      <4>1. Unlinked(p)[q].free = TRUE
        BY <1>6, <3>1
      <4> QED
        BY <2>2, <2>3, <4>1, Zenon
    <3> QED
      BY <1>6, <1>9, <2>3, <3>1, <3>2
  <2>4. CASE q # next
    <3>1. Unlinked(p)[q] = before[q]
      BY <2>1, <2>4
    <3> QED
      BY <1>9, <2>4, <3>1
  <2> QED
    BY <2>3, <2>4
<1>11. Unlinked(p) \in [Pages -> Entries] /\ Unlinked(p)[p] = InUse(0)
  BY <1>1, <1>5, <1>7, <1>9
<1> QED
  BY <1>10, <1>11 DEF IsFree, prev, next

\* NxkPageSupplyReturn of a frame in use: the lists, the hint and the types.
LEMMA ReturnPushes ==
    ASSUME TypeOK, LinksAgree, NEW p \in Pages, ~IsFree(p), NxkPageSupplyReturn(p)
    PROVE  /\ Pushed(p)
           /\ NxpLinks' \in [Pages -> Entries]
           /\ NxpFreeHead' \in [Classes -> PfnOrZero]
           /\ NxpSpillHint' \in Pages /\ NxpGenericAvail' \in Int /\ MmAvailablePages' \in Int
           /\ mem' \in [Pages -> Ptes \cup {0}]
           /\ NxpLinks'[p].owner = 0
           /\ \A q \in Pages \ {p} : /\ ~IsFree(q) => NxpLinks'[q] = NxpLinks[q]
                                     /\ IsFree(q) => NxpLinks'[q].owner \in {0, NxpLinks[q].owner}
<1> DEFINE class == NxpHeadFor(p)
           head  == NxpFreeHead[class]
<1>1. class \in Classes
  BY DEF NxpHeadFor, Classes
<1>2. head # 0 => head \in Pages /\ IsFree(head) /\ head # p
  BY <1>1 DEF TypeOK, LinksAgree, Pages, PfnOrZero
<1>3. head \in PfnOrZero /\ NxpLinks \in [Pages -> Entries]
  BY <1>1 DEF TypeOK
<1>4. NxpLinks' = [q \in Pages |-> IF q = p THEN FreeEntry(0, head)
                                   ELSE IF q = head THEN FreeEntry(p, NxpLinks[q].next)
                                   ELSE NxpLinks[q]]
  <2> DEFINE pushed == [NxpLinks EXCEPT ![p] = FreeEntry(0, head)]
  <2>1. NxpLinks' = IF head # 0 THEN [pushed EXCEPT ![head] = FreeEntry(p, pushed[head].next)]
                    ELSE pushed
    BY DEF NxkPageSupplyReturn, NxpPushHead
  <2>2. pushed = [q \in Pages |-> IF q = p THEN FreeEntry(0, head) ELSE NxpLinks[q]]
    BY <1>3
  <2>3. head # 0 => pushed[head] = NxpLinks[head]
    BY <1>2, <2>2
  <2> HIDE DEF pushed, head
  <2>4. CASE head = 0
    BY <2>1, <2>2, <2>4 DEF Pages
  <2>5. CASE head # 0
    BY <2>1, <2>2, <2>3, <2>5, <1>2
  <2> QED
    BY <2>4, <2>5
<1>5. NxpFreeHead' = [c \in Classes |-> IF c = class THEN p ELSE NxpFreeHead[c]]
  BY <1>1 DEF NxkPageSupplyReturn, NxpPushHead, TypeOK
<1> HIDE DEF class, head
<1>6. NxpLinks' \in [Pages -> Entries]
  BY <1>3, <1>4 DEF FreeEntry, Entries, PfnOrZero, Pages
<1>7. NxpFreeHead' \in [Classes -> PfnOrZero]
  BY <1>5 DEF TypeOK, PfnOrZero, Pages
<1>8. /\ \A q \in Pages : NxpLinks'[q].free <=> NxpLinks[q].free \/ q = p
      /\ NxpLinks'[p].prev = 0 /\ NxpLinks'[p].next = head /\ NxpLinks'[p].owner = 0
  <2>1. \A q \in Pages : NxpLinks'[q] = IF q = p THEN FreeEntry(0, head)
                                        ELSE IF q = head THEN FreeEntry(p, NxpLinks[q].next)
                                        ELSE NxpLinks[q]
    BY <1>4
  <2>2. \A x, y : FreeEntry(x, y).free /\ FreeEntry(x, y).prev = x /\ FreeEntry(x, y).next = y
                 /\ FreeEntry(x, y).owner = 0
    BY DEF FreeEntry
  <2>3. head = 0 \/ NxpLinks[head].free
    BY <1>2 DEF IsFree
  <2>4. 0 \notin Pages
    BY DEF Pages
  <2> QED
    BY <2>1, <2>2, <2>3, <2>4
<1>9. \A q \in Pages \ {p} :
         /\ NxpLinks'[q].prev = IF q = head THEN p ELSE NxpLinks[q].prev
         /\ NxpLinks'[q].next = NxpLinks[q].next
         /\ ~IsFree(q) => NxpLinks'[q] = NxpLinks[q]
         /\ IsFree(q) => NxpLinks'[q].owner \in {0, NxpLinks[q].owner}
  <2>1. ASSUME NEW q \in Pages \ {p}
        PROVE  NxpLinks'[q] = IF q = head THEN FreeEntry(p, NxpLinks[q].next) ELSE NxpLinks[q]
    BY <1>4
  <2>2. \A x, y : FreeEntry(x, y).free /\ FreeEntry(x, y).prev = x /\ FreeEntry(x, y).next = y
                 /\ FreeEntry(x, y).owner = 0
    BY DEF FreeEntry
  <2>3. head = 0 \/ IsFree(head)
    BY <1>2
  <2>4. 0 \notin Pages
    BY DEF Pages
  <2> QED
    BY <2>1, <2>2, <2>3, <2>4
<1>10. /\ NxpSpillHint' \in Pages /\ NxpGenericAvail' \in Int /\ MmAvailablePages' \in Int
       /\ mem' \in [Pages -> Ptes \cup {0}]
  BY DEF TypeOK, NxkPageSupplyReturn, NxpPushHead, Pages
<1> QED
  BY <1>5, <1>6, <1>7, <1>8, <1>9, <1>10 DEF Pushed, class, head

\* The head and the counters after NxpUnlink keep their types.
LEMMA UnlinkHeadTypes ==
    ASSUME TypeOK, NEW p \in Pages, UnlinkHead(p)
    PROVE  /\ NxpFreeHead' \in [Classes -> PfnOrZero]
           /\ NxpGenericAvail' \in Int /\ MmAvailablePages' \in Int
           /\ \A c \in Classes : NxpFreeHead'[c] =
                 IF NxpLinks[p].prev = 0 /\ c = NxpHeadFor(p) THEN NxpLinks[p].next
                 ELSE NxpFreeHead[c]
  BY DEF TypeOK, UnlinkHead, Entries, Classes, NxpHeadFor

-----------------------------------------------------------------------------
(* What the steps do to the two things the other invariants are about:     *)
(* which frames are free, and which have an owner.                         *)

\* Frame p, and no other, stops being free; no owner word changes.
Took(p) == \A q \in Pages : /\ NxpLinks'[q].free <=> NxpLinks[q].free /\ q # p
                            /\ NxpLinks'[q].owner = NxpLinks[q].owner

\* Frame p, and no other, becomes free and loses its owner.
Gave(p) == \A q \in Pages : /\ NxpLinks'[q].free <=> NxpLinks[q].free \/ q = p
                            /\ NxpLinks'[q].owner = IF q = p THEN 0 ELSE NxpLinks[q].owner

\* A running operation works on a frame of the supply.
LEMMA RunningOp ==
    ASSUME TypeOK, op.kind # "idle"
    PROVE  /\ op \in Ops /\ op # Idle /\ Current \in Pages
           /\ op.base \in Pages /\ op.pages \in Pages /\ op.done \in Nat
           /\ op.done < op.pages /\ op.base + op.pages - 1 <= HighestPfn
<1>1. op \in Ops /\ op # Idle /\ op.done < op.pages /\ Window(op.base, op.pages) \subseteq Pages
  BY DEF TypeOK, Idle
<1>2. op.base \in Nat /\ op.pages \in Nat /\ op.done \in Nat
  BY <1>1 DEF Ops, PfnOrZero
<1>3. op.base \in Window(op.base, op.pages) /\ op.base + op.pages - 1 \in Window(op.base, op.pages)
  BY <1>1, <1>2 DEF Window
<1> QED
  BY <1>1, <1>2, <1>3 DEF Pages, Current

\* Moving on keeps the operation inside its frames.
LEMMA AdvanceTypes ==
    ASSUME TypeOK, op.kind # "idle"
    PROVE  /\ Advance \in Ops
           /\ Advance = Idle \/ (Advance.done < Advance.pages
                                   /\ Window(Advance.base, Advance.pages) \subseteq Pages)
           /\ Advance.kind = "boot" => Advance.base = 1 /\ Advance.pages = HighestPfn
           /\ Advance.kind # "idle" => /\ Advance.kind = op.kind
                                       /\ Advance.base = op.base /\ Advance.pages = op.pages
                                       /\ Advance.done = op.done + 1
           /\ Advance.kind = "idle" => op.done + 1 = op.pages
<1>1. /\ op \in Ops /\ op # Idle /\ Current \in Pages
      /\ op.base \in Pages /\ op.pages \in Pages /\ op.done \in Nat
      /\ op.done < op.pages /\ op.base + op.pages - 1 <= HighestPfn
  BY RunningOp
<1>2. CASE op.done + 1 = op.pages
  BY <1>2 DEF Advance, Idle, Ops, PfnOrZero
<1>3. CASE op.done + 1 # op.pages
  <2>1. Advance = [op EXCEPT !.done = op.done + 1]
    BY <1>3 DEF Advance
  <2>2. Advance \in Ops /\ Advance.kind = op.kind /\ Advance.base = op.base
        /\ Advance.pages = op.pages /\ Advance.done = op.done + 1
    BY <1>1, <1>3, <2>1 DEF Ops, PfnOrZero, Pages
  <2> QED
    BY <1>1, <1>3, <2>2 DEF TypeOK, Pages
<1> QED
  BY <1>2, <1>3

\* NxpUnlink of a free frame.
LEMMA UnlinkTakes ==
    ASSUME TypeOK, LinksAgree, OwnersAgree, NEW p \in FreePages, NxpUnlink(p)
    PROVE  /\ Took(p) /\ LinksAgree'
           /\ NxpLinks' \in [Pages -> Entries]
           /\ NxpFreeHead' \in [Classes -> PfnOrZero]
           /\ NxpGenericAvail' \in Int /\ MmAvailablePages' \in Int
<1>1. p \in Pages /\ IsFree(p)
  BY DEF FreePages
<1>2. NxpLinks' = Unlinked(p) /\ UnlinkHead(p)
  BY DEF NxpUnlink
<1>3. \A q \in FreePages : NxpLinks[q].owner = 0
  BY DEF OwnersAgree, FreePages
<1>4. InUse(0).free = FALSE /\ InUse(0).owner = 0
  BY DEF InUse
<1>5. Took(p)
  <2>1. SUFFICES ASSUME NEW q \in Pages
                 PROVE  /\ NxpLinks'[q].free <=> NxpLinks[q].free /\ q # p
                        /\ NxpLinks'[q].owner = NxpLinks[q].owner
    BY DEF Took
  <2>2. CASE q = p
    BY <1>1, <1>2, <1>3, <1>4, <2>2, UnlinkedWords DEF FreePages
  <2>3. CASE q # p
    BY <1>2, <1>3, <2>3, UnlinkedWords DEF IsFree, FreePages
  <2> QED
    BY <2>2, <2>3
<1>6. Left(p)
  <2>1. \A c \in Classes : NxpFreeHead'[c] =
           IF NxpLinks[p].prev = 0 /\ c = NxpHeadFor(p) THEN NxpLinks[p].next
           ELSE NxpFreeHead[c]
    BY <1>1, <1>2, UnlinkHeadTypes
  <2>2. ASSUME NEW q \in Pages, NxpLinks'[q].free
        PROVE  /\ NxpLinks'[q].prev = IF q = NxpLinks[p].next THEN NxpLinks[p].prev
                                      ELSE NxpLinks[q].prev
               /\ NxpLinks'[q].next = IF q = NxpLinks[p].prev THEN NxpLinks[p].next
                                      ELSE NxpLinks[q].next
    BY <1>2, <1>5, <2>2, UnlinkedWords DEF Took, IsFree
  <2> QED
    BY <1>5, <2>1, <2>2 DEF Left, Took
<1>7. LinksAgree'
  BY <1>6, LeftAgrees
<1> QED
  BY <1>1, <1>2, <1>5, <1>7, UnlinkedWords, UnlinkHeadTypes

\* NxkPageSupplyReturn of a frame in use.
LEMMA ReturnGives ==
    ASSUME TypeOK, LinksAgree, OwnersAgree, SpillHintSound,
           NEW p \in Pages, ~IsFree(p), NxkPageSupplyReturn(p)
    PROVE  /\ Gave(p) /\ LinksAgree' /\ SpillHintSound'
           /\ NxpLinks' \in [Pages -> Entries]
           /\ NxpFreeHead' \in [Classes -> PfnOrZero]
           /\ NxpSpillHint' \in Pages /\ NxpGenericAvail' \in Int /\ MmAvailablePages' \in Int
           /\ mem' \in [Pages -> Ptes \cup {0}] /\ mem' = [mem EXCEPT ![p] = 0]
<1>1. \A q \in FreePages : NxpLinks[q].owner = 0
  BY DEF OwnersAgree, FreePages
<1>2. Gave(p)
  <2>1. SUFFICES ASSUME NEW q \in Pages
                 PROVE  /\ NxpLinks'[q].free <=> NxpLinks[q].free \/ q = p
                        /\ NxpLinks'[q].owner = IF q = p THEN 0 ELSE NxpLinks[q].owner
    BY DEF Gave
  <2>2. NxpLinks'[q].free <=> NxpLinks[q].free \/ q = p
    BY ReturnPushes DEF Pushed
  <2>3. NxpLinks'[q].owner = IF q = p THEN 0 ELSE NxpLinks[q].owner
    BY <1>1, ReturnPushes DEF FreePages
  <2> QED
    BY <2>2, <2>3
<1>3. LinksAgree'
  BY ReturnPushes, PushedAgrees
<1>4. SpillHintSound'
  BY <1>2 DEF SpillHintSound, Gave, FreePages, IsFree, Generic, NxkPageSupplyReturn, TypeOK, Pages
<1> QED
  BY <1>2, <1>3, <1>4, ReturnPushes DEF NxkPageSupplyReturn

-----------------------------------------------------------------------------
(* The inductive invariant.  None of its conjuncts is inductive alone: the  *)
(* lists stay in agreement because only frames in use are returned, which   *)
(* is NoFrameShared; that holds through a relocation because the frames     *)
(* still to come are free or owned (WindowOpen) and owners and entries name *)
(* each other (OwnersAgree).                                                *)

IInv ==
    /\ TypeOK
    /\ LinksAgree
    /\ SpillHintSound
    /\ OwnersAgree
    /\ ContentsFollow
    /\ NoFrameShared
    /\ WindowOpen

\* Taking a frame for nobody in particular disturbs no entry and no owner.
LEMMA TookKeeps ==
    ASSUME TypeOK, OwnersAgree, ContentsFollow, SpillHintSound,
           NEW p \in FreePages, Took(p), UNCHANGED <<pte, mem>>
    PROVE  /\ OwnersAgree' /\ ContentsFollow'
           /\ UNCHANGED NxpSpillHint => SpillHintSound'
           /\ Unowned(p)'
           /\ \A q \in Pages : Unowned(q) => Unowned(q)'
<1>1. p \in Pages /\ NxpLinks[p].free /\ \A e \in Ptes : pte[e] # p
  BY DEF FreePages, IsFree, OwnersAgree, Pages
<1>2. \A e \in Ptes : pte[e] # 0 => pte[e] \in Pages
  BY DEF TypeOK, Pages, PfnOrZero
<1>3. pte' = pte /\ mem' = mem
  OBVIOUS
<1>4. OwnersAgree'
  BY <1>1, <1>2, <1>3 DEF OwnersAgree, Took, IsFree
<1>5. ContentsFollow'
  BY <1>3 DEF ContentsFollow
<1>6. UNCHANGED NxpSpillHint => SpillHintSound'
  BY DEF SpillHintSound, Took, FreePages, IsFree, Generic
<1>7. Unowned(p)'
  BY <1>1, <1>3 DEF Unowned, Took, IsFree, OwnersAgree
<1>8. ASSUME NEW q \in Pages, Unowned(q)
      PROVE  Unowned(q)'
  BY <1>3, <1>8 DEF Unowned, Took, IsFree
<1> QED
  BY <1>4, <1>5, <1>6, <1>7, <1>8

\* Returning a frame no entry maps disturbs no entry and no owner.
LEMMA GaveKeeps ==
    ASSUME TypeOK, OwnersAgree, ContentsFollow, NEW p \in Pages, Unowned(p), Gave(p),
           UNCHANGED pte, mem' = [mem EXCEPT ![p] = 0]
    PROVE  /\ OwnersAgree' /\ ContentsFollow'
           /\ \A q \in Pages \ {p} : Unowned(q) => Unowned(q)'
<1>1. \A e \in Ptes : pte[e] # p
  BY DEF Unowned
<1>2. \A e \in Ptes : pte[e] # 0 => pte[e] \in Pages
  BY DEF TypeOK, Pages, PfnOrZero
<1>3. OwnersAgree'
  BY <1>1, <1>2 DEF OwnersAgree, Gave, IsFree
<1>4. ContentsFollow'
  BY <1>1, <1>2 DEF ContentsFollow, TypeOK
<1>5. ASSUME NEW q \in Pages \ {p}, Unowned(q)
      PROVE  Unowned(q)'
  BY <1>5 DEF Unowned, Gave, IsFree
<1> QED
  BY <1>3, <1>4, <1>5

\* The invariant holds before boot.
LEMMA InitIInv == Init => IInv
<1> SUFFICES ASSUME Init PROVE IInv
  OBVIOUS
<1>1. \A p \in Pages : NxpLinks[p] = InUse(0) /\ ~IsFree(p) /\ NxpLinks[p].owner = 0
  BY DEF Init, IsFree, InUse
<1>2. op = [kind |-> "boot", base |-> 1, pages |-> HighestPfn, done |-> 0]
  BY DEF Init, Begin
<1>3. TypeOK
  <2>1. InUse(0) \in Entries
    BY DEF InUse, Entries, PfnOrZero
  <2>2. op \in Ops /\ op.done < op.pages /\ Window(op.base, op.pages) \subseteq Pages
    BY <1>2 DEF Ops, PfnOrZero, Window, Pages
  <2> QED
    BY <2>1, <2>2, <1>2 DEF Init, TypeOK, PfnOrZero, Pages
<1>4. FreePages = {}
  BY <1>1 DEF FreePages
<1>5. LinksAgree /\ SpillHintSound
  BY <1>4 DEF LinksAgree, SpillHintSound, Init
<1>6. OwnersAgree /\ ContentsFollow
  BY <1>1 DEF OwnersAgree, ContentsFollow, Init
<1>7. NoFrameShared
  <2>1. InFlight \subseteq BootFree
    BY <1>2 DEF InFlight
  <2>2. \A p \in Pages : Unowned(p)
    BY <1>1 DEF Unowned, Init, Pages
  <2> QED
    BY <2>1, <2>2 DEF NoFrameShared, Init, Reserved
<1>8. WindowOpen
  BY <1>2 DEF WindowOpen
<1> QED
  BY <1>3, <1>5, <1>6, <1>7, <1>8 DEF IInv

-----------------------------------------------------------------------------
(* Every step keeps the invariant: one lemma per action.                   *)

\* With the lock free nothing is in flight and no window is open.
LEMMA IdleFacts ==
    ASSUME op = Idle
    PROVE  InFlight = {} /\ op.kind = "idle" /\ WindowOpen
  BY DEF InFlight, Idle, WindowOpen

\* The same for the state after a step.
LEMMA IdleFactsNext ==
    ASSUME op' = Idle
    PROVE  InFlight' = {} /\ op'.kind = "idle" /\ WindowOpen'
  BY DEF InFlight, Idle, WindowOpen

\* A recorded run lies inside the supply.
LEMMA RunWindows ==
    ASSUME NEW r \in Runs, NEW q, InRun(q, r)
    PROVE  q \in Pages
  BY DEF Runs, InRun, Window, Pages

\* NxkPageSupplyTakeAny keeps the invariant.
LEMMA TakeAnyIInv == IInv /\ TakeAny => IInv'
<1> SUFFICES ASSUME IInv, TakeAny PROVE IInv'
  OBVIOUS
<1> USE DEF IInv
<1>0. PICK p : p = AnyPfn
  OBVIOUS
<1>1. /\ op = Idle /\ op' = Idle /\ p # 0 /\ NxpUnlink(p)
      /\ NxpSpillHint' = IF NxpFreeHead["kernel"] = 0 THEN p ELSE NxpSpillHint
      /\ singles' = singles \cup {p}
      /\ UNCHANGED <<pte, mem, runs, op>>
  BY <1>0 DEF TakeAny
<1>2. /\ p \in FreePages
      /\ NxpFreeHead["kernel"] = 0 =>
            \A q \in FreePages : Generic(q) /\ q >= NxpSpillHint => q >= p
  BY <1>0, <1>1, AnyPfnIsFree
<1>3. /\ Took(p) /\ LinksAgree'
      /\ NxpLinks' \in [Pages -> Entries]
      /\ NxpFreeHead' \in [Classes -> PfnOrZero]
      /\ NxpGenericAvail' \in Int /\ MmAvailablePages' \in Int
  BY <1>1, <1>2, UnlinkTakes
<1>4. /\ OwnersAgree' /\ ContentsFollow'
      /\ Unowned(p)'
      /\ \A q \in Pages : Unowned(q) => Unowned(q)'
  BY <1>1, <1>2, <1>3, TookKeeps
<1>5. p \in Pages /\ IsFree(p)
  BY <1>2 DEF FreePages
<1>6. TypeOK'
  BY <1>1, <1>3, <1>5 DEF TypeOK
<1>7. SpillHintSound'
  BY <1>1, <1>2, <1>3 DEF SpillHintSound, Took, FreePages, IsFree, Generic
<1>8. NoFrameShared'
  <2>1. p \notin singles /\ p \notin Reserved /\ \A r \in runs : ~InRun(p, r)
    BY <1>5 DEF NoFrameShared, Unowned, InRun
  <2> QED
    <3>1. \A r \in runs : \A q : InRun(q, r) => q \in Pages
      BY RunWindows DEF TypeOK
    <3>2. InFlight = {} /\ InFlight' = {}
      BY <1>1, IdleFacts, IdleFactsNext
    <3>3. pte' = pte /\ runs' = runs /\ Reserved' = Reserved /\ Reserved \subseteq Pages
          /\ singles \subseteq Pages
      BY <1>1 DEF Reserved, TypeOK
    <3> QED
      BY <1>1, <1>4, <1>5, <2>1, <3>1, <3>2, <3>3 DEF NoFrameShared, InRun
<1> QED
  BY <1>1, <1>3, <1>4, <1>6, <1>7, <1>8, IdleFactsNext

\* NxkPageSupplyTakeSpecific keeps the invariant.
LEMMA TakeSpecificIInv == \A p \in ClaimPages : IInv /\ TakeSpecific(p) => IInv'
<1> SUFFICES ASSUME IInv, NEW p \in ClaimPages, TakeSpecific(p) PROVE IInv'
  OBVIOUS
<1> USE DEF IInv
<1> DEFINE run == [base |-> p, pages |-> 1]
<1>1. /\ op = Idle /\ op' = Idle /\ IsFree(p) /\ NxpUnlink(p)
      /\ runs' = runs \cup {run}
      /\ UNCHANGED <<NxpSpillHint, pte, mem, singles, op>>
  BY DEF TakeSpecific
<1>2. p \in Pages /\ p \in FreePages
  BY <1>1 DEF FreePages
<1>3. /\ Took(p) /\ LinksAgree'
      /\ NxpLinks' \in [Pages -> Entries]
      /\ NxpFreeHead' \in [Classes -> PfnOrZero]
      /\ NxpGenericAvail' \in Int /\ MmAvailablePages' \in Int
  BY <1>1, <1>2, UnlinkTakes
<1>4. /\ OwnersAgree' /\ ContentsFollow' /\ SpillHintSound'
      /\ Unowned(p)'
      /\ \A q \in Pages : Unowned(q) => Unowned(q)'
  BY <1>1, <1>2, <1>3, TookKeeps
<1>5. run \in Runs /\ \A q : InRun(q, run) <=> q = p
  BY <1>2 DEF Runs, InRun, Window, Pages
<1>6. TypeOK'
  BY <1>1, <1>3, <1>5 DEF TypeOK
<1> HIDE DEF run
<1>7. NoFrameShared'
  <2>1. p \notin singles /\ p \notin Reserved /\ \A r \in runs : ~InRun(p, r)
    BY <1>1, <1>2 DEF NoFrameShared, Unowned, InRun
  <2>2. \A r \in runs : \A q : InRun(q, r) => q \in Pages
    BY RunWindows DEF TypeOK
  <2>3. InFlight = {} /\ InFlight' = {}
    BY <1>1, IdleFacts, IdleFactsNext
  <2>4. /\ pte' = pte /\ singles' = singles /\ Reserved' = Reserved
        /\ Reserved \subseteq Pages /\ singles \subseteq Pages
    BY <1>1 DEF Reserved, TypeOK
  <2> QED
    BY <1>1, <1>2, <1>4, <1>5, <2>1, <2>2, <2>3, <2>4 DEF NoFrameShared, InRun
<1> QED
  BY <1>1, <1>3, <1>4, <1>6, <1>7, IdleFactsNext

\* Returning a frame that was taken alone keeps the invariant.
LEMMA ReturnSingleIInv == \A p \in singles : IInv /\ ReturnSingle(p) => IInv'
<1> SUFFICES ASSUME IInv, NEW p \in singles, ReturnSingle(p) PROVE IInv'
  OBVIOUS
<1> USE DEF IInv
<1>1. /\ op = Idle /\ op' = Idle /\ NxkPageSupplyReturn(p)
      /\ singles' = singles \ {p}
      /\ UNCHANGED <<pte, runs, op>>
  BY DEF ReturnSingle
<1>2. p \in Pages /\ Unowned(p) /\ ~IsFree(p)
  BY DEF TypeOK, NoFrameShared, Unowned
<1>3. /\ Gave(p) /\ LinksAgree' /\ SpillHintSound'
      /\ NxpLinks' \in [Pages -> Entries]
      /\ NxpFreeHead' \in [Classes -> PfnOrZero]
      /\ NxpSpillHint' \in Pages /\ NxpGenericAvail' \in Int /\ MmAvailablePages' \in Int
      /\ mem' \in [Pages -> Ptes \cup {0}] /\ mem' = [mem EXCEPT ![p] = 0]
  BY <1>1, <1>2, ReturnGives
<1>4. /\ OwnersAgree' /\ ContentsFollow'
      /\ \A q \in Pages \ {p} : Unowned(q) => Unowned(q)'
  BY <1>1, <1>2, <1>3, GaveKeeps
<1>5. TypeOK'
  BY <1>1, <1>3 DEF TypeOK
<1>6. NoFrameShared'
  <2>1. \A r \in runs : \A q : InRun(q, r) => q \in Pages \ {p}
    BY RunWindows DEF TypeOK, NoFrameShared
  <2>2. InFlight = {} /\ InFlight' = {}
    BY <1>1, IdleFacts, IdleFactsNext
  <2>3. /\ pte' = pte /\ runs' = runs /\ Reserved' = Reserved
        /\ Reserved \subseteq Pages \ {p} /\ singles' \subseteq Pages \ {p}
    BY <1>1 DEF Reserved, TypeOK, NoFrameShared
  <2> QED
    BY <1>1, <1>4, <2>1, <2>2, <2>3 DEF NoFrameShared, InRun
<1> QED
  BY <1>1, <1>3, <1>4, <1>5, <1>6, IdleFactsNext

\* Mapping a frame that was taken keeps the invariant.
LEMMA WritePteIInv == \A e \in Ptes, p \in singles : IInv /\ WritePte(e, p) => IInv'
<1> SUFFICES ASSUME IInv, NEW e \in Ptes, NEW p \in singles, WritePte(e, p) PROVE IInv'
  OBVIOUS
<1> USE DEF IInv
<1>1. /\ op = Idle /\ op' = Idle /\ pte[e] = 0
      /\ pte' = [pte EXCEPT ![e] = p]
      /\ mem' = [mem EXCEPT ![p] = e]
      /\ singles' = singles \ {p}
      /\ UNCHANGED <<supply, runs, op>>
  BY DEF WritePte
<1>2. /\ p \in Pages /\ Unowned(p)
      /\ pte \in [Ptes -> PfnOrZero] /\ mem \in [Pages -> Ptes \cup {0}]
      /\ NxpLinks' = NxpLinks /\ NxpFreeHead' = NxpFreeHead /\ NxpSpillHint' = NxpSpillHint
      /\ p # 0
  BY <1>1 DEF TypeOK, NoFrameShared, Pages, supply
<1>3. TypeOK'
  BY <1>1, <1>2 DEF TypeOK, supply, Pages, PfnOrZero
<1>4. LinksAgree' /\ SpillHintSound'
  BY <1>2 DEF LinksAgree, SpillHintSound, FreePages, IsFree, Generic
<1>5. \A f \in Ptes : pte'[f] = IF f = e THEN p ELSE pte[f]
  BY <1>1, <1>2
<1>6. OwnersAgree'
  <2>1. \A q \in Pages : NxpLinks[q].owner # 0 => NxpLinks[q].owner \in Ptes /\ q # 0
    BY DEF TypeOK, Entries, Pages
  <2>2. ASSUME NEW q \in Pages, NxpLinks'[q].owner # 0
        PROVE  ~IsFree(q)' /\ pte'[NxpLinks'[q].owner] = q
    BY <1>1, <1>2, <1>5, <2>1, <2>2 DEF OwnersAgree, IsFree
  <2>3. ASSUME NEW f \in Ptes, pte'[f] # 0
        PROVE  ~NxpLinks'[pte'[f]].free /\ NxpLinks'[pte'[f]].owner \in {0, f}
    BY <1>2, <1>5, <2>3 DEF OwnersAgree, Unowned, IsFree
  <2> QED
    BY <2>2, <2>3 DEF OwnersAgree, IsFree
<1>7. ContentsFollow'
  <2>1. \A f \in Ptes : f # e => pte[f] # p
    BY <1>2 DEF Unowned
  <2>2. \A f \in Ptes : pte[f] # 0 => pte[f] \in Pages
    BY <1>2 DEF Pages, PfnOrZero
  <2> QED
    BY <1>1, <1>2, <1>5, <2>1, <2>2 DEF ContentsFollow
<1>8. NoFrameShared'
  <2>1. \A q \in Pages \ {p} : Unowned(q) => Unowned(q)'
    BY <1>2, <1>5 DEF Unowned, IsFree
  <2>2. \A r \in runs : \A q : InRun(q, r) => q \in Pages \ {p}
    BY RunWindows DEF TypeOK, NoFrameShared
  <2>3. InFlight = {} /\ InFlight' = {}
    BY <1>1, IdleFacts, IdleFactsNext
  <2>4. /\ runs' = runs /\ Reserved' = Reserved
        /\ Reserved \subseteq Pages \ {p} /\ singles' \subseteq Pages \ {p}
    BY <1>1 DEF Reserved, TypeOK, NoFrameShared
  <2>5. \A f, g \in Ptes : pte'[f] = pte'[g] /\ pte'[f] # 0 => f = g
    BY <1>2, <1>5 DEF NoFrameShared, Unowned
  <2> QED
    BY <1>1, <2>1, <2>2, <2>3, <2>4, <2>5 DEF NoFrameShared, InRun
<1> QED
  BY <1>1, <1>3, <1>4, <1>6, <1>7, <1>8, IdleFactsNext

\* Setting or clearing the owner word of a mapped frame keeps the invariant.
LEMMA SetOwnerIInv ==
    \A e \in Ptes : \A owner \in {0, e} : IInv /\ SetOwner(e, owner) => IInv'
<1> SUFFICES ASSUME IInv, NEW e \in Ptes, NEW owner \in {0, e}, SetOwner(e, owner) PROVE IInv'
  OBVIOUS
<1> USE DEF IInv
<1>0. PICK p : p = pte[e]
  OBVIOUS
<1>1. /\ op = Idle /\ op' = Idle /\ p # 0 /\ ~IsFree(p)
      /\ NxpLinks' = [NxpLinks EXCEPT ![p] = InUse(owner)]
      /\ UNCHANGED <<NxpFreeHead, NxpSpillHint, NxpGenericAvail, MmAvailablePages,
                     pte, mem, singles, runs, op>>
  BY <1>0 DEF SetOwner, clients
<1>2. p \in Pages /\ NxpLinks \in [Pages -> Entries]
  BY <1>0, <1>1 DEF TypeOK, Pages, PfnOrZero
<1>3. /\ InUse(owner) \in Entries /\ InUse(owner).free = FALSE /\ InUse(owner).owner = owner
  BY DEF InUse, Entries, PfnOrZero
<1>4. \A q \in Pages : NxpLinks'[q] = IF q = p THEN InUse(owner) ELSE NxpLinks[q]
  BY <1>1, <1>2
<1>5. TypeOK'
  BY <1>1, <1>2, <1>3 DEF TypeOK
<1>6. \A q \in Pages : NxpLinks'[q].free = NxpLinks[q].free
  <2>1. NxpLinks[p].free = FALSE
    BY <1>1, <1>2 DEF IsFree, Entries
  <2> QED
    BY <1>3, <1>4, <2>1
<1>7. FreePages' = FreePages
  BY <1>6 DEF FreePages, IsFree
<1>8. \A q \in FreePages : q \in Pages /\ NxpLinks'[q] = NxpLinks[q]
  BY <1>1, <1>4 DEF FreePages
<1>9. LinksAgree'
  <2>1. \A q \in FreePages : /\ NxpLinks[q].prev # 0 => NxpLinks[q].prev \in FreePages
                             /\ NxpLinks[q].next # 0 => NxpLinks[q].next \in FreePages
    BY DEF LinksAgree, FreePages, TypeOK, Entries, Pages, PfnOrZero
  <2>2. \A c \in Classes : NxpFreeHead[c] # 0 => NxpFreeHead[c] \in FreePages
    BY DEF LinksAgree, FreePages, TypeOK, Pages, PfnOrZero
  <2> QED
    BY <1>1, <1>7, <1>8, <2>1, <2>2 DEF LinksAgree, IsFree
<1>10. SpillHintSound'
  BY <1>1, <1>7 DEF SpillHintSound, Generic
<1>11. OwnersAgree' /\ ContentsFollow'
  <2>1. \A f \in Ptes : f # e => pte[f] # p
    BY <1>0, <1>1 DEF NoFrameShared
  <2>2. \A f \in Ptes : pte[f] # 0 => pte[f] \in Pages
    BY DEF TypeOK, Pages, PfnOrZero
  <2>3. ContentsFollow'
    BY <1>1 DEF ContentsFollow
  <2>4. ASSUME NEW q \in Pages, NxpLinks'[q].owner # 0
        PROVE  ~NxpLinks'[q].free /\ pte'[NxpLinks'[q].owner] = q
    <3>1. CASE q = p
      BY <1>0, <1>1, <1>3, <1>4, <2>4, <3>1
    <3>2. CASE q # p
      BY <1>1, <1>4, <2>4, <3>2 DEF OwnersAgree, IsFree
    <3> QED
      BY <3>1, <3>2
  <2>5. ASSUME NEW f \in Ptes, pte'[f] # 0
        PROVE  ~NxpLinks'[pte'[f]].free /\ NxpLinks'[pte'[f]].owner \in {0, f}
    <3>1. pte'[f] = pte[f] /\ pte[f] \in Pages
      BY <1>1, <2>2, <2>5
    <3>2. CASE f = e
      BY <1>0, <1>3, <1>4, <3>1, <3>2
    <3>3. CASE f # e
      BY <1>4, <2>1, <3>1, <3>3, <2>5 DEF OwnersAgree, IsFree
    <3> QED
      BY <3>2, <3>3
  <2> QED
    BY <2>3, <2>4, <2>5 DEF OwnersAgree, IsFree
<1>12. NoFrameShared'
  <2>1. \A q \in Pages : Unowned(q) => Unowned(q)'
    BY <1>0, <1>1, <1>4 DEF Unowned, IsFree
  <2>2. \A r \in runs : \A q : InRun(q, r) => q \in Pages
    BY RunWindows DEF TypeOK
  <2>3. InFlight = {} /\ InFlight' = {}
    BY <1>1, IdleFacts, IdleFactsNext
  <2>4. /\ runs' = runs /\ Reserved' = Reserved /\ pte' = pte /\ singles' = singles
        /\ Reserved \subseteq Pages /\ singles \subseteq Pages
    BY <1>1 DEF Reserved, TypeOK
  <2> QED
    BY <2>1, <2>2, <2>3, <2>4 DEF NoFrameShared, InRun
<1> QED
  BY <1>1, <1>5, <1>9, <1>10, <1>11, <1>12, IdleFactsNext

\* Unmapping an entry and returning its frame keeps the invariant.
LEMMA UnmapIInv == \A e \in Ptes : IInv /\ Unmap(e) => IInv'
<1> SUFFICES ASSUME IInv, NEW e \in Ptes, Unmap(e) PROVE IInv'
  OBVIOUS
<1> USE DEF IInv
<1>0. PICK p : p = pte[e]
  OBVIOUS
<1>1. /\ op = Idle /\ op' = Idle /\ p # 0 /\ NxkPageSupplyReturn(p)
      /\ pte' = [pte EXCEPT ![e] = 0]
      /\ UNCHANGED <<singles, runs, op>>
  BY <1>0 DEF Unmap
<1>2. p \in Pages /\ ~IsFree(p) /\ NxpLinks[p].owner \in {0, e}
  BY <1>0, <1>1 DEF TypeOK, Pages, PfnOrZero, OwnersAgree
<1>3. /\ Gave(p) /\ LinksAgree' /\ SpillHintSound'
      /\ NxpLinks' \in [Pages -> Entries]
      /\ NxpFreeHead' \in [Classes -> PfnOrZero]
      /\ NxpSpillHint' \in Pages /\ NxpGenericAvail' \in Int /\ MmAvailablePages' \in Int
      /\ mem' \in [Pages -> Ptes \cup {0}] /\ mem' = [mem EXCEPT ![p] = 0]
  BY <1>1, <1>2, ReturnGives
<1>4. \A f \in Ptes : pte'[f] = IF f = e THEN 0 ELSE pte[f]
  BY <1>1 DEF TypeOK
<1>5. TypeOK'
  BY <1>1, <1>3 DEF TypeOK, PfnOrZero
<1>6. \A f \in Ptes : f # e => pte[f] # p
  BY <1>0, <1>1 DEF NoFrameShared
<1>7. \A f \in Ptes : pte[f] # 0 => pte[f] \in Pages
  BY DEF TypeOK, Pages, PfnOrZero
<1>8. OwnersAgree'
  <2>1. \A q \in Pages : NxpLinks[q].owner # 0 => NxpLinks[q].owner \in Ptes
    BY DEF TypeOK, Entries
  <2>2. ASSUME NEW q \in Pages, NxpLinks'[q].owner # 0
        PROVE  ~NxpLinks'[q].free /\ pte'[NxpLinks'[q].owner] = q
    <3>1. q # p /\ NxpLinks'[q].owner = NxpLinks[q].owner /\ ~NxpLinks[q].free
          /\ pte[NxpLinks[q].owner] = q
      BY <1>3, <2>2 DEF Gave, OwnersAgree, IsFree
    <3>2. NxpLinks[q].owner # e
      BY <1>0, <3>1
    <3> QED
      BY <1>3, <1>4, <2>1, <2>2, <3>1, <3>2 DEF Gave
  <2>3. ASSUME NEW f \in Ptes, pte'[f] # 0
        PROVE  ~NxpLinks'[pte'[f]].free /\ NxpLinks'[pte'[f]].owner \in {0, f}
    BY <1>3, <1>4, <1>6, <1>7, <2>3 DEF Gave, OwnersAgree, IsFree
  <2> QED
    BY <2>2, <2>3 DEF OwnersAgree, IsFree
<1>9. ContentsFollow'
  BY <1>3, <1>4, <1>6, <1>7 DEF ContentsFollow, TypeOK
<1>10. NoFrameShared'
  <2>1. ASSUME NEW q \in Pages, Unowned(q)
        PROVE  Unowned(q)' /\ q # p
    <3>1. q # p /\ q # 0
      BY <1>0, <2>1 DEF Unowned, Pages
    <3>2. ~IsFree(q)' /\ NxpLinks'[q].owner = 0
      BY <1>3, <2>1, <3>1 DEF Unowned, IsFree, Gave
    <3>3. \A f \in Ptes : pte'[f] # q
      BY <1>4, <2>1, <3>1 DEF Unowned
    <3> QED
      BY <3>1, <3>2, <3>3 DEF Unowned
  <2>2. \A r \in runs : \A q : InRun(q, r) => q \in Pages
    BY RunWindows DEF TypeOK
  <2>3. InFlight = {} /\ InFlight' = {}
    BY <1>1, IdleFacts, IdleFactsNext
  <2>4. /\ runs' = runs /\ Reserved' = Reserved /\ singles' = singles
        /\ Reserved \subseteq Pages /\ singles \subseteq Pages
    BY <1>1 DEF Reserved, TypeOK
  <2>5. \A f, g \in Ptes : pte'[f] = pte'[g] /\ pte'[f] # 0 => f = g
    BY <1>4 DEF NoFrameShared
  <2> QED
    BY <2>1, <2>2, <2>3, <2>4, <2>5 DEF NoFrameShared, InRun
<1> QED
  BY <1>1, <1>3, <1>5, <1>8, <1>9, <1>10, IdleFactsNext

\* A step of the client side that leaves the supply and the entries alone
\* leaves the lists, the hint, owners and contents in order.
LEMMA SupplySame ==
    ASSUME IInv, UNCHANGED <<supply, pte, mem>>
    PROVE  /\ LinksAgree' /\ SpillHintSound' /\ OwnersAgree' /\ ContentsFollow'
           /\ \A q : Unowned(q) <=> Unowned(q)'
<1>1. /\ NxpLinks' = NxpLinks /\ NxpFreeHead' = NxpFreeHead /\ NxpSpillHint' = NxpSpillHint
      /\ pte' = pte /\ mem' = mem
  BY DEF supply
<1> QED
  BY <1>1 DEF IInv, LinksAgree, SpillHintSound, OwnersAgree, ContentsFollow, Unowned,
              FreePages, IsFree, Generic

\* Choosing a window keeps the invariant.
LEMMA ContigBeginIInv == \A r \in Requests : IInv /\ ContigBegin(r) => IInv'
<1> SUFFICES ASSUME IInv, NEW r \in Requests, ContigBegin(r) PROVE IInv'
  OBVIOUS
<1> USE DEF IInv
<1>0. PICK b : b = RunBase(r)
  OBVIOUS
<1>1. /\ op = Idle /\ b # 0
      /\ op' = [kind |-> "take", base |-> b, pages |-> r.pages, done |-> 0]
      /\ UNCHANGED <<supply, clients>>
  BY <1>0 DEF ContigBegin, Begin
<1>2. /\ b \in Pages /\ Window(b, r.pages) \subseteq Pages /\ HighOf(r) \in PfnOrZero
      /\ \A p \in Window(b, r.pages) : IsFree(p) \/ NxpLinks[p].owner # 0
  BY <1>0, <1>1, RunBaseFits
<1>3. r.pages \in Nat \ {0}
  OBVIOUS
<1>4. b + r.pages - 1 \in Window(b, r.pages)
  BY <1>2, <1>3 DEF Window, Pages
<1>5. r.pages \in PfnOrZero
  BY <1>2, <1>3, <1>4 DEF Pages, PfnOrZero
<1>6. op' \in Ops /\ op'.done < op'.pages /\ Window(op'.base, op'.pages) \subseteq Pages
  BY <1>1, <1>2, <1>3, <1>5 DEF Ops, PfnOrZero, Pages
<1>7. TypeOK'
  BY <1>1, <1>6 DEF TypeOK, supply, clients
<1>8. /\ LinksAgree' /\ SpillHintSound' /\ OwnersAgree' /\ ContentsFollow'
      /\ \A q : Unowned(q) <=> Unowned(q)'
  BY <1>1, SupplySame DEF clients
<1>9. NoFrameShared'
  <2>1. InFlight = {} /\ InFlight' = {}
    <3>0. op'.kind = "take" /\ op'.base = b /\ op'.done = 0
      BY <1>1
    <3>1. InFlight' = {}
      BY <1>2, <3>0 DEF InFlight, Current, Pages
    <3> QED
      BY <1>1, <3>1, IdleFacts
  <2>2. pte' = pte /\ runs' = runs /\ Reserved' = Reserved /\ singles' = singles
    BY <1>1 DEF Reserved, clients
  <2> QED
    BY <1>8, <2>1, <2>2 DEF NoFrameShared, InRun
<1>10. WindowOpen'
  <2>1. NxpLinks' = NxpLinks /\ op'.base = b /\ op'.pages = r.pages /\ op'.done = 0
    BY <1>1 DEF supply
  <2> QED
    BY <1>2, <1>3, <2>1 DEF WindowOpen, Current, Window, IsFree, Pages
<1> QED
  BY <1>7, <1>8, <1>9, <1>10

\* Giving up a window keeps the invariant (the frames taken so far are lost to
\* everybody, which NoFrameLost is about).
LEMMA AbandonWindowIInv == IInv /\ AbandonWindow => IInv'
<1> SUFFICES ASSUME IInv, AbandonWindow PROVE IInv'
  OBVIOUS
<1> USE DEF IInv
<1>1. op' = Idle /\ UNCHANGED <<supply, clients>>
  BY DEF AbandonWindow
<1>2. /\ LinksAgree' /\ SpillHintSound' /\ OwnersAgree' /\ ContentsFollow'
      /\ \A q : Unowned(q) <=> Unowned(q)'
  BY <1>1, SupplySame DEF clients
<1>3. TypeOK'
  BY <1>1 DEF TypeOK, supply, clients, Idle, Ops, PfnOrZero
<1>4. NoFrameShared'
  <2>1. InFlight' = {}
    BY <1>1, IdleFactsNext
  <2>2. pte' = pte /\ runs' = runs /\ Reserved' = Reserved /\ singles' = singles
    BY <1>1 DEF Reserved, clients
  <2> QED
    BY <1>2, <2>1, <2>2 DEF NoFrameShared, InRun
<1> QED
  BY <1>1, <1>2, <1>3, <1>4, IdleFactsNext

\* Beginning to free a run keeps the invariant.
LEMMA ContigFreeIInv == \A r \in runs : IInv /\ ContigFree(r) => IInv'
<1> SUFFICES ASSUME IInv, NEW r \in runs, ContigFree(r) PROVE IInv'
  OBVIOUS
<1> USE DEF IInv
<1>1. /\ op = Idle
      /\ op' = [kind |-> "return", base |-> r.base, pages |-> r.pages, done |-> 0]
      /\ runs' = runs \ {r}
      /\ UNCHANGED <<supply, pte, mem, singles>>
  BY DEF ContigFree, Begin
<1>2. r \in Runs /\ r.base \in Pages /\ r.pages \in Pages /\ r.base + r.pages - 1 <= HighestPfn
  BY DEF TypeOK, Runs
<1>3. op' \in Ops /\ op'.done < op'.pages /\ Window(op'.base, op'.pages) \subseteq Pages
  BY <1>1, <1>2 DEF Ops, PfnOrZero, Pages, Window
<1>4. TypeOK'
  BY <1>1, <1>3 DEF TypeOK, supply
<1>5. /\ LinksAgree' /\ SpillHintSound' /\ OwnersAgree' /\ ContentsFollow'
      /\ \A q : Unowned(q) <=> Unowned(q)'
  BY <1>1, SupplySame
<1>6. NoFrameShared'
  <2>1. InFlight = {}
    BY <1>1, IdleFacts
  <2>2. \A q \in InFlight' : InRun(q, r)
    <3>1. op'.kind = "return" /\ op'.base = r.base /\ op'.pages = r.pages /\ op'.done = 0
      BY <1>1
    <3> QED
      BY <1>2, <3>1 DEF InFlight, Current, InRun, Window, Pages
  <2>3. \A q \in singles \cup Reserved : ~InRun(q, r)
    BY DEF NoFrameShared
  <2>4. pte' = pte /\ Reserved' = Reserved /\ singles' = singles /\ runs' \subseteq runs
    BY <1>1 DEF Reserved
  <2>5. \A q \in InFlight' : Unowned(q)' /\ \A s \in runs' : ~InRun(q, s)
    <3>1. \A q \in InFlight' : q \in Pages
      BY DEF InFlight
    <3> QED
      BY <1>1, <1>5, <2>2, <3>1 DEF NoFrameShared, InRun
  <2> QED
    BY <1>1, <1>5, <2>2, <2>3, <2>4, <2>5 DEF NoFrameShared, InRun
<1>7. WindowOpen'
  BY <1>1 DEF WindowOpen
<1> QED
  BY <1>4, <1>5, <1>6, <1>7

\* Handing back one frame that is in flight (a run being freed, or boot) keeps
\* the invariant.
LEMMA ReturnCurrentIInv ==
    ASSUME IInv, op.kind \in {"boot", "return"}, Current \in InFlight,
           NxkPageSupplyReturn(Current), op' = Advance, UNCHANGED <<pte, singles, runs>>
    PROVE  IInv'
<1> USE DEF IInv
<1>0. PICK p : p = Current
  OBVIOUS
<1>1. /\ op \in Ops /\ p \in Pages
      /\ op.base \in Pages /\ op.pages \in Pages /\ op.done \in Nat
      /\ op.done < op.pages /\ op.base + op.pages - 1 <= HighestPfn
  BY <1>0, RunningOp
<1>2. Unowned(p) /\ ~IsFree(p) /\ p \in InFlight
  BY <1>0 DEF NoFrameShared, Unowned
<1>3. NxkPageSupplyReturn(p)
  BY <1>0
<1>4. /\ Gave(p) /\ LinksAgree' /\ SpillHintSound'
      /\ NxpLinks' \in [Pages -> Entries]
      /\ NxpFreeHead' \in [Classes -> PfnOrZero]
      /\ NxpSpillHint' \in Pages /\ NxpGenericAvail' \in Int /\ MmAvailablePages' \in Int
      /\ mem' \in [Pages -> Ptes \cup {0}] /\ mem' = [mem EXCEPT ![p] = 0]
  BY <1>1, <1>2, <1>3, ReturnGives
<1>5. /\ OwnersAgree' /\ ContentsFollow'
      /\ \A q \in Pages \ {p} : Unowned(q) => Unowned(q)'
  BY <1>1, <1>2, <1>4, GaveKeeps
<1>6. /\ op' \in Ops
      /\ op' = Idle \/ (op'.done < op'.pages /\ Window(op'.base, op'.pages) \subseteq Pages)
      /\ op'.kind = "boot" => op'.base = 1 /\ op'.pages = HighestPfn
      /\ op'.kind # "idle" => /\ op'.kind = op.kind /\ op'.base = op.base
                              /\ op'.pages = op.pages /\ op'.done = op.done + 1
  BY AdvanceTypes
<1>7. TypeOK'
  BY <1>4, <1>6 DEF TypeOK
<1>8. InFlight' \subseteq InFlight \ {p}
  BY <1>0, <1>1, <1>6 DEF InFlight, Current, Pages
<1>9. NoFrameShared'
  <2>1. \A r \in runs : \A q : InRun(q, r) => q \in Pages \ {p}
    BY <1>2, RunWindows DEF TypeOK, NoFrameShared
  <2>2. /\ pte' = pte /\ runs' = runs /\ singles' = singles /\ Reserved' = Reserved
        /\ Reserved \subseteq Pages \ {p} /\ singles' \subseteq Pages \ {p}
        /\ InFlight' \subseteq Pages \ {p}
    BY <1>2, <1>8 DEF Reserved, TypeOK, NoFrameShared, InFlight
  <2> QED
    BY <1>5, <1>8, <2>1, <2>2 DEF NoFrameShared, InRun
<1>10. WindowOpen'
  BY <1>6 DEF WindowOpen
<1> QED
  BY <1>4, <1>5, <1>7, <1>9, <1>10

\* Each frame of a run being freed goes back to the supply.
LEMMA ReturnRunPageIInv == IInv /\ ReturnRunPage => IInv'
<1> SUFFICES ASSUME IInv, ReturnRunPage PROVE IInv'
  OBVIOUS
<1>1. op.kind = "return" /\ TypeOK
  BY DEF ReturnRunPage, IInv
<1>2. Current \in InFlight
  BY <1>1, RunningOp DEF InFlight, Current, Pages
<1> QED
  BY <1>1, <1>2, ReturnCurrentIInv DEF ReturnRunPage

\* Each step of the boot walk keeps the invariant.
LEMMA BootPageIInv == IInv /\ BootPage => IInv'
<1> SUFFICES ASSUME IInv, BootPage PROVE IInv'
  OBVIOUS
<1> USE DEF IInv
<1>1. op.kind = "boot" /\ op' = Advance /\ UNCHANGED <<pte, singles, runs>>
  BY DEF BootPage
<1>2. CASE Current \in BootFree
  <2>1. Current \in InFlight
    <3>1. Current \in Pages
      BY <1>1, RunningOp
    <3>2. Current >= Current
      BY <3>1 DEF Pages
    <3> QED
      BY <1>1, <1>2, <3>1, <3>2 DEF InFlight
  <2> QED
    BY <1>1, <1>2, <2>1, ReturnCurrentIInv DEF BootPage
<1>3. CASE Current \notin BootFree
  <2>1. UNCHANGED <<supply, pte, mem>>
    BY <1>3 DEF BootPage
  <2>2. /\ LinksAgree' /\ SpillHintSound' /\ OwnersAgree' /\ ContentsFollow'
        /\ \A q : Unowned(q) <=> Unowned(q)'
    BY <2>1, SupplySame
  <2>3. /\ op' \in Ops
        /\ op' = Idle \/ (op'.done < op'.pages /\ Window(op'.base, op'.pages) \subseteq Pages)
        /\ op'.kind = "boot" => op'.base = 1 /\ op'.pages = HighestPfn
        /\ op'.kind # "idle" => /\ op'.kind = op.kind /\ op'.base = op.base
                                /\ op'.pages = op.pages /\ op'.done = op.done + 1
    BY <1>1, AdvanceTypes
  <2>4. TypeOK'
    BY <1>1, <2>1, <2>3 DEF TypeOK, supply
  <2>5. InFlight' \subseteq InFlight
    BY <1>1, <2>3, RunningOp DEF InFlight, Current, Pages
  <2>6. pte' = pte /\ runs' = runs /\ singles' = singles /\ Reserved' = Reserved
    BY <1>1 DEF Reserved
  <2>7. NoFrameShared'
    BY <2>2, <2>5, <2>6 DEF NoFrameShared, InRun
  <2>8. WindowOpen'
    BY <1>1, <2>3 DEF WindowOpen
  <2> QED
    BY <2>2, <2>4, <2>7, <2>8
<1> QED
  BY <1>2, <1>3

\* The bookkeeping of a window when one more of its frames, p, is taken: the
\* frames of the operation before and after, and the run recorded at the end.
LEMMA WindowAdvances ==
    ASSUME IInv, op.kind = "take", ContigAdvance
    PROVE  /\ op' \in Ops
           /\ op' = Idle \/ (op'.done < op'.pages /\ Window(op'.base, op'.pages) \subseteq Pages)
           /\ op'.kind = "boot" => op'.base = 1 /\ op'.pages = HighestPfn
           /\ runs' \subseteq Runs
           /\ op'.kind # "idle" => /\ runs' = runs /\ InFlight' = InFlight \cup {Current}
                                   /\ op'.kind = "take" /\ Current' = Current + 1
                                   /\ op'.base = op.base /\ op'.pages = op.pages
           /\ op'.kind = "idle" => \E run \in Runs :
                 /\ runs' = runs \cup {run} /\ InFlight' = {}
                 /\ \A q : InRun(q, run) <=> q \in InFlight \cup {Current}
<1> USE DEF IInv
<1>1. /\ op \in Ops /\ Current \in Pages
      /\ op.base \in Pages /\ op.pages \in Pages /\ op.done \in Nat
      /\ op.done < op.pages /\ op.base + op.pages - 1 <= HighestPfn
  BY RunningOp
<1>2. /\ op' \in Ops
      /\ op' = Idle \/ (op'.done < op'.pages /\ Window(op'.base, op'.pages) \subseteq Pages)
      /\ op'.kind = "boot" => op'.base = 1 /\ op'.pages = HighestPfn
      /\ op'.kind # "idle" => /\ op'.kind = op.kind /\ op'.base = op.base
                              /\ op'.pages = op.pages /\ op'.done = op.done + 1
      /\ op'.kind = "idle" => op.done + 1 = op.pages
  BY AdvanceTypes DEF ContigAdvance
<1> DEFINE run == [base |-> op.base, pages |-> op.pages]
<1>3. run \in Runs
  BY <1>1 DEF Runs
<1>4. runs' = IF op.done + 1 = op.pages THEN runs \cup {run} ELSE runs
  BY DEF ContigAdvance
<1>5. runs' \subseteq Runs
  BY <1>3, <1>4 DEF TypeOK
<1>6. ASSUME op'.kind # "idle"
      PROVE  /\ runs' = runs /\ InFlight' = InFlight \cup {Current}
             /\ op'.kind = "take" /\ Current' = Current + 1
             /\ op'.base = op.base /\ op'.pages = op.pages
  <2>1. op.done + 1 # op.pages
    BY <1>6 DEF ContigAdvance, Advance, Idle
  <2>2. Current' = Current + 1 /\ op'.kind = "take"
    BY <1>1, <1>2, <1>6 DEF Current, Pages
  <2>3. InFlight' = InFlight \cup {Current}
    <3>1. op.base <= Current
      BY <1>1 DEF Current, Pages
    <3>2. ASSUME NEW q \in Pages
          PROVE  q < Current + 1 <=> q < Current \/ q = Current
      BY <1>1 DEF Pages
    <3>3. InFlight = {q \in Pages : q >= op.base /\ q < Current}
      BY DEF InFlight
    <3>4. InFlight' = {q \in Pages : q >= op.base /\ q < Current + 1}
      BY <1>2, <1>6, <2>2 DEF InFlight
    <3> QED
      BY <1>1, <3>1, <3>2, <3>3, <3>4
  <2> QED
    BY <1>2, <1>4, <1>6, <2>1, <2>2, <2>3
<1>7. ASSUME op'.kind = "idle"
      PROVE  /\ runs' = runs \cup {run} /\ InFlight' = {}
             /\ \A q : InRun(q, run) <=> q \in InFlight \cup {Current}
  <2>1. op.done + 1 = op.pages
    BY <1>2, <1>7
  <2>2. InFlight' = {}
    BY <1>7 DEF InFlight
  <2>3. run.base = op.base /\ run.pages = op.pages
    OBVIOUS
  <2> HIDE DEF run
  <2>4. ASSUME NEW q
        PROVE  InRun(q, run) <=> q \in InFlight \cup {Current}
    <3>1. Window(run.base, run.pages) = op.base .. Current
      BY <1>1, <2>1, <2>3 DEF Window, Current, Pages
    <3>2. InFlight = {x \in Pages : x >= op.base /\ x < Current}
      BY DEF InFlight
    <3>3. op.base <= Current
      BY <1>1 DEF Current, Pages
    <3>4. op.base .. Current = {x \in Pages : x >= op.base /\ x < Current} \cup {Current}
      BY <1>1, <3>3 DEF Pages
    <3> QED
      BY <3>1, <3>2, <3>4 DEF InRun
  <2> QED
    BY <1>4, <2>1, <2>2, <2>4
<1> QED
  BY <1>2, <1>3, <1>5, <1>6, <1>7

\* A frame added to those in flight that nobody else holds keeps NoFrameShared.
LEMMA WindowShares ==
    ASSUME IInv, op.kind = "take", ContigAdvance, NEW p, p = Current,
           p \notin singles, p \notin Reserved, \A r \in runs : ~InRun(p, r),
           \A f, g \in Ptes : pte'[f] = pte'[g] /\ pte'[f] # 0 => f = g,
           UNCHANGED singles, Unowned(p)', \A q \in Pages : Unowned(q) => Unowned(q)'
    PROVE  NoFrameShared'
<1> USE DEF IInv
<1>1. p \in Pages
  BY RunningOp
<1>2. \A r \in runs : \A q : InRun(q, r) => q \in Pages
  BY RunWindows DEF TypeOK
<1>3. /\ singles' = singles /\ Reserved' = Reserved /\ singles \subseteq Pages
      /\ Reserved \subseteq Pages /\ InFlight \subseteq Pages
  BY DEF Reserved, TypeOK, InFlight
<1>4. CASE op'.kind # "idle"
  <2>1. runs' = runs /\ InFlight' = InFlight \cup {p}
    BY <1>4, WindowAdvances
  <2> QED
    BY <1>1, <1>2, <1>3, <2>1 DEF NoFrameShared, InRun
<1>5. CASE op'.kind = "idle"
  <2>1. PICK run \in Runs :
           /\ runs' = runs \cup {run} /\ InFlight' = {}
           /\ \A q : InRun(q, run) <=> q \in InFlight \cup {p}
    BY <1>5, WindowAdvances
  <2>2. \A q : InRun(q, run) => /\ q \in Pages /\ Unowned(q)' /\ q \notin singles
                                /\ q \notin Reserved /\ \A r \in runs : ~InRun(q, r)
    BY <1>1, <1>3, <2>1 DEF NoFrameShared
  <2> QED
    BY <1>2, <1>3, <2>1, <2>2 DEF NoFrameShared, InRun
<1> QED
  BY <1>4, <1>5

\* Taking a free frame of the window keeps the invariant.
LEMMA TakeWindowPageIInv == IInv /\ TakeWindowPage => IInv'
<1> SUFFICES ASSUME IInv, TakeWindowPage PROVE IInv'
  OBVIOUS
<1> USE DEF IInv
<1>0. PICK p : p = Current
  OBVIOUS
<1>1. /\ op.kind = "take" /\ IsFree(p) /\ NxpUnlink(p) /\ ContigAdvance
      /\ UNCHANGED <<NxpSpillHint, pte, mem, singles>>
  BY <1>0 DEF TakeWindowPage
<1>2. p \in Pages /\ p \in FreePages
  BY <1>0, <1>1, RunningOp DEF FreePages
<1>3. /\ Took(p) /\ LinksAgree'
      /\ NxpLinks' \in [Pages -> Entries]
      /\ NxpFreeHead' \in [Classes -> PfnOrZero]
      /\ NxpGenericAvail' \in Int /\ MmAvailablePages' \in Int
  BY <1>1, <1>2, UnlinkTakes
<1>4. /\ OwnersAgree' /\ ContentsFollow' /\ SpillHintSound'
      /\ Unowned(p)'
      /\ \A q \in Pages : Unowned(q) => Unowned(q)'
  BY <1>1, <1>2, <1>3, TookKeeps
<1>5. TypeOK'
  BY <1>1, <1>3, WindowAdvances DEF TypeOK
<1>6. NoFrameShared'
  <2>1. p \notin singles /\ p \notin Reserved /\ \A r \in runs : ~InRun(p, r)
    BY <1>1 DEF NoFrameShared, Unowned, InRun
  <2>2. \A f, g \in Ptes : pte'[f] = pte'[g] /\ pte'[f] # 0 => f = g
    BY <1>1 DEF NoFrameShared
  <2> QED
    BY <1>0, <1>1, <1>4, <2>1, <2>2, WindowShares
<1>7. WindowOpen'
  <2>1. SUFFICES ASSUME op'.kind = "take", NEW q \in Current' .. (op'.base + op'.pages - 1)
                 PROVE  NxpLinks'[q].free \/ NxpLinks'[q].owner # 0
    BY DEF WindowOpen, IsFree
  <2>2. Current' = Current + 1 /\ op'.base = op.base /\ op'.pages = op.pages
    BY <1>1, <2>1, WindowAdvances
  <2>3. q \in Pages /\ q # p /\ q \in Current .. (op.base + op.pages - 1)
    BY <1>0, <1>1, <2>2, RunningOp DEF Pages
  <2> QED
    BY <1>1, <1>3, <2>3 DEF WindowOpen, Took, IsFree
<1> QED
  BY <1>3, <1>4, <1>5, <1>6, <1>7

\* What relocation does: the owned frame p of the window is copied to dest, a
\* free frame outside the window, which leaves the lists for entry o.
Moved(p, o, dest) ==
    /\ p = Current /\ op.kind = "take" /\ ~IsFree(p) /\ pte[o] = p /\ o # 0
    /\ dest # p /\ (dest < op.base \/ dest > op.base + op.pages - 1)
    /\ NxpLinks' \in [Pages -> Entries]
    /\ ~NxpLinks'[p].free /\ NxpLinks'[p].owner = 0
    /\ ~NxpLinks'[dest].free /\ NxpLinks'[dest].owner = o
    /\ \A q \in Pages \ {p, dest} : /\ NxpLinks'[q].free <=> NxpLinks[q].free
                                    /\ NxpLinks'[q].owner = NxpLinks[q].owner
    /\ Left(dest) /\ UnlinkHead(dest)
    /\ pte' = [pte EXCEPT ![o] = dest]
    /\ mem' = [mem EXCEPT ![dest] = mem[p], ![p] = 0]
    /\ ContigAdvance
    /\ UNCHANGED <<NxpSpillHint, singles>>

\* MoveWindowPage moves the current frame to a free one outside the window.
LEMMA MoveMoves ==
    ASSUME IInv, MoveWindowPage
    PROVE  \E p \in Pages, o \in Ptes, dest \in FreePages : Moved(p, o, dest)
<1> USE DEF IInv
<1>0. PICK p, o, dest : /\ p = Current /\ o = NxpLinks[Current].owner
                        /\ dest = OutsidePfn(op.base, op.base + op.pages - 1)
  OBVIOUS
<1>1. /\ op.kind = "take" /\ ~IsFree(p) /\ dest # 0
      /\ NxpLinks' = [Unlinked(dest) EXCEPT ![dest] = InUse(o), ![p] = InUse(0)]
      /\ UnlinkHead(dest)
      /\ pte' = [pte EXCEPT ![o] = dest]
      /\ mem' = [mem EXCEPT ![dest] = mem[p], ![p] = 0]
      /\ ContigAdvance
      /\ UNCHANGED <<NxpSpillHint, singles>>
  BY <1>0 DEF MoveWindowPage
<1>2. /\ p \in Pages /\ op.base \in Pages /\ op.pages \in Pages /\ op.done \in Nat
      /\ op.done < op.pages /\ op.base + op.pages - 1 <= HighestPfn
  BY <1>0, <1>1, RunningOp
<1>3. /\ dest \in FreePages /\ dest \in Pages /\ IsFree(dest) /\ dest # p
      /\ dest < op.base \/ dest > op.base + op.pages - 1
  <2>1. dest \in FreePages /\ (dest < op.base \/ dest > op.base + op.pages - 1)
    BY <1>0, <1>1, OutsidePfnIsOutside
  <2> QED
    BY <1>1, <2>1 DEF FreePages
<1>4. o \in Ptes /\ o # 0 /\ pte[o] = p
  <2>1. p \in Current .. (op.base + op.pages - 1)
    BY <1>0, <1>2 DEF Current, Pages
  <2>2. o # 0 /\ o = NxpLinks[p].owner
    BY <1>0, <1>1, <2>1 DEF WindowOpen
  <2> QED
    BY <1>2, <2>2 DEF OwnersAgree, TypeOK, Entries
<1>5. /\ InUse(o) \in Entries /\ InUse(o).free = FALSE /\ InUse(o).owner = o
      /\ InUse(0) \in Entries /\ InUse(0).free = FALSE /\ InUse(0).owner = 0
  BY <1>4 DEF InUse, Entries, PfnOrZero
<1>6. /\ Unlinked(dest) \in [Pages -> Entries]
      /\ \A q \in Pages : NxpLinks'[q] = IF q = p THEN InUse(0)
                                         ELSE IF q = dest THEN InUse(o)
                                         ELSE Unlinked(dest)[q]
      /\ NxpLinks' \in [Pages -> Entries]
  BY <1>1, <1>2, <1>3, <1>5, UnlinkedWords
<1>7. \A q \in Pages \ {p, dest} : /\ NxpLinks'[q].free <=> NxpLinks[q].free
                                   /\ NxpLinks'[q].owner = NxpLinks[q].owner
  <2>1. \A q \in FreePages : NxpLinks[q].owner = 0
    BY DEF OwnersAgree, FreePages
  <2> QED
    BY <1>3, <1>6, <2>1, UnlinkedWords DEF FreePages, IsFree
<1>8. /\ ~NxpLinks'[p].free /\ NxpLinks'[p].owner = 0
      /\ ~NxpLinks'[dest].free /\ NxpLinks'[dest].owner = o
  BY <1>2, <1>3, <1>5, <1>6
<1>9. Left(dest)
  <2>1. \A q \in Pages : NxpLinks'[q].free <=> NxpLinks[q].free /\ q # dest
    BY <1>1, <1>3, <1>7, <1>8 DEF IsFree
  <2>2. ASSUME NEW q \in Pages, NxpLinks'[q].free
        PROVE  /\ NxpLinks'[q].prev = IF q = NxpLinks[dest].next THEN NxpLinks[dest].prev
                                      ELSE NxpLinks[q].prev
               /\ NxpLinks'[q].next = IF q = NxpLinks[dest].prev THEN NxpLinks[dest].next
                                      ELSE NxpLinks[q].next
    <3>1. q # p /\ q # dest /\ IsFree(q) /\ NxpLinks'[q] = Unlinked(dest)[q]
      BY <1>1, <1>6, <1>8, <2>1, <2>2 DEF IsFree
    <3> QED
      BY <1>3, <3>1, UnlinkedWords
  <2>3. \A c \in Classes : NxpFreeHead'[c] =
           IF NxpLinks[dest].prev = 0 /\ c = NxpHeadFor(dest) THEN NxpLinks[dest].next
           ELSE NxpFreeHead[c]
    BY <1>1, <1>3, UnlinkHeadTypes
  <2> QED
    BY <2>1, <2>2, <2>3 DEF Left
<1>10. Moved(p, o, dest)
  BY <1>0, <1>1, <1>3, <1>4, <1>6, <1>7, <1>8, <1>9 DEF Moved
<1> QED
  BY <1>2, <1>3, <1>4, <1>10

\* Moving an owned frame out of the window keeps the invariant.
LEMMA MoveWindowPageIInv == IInv /\ MoveWindowPage => IInv'
<1> SUFFICES ASSUME IInv, MoveWindowPage PROVE IInv'
  OBVIOUS
<1> USE DEF IInv
<1>0. PICK p \in Pages, o \in Ptes, dest \in FreePages : Moved(p, o, dest)
  BY MoveMoves
<1>1. /\ p = Current /\ op.kind = "take" /\ ~IsFree(p)
      /\ UnlinkHead(dest)
      /\ pte' = [pte EXCEPT ![o] = dest]
      /\ mem' = [mem EXCEPT ![dest] = mem[p], ![p] = 0]
      /\ ContigAdvance
      /\ UNCHANGED <<NxpSpillHint, singles>>
  BY <1>0 DEF Moved
<1>2. /\ p \in Pages /\ op.base \in Pages /\ op.pages \in Pages /\ op.done \in Nat
      /\ op.done < op.pages /\ op.base + op.pages - 1 <= HighestPfn
  BY <1>1, RunningOp
<1>3. /\ dest \in FreePages /\ dest \in Pages /\ IsFree(dest) /\ dest # p
      /\ dest < op.base \/ dest > op.base + op.pages - 1
  BY <1>0 DEF Moved, FreePages
<1>4. o \in Ptes /\ o # 0 /\ pte[o] = p
  BY <1>0 DEF Moved
<1>6. NxpLinks' \in [Pages -> Entries]
  BY <1>0 DEF Moved
<1>7. \A q \in Pages \ {p, dest} : /\ NxpLinks'[q].free <=> NxpLinks[q].free
                                   /\ NxpLinks'[q].owner = NxpLinks[q].owner
  BY <1>0 DEF Moved
<1>8. /\ ~NxpLinks'[p].free /\ NxpLinks'[p].owner = 0
      /\ ~NxpLinks'[dest].free /\ NxpLinks'[dest].owner = o
  BY <1>0 DEF Moved
<1>9. LinksAgree'
  BY <1>0, LeftAgrees DEF Moved
<1>10. TypeOK'
  <2>1. /\ NxpFreeHead' \in [Classes -> PfnOrZero]
        /\ NxpGenericAvail' \in Int /\ MmAvailablePages' \in Int
    BY <1>1, <1>3, UnlinkHeadTypes
  <2>2. pte' \in [Ptes -> PfnOrZero]
    <3>1. pte \in [Ptes -> PfnOrZero] /\ dest \in PfnOrZero
      BY <1>3 DEF TypeOK, Pages, PfnOrZero
    <3> QED
      BY <1>1, <3>1
  <2>3. mem' \in [Pages -> Ptes \cup {0}]
    <3>1. mem \in [Pages -> Ptes \cup {0}]
      BY DEF TypeOK
    <3>2. mem[p] \in Ptes \cup {0}
      BY <1>2, <3>1
    <3> QED
      BY <1>1, <3>1, <3>2
  <2> QED
    BY <1>1, <1>6, <2>1, <2>2, <2>3, WindowAdvances DEF TypeOK
<1>11. SpillHintSound'
  BY <1>1, <1>7, <1>8 DEF SpillHintSound, FreePages, IsFree, Generic
<1>12. /\ \A f \in Ptes : pte'[f] = IF f = o THEN dest ELSE pte[f]
       /\ \A f \in Ptes : pte[f] # 0 => pte[f] \in Pages /\ pte[f] # dest
       /\ \A f \in Ptes : f # o => pte[f] # p
       /\ 0 \notin Pages
  <2>1. \A f \in Ptes : pte'[f] = IF f = o THEN dest ELSE pte[f]
    BY <1>1 DEF TypeOK
  <2>2. \A f \in Ptes : pte[f] # 0 => pte[f] \in Pages /\ pte[f] # dest
    BY <1>3 DEF TypeOK, Pages, PfnOrZero, OwnersAgree
  <2>3. p # 0 /\ 0 \notin Pages
    BY <1>2 DEF Pages
  <2>4. \A f \in Ptes : f # o => pte[f] # p
    BY <1>4, <2>3 DEF NoFrameShared
  <2> QED
    BY <2>1, <2>2, <2>3, <2>4
<1>13. OwnersAgree'
  <2>1. \A q \in Pages : NxpLinks[q].owner # 0 => NxpLinks[q].owner \in Ptes
    BY DEF TypeOK, Entries
  <2>2. ASSUME NEW q \in Pages, NxpLinks'[q].owner # 0
        PROVE  ~NxpLinks'[q].free /\ pte'[NxpLinks'[q].owner] = q
    <3>1. CASE q = dest
      BY <1>4, <1>8, <1>12, <3>1
    <3>2. CASE q # dest
      <4>1. q # p /\ NxpLinks'[q].owner = NxpLinks[q].owner
        BY <1>7, <1>8, <2>2, <3>2
      <4>2. ~NxpLinks[q].free /\ pte[NxpLinks[q].owner] = q
        BY <2>2, <4>1 DEF OwnersAgree, IsFree
      <4> QED
        BY <1>4, <1>7, <1>12, <2>1, <2>2, <3>2, <4>1, <4>2
    <3> QED
      BY <3>1, <3>2
  <2>3. ASSUME NEW f \in Ptes, pte'[f] # 0
        PROVE  ~NxpLinks'[pte'[f]].free /\ NxpLinks'[pte'[f]].owner \in {0, f}
    <3>1. CASE f = o
      BY <1>8, <1>12, <3>1
    <3>2. CASE f # o
      <4>1. pte'[f] = pte[f] /\ pte[f] \in Pages \ {p, dest}
        BY <1>12, <2>3, <3>2
      <4> QED
        BY <1>7, <2>3, <4>1 DEF OwnersAgree, IsFree
    <3> QED
      BY <3>1, <3>2
  <2> QED
    BY <2>2, <2>3 DEF OwnersAgree, IsFree
<1>14. ContentsFollow'
  <2>1. \A q \in Pages : mem'[q] = IF q = p THEN 0 ELSE IF q = dest THEN mem[p] ELSE mem[q]
    BY <1>1, <1>2, <1>3 DEF TypeOK
  <2>2. mem[p] = o
    BY <1>2, <1>4, <1>12 DEF ContentsFollow
  <2>3. ASSUME NEW f \in Ptes, pte'[f] # 0
        PROVE  mem'[pte'[f]] = f
    <3>1. CASE f = o
      BY <1>3, <1>12, <2>1, <2>2, <3>1
    <3>2. CASE f # o
      <4>1. pte'[f] = pte[f] /\ pte[f] \in Pages \ {p, dest}
        BY <1>12, <2>3, <3>2
      <4> QED
        BY <2>1, <2>3, <4>1 DEF ContentsFollow
    <3> QED
      BY <3>1, <3>2
  <2> QED
    BY <2>3 DEF ContentsFollow
<1>15. NoFrameShared'
  <2>1. p \notin singles /\ p \notin Reserved /\ \A r \in runs : ~InRun(p, r)
    BY <1>4 DEF NoFrameShared, Unowned, InRun
  <2>2. \A f, g \in Ptes : pte'[f] = pte'[g] /\ pte'[f] # 0 => f = g
    BY <1>3, <1>12 DEF NoFrameShared
  <2>3. Unowned(p)'
    BY <1>3, <1>8, <1>12 DEF Unowned, IsFree
  <2>4. ASSUME NEW q \in Pages, Unowned(q)
        PROVE  Unowned(q)'
    <3>1. q # p /\ q # dest
      BY <1>3, <1>4, <2>4 DEF Unowned
    <3> QED
      BY <1>7, <1>12, <2>4, <3>1 DEF Unowned, IsFree
  <2> QED
    BY <1>0, <1>1, <2>1, <2>2, <2>3, <2>4, WindowShares
<1>16. WindowOpen'
  <2>1. SUFFICES ASSUME op'.kind = "take", NEW q \in Current' .. (op'.base + op'.pages - 1)
                 PROVE  NxpLinks'[q].free \/ NxpLinks'[q].owner # 0
    BY DEF WindowOpen, IsFree
  <2>2. Current' = Current + 1 /\ op'.base = op.base /\ op'.pages = op.pages
    BY <1>1, <2>1, WindowAdvances
  <2>3. q \in Pages /\ q # p /\ q # dest /\ q \in Current .. (op.base + op.pages - 1)
    <3>1. Current \in Nat /\ Current >= op.base
      BY <1>2 DEF Current, Pages
    <3> QED
      BY <1>1, <1>2, <1>3, <2>2, <3>1 DEF Pages
  <2> QED
    BY <1>1, <1>7, <2>3 DEF WindowOpen, IsFree
<1> QED
  BY <1>9, <1>10, <1>11, <1>13, <1>14, <1>15, <1>16

-----------------------------------------------------------------------------
(* The theorems.                                                           *)

\* Every step of the supply and its clients keeps the inductive invariant.
LEMMA NextIInv == IInv /\ [Next]_vars => IInv'
<1> SUFFICES ASSUME IInv, [Next]_vars PROVE IInv'
  OBVIOUS
<1>1. CASE UNCHANGED vars
  BY <1>1 DEF IInv, vars, supply, clients, TypeOK, LinksAgree, SpillHintSound, OwnersAgree,
              ContentsFollow, NoFrameShared, WindowOpen, FreePages, IsFree, Generic, Unowned,
              InRun, InFlight, Current, Reserved
<1>2. CASE Next
  BY <1>2, BootPageIInv, TakeAnyIInv, TakeSpecificIInv, ReturnSingleIInv, WritePteIInv,
     SetOwnerIInv, UnmapIInv, ContigBeginIInv, TakeWindowPageIInv, MoveWindowPageIInv,
     AbandonWindowIInv, ContigFreeIInv, ReturnRunPageIInv DEF Next
<1> QED
  BY <1>1, <1>2

\* The inductive invariant holds in every reachable state.
THEOREM SupplyInvariant == Spec => []IInv
<1> QED
  BY InitIInv, NextIInv, PTL DEF Spec

\* The supply's variables keep their types: the link words never name a frame
\* that does not exist and an operation never leaves its window.
THEOREM SupplyTypeOK == Spec => []TypeOK
<1>1. IInv => TypeOK
  BY DEF IInv
<1> QED
  BY <1>1, SupplyInvariant, PTL

\* Links, back links and list heads agree after any mix of pushes, unlinks and
\* relocations.
THEOREM SupplyLinksAgree == Spec => []LinksAgree
<1>1. IInv => LinksAgree
  BY DEF IInv
<1> QED
  BY <1>1, SupplyInvariant, PTL

\* No frame is ever free and held, or held twice: a frame is never handed out
\* twice and never returned twice.
THEOREM SupplyNoFrameShared == Spec => []NoFrameShared
<1>1. IInv => NoFrameShared
  BY DEF IInv
<1> QED
  BY <1>1, SupplyInvariant, PTL

\* Relocation is transparent: an entry always maps the frame with its own data,
\* and the owner word of a frame names the entry that maps it.
THEOREM SupplyRelocationTransparent == Spec => [](ContentsFollow /\ OwnersAgree)
<1>1. IInv => ContentsFollow /\ OwnersAgree
  BY DEF IInv
<1> QED
  BY <1>1, SupplyInvariant, PTL

\* The upward scans that start at the spill hint overlook no generic free frame.
THEOREM SupplySpillHintSound == Spec => []SpillHintSound
<1>1. IInv => SpillHintSound
  BY DEF IInv
<1> QED
  BY <1>1, SupplyInvariant, PTL

-----------------------------------------------------------------------------
(* What every step does to the lists and the counters: nothing, one frame   *)
(* off, or one frame on.                                                    *)

Idles ==
    /\ \A q \in Pages : NxpLinks'[q].free <=> NxpLinks[q].free
    /\ \A q \in FreePages : NxpLinks'[q].prev = NxpLinks[q].prev
    /\ UNCHANGED <<MmAvailablePages, NxpGenericAvail>>

Leaves(p) ==
    /\ p \in FreePages /\ Left(p)
    /\ MmAvailablePages' = MmAvailablePages - 1
    /\ NxpGenericAvail' = NxpGenericAvail - (IF Generic(p) THEN 1 ELSE 0)

Joins(p) ==
    /\ p \in Pages /\ ~IsFree(p) /\ Pushed(p)
    /\ MmAvailablePages' = MmAvailablePages + 1
    /\ NxpGenericAvail' = NxpGenericAvail + (IF Generic(p) THEN 1 ELSE 0)

\* NxpUnlink takes a free frame off its list.
LEMMA UnlinkLeaves ==
    ASSUME IInv, NEW p \in FreePages, NxpUnlink(p)
    PROVE  Leaves(p)
<1> USE DEF IInv
<1>1. p \in Pages /\ NxpLinks' = Unlinked(p) /\ UnlinkHead(p) /\ Took(p)
  BY UnlinkTakes DEF FreePages, NxpUnlink
<1>2. \A c \in Classes : NxpFreeHead'[c] =
         IF NxpLinks[p].prev = 0 /\ c = NxpHeadFor(p) THEN NxpLinks[p].next
         ELSE NxpFreeHead[c]
  BY <1>1, UnlinkHeadTypes
<1>3. ASSUME NEW q \in Pages, NxpLinks'[q].free
      PROVE  /\ NxpLinks'[q].prev = IF q = NxpLinks[p].next THEN NxpLinks[p].prev
                                    ELSE NxpLinks[q].prev
             /\ NxpLinks'[q].next = IF q = NxpLinks[p].prev THEN NxpLinks[p].next
                                    ELSE NxpLinks[q].next
  BY <1>1, <1>3, UnlinkedWords DEF Took, IsFree
<1>4. Left(p)
  BY <1>1, <1>2, <1>3 DEF Left, Took
<1> QED
  BY <1>1, <1>4 DEF Leaves, UnlinkHead

\* NxkPageSupplyReturn puts a frame in use on its list.
LEMMA ReturnJoins ==
    ASSUME IInv, NEW p \in Pages, ~IsFree(p), NxkPageSupplyReturn(p)
    PROVE  Joins(p)
  BY ReturnPushes DEF IInv, Joins, NxkPageSupplyReturn, NxpPushHead

\* A step that leaves the supply alone leaves the lists alone.
LEMMA SupplyIdles == UNCHANGED supply => Idles
  BY DEF supply, Idles

\* Every step takes at most one frame off the lists or puts one on.
LEMMA ListStep ==
    ASSUME IInv, [Next]_vars
    PROVE  Idles \/ (\E p \in Pages : Leaves(p)) \/ (\E p \in Pages : Joins(p))
<1> USE DEF IInv
<1>0. FreePages \subseteq Pages
  BY DEF FreePages
<1>1. ASSUME BootPage
      PROVE  Idles \/ \E p \in Pages : Joins(p)
  <2>1. op.kind = "boot" /\ Current \in Pages
    BY <1>1, RunningOp DEF BootPage
  <2>2. CASE Current \in BootFree
    <3>1. Current >= Current
      BY <2>1 DEF Pages
    <3>2. Current \in InFlight
      BY <2>1, <2>2, <3>1 DEF InFlight
    <3>3. ~IsFree(Current)
      BY <3>2 DEF NoFrameShared, Unowned
    <3> QED
      BY <1>1, <2>1, <2>2, <3>3, ReturnJoins DEF BootPage
  <2>3. CASE Current \notin BootFree
    BY <1>1, <2>3, SupplyIdles DEF BootPage
  <2> QED
    BY <2>2, <2>3
<1>2. ASSUME TakeAny
      PROVE  \E p \in Pages : Leaves(p)
  <2>1. AnyPfn \in FreePages /\ NxpUnlink(AnyPfn)
    BY <1>2, AnyPfnIsFree DEF TakeAny
  <2> QED
    BY <1>0, <2>1, UnlinkLeaves
<1>3. ASSUME NEW p \in ClaimPages, TakeSpecific(p)
      PROVE  \E q \in Pages : Leaves(q)
  <2>1. p \in FreePages /\ NxpUnlink(p)
    BY <1>3 DEF TakeSpecific, FreePages
  <2> QED
    BY <1>0, <2>1, UnlinkLeaves
<1>4. ASSUME NEW p \in singles, ReturnSingle(p)
      PROVE  \E q \in Pages : Joins(q)
  <2>1. p \in Pages /\ ~IsFree(p)
    BY DEF TypeOK, NoFrameShared, Unowned
  <2> QED
    BY <1>4, <2>1, ReturnJoins DEF ReturnSingle
<1>5. ASSUME NEW e \in Ptes, NEW p \in singles, WritePte(e, p)
      PROVE  Idles
  BY <1>5, SupplyIdles DEF WritePte
<1>6. ASSUME NEW e \in Ptes, NEW o \in {0, e}, SetOwner(e, o)
      PROVE  Idles
  <2>1. pte[e] \in Pages /\ ~NxpLinks[pte[e]].free /\ NxpLinks \in [Pages -> Entries]
    BY <1>6 DEF SetOwner, IsFree, TypeOK, Pages, PfnOrZero
  <2>2. \A q \in Pages : NxpLinks'[q] = IF q = pte[e] THEN InUse(o) ELSE NxpLinks[q]
    BY <1>6, <2>1 DEF SetOwner
  <2>3. InUse(o).free = FALSE
    BY DEF InUse
  <2> QED
    BY <1>6, <2>1, <2>2, <2>3 DEF SetOwner, Idles, FreePages, IsFree
<1>7. ASSUME NEW e \in Ptes, Unmap(e)
      PROVE  \E q \in Pages : Joins(q)
  <2>1. pte[e] \in Pages /\ ~IsFree(pte[e])
    BY <1>7 DEF Unmap, TypeOK, Pages, PfnOrZero, OwnersAgree
  <2> QED
    BY <1>7, <2>1, ReturnJoins DEF Unmap
<1>8. ASSUME NEW r \in Requests, ContigBegin(r)
      PROVE  Idles
  BY <1>8, SupplyIdles DEF ContigBegin
<1>9. ASSUME TakeWindowPage
      PROVE  \E p \in Pages : Leaves(p)
  <2>1. Current \in FreePages /\ NxpUnlink(Current)
    BY <1>9, RunningOp DEF TakeWindowPage, FreePages
  <2> QED
    BY <1>0, <2>1, UnlinkLeaves
<1>10. ASSUME MoveWindowPage
       PROVE  \E p \in Pages : Leaves(p)
  BY <1>0, <1>10, MoveMoves DEF Moved, Leaves, UnlinkHead
<1>11. ASSUME AbandonWindow
       PROVE  Idles
  BY <1>11, SupplyIdles DEF AbandonWindow
<1>12. ASSUME NEW r \in runs, ContigFree(r)
       PROVE  Idles
  BY <1>12, SupplyIdles DEF ContigFree
<1>13. ASSUME ReturnRunPage
       PROVE  \E p \in Pages : Joins(p)
  <2>1. op.kind = "return" /\ Current \in Pages
    BY <1>13, RunningOp DEF ReturnRunPage
  <2>2. Current \in InFlight
    BY <2>1, RunningOp DEF InFlight, Current, Pages
  <2>3. ~IsFree(Current)
    BY <2>2 DEF NoFrameShared, Unowned
  <2> QED
    BY <1>13, <2>1, <2>3, ReturnJoins DEF ReturnRunPage
<1>14. ASSUME UNCHANGED vars
       PROVE  Idles
  BY <1>14, SupplyIdles DEF vars
<1> QED
  BY <1>1, <1>2, <1>3, <1>4, <1>5, <1>6, <1>7, <1>8, <1>9, <1>10, <1>11, <1>12, <1>13, <1>14
     DEF Next

-----------------------------------------------------------------------------
(* The lists are exact.  That links and heads agree does not rule out a     *)
(* ring of free frames beside a list; Grounded does, and it is inductive:   *)
(* every set of free frames has a member whose predecessor is outside it.   *)

Grounded ==
    \A S \in SUBSET FreePages : S # {} => \E p \in S : NxpLinks[p].prev \notin S

GenericFree == {p \in FreePages : Generic(p)}

CountsExact ==
    /\ MmAvailablePages = Cardinality(FreePages)
    /\ NxpGenericAvail = Cardinality(GenericFree)

\* The free frames are finitely many.
LEMMA FreeFinite ==
    /\ IsFiniteSet(Pages) /\ Cardinality(Pages) = HighestPfn
    /\ \A S \in SUBSET Pages : /\ IsFiniteSet(S) /\ Cardinality(S) \in Nat
                               /\ Cardinality(S) <= HighestPfn
    /\ FreePages \in SUBSET Pages /\ GenericFree \in SUBSET Pages
<1>1. IsFiniteSet(Pages) /\ Cardinality(Pages) = HighestPfn
  BY FS_Interval DEF Pages
<1>2. ASSUME NEW S \in SUBSET Pages
      PROVE  /\ IsFiniteSet(S) /\ Cardinality(S) \in Nat
             /\ Cardinality(S) <= HighestPfn
  <2>1. IsFiniteSet(S) /\ Cardinality(S) <= Cardinality(Pages)
    BY <1>1, FS_Subset
  <2> QED
    BY <1>1, <2>1, FS_CardinalityType
<1> QED
  BY <1>1, <1>2 DEF FreePages, GenericFree

\* A push closes no ring: the frame pushed has no predecessor.
LEMMA JoinsGrounded ==
    ASSUME Grounded, NEW p \in Pages, Joins(p)
    PROVE  Grounded'
<1>1. SUFFICES ASSUME NEW S \in SUBSET FreePages', S # {}
               PROVE  \E q \in S : NxpLinks'[q].prev \notin S
  BY DEF Grounded
<1>2. /\ S \subseteq Pages /\ 0 \notin Pages
      /\ \A q \in S : q # p => q \in FreePages
  BY DEF FreePages, IsFree, Joins, Pushed, Pages
<1>3. CASE p \in S
  BY <1>2, <1>3 DEF Joins, Pushed
<1>4. CASE p \notin S
  <2>1. PICK q \in S : NxpLinks[q].prev \notin S
    BY <1>1, <1>2, <1>4 DEF Grounded
  <2>2. NxpLinks'[q].free
    BY <2>1 DEF FreePages, IsFree
  <2>3. NxpLinks'[q].prev \in {p, NxpLinks[q].prev}
    BY <1>2, <1>4, <2>1, <2>2 DEF Joins, Pushed
  <2> QED
    BY <1>4, <2>1, <2>3
<1> QED
  BY <1>3, <1>4

\* An unlink closes no ring: the successor inherits the predecessor.
LEMMA LeavesGrounded ==
    ASSUME IInv, Grounded, NEW p \in Pages, Leaves(p)
    PROVE  Grounded'
<1>1. SUFFICES ASSUME NEW S \in SUBSET FreePages', S # {}
               PROVE  \E q \in S : NxpLinks'[q].prev \notin S
  BY DEF Grounded
<1> DEFINE next == NxpLinks[p].next
           prev == NxpLinks[p].prev
<1>2. /\ S \subseteq FreePages /\ p \notin S /\ S \subseteq Pages /\ p \in FreePages
      /\ \A q \in S : NxpLinks'[q].prev = IF q = next THEN prev ELSE NxpLinks[q].prev
  BY DEF FreePages, IsFree, Leaves, Left
<1>3. CASE next \notin S
  <2>1. PICK q \in S : NxpLinks[q].prev \notin S
    BY <1>1, <1>2 DEF Grounded
  <2> QED
    BY <1>2, <1>3, <2>1
<1>4. CASE next \in S
  <2>1. NxpLinks[next].prev = p
    <3>1. next # 0
      BY <1>2, <1>4 DEF Pages
    <3> QED
      BY <1>2, <3>1 DEF IInv, LinksAgree
  <2>2. PICK q \in S \cup {p} : NxpLinks[q].prev \notin S \cup {p}
    <3>1. S \cup {p} \in SUBSET FreePages /\ S \cup {p} # {}
      BY <1>2
    <3> QED
      BY <3>1 DEF Grounded
  <2>3. CASE q = p
    BY <1>2, <1>4, <2>2, <2>3
  <2>4. CASE q # p
    BY <1>2, <2>1, <2>2, <2>4
  <2> QED
    BY <2>3, <2>4
<1> QED
  BY <1>3, <1>4

\* One frame more or less on the lists is one more or less in the counters.
LEMMA CountsFollow ==
    ASSUME CountsExact, NEW p \in Pages, Leaves(p) \/ Joins(p)
    PROVE  CountsExact'
<1>1. /\ IsFiniteSet(FreePages) /\ Cardinality(FreePages) \in Nat
      /\ IsFiniteSet(GenericFree) /\ Cardinality(GenericFree) \in Nat
  BY FreeFinite
<1>2. CASE Leaves(p)
  <2>1. p \in FreePages /\ FreePages' = FreePages \ {p}
    BY <1>2 DEF Leaves, Left, FreePages, IsFree
  <2>2. GenericFree' = GenericFree \ {p} /\ (p \in GenericFree <=> Generic(p))
    BY <2>1 DEF GenericFree, Generic
  <2>3. /\ Cardinality(FreePages') = Cardinality(FreePages) - 1
        /\ Cardinality(GenericFree') = IF Generic(p) THEN Cardinality(GenericFree) - 1
                                       ELSE Cardinality(GenericFree)
    BY <1>1, <2>1, <2>2, FS_RemoveElement
  <2> QED
    BY <1>1, <1>2, <2>3 DEF CountsExact, Leaves
<1>3. CASE Joins(p)
  <2>1. p \notin FreePages /\ FreePages' = FreePages \cup {p}
    BY <1>3 DEF Joins, Pushed, FreePages, IsFree
  <2>2. /\ GenericFree' = IF Generic(p) THEN GenericFree \cup {p} ELSE GenericFree
        /\ p \notin GenericFree
    BY <2>1 DEF GenericFree, Generic
  <2>3. /\ Cardinality(FreePages') = Cardinality(FreePages) + 1
        /\ Cardinality(GenericFree') = IF Generic(p) THEN Cardinality(GenericFree) + 1
                                       ELSE Cardinality(GenericFree)
    BY <1>1, <2>1, <2>2, FS_AddElement
  <2> QED
    BY <1>1, <1>3, <2>3 DEF CountsExact, Joins
<1> QED
  BY <1>2, <1>3

\* No list is a ring and the counters are exact before boot.
LEMMA InitLists == Init => Grounded /\ CountsExact
<1> SUFFICES ASSUME Init PROVE Grounded /\ CountsExact
  OBVIOUS
<1>1. FreePages = {} /\ GenericFree = {}
  BY DEF Init, FreePages, GenericFree, IsFree, InUse
<1>2. Cardinality(FreePages) = 0 /\ Cardinality(GenericFree) = 0
  BY <1>1, FS_EmptySet
<1> QED
  BY <1>1, <1>2 DEF Init, Grounded, CountsExact

\* Every step keeps both.
LEMMA NextLists ==
    ASSUME IInv, Grounded, CountsExact, [Next]_vars
    PROVE  Grounded' /\ CountsExact'
<1>1. CASE Idles
  <2>1. FreePages' = FreePages /\ \A q \in FreePages : NxpLinks'[q].prev = NxpLinks[q].prev
    BY <1>1 DEF Idles, FreePages, IsFree
  <2>2. Grounded'
    BY <2>1 DEF Grounded
  <2>3. GenericFree' = GenericFree
    BY <2>1 DEF GenericFree, Generic
  <2> QED
    BY <1>1, <2>1, <2>2, <2>3 DEF CountsExact, Idles
<1>2. CASE \E p \in Pages : Leaves(p)
  BY <1>2, LeavesGrounded, CountsFollow
<1>3. CASE \E p \in Pages : Joins(p)
  BY <1>3, JoinsGrounded, CountsFollow
<1> QED
  BY <1>1, <1>2, <1>3, ListStep

\* The walk of a list, step by step.
LEMMA WalkStep ==
    ASSUME NEW c
    PROVE  /\ WalkOf(c)[0] = NxpFreeHead[c]
           /\ \A n \in Pages : WalkOf(c)[n] = IF WalkOf(c)[n - 1] = 0 THEN 0
                                              ELSE NxpLinks[WalkOf(c)[n - 1]].next
<1> DEFINE E(f, i) == IF i = 0 THEN NxpFreeHead[c]
                      ELSE IF f[i - 1] = 0 THEN 0 ELSE NxpLinks[f[i - 1]].next
           Good(n) == \E f : f = [i \in 0 .. n |-> E(f, i)]
<1>1. WalkOf(c) = CHOOSE f : f = [i \in 0 .. HighestPfn |-> E(f, i)]
  BY DEF WalkOf, PfnOrZero
<1>2. Good(0)
  <2> DEFINE g == [i \in 0 .. 0 |-> NxpFreeHead[c]]
  <2>1. \A i \in 0 .. 0 : E(g, i) = NxpFreeHead[c]
    OBVIOUS
  <2>2. g = [i \in 0 .. 0 |-> E(g, i)]
    BY <2>1
  <2> QED
    BY <2>2
<1>3. ASSUME NEW n \in Nat, Good(n) PROVE Good(n + 1)
  <2>1. PICK f : f = [i \in 0 .. n |-> E(f, i)]
    BY <1>3
  <2> DEFINE g == [i \in 0 .. n + 1 |-> IF i = n + 1 THEN E(f, n + 1) ELSE f[i]]
  <2>2. \A i \in 0 .. n : g[i] = f[i]
    OBVIOUS
  <2>3. \A i \in 1 .. n + 1 : i - 1 \in 0 .. n
    OBVIOUS
  <2>4. ASSUME NEW i \in 0 .. n + 1 PROVE g[i] = E(g, i)
    <3>1. CASE i = 0
      BY <2>1, <2>2, <3>1
    <3>2. CASE i \in 1 .. n
      <4>1. f[i] = E(f, i)
        <5>1. i \in 0 .. n
          BY <3>2
        <5> HIDE DEF E
        <5> QED
          BY <2>1, <5>1
      <4>2. g[i - 1] = f[i - 1] /\ g[i] = f[i]
        BY <2>2, <2>3, <3>2
      <4> HIDE DEF g
      <4> QED
        BY <4>1, <4>2
    <3>3. CASE i = n + 1
      <4>1. g[i] = E(f, i)
        BY <3>3
      <4>2. g[i - 1] = f[i - 1]
        BY <2>2, <2>3, <3>3
      <4> HIDE DEF g
      <4> QED
        BY <4>1, <4>2
    <3> QED
      BY <3>1, <3>2, <3>3
  <2>5. g = [i \in 0 .. n + 1 |-> E(g, i)]
    <3>1. g = [i \in 0 .. n + 1 |-> g[i]]
      OBVIOUS
    <3> HIDE DEF g, E
    <3> QED
      BY <2>4, <3>1
  <2> HIDE DEF g, E
  <2> QED
    BY <2>5
<1>4. Good(HighestPfn)
  <2> DEFINE T == {n \in Nat : ~Good(n)}
  <2> HIDE DEF Good
  <2>1. ASSUME T # {} PROVE FALSE
    <3>1. T \in SUBSET Nat
      OBVIOUS
    <3>2. PICK m \in T : \A n \in T : m <= n
      <4> HIDE DEF T
      <4> QED
        BY <2>1, <3>1, LeastExists
    <3>3. m \in Nat /\ ~Good(m) /\ m # 0
      BY <1>2, <3>2
    <3>4. m - 1 \in Nat /\ m - 1 \notin T /\ (m - 1) + 1 = m
      BY <3>2, <3>3
    <3>5. Good(m - 1)
      BY <3>4
    <3>6. Good((m - 1) + 1)
      BY <1>3, <3>4, <3>5
    <3> QED
      BY <3>3, <3>4, <3>6
  <2> QED
    BY <2>1
<1>5. WalkOf(c) = [i \in 0 .. HighestPfn |-> E(WalkOf(c), i)]
  <2> HIDE DEF E
  <2> QED
    BY <1>1, <1>4
<1>6. \A i \in 0 .. HighestPfn : WalkOf(c)[i] = E(WalkOf(c), i)
  <2> HIDE DEF E
  <2> QED
    BY <1>5
<1>7. WalkOf(c)[0] = NxpFreeHead[c]
  <2>1. 0 \in 0 .. HighestPfn
    OBVIOUS
  <2> QED
    BY <1>6, <2>1
<1>8. ASSUME NEW n \in Pages
      PROVE  WalkOf(c)[n] = IF WalkOf(c)[n - 1] = 0 THEN 0
                            ELSE NxpLinks[WalkOf(c)[n - 1]].next
  <2>1. n \in 0 .. HighestPfn /\ n # 0
    BY DEF Pages
  <2> QED
    BY <1>6, <2>1
<1> QED
  BY <1>7, <1>8

\* The walk of a class meets free frames of the class only, each at most once.
LEMMA WalkInside ==
    ASSUME IInv, NEW c \in Classes, NEW w, w = WalkOf(c)
    PROVE  /\ \A n \in PfnOrZero : w[n] # 0 => w[n] \in FreePages /\ NxpHeadFor(w[n]) = c
           /\ \A n \in PfnOrZero : w[n] # 0 =>
                 NxpLinks[w[n]].prev = IF n = 0 THEN 0 ELSE w[n - 1]
           /\ \A n \in Pages : w[n] # 0 => w[n - 1] # 0
           /\ \A m, n \in PfnOrZero : w[m] = w[n] /\ w[m] # 0 => m = n
<1> USE DEF IInv
<1>1. /\ w[0] = NxpFreeHead[c]
      /\ \A n \in Pages : w[n] = IF w[n - 1] = 0 THEN 0 ELSE NxpLinks[w[n - 1]].next
  BY WalkStep
<1>2. \A n \in Pages : w[n] # 0 => w[n - 1] # 0 /\ w[n] = NxpLinks[w[n - 1]].next
  BY <1>1
<1> DEFINE Met(n) == /\ w[n] \in FreePages /\ NxpHeadFor(w[n]) = c
                     /\ NxpLinks[w[n]].prev = IF n = 0 THEN 0 ELSE w[n - 1]
<1>3. \A n \in PfnOrZero : w[n] # 0 => Met(n)
  <2> DEFINE T == {n \in PfnOrZero : w[n] # 0 /\ ~Met(n)}
  <2>1. ASSUME T # {} PROVE FALSE
    <3>1. T \in SUBSET Nat
      BY DEF PfnOrZero
    <3>2. PICK n \in T : \A m \in T : n <= m
      <4> HIDE DEF T
      <4> QED
        BY <2>1, <3>1, LeastExists
    <3>3. n \in PfnOrZero /\ w[n] # 0 /\ ~Met(n)
      BY <3>2
    <3>4. n # 0
      <4>1. NxpFreeHead[c] # 0 => /\ NxpFreeHead[c] \in FreePages
                                  /\ NxpLinks[NxpFreeHead[c]].prev = 0
                                  /\ NxpHeadFor(NxpFreeHead[c]) = c
        BY DEF LinksAgree, FreePages, TypeOK, Pages, PfnOrZero
      <4> QED
        BY <1>1, <3>3, <4>1
    <3>5. n \in Pages /\ n - 1 \in PfnOrZero /\ n - 1 < n
      BY <3>3, <3>4 DEF Pages, PfnOrZero
    <3>6. w[n - 1] # 0 /\ w[n] = NxpLinks[w[n - 1]].next
      BY <1>2, <3>3, <3>5
    <3>7. Met(n - 1)
      <4>1. n - 1 \notin T
        BY <3>1, <3>2, <3>5 DEF PfnOrZero
      <4> QED
        BY <3>5, <3>6, <4>1
    <3>8. PICK p \in FreePages : p = w[n - 1] /\ NxpHeadFor(p) = c
      BY <3>7
    <3>9. w[n] = NxpLinks[p].next /\ NxpLinks[p].next # 0
      BY <3>3, <3>6, <3>8
    <3>10. /\ IsFree(w[n]) /\ NxpLinks[w[n]].prev = p /\ NxpHeadFor(w[n]) = c
      BY <3>8, <3>9 DEF LinksAgree
    <3>11. w[n] \in Pages
      BY <3>8, <3>9 DEF TypeOK, Entries, FreePages, Pages, PfnOrZero
    <3> QED
      BY <3>3, <3>4, <3>8, <3>10, <3>11 DEF FreePages
  <2> QED
    BY <2>1
<1>4. \A n \in PfnOrZero : w[n] # 0 => NxpLinks[w[n]].prev = IF n = 0 THEN 0 ELSE w[n - 1]
  BY <1>3
<1>5. \A m, n \in PfnOrZero : w[m] = w[n] /\ w[m] # 0 => m = n
  <2> DEFINE T == {m \in PfnOrZero : w[m] # 0 /\ \E n \in PfnOrZero : w[m] = w[n] /\ m # n}
  <2>1. ASSUME T # {} PROVE FALSE
    <3>1. T \in SUBSET Nat
      BY DEF PfnOrZero
    <3>2. PICK m \in T : \A k \in T : m <= k
      <4> HIDE DEF T
      <4> QED
        BY <2>1, <3>1, LeastExists
    <3>3. PICK n \in PfnOrZero : w[m] = w[n] /\ m # n
      BY <3>2
    <3>4. m \in PfnOrZero /\ w[m] # 0 /\ w[n] # 0 /\ n \in T
      BY <3>2, <3>3
    <3>5. m <= n /\ n # 0 /\ n \in Pages /\ n - 1 \in PfnOrZero
      BY <3>2, <3>3, <3>4 DEF Pages, PfnOrZero
    <3>6. NxpLinks[w[n]].prev = w[n - 1] /\ w[n - 1] # 0
      BY <1>2, <1>4, <3>4, <3>5
    <3>7. m # 0 /\ w[m - 1] = w[n - 1]
      BY <1>4, <3>3, <3>4, <3>6
    <3>8. m - 1 \in PfnOrZero /\ m - 1 # n - 1 /\ m - 1 < m
      BY <3>3, <3>4, <3>5, <3>7 DEF PfnOrZero
    <3>9. m - 1 \in T
      BY <3>5, <3>6, <3>7, <3>8
    <3> QED
      BY <3>1, <3>2, <3>8, <3>9
  <2> QED
    BY <2>1
<1> QED
  BY <1>2, <1>3, <1>4, <1>5

\* The walk has ended by the time it has met every frame of the class.
LEMMA WalkEnds ==
    ASSUME IInv, NEW c \in Classes, NEW M, M = {p \in FreePages : NxpHeadFor(p) = c}
    PROVE  /\ Cardinality(M) \in PfnOrZero
           /\ WalkOf(c)[Cardinality(M)] = 0
           /\ WalkOf(c)[HighestPfn] = 0
<1> DEFINE w == WalkOf(c)
<1>1. M \in SUBSET Pages /\ IsFiniteSet(M) /\ Cardinality(M) \in PfnOrZero
  <2>1. M \in SUBSET Pages
    BY DEF FreePages
  <2> QED
    BY <2>1, FreeFinite DEF PfnOrZero
<1>2. /\ \A n \in PfnOrZero : w[n] # 0 => w[n] \in M
      /\ \A n \in Pages : w[n] # 0 => w[n - 1] # 0
      /\ \A m, n \in PfnOrZero : w[m] = w[n] /\ w[m] # 0 => m = n
  BY WalkInside
<1> HIDE DEF w
<1>3. ASSUME NEW k \in PfnOrZero, Cardinality(M) <= k
      PROVE  w[k] = 0
  <2>1. SUFFICES ASSUME w[k] # 0 PROVE FALSE
    OBVIOUS
  <2>2. \A n \in 0 .. k : w[n] # 0
    <3> DEFINE T == {d \in 0 .. k : w[k - d] = 0}
    <3>1. ASSUME T # {} PROVE FALSE
      <4>1. T \in SUBSET Nat
        BY DEF PfnOrZero
      <4>2. PICK d \in T : \A x \in T : d <= x
        <5> HIDE DEF T
        <5> QED
          BY <3>1, <4>1, LeastExists
      <4>3. d \in 0 .. k /\ w[k - d] = 0 /\ d # 0
        BY <2>1, <4>2 DEF PfnOrZero
      <4>4. d - 1 \in 0 .. k /\ d - 1 \notin T
        BY <4>1, <4>2, <4>3 DEF PfnOrZero
      <4>5. w[k - (d - 1)] # 0
        BY <4>4
      <4>6. k - (d - 1) \in Pages /\ (k - (d - 1)) - 1 = k - d
        BY <4>3 DEF Pages, PfnOrZero
      <4> QED
        BY <1>2, <4>3, <4>5, <4>6
    <3>2. ASSUME NEW n \in 0 .. k PROVE w[n] # 0
      <4>1. k - n \in 0 .. k /\ k - (k - n) = n
        BY DEF PfnOrZero
      <4>2. k - n \notin T
        BY <3>1
      <4> QED
        BY <4>1, <4>2
    <3> QED
      BY <3>2
  <2> DEFINE f == [n \in 0 .. k |-> w[n]]
  <2>3. \A n \in 0 .. k : n \in PfnOrZero /\ f[n] = w[n] /\ f[n] \in M
    BY <1>2, <2>2 DEF PfnOrZero
  <2>4. f \in [0 .. k -> M]
    BY <2>3
  <2>5. \A m, n \in 0 .. k : f[m] = f[n] => m = n
    BY <1>2, <2>2, <2>3
  <2>6. IsFiniteSet(0 .. k) /\ Cardinality(0 .. k) = k + 1
    BY FS_Interval DEF PfnOrZero
  <2>7. Cardinality(M) < Cardinality(0 .. k)
    BY <1>1, <1>3, <2>6 DEF PfnOrZero
  <2> HIDE DEF f
  <2>8. \E m, n \in 0 .. k : m # n /\ f[m] = f[n]
    <3>1. PICK D : D = 0 .. k
      OBVIOUS
    <3>2. IsFiniteSet(D) /\ Cardinality(M) < Cardinality(D) /\ f \in [D -> M]
      BY <2>4, <2>6, <2>7, <3>1
    <3>3. IsFiniteSet(M)
      BY <1>1
    <3>4. \E m, n \in D : m # n /\ f[m] = f[n]
      BY <3>2, <3>3, FS_PigeonHole, SMT
    <3> QED
      BY <3>1, <3>4
  <2> QED
    BY <2>5, <2>8
<1>4. Cardinality(M) <= Cardinality(M) /\ Cardinality(M) <= HighestPfn /\ HighestPfn \in PfnOrZero
  BY <1>1 DEF PfnOrZero
<1>5. w[Cardinality(M)] = 0 /\ w[HighestPfn] = 0
  BY <1>1, <1>3, <1>4
<1> QED
  BY <1>1, <1>5 DEF w

\* The walk meets every free frame of the class: otherwise the frames it misses
\* would be a set in which every predecessor is missed too.
LEMMA WalkMeets ==
    ASSUME IInv, Grounded, NEW c \in Classes,
           NEW p \in FreePages, NxpHeadFor(p) = c
    PROVE  \E n \in PfnOrZero : WalkOf(c)[n] = p
<1> USE DEF IInv
<1> DEFINE w == WalkOf(c)
           T == {q \in FreePages : NxpHeadFor(q) = c /\ \A n \in PfnOrZero : w[n] # q}
<1>1. SUFFICES ASSUME T # {} PROVE FALSE
  OBVIOUS
<1>2. PICK q \in T : NxpLinks[q].prev \notin T
  <2>1. T \in SUBSET FreePages
    OBVIOUS
  <2> HIDE DEF T
  <2> QED
    BY <1>1, <2>1 DEF Grounded
<1>3. /\ w[0] = NxpFreeHead[c]
      /\ \A n \in Pages : w[n] = IF w[n - 1] = 0 THEN 0 ELSE NxpLinks[w[n - 1]].next
  BY WalkStep
<1>4. w[HighestPfn] = 0
  BY WalkEnds
<1> HIDE DEF w
<1>5. q \in FreePages /\ NxpHeadFor(q) = c /\ \A n \in PfnOrZero : w[n] # q
  BY <1>2
<1>6. NxpLinks[q].prev # 0
  <2>1. 0 \in PfnOrZero
    BY DEF PfnOrZero
  <2> QED
    BY <1>3, <1>5, <2>1 DEF LinksAgree
<1>7. PICK r : r = NxpLinks[q].prev
  OBVIOUS
<1>8. r \in FreePages /\ NxpLinks[r].next = q /\ NxpHeadFor(r) = c
  <2>1. r \in Pages
    BY <1>5, <1>6, <1>7 DEF TypeOK, Entries, FreePages, Pages, PfnOrZero
  <2> QED
    BY <1>5, <1>6, <1>7, <2>1 DEF LinksAgree, FreePages
<1>9. PICK n \in PfnOrZero : w[n] = r
  BY <1>2, <1>7, <1>8
<1>10. n # HighestPfn /\ r # 0
  BY <1>4, <1>6, <1>7, <1>9
<1>11. n + 1 \in Pages /\ n + 1 \in PfnOrZero /\ (n + 1) - 1 = n
  BY <1>10 DEF Pages, PfnOrZero
<1>12. w[n + 1] = q
  BY <1>3, <1>8, <1>9, <1>10, <1>11
<1> QED
  BY <1>5, <1>11, <1>12

\* Walking a class's list from its head meets exactly the free frames of the
\* class, each once, and ends, and both availability counters are exact, after
\* any mix of pushes, mid-list unlinks and relocations.
THEOREM SupplyListsExact == Spec => []ListsExact
<1>1. ASSUME IInv, Grounded, CountsExact
      PROVE  ListsExact
  <2>1. ASSUME NEW c \in Classes, NEW M, M = {p \in FreePages : NxpHeadFor(p) = c}
        PROVE  /\ {WalkOf(c)[n] : n \in PfnOrZero} \ {0} = M
               /\ WalkOf(c)[Cardinality(M)] = 0
    <3>1. \A n \in PfnOrZero : WalkOf(c)[n] # 0 => WalkOf(c)[n] \in M
      BY <1>1, <2>1, WalkInside
    <3>2. \A p \in M : p # 0 /\ \E n \in PfnOrZero : WalkOf(c)[n] = p
      BY <1>1, <2>1, WalkMeets DEF FreePages, Pages
    <3>3. WalkOf(c)[Cardinality(M)] = 0
      BY <1>1, <2>1, WalkEnds
    <3> QED
      BY <3>1, <3>2, <3>3
  <2> QED
    BY <1>1, <2>1 DEF ListsExact, CountsExact, GenericFree
<1>2. Init => IInv /\ Grounded /\ CountsExact
  BY InitIInv, InitLists
<1>3. IInv /\ Grounded /\ CountsExact /\ [Next]_vars => (IInv /\ Grounded /\ CountsExact)'
  BY NextIInv, NextLists
<1> QED
  BY <1>1, <1>2, <1>3, PTL DEF Spec

-----------------------------------------------------------------------------
(* Relocation finds its destinations.  For a window at or above the floor   *)
(* the pre-flight count is what it claims to be, and each move uses up one  *)
(* frame to move and at most one frame to move to.                          *)

\* The frames the running operation has still to move out of its window.
ToMove == {p \in Pages : p >= Current /\ p <= op.base + op.pages - 1 /\ ~IsFree(p)}

\* The generic free frames outside the window.
Targets == {p \in GenericFree : p < op.base \/ p > op.base + op.pages - 1}

TargetsSuffice ==
    op.kind = "take" /\ op.base >= GenericFloorPfn => Cardinality(ToMove) <= Cardinality(Targets)

\* The pre-flight subtraction does not wrap for a window above the floor, and
\* counts the frames there are to move to.
LEMMA PreFlightCounts ==
    ASSUME IInv, CountsExact, NEW r \in Requests, RunBase(r) # 0,
           RunBase(r) >= GenericFloorPfn, NEW w, w = Window(RunBase(r), r.pages)
    PROVE  Cardinality({p \in w : ~IsFree(p)}) <= Cardinality(GenericFree \ w)
<1> USE DEF IInv
<1>0. PICK b : b = RunBase(r)
  OBVIOUS
<1>1. /\ b \in Pages /\ w \subseteq Pages /\ b >= GenericFloorPfn /\ w = Window(b, r.pages)
      /\ \A p \in w : IsFree(p) \/ NxpLinks[p].owner # 0
  BY <1>0, RunBaseFits
<1>2. \A p \in w : p >= GenericFloorPfn
  <2>1. PICK n \in Nat : n = r.pages
    OBVIOUS
  <2>2. w = b .. (b + n - 1) /\ b \in Nat
    BY <1>1, <2>1 DEF Window, Pages
  <2> QED
    BY <1>1, <2>2
<1>3. b \in FreeRuns(r) \/ b \in RelocatableRuns(r)
  <2>1. Bases(r) \in SUBSET (0 .. HighestPfn)
    <3>1. HighOf(r) \in PfnOrZero /\ LowOf(r) \in Nat
      BY DEF LowOf, HighOf, PfnOrZero
    <3> QED
      BY <3>1 DEF Bases, PfnOrZero
  <2>2. FreeRuns(r) \in SUBSET (0 .. HighestPfn) /\ RelocatableRuns(r) \in SUBSET (0 .. HighestPfn)
    BY <2>1 DEF FreeRuns, RelocatableRuns
  <2>3. HighestOf({}) = 0
    BY DEF HighestOf
  <2> QED
    BY <1>0, <2>2, <2>3, HighestOfIsHighest DEF RunBase
<1> DEFINE busy == {p \in w : ~IsFree(p)}
           spare == GenericFree \ w
           free == w \cap FreePages
<1>4. /\ IsFiniteSet(busy) /\ Cardinality(busy) \in Nat
      /\ IsFiniteSet(spare) /\ Cardinality(spare) \in Nat /\ Cardinality(spare) <= HighestPfn
      /\ IsFiniteSet(free) /\ Cardinality(free) \in Nat
  <2>1. busy \in SUBSET Pages /\ spare \in SUBSET Pages /\ free \in SUBSET Pages
    BY <1>1 DEF GenericFree, FreePages
  <2> HIDE DEF busy, spare, free
  <2> QED
    BY <2>1, FreeFinite
<1>5. CASE b \in FreeRuns(r)
  <2>1. busy = {}
    BY <1>1, <1>5 DEF FreeRuns, FreePages
  <2>2. Cardinality(busy) = 0
    BY <2>1, FS_EmptySet
  <2> HIDE DEF busy, spare
  <2>3. Cardinality(busy) <= Cardinality(spare)
    BY <1>4, <2>2
  <2> QED
    BY <2>3 DEF busy, spare
<1>6. CASE b \in RelocatableRuns(r)
  <2>1. busy = {p \in w : ~IsFree(p) /\ NxpLinks[p].owner # 0}
    BY <1>1
  <2>2. (NxpGenericAvail - Cardinality(free)) % WordSize >= Cardinality(busy)
    BY <1>1, <1>6, <2>1 DEF RelocatableRuns, PreFlight
  <2>3. GenericFree = spare \cup free /\ spare \cap free = {}
    BY <1>2 DEF GenericFree, Generic
  <2> HIDE DEF busy, spare, free
  <2>4. Cardinality(GenericFree) = Cardinality(spare) + Cardinality(free)
    <3>1. Cardinality(spare \cup free)
             = Cardinality(spare) + Cardinality(free) - Cardinality(spare \cap free)
      BY <1>4, FS_Union
    <3>2. Cardinality(spare \cap free) = 0
      BY <2>3, FS_EmptySet
    <3> QED
      BY <1>4, <2>3, <3>1, <3>2
  <2>5. NxpGenericAvail - Cardinality(free) = Cardinality(spare)
    BY <1>4, <2>4 DEF CountsExact
  <2>6. Cardinality(spare) % WordSize = Cardinality(spare)
    <3>1. PICK n \in Nat : n = Cardinality(spare) /\ n < WordSize
      BY <1>4
    <3>2. n % WordSize = n
      BY <3>1
    <3> QED
      BY <3>1, <3>2
  <2>7. Cardinality(busy) <= Cardinality(spare)
    BY <1>4, <2>2, <2>5, <2>6
  <2> QED
    BY <2>7 DEF busy, spare
<1> QED
  BY <1>3, <1>5, <1>6

\* A window at or above the floor never runs out of destinations.
LEMMA TargetFound ==
    ASSUME IInv, TargetsSuffice, op.kind = "take", op.base >= GenericFloorPfn, ~IsFree(Current)
    PROVE  OutsidePfn(op.base, op.base + op.pages - 1) # 0
<1> USE DEF IInv
<1>1. /\ Current \in Pages /\ op.base \in Pages /\ op.pages \in Pages /\ op.done \in Nat
      /\ op.done < op.pages
  BY RunningOp
<1>2. Current \in ToMove
  BY <1>1 DEF ToMove, Current, Pages
<1>3. ToMove \in SUBSET Pages /\ Targets \in SUBSET Pages
  BY DEF ToMove, Targets, GenericFree, FreePages
<1>4. IsFiniteSet(ToMove) /\ Cardinality(ToMove) \in Nat /\ IsFiniteSet(Targets)
  BY <1>3, FreeFinite
<1>5. Cardinality(ToMove) # 0
  BY <1>2, <1>4, FS_EmptySet
<1>6. Cardinality(Targets) # 0
  <2>1. Cardinality(ToMove) <= Cardinality(Targets) /\ Cardinality(Targets) \in Nat
    BY <1>3, FreeFinite DEF TargetsSuffice
  <2> QED
    BY <1>4, <1>5, <2>1
<1>7. Targets # {}
  BY <1>6, FS_EmptySet
<1>8. PICK t \in Targets : TRUE
  BY <1>7
<1> DEFINE low == op.base
           high == op.base + op.pages - 1
           out == {p \in FreePages : p < low \/ p > high}
           up == {p \in out : p >= NxpSpillHint}
<1>9. t \in up
  BY <1>8 DEF Targets, GenericFree, SpillHintSound
<1>10. up \in SUBSET Nat /\ out \subseteq Pages
  BY DEF FreePages, Pages
<1>11. LowestOf(up) \in up
  <2> HIDE DEF up
  <2> QED
    BY <1>9, <1>10, LowestOfIsLowest
<1>12. OutsidePfn(low, high) = IF NxpFreeHead["kernel"] \in out THEN NxpFreeHead["kernel"]
                              ELSE LowestOf(up)
  BY <1>9 DEF OutsidePfn
<1>13. 0 \notin out /\ 0 \notin up
  BY <1>10 DEF Pages
<1> HIDE DEF out, up, low, high
<1>14. OutsidePfn(low, high) # 0
  BY <1>11, <1>12, <1>13
<1> QED
  BY <1>14 DEF low, high

\* The running operation of a step that neither begins nor continues a window.
LEMMA NoWindowAfter ==
    ASSUME TypeOK, op.kind # "take", op' = op \/ (op.kind # "idle" /\ op' = Advance)
    PROVE  op'.kind # "take"
<1>1. CASE op' = op
  BY <1>1
<1>2. CASE op.kind # "idle" /\ op' = Advance
  <2>1. op'.kind # "idle" => op'.kind = op.kind
    BY <1>2, AdvanceTypes
  <2> QED
    BY <2>1
<1> QED
  BY <1>1, <1>2

\* Every step keeps enough destinations for the frames still to move.
LEMMA NextTargets ==
    ASSUME IInv, CountsExact, TargetsSuffice, [Next]_vars
    PROVE  TargetsSuffice'
<1> USE DEF IInv
<1>0. SUFFICES ASSUME op'.kind = "take", op'.base >= GenericFloorPfn
               PROVE  Cardinality(ToMove') <= Cardinality(Targets')
  BY DEF TargetsSuffice
<1>1. ASSUME NEW r \in Requests, ContigBegin(r)
      PROVE  Cardinality(ToMove') <= Cardinality(Targets')
  <2>0. PICK b, n : b = RunBase(r) /\ n = r.pages
    OBVIOUS
  <2>1. /\ b # 0 /\ b \in Pages /\ n \in Nat /\ NxpLinks' = NxpLinks
        /\ op' = [kind |-> "take", base |-> b, pages |-> n, done |-> 0]
    BY <1>1, <2>0, RunBaseFits DEF ContigBegin, Begin, supply
  <2>2. PICK w : w = Window(b, n)
    OBVIOUS
  <2>3. w \subseteq Pages /\ w = b .. (b + n - 1) /\ b \in Nat
    BY <1>1, <2>0, <2>1, <2>2, RunBaseFits DEF Window, Pages
  <2>4. op'.base = b /\ op'.pages = n /\ Current' = b
    BY <2>1, <2>3 DEF Current
  <2>5. ToMove' = {p \in w : ~IsFree(p)}
    <3>1. \A p \in Pages : (p >= b /\ p <= b + n - 1) <=> p \in w
      BY <2>1, <2>3 DEF Pages
    <3>2. ToMove' = {p \in Pages : p >= b /\ p <= b + n - 1 /\ ~IsFree(p)}
      BY <2>1, <2>4 DEF ToMove, IsFree
    <3> QED
      BY <2>3, <3>1, <3>2
  <2>6. Targets' = GenericFree \ w
    <3>1. \A p \in Pages : (p < b \/ p > b + n - 1) <=> p \notin w
      BY <2>1, <2>3 DEF Pages
    <3>2. GenericFree' = GenericFree /\ GenericFree \subseteq Pages
      BY <2>1 DEF GenericFree, FreePages, IsFree, Generic
    <3>3. Targets' = {p \in GenericFree : p < b \/ p > b + n - 1}
      BY <2>4, <3>2 DEF Targets
    <3> QED
      BY <3>1, <3>2, <3>3
  <2>7. b >= GenericFloorPfn
    BY <1>0, <2>4
  <2> QED
    BY <2>0, <2>1, <2>2, <2>5, <2>6, <2>7, PreFlightCounts
<1>2. /\ FreePages \subseteq Pages
      /\ \A S \in SUBSET Pages : IsFiniteSet(S) /\ Cardinality(S) \in Nat
      /\ ToMove \in SUBSET Pages /\ Targets \in SUBSET Pages
  BY FreeFinite DEF FreePages, ToMove, Targets, GenericFree
<1>3. ASSUME op.kind = "take", ContigAdvance
      PROVE  /\ op.base \in Pages /\ op.pages \in Pages /\ Current \in Pages
             /\ Current' = Current + 1 /\ op'.base = op.base /\ op'.pages = op.pages
             /\ Current >= op.base /\ Current <= op.base + op.pages - 1
             /\ Cardinality(ToMove) <= Cardinality(Targets)
  <2>1. /\ Current' = Current + 1 /\ op'.base = op.base /\ op'.pages = op.pages
    BY <1>0, <1>3, WindowAdvances
  <2>2. /\ op.base \in Pages /\ op.pages \in Pages /\ Current \in Pages
        /\ op.done \in Nat /\ op.done < op.pages
    BY <1>3, RunningOp
  <2>3. Current >= op.base /\ Current <= op.base + op.pages - 1
    BY <2>2 DEF Current, Pages
  <2> QED
    BY <1>0, <1>3, <2>1, <2>2, <2>3 DEF TargetsSuffice
<1>4. ASSUME TakeWindowPage
      PROVE  Cardinality(ToMove') <= Cardinality(Targets')
  <2>0. PICK p : p = Current
    OBVIOUS
  <2>1. op.kind = "take" /\ IsFree(p) /\ NxpUnlink(p) /\ ContigAdvance
    BY <1>4, <2>0 DEF TakeWindowPage
  <2>2. p \in FreePages /\ p \in Pages /\ Took(p)
    BY <1>3, <2>0, <2>1, UnlinkTakes DEF FreePages
  <2>3. ToMove' = ToMove
    BY <1>3, <2>0, <2>1, <2>2 DEF ToMove, Took, IsFree, Pages
  <2>4. Targets' = Targets
    BY <1>3, <2>0, <2>1, <2>2 DEF Targets, GenericFree, FreePages, Generic, Took, IsFree, Pages
  <2> QED
    BY <1>3, <2>1, <2>3, <2>4
<1>5. ASSUME MoveWindowPage
      PROVE  Cardinality(ToMove') <= Cardinality(Targets')
  <2>1. PICK p \in Pages, o \in Ptes, dest \in FreePages : Moved(p, o, dest)
    BY <1>5, MoveMoves
  <2>2. /\ p = Current /\ op.kind = "take" /\ ~IsFree(p) /\ ContigAdvance
        /\ dest # p /\ (dest < op.base \/ dest > op.base + op.pages - 1)
        /\ \A q \in Pages : NxpLinks'[q].free <=> NxpLinks[q].free /\ q # dest
    BY <2>1 DEF Moved, Left
  <2>3. ToMove' = ToMove \ {p} /\ p \in ToMove
    <3>1. p \in ToMove
      BY <1>3, <2>2 DEF ToMove, Pages
    <3>2. ASSUME NEW q \in Pages
          PROVE  q \in ToMove' <=> q \in ToMove \ {p}
      <4>1. q >= Current + 1 <=> q >= Current /\ q # p
        BY <1>3, <2>2 DEF Pages
      <4>2. q <= op.base + op.pages - 1 /\ q >= Current => q # dest
        BY <1>3, <2>1, <2>2 DEF Pages
      <4> QED
        BY <1>3, <2>2, <4>1, <4>2 DEF ToMove, IsFree
    <3>3. ToMove' \subseteq Pages
      BY DEF ToMove
    <3> QED
      BY <1>2, <3>1, <3>2, <3>3
  <2>4. Targets' = Targets \ {dest}
    BY <1>3, <2>2 DEF Targets, GenericFree, FreePages, Generic, IsFree
  <2>5. Cardinality(ToMove') = Cardinality(ToMove) - 1
    BY <1>2, <2>3, FS_RemoveElement
  <2>6. Cardinality(Targets') >= Cardinality(Targets) - 1
    <3>1. Cardinality(Targets') = IF dest \in Targets THEN Cardinality(Targets) - 1
                                  ELSE Cardinality(Targets)
      BY <1>2, <2>4, FS_RemoveElement
    <3> QED
      BY <1>2, <3>1
  <2>7. Cardinality(Targets') \in Nat
    BY <1>2, <2>4
  <2> QED
    BY <1>2, <1>3, <2>2, <2>5, <2>6, <2>7
<1>6. CASE UNCHANGED vars
  <2>1. UNCHANGED <<op, NxpLinks>>
    BY <1>6 DEF vars, supply
  <2>2. ToMove' = ToMove /\ Targets' = Targets
    BY <2>1 DEF ToMove, Targets, GenericFree, FreePages, IsFree, Generic, Current
  <2> QED
    BY <1>0, <2>1, <2>2 DEF TargetsSuffice
<1>7. ASSUME op.kind # "take", op' = op \/ (op.kind # "idle" /\ op' = Advance)
      PROVE  FALSE
  BY <1>0, <1>7, NoWindowAfter
<1>8. ASSUME op = Idle, UNCHANGED op
      PROVE  FALSE
  BY <1>7, <1>8 DEF Idle
<1>9. BootPage => FALSE
  BY <1>7 DEF BootPage
<1>10. ReturnRunPage => FALSE
  BY <1>7 DEF ReturnRunPage
<1>11. AbandonWindow => FALSE
  BY <1>0 DEF AbandonWindow, Idle
<1>12. \A r \in runs : ContigFree(r) => FALSE
  BY <1>0 DEF ContigFree, Begin
<1>13. /\ TakeAny => FALSE
       /\ \A p \in ClaimPages : TakeSpecific(p) => FALSE
       /\ \A p \in singles : ReturnSingle(p) => FALSE
       /\ \A e \in Ptes, p \in singles : WritePte(e, p) => FALSE
       /\ \A e \in Ptes : \A o \in {0, e} : SetOwner(e, o) => FALSE
       /\ \A e \in Ptes : Unmap(e) => FALSE
  BY <1>8 DEF TakeAny, TakeSpecific, ReturnSingle, WritePte, SetOwner, Unmap
<1> QED
  BY <1>1, <1>4, <1>5, <1>6, <1>9, <1>10, <1>11, <1>12, <1>13 DEF Next

-----------------------------------------------------------------------------
(* No frame is lost.                                                        *)

\* Somebody has the frame, or may have it for the asking.
Kept(q) ==
    \/ IsFree(q) \/ q \in singles \/ q \in InFlight \/ q \in Reserved
    \/ \E e \in Ptes : pte[e] = q
    \/ \E r \in runs : InRun(q, r)

\* The lost frames are those that are not kept.
LEMMA LostIsNotKept ==
    \A q \in Pages : /\ q \in Lost <=> ~Kept(q)
                     /\ q \in Lost' <=> ~Kept(q)'
  BY DEF Lost, Kept, IsFree, InRun

\* A step that takes one frame off the lists for somebody loses none.
LEMMA TookLosesNone ==
    ASSUME NEW p \in Pages, \A q \in Pages : NxpLinks'[q].free <=> NxpLinks[q].free /\ q # p,
           Kept(p)', singles \subseteq singles', runs \subseteq runs', UNCHANGED pte,
           \A q \in InFlight : Kept(q)', NEW q \in Pages, Kept(q)
    PROVE  Kept(q)'
<1>1. Reserved' = Reserved
  BY DEF Reserved
<1> QED
  BY <1>1 DEF Kept, IsFree, InRun

\* A step that puts one frame on the lists loses none of those its holders had.
LEMMA GaveLosesNone ==
    ASSUME NEW p \in Pages, Gave(p), singles \ {p} \subseteq singles', UNCHANGED runs,
           \A e \in Ptes : pte[e] # p => pte'[e] = pte[e],
           \A q \in InFlight : q # p => q \in InFlight', NEW q \in Pages, Kept(q)
    PROVE  Kept(q)'
<1>1. Reserved' = Reserved
  BY DEF Reserved
<1>2. NxpLinks'[q].free <=> NxpLinks[q].free \/ q = p
  BY DEF Gave
<1> QED
  BY <1>1, <1>2 DEF Kept, IsFree, InRun

\* The frames in flight after one of them went back to the supply.
LEMMA FlightAfterReturn ==
    ASSUME TypeOK, op.kind \in {"boot", "return"}, op' = Advance, NEW q \in InFlight,
           q # Current
    PROVE  q \in InFlight'
<1>1. /\ Current \in Pages /\ op.base \in Pages /\ op.pages \in Pages /\ op.done \in Nat
      /\ op.done < op.pages /\ op.base + op.pages - 1 <= HighestPfn
  BY RunningOp
<1>2. q \in Pages /\ q >= Current
  BY DEF InFlight
<1>3. q <= op.base + op.pages - 1 /\ op.done + 1 # op.pages
  <2>1. op.kind = "boot" => op.base = 1 /\ op.pages = HighestPfn
    BY DEF TypeOK
  <2>2. q <= op.base + op.pages - 1
    BY <1>1, <1>2, <2>1 DEF InFlight, Pages
  <2> QED
    BY <1>1, <1>2, <2>2 DEF Current, Pages
<1>4. op' = [op EXCEPT !.done = op.done + 1] /\ op \in Ops
  BY <1>3 DEF Advance, TypeOK
<1>5. op'.kind = op.kind /\ op'.base = op.base /\ op'.pages = op.pages /\ op'.done = op.done + 1
  BY <1>4 DEF Ops
<1>6. Current' = Current + 1
  BY <1>1, <1>5 DEF Current, Pages
<1>7. q >= Current'
  BY <1>1, <1>2, <1>6 DEF Pages
<1> QED
  BY <1>2, <1>5, <1>7 DEF InFlight

\* No step but AbandonWindow takes a frame out of everybody's hands.
LEMMA NextKeeps ==
    ASSUME IInv, Next, ~AbandonWindow, NEW q \in Pages, Kept(q)
    PROVE  Kept(q)'
<1> USE DEF IInv
<1>0. Reserved' = Reserved /\ FreePages \subseteq Pages
  BY DEF Reserved, FreePages
<1>1. ASSUME op = Idle
      PROVE  InFlight = {}
  BY <1>1, IdleFacts
<1>2. ASSUME BootPage
      PROVE  Kept(q)'
  <2>1. op.kind = "boot" /\ op' = Advance /\ UNCHANGED <<pte, singles, runs>> /\ Current \in Pages
    BY <1>2, RunningOp DEF BootPage
  <2>2. CASE Current \in BootFree
    <3>1. Current >= Current
      BY <2>1 DEF Pages
    <3>2. Current \in InFlight
      BY <2>1, <2>2, <3>1 DEF InFlight
    <3>3. ~IsFree(Current) /\ NxkPageSupplyReturn(Current)
      BY <1>2, <2>2, <3>2 DEF NoFrameShared, Unowned, BootPage
    <3>4. Gave(Current)
      BY <2>1, <3>3, ReturnGives
    <3> QED
      BY <2>1, <3>4, FlightAfterReturn, GaveLosesNone
  <2>3. CASE Current \notin BootFree
    <3>1. NxpLinks' = NxpLinks
      BY <1>2, <2>3 DEF BootPage, supply
    <3>2. Current \notin InFlight
      BY <2>1, <2>3 DEF InFlight
    <3>3. q \in InFlight => q \in InFlight'
      BY <2>1, <3>2, FlightAfterReturn
    <3> QED
      BY <1>0, <2>1, <3>1, <3>3 DEF Kept, IsFree, InRun
  <2> QED
    BY <2>2, <2>3
<1>3. ASSUME TakeAny
      PROVE  Kept(q)'
  <2>1. /\ AnyPfn \in FreePages /\ NxpUnlink(AnyPfn) /\ op = Idle
        /\ singles' = singles \cup {AnyPfn} /\ UNCHANGED <<pte, runs>>
    BY <1>3, AnyPfnIsFree DEF TakeAny
  <2>2. Took(AnyPfn)
    BY <2>1, UnlinkTakes
  <2> QED
    BY <1>0, <1>1, <2>1, <2>2 DEF Took, Kept, IsFree, InRun
<1>4. ASSUME NEW p \in ClaimPages, TakeSpecific(p)
      PROVE  Kept(q)'
  <2>1. /\ p \in FreePages /\ p \in Pages /\ NxpUnlink(p) /\ op = Idle
        /\ runs' = runs \cup {[base |-> p, pages |-> 1]} /\ UNCHANGED <<pte, singles>>
    BY <1>4 DEF TakeSpecific, FreePages
  <2>2. Took(p)
    BY <2>1, UnlinkTakes
  <2>3. InRun(p, [base |-> p, pages |-> 1])
    BY <2>1 DEF InRun, Window, Pages
  <2>4. Kept(p)'
    BY <2>1, <2>3 DEF Kept, InRun
  <2> QED
    BY <1>1, <2>1, <2>2, <2>4, TookLosesNone DEF Took
<1>5. ASSUME NEW p \in singles, ReturnSingle(p)
      PROVE  Kept(q)'
  <2>1. p \in Pages /\ ~IsFree(p)
    BY DEF TypeOK, NoFrameShared, Unowned
  <2>2. /\ op = Idle /\ NxkPageSupplyReturn(p) /\ singles' = singles \ {p}
        /\ UNCHANGED <<pte, runs>>
    BY <1>5 DEF ReturnSingle
  <2>3. Gave(p)
    BY <2>1, <2>2, ReturnGives
  <2> QED
    BY <1>1, <2>1, <2>2, <2>3, GaveLosesNone
<1>6. ASSUME NEW e \in Ptes, NEW p \in singles, WritePte(e, p)
      PROVE  Kept(q)'
  <2>1. /\ op = Idle /\ pte[e] = 0 /\ singles' = singles \ {p} /\ NxpLinks' = NxpLinks
        /\ runs' = runs /\ pte' = [pte EXCEPT ![e] = p] /\ q # 0
    BY <1>6 DEF WritePte, supply, Pages
  <2>2. \A f \in Ptes : pte'[f] = IF f = e THEN p ELSE pte[f]
    BY <2>1 DEF TypeOK
  <2> QED
    BY <1>0, <1>1, <2>1, <2>2 DEF Kept, IsFree, InRun
<1>7. ASSUME NEW e \in Ptes, NEW o \in {0, e}, SetOwner(e, o)
      PROVE  Kept(q)'
  <2>1. /\ op = Idle /\ pte[e] \in Pages /\ ~NxpLinks[pte[e]].free
        /\ NxpLinks \in [Pages -> Entries] /\ UNCHANGED <<pte, singles, runs>>
    BY <1>7 DEF SetOwner, IsFree, TypeOK, Pages, PfnOrZero, clients
  <2>2. \A p \in Pages : NxpLinks'[p] = IF p = pte[e] THEN InUse(o) ELSE NxpLinks[p]
    BY <1>7, <2>1 DEF SetOwner
  <2>3. NxpLinks[q].free => NxpLinks'[q].free
    BY <2>1, <2>2
  <2> QED
    BY <1>0, <1>1, <2>1, <2>3 DEF Kept, IsFree, InRun
<1>8. ASSUME NEW e \in Ptes, Unmap(e)
      PROVE  Kept(q)'
  <2>0. PICK p : p = pte[e]
    OBVIOUS
  <2>1. p \in Pages /\ ~IsFree(p)
    BY <1>8, <2>0 DEF Unmap, TypeOK, Pages, PfnOrZero, OwnersAgree
  <2>2. /\ op = Idle /\ NxkPageSupplyReturn(p) /\ pte' = [pte EXCEPT ![e] = 0]
        /\ UNCHANGED <<singles, runs>>
    BY <1>8, <2>0 DEF Unmap
  <2>3. Gave(p)
    BY <2>1, <2>2, ReturnGives
  <2>4. \A f \in Ptes : pte[f] # p => pte'[f] = pte[f]
    BY <2>0, <2>2 DEF TypeOK
  <2> QED
    BY <1>1, <2>1, <2>2, <2>3, <2>4, GaveLosesNone
<1>9. ASSUME NEW r \in Requests, ContigBegin(r)
      PROVE  Kept(q)'
  <2>1. op = Idle /\ NxpLinks' = NxpLinks /\ UNCHANGED <<pte, singles, runs>>
    BY <1>9 DEF ContigBegin, supply, clients
  <2> QED
    BY <1>0, <1>1, <2>1 DEF Kept, IsFree, InRun
<1>10. ASSUME op.kind = "take", ContigAdvance
       PROVE  /\ runs \subseteq runs'
              /\ \A p \in InFlight \cup {Current} : Kept(p)'
  <2>1. CASE op'.kind # "idle"
    BY <1>10, <2>1, WindowAdvances DEF Kept
  <2>2. CASE op'.kind = "idle"
    BY <1>10, <2>2, WindowAdvances DEF Kept, InRun
  <2> QED
    BY <2>1, <2>2
<1>11. ASSUME TakeWindowPage
       PROVE  Kept(q)'
  <2>0. PICK p : p = Current
    OBVIOUS
  <2>1. /\ op.kind = "take" /\ IsFree(p) /\ NxpUnlink(p) /\ ContigAdvance
        /\ UNCHANGED <<pte, singles>>
    BY <1>11, <2>0 DEF TakeWindowPage
  <2>2. p \in Pages /\ p \in FreePages
    BY <2>0, <2>1, RunningOp DEF FreePages
  <2>3. Took(p)
    BY <2>1, <2>2, UnlinkTakes
  <2> QED
    BY <1>10, <2>0, <2>1, <2>2, <2>3, TookLosesNone DEF Took
<1>12. ASSUME MoveWindowPage
       PROVE  Kept(q)'
  <2>1. PICK p \in Pages, o \in Ptes, dest \in FreePages : Moved(p, o, dest)
    BY <1>12, MoveMoves
  <2>2. /\ p = Current /\ op.kind = "take" /\ ContigAdvance /\ pte[o] = p
        /\ pte' = [pte EXCEPT ![o] = dest] /\ UNCHANGED singles
        /\ \A x \in Pages : NxpLinks'[x].free <=> NxpLinks[x].free /\ x # dest
    BY <2>1 DEF Moved, Left
  <2>3. \A f \in Ptes : pte'[f] = IF f = o THEN dest ELSE pte[f]
    BY <2>2 DEF TypeOK
  <2>4. Kept(dest)' /\ Kept(p)'
    BY <1>10, <2>2, <2>3 DEF Kept
  <2>5. CASE q = dest \/ q = p
    BY <2>4, <2>5
  <2>6. CASE q # dest /\ q # p
    <3>1. (\E e \in Ptes : pte[e] = q) => \E e \in Ptes : pte'[e] = q
      BY <2>2, <2>3, <2>6
    <3>2. q \in InFlight => Kept(q)'
      BY <1>10, <2>2
    <3>3. (\E r \in runs : InRun(q, r)) => \E r \in runs' : InRun(q, r)
      BY <1>10, <2>2
    <3> QED
      BY <1>0, <2>2, <2>6, <3>1, <3>2, <3>3 DEF Kept, IsFree, InRun
  <2> QED
    BY <2>5, <2>6
<1>13. ASSUME NEW r \in runs, ContigFree(r)
       PROVE  Kept(q)'
  <2>1. /\ op = Idle /\ NxpLinks' = NxpLinks /\ runs' = runs \ {r}
        /\ op' = [kind |-> "return", base |-> r.base, pages |-> r.pages, done |-> 0]
        /\ UNCHANGED <<pte, singles>>
    BY <1>13 DEF ContigFree, Begin, supply
  <2>2. r.base \in Pages /\ r.pages \in Pages
    BY DEF TypeOK, Runs
  <2>3. InRun(q, r) => q \in InFlight'
    BY <2>1, <2>2 DEF InFlight, Current, InRun, Window, Pages
  <2> QED
    BY <1>0, <1>1, <2>1, <2>3 DEF Kept, IsFree, InRun
<1>14. ASSUME ReturnRunPage
       PROVE  Kept(q)'
  <2>1. /\ op.kind = "return" /\ op' = Advance /\ UNCHANGED <<pte, singles, runs>>
        /\ Current \in Pages
    BY <1>14, RunningOp DEF ReturnRunPage
  <2>2. Current \in InFlight
    BY <2>1, RunningOp DEF InFlight, Current, Pages
  <2>3. ~IsFree(Current) /\ NxkPageSupplyReturn(Current)
    BY <1>14, <2>2 DEF NoFrameShared, Unowned, ReturnRunPage
  <2>4. Gave(Current)
    BY <2>1, <2>3, ReturnGives
  <2> QED
    BY <2>1, <2>4, FlightAfterReturn, GaveLosesNone
<1> QED
  BY <1>2, <1>3, <1>4, <1>5, <1>6, <1>7, <1>8, <1>9, <1>11, <1>12, <1>13, <1>14 DEF Next

\* The frames a window gives up are the ones it has taken so far.
LEMMA AbandonLoses ==
    ASSUME IInv, TargetsSuffice, AbandonWindow, NEW q \in Pages, Kept(q), ~Kept(q)'
    PROVE  op.kind = "take" /\ op.base < GenericFloorPfn /\ q \in Window(op.base, op.done)
<1> USE DEF IInv
<1>1. /\ op.kind = "take" /\ ~IsFree(Current)
      /\ OutsidePfn(op.base, op.base + op.pages - 1) = 0
      /\ NxpLinks' = NxpLinks /\ UNCHANGED <<pte, singles, runs>>
  BY DEF AbandonWindow, supply, clients
<1>2. op.base \in Pages /\ op.done \in Nat
  BY <1>1, RunningOp
<1>3. op.base < GenericFloorPfn
  BY <1>1, <1>2, TargetFound DEF Pages
<1>4. q \in InFlight
  <2>1. Reserved' = Reserved
    BY DEF Reserved
  <2> QED
    BY <1>1, <2>1 DEF Kept, IsFree, InRun
<1>5. q >= op.base /\ q < Current
  BY <1>1, <1>4 DEF InFlight
<1> QED
  BY <1>1, <1>2, <1>3, <1>5 DEF Window, Current, Pages

\* No window is open before boot.
LEMMA InitTargets == Init => TargetsSuffice
  BY DEF Init, Begin, TargetsSuffice

\* Once a window at or above the floor is chosen, there is a frame to move each
\* of its owned frames to: ASSERT(Dest != 0) holds for these windows.
THEOREM SupplyDestFound == Spec => [](op.base >= GenericFloorPfn => DestFound)
<1>1. Init => IInv /\ Grounded /\ CountsExact /\ TargetsSuffice
  BY InitIInv, InitLists, InitTargets
<1>2. IInv /\ Grounded /\ CountsExact /\ TargetsSuffice /\ [Next]_vars
         => (IInv /\ Grounded /\ CountsExact /\ TargetsSuffice)'
  BY NextIInv, NextLists, NextTargets
<1>3. IInv /\ TargetsSuffice => (op.base >= GenericFloorPfn => DestFound)
  BY TargetFound DEF DestFound
<1> QED
  BY <1>1, <1>2, <1>3, PTL DEF Spec

\* A frame is lost in one case only: a relocation that runs out of destinations
\* gives up the frames it has taken so far, and only in a window that reaches
\* below the floor.
THEOREM SupplyNoFrameLost == Spec => NoFrameLost
<1> DEFINE Step == \A p \in Lost' \ Lost :
              op.kind = "take" /\ op.base < GenericFloorPfn /\ p \in Window(op.base, op.done)
<1>1. Init => IInv /\ Grounded /\ CountsExact /\ TargetsSuffice
  BY InitIInv, InitLists, InitTargets
<1>2. IInv /\ Grounded /\ CountsExact /\ TargetsSuffice /\ [Next]_vars
         => (IInv /\ Grounded /\ CountsExact /\ TargetsSuffice)'
  BY NextIInv, NextLists, NextTargets
<1>3. IInv /\ TargetsSuffice /\ [Next]_vars => [Step]_vars
  <2> SUFFICES ASSUME IInv, TargetsSuffice, Next, NEW p \in Lost' \ Lost
               PROVE  op.kind = "take" /\ op.base < GenericFloorPfn
                      /\ p \in Window(op.base, op.done)
    OBVIOUS
  <2>1. p \in Pages /\ Kept(p) /\ ~Kept(p)'
    <3>1. p \in Pages
      BY DEF Lost
    <3> QED
      BY <3>1, LostIsNotKept
  <2>2. AbandonWindow
    BY <2>1, NextKeeps
  <2> QED
    BY <2>1, <2>2, AbandonLoses
<1> HIDE DEF Step
<1>4. Spec => [][Step]_vars
  BY <1>1, <1>2, <1>3, PTL DEF Spec
<1> QED
  BY <1>4 DEF NoFrameLost, Step
=============================================================================
