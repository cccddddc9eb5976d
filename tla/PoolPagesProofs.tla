--------------------------- MODULE PoolPagesProofs ---------------------------
(* Theorems about the pool window, the system-memory aperture and the      *)
(* transfers that pin their pages, for every size of the windows, every    *)
(* set of frames and every set of transfers.                               *)
EXTENDS PoolPages, TLAPS, FiniteSetTheorems, WellFoundedInduction

USE SizeAssumption, FrameAssumption

-----------------------------------------------------------------------------
(* The inductive invariant.                                                *)

SizeOf(w) == IF w = "pool" THEN NXPP_PAGES ELSE SysPages

\* A frame is free, in a contiguous allocation or mapped by one entry.
FramesApart ==
    /\ \A d, e \in Entries : entry[d] # NoFrame /\ entry[d] = entry[e] => d = e
    /\ \A e \in Entries : entry[e] \notin free /\ entry[e] \notin held
    /\ free \cap held = {}
    /\ \A f \in Frames : f \in free \/ f \in held \/ \E e \in Entries : entry[e] = f

\* The owner of a frame is the entry that maps it.
OwnersMatch == \A f \in Frames : owner[f] # NoOwner => owner[f] \in Entries /\ entry[owner[f]] = f

\* A transfer whose device was given the frame that page i of the pool maps.
PinnedBy(d, i) ==
    io[d] # NoIo /\ io[d].w = "pool" /\ i \in io[d].pages /\ io[d].pfn[i] = FrameOf("pool", i)

\* A page of the pool has its owner unless such a transfer is in flight.
PoolOwned ==
    \A i \in Pages("pool") :
        Mapped("pool", i) => owner[FrameOf("pool", i)] = Pte("pool", i) \/ \E d \in Transfer : PinnedBy(d, i)

IoTyped ==
    /\ io = [d \in Transfer |-> io[d]]
    /\ \A d \in InFlight :
          /\ io[d] \in [kind : {"cache", "mdl"}, w : Windows, pages : SUBSET Nat, live : SUBSET Nat,
                        pfn : [io[d].pages -> Frames]]
          /\ io[d].pages \subseteq Pages(io[d].w) /\ io[d].live \subseteq io[d].pages
          /\ io[d].kind = "cache" => io[d].w = "pool"

\* Unless locked buffers overlap, transfers have their pages to themselves,
\* and what a device was given stays where it is: the frame is mapped and
\* has no owner that a relocation could write to.
IoPinned ==
    /\ \A c, d \in InFlight : c # d /\ io[c].w = io[d].w => io[c].pages \cap io[d].pages = {}
    /\ \A d \in InFlight : \A i \in io[d].live :
          FrameOf(io[d].w, i) = io[d].pfn[i] /\ owner[io[d].pfn[i]] = NoOwner

RunsTyped == \A r \in runs : r \in Windows \X Nat \X (Nat \ {0}) /\ r[2] + r[3] <= SizeOf(r[1])

RunsApart ==
    \A q, r \in runs : q # r /\ q[1] = r[1] => Span(q[2], q[3]) \cap Span(r[2], r[3]) = {}

PagesMapped ==
    \A w \in Windows : \A i \in Pages(w) :
        /\ Mapped(w, i) <=> i \in Covered(w)
        /\ Mapped(w, i) => entry[Pde(w, i)] # NoFrame

BitmapExact == NxppUsedMap = Covered("pool") /\ NxppCommitted = Cardinality(NxppUsedMap)

RunTableExact ==
    /\ \A s \in Pages("pool") : NxppRunPages[s] # 0 => <<"pool", s, NxppRunPages[s]>> \in runs
    /\ \A r \in runs : r[1] = "pool" => NxppRunPages[r[2]] = r[3]

Supply == FramesApart /\ OwnersMatch /\ PoolOwned /\ IoTyped /\ (~Overlap => IoPinned)
Window == RunsTyped /\ RunsApart /\ PagesMapped /\ BitmapExact /\ RunTableExact
IInv   == TypeOK /\ Supply /\ Window

-----------------------------------------------------------------------------
(* Entries, spans and the first fit.                                       *)

\* Page-table entries and directory entries are entries, and an entry of a
\* page belongs to that page only.
LEMMA EntryFacts ==
    /\ \A w \in Windows : \A i \in Pages(w) : Pte(w, i) \in Entries /\ Pde(w, i) \in Entries
    /\ \A v, w, i, j : Pte(v, i) = Pte(w, j) => v = w /\ i = j
    /\ \A v, w, i, j : Pte(v, i) # Pde(w, j)
<1>1. \A w \in Windows : \A i \in Pages(w) : Pte(w, i) \in Entries /\ Pde(w, i) \in Entries
  BY DEF Entries
<1>2. \A v, w, i, j : Pte(v, i) = Pte(w, j) => v = w /\ i = j
  BY DEF Pte
<1>3. \A v, w, i, j : Pte(v, i) # Pde(w, j)
  BY DEF Pte, Pde
<1> QED
  BY <1>1, <1>2, <1>3

\* The pages of a window and of a run in it.
LEMMA PageFacts ==
    /\ "pool" \in Windows /\ "sys" \in Windows
    /\ \A w \in Windows : SizeOf(w) \in Nat \ {0}
    /\ \A w \in Windows : \A i : i \in Pages(w) <=> i \in Nat /\ i < SizeOf(w)
    /\ Pages("pool") = 0 .. NXPP_PAGES - 1 /\ Pages("sys") = 0 .. SysPages - 1
    /\ SizeOf("pool") = NXPP_PAGES /\ SizeOf("sys") = SysPages
  BY DEF Windows, SizeOf, Pages

\* The pages of a run of n pages from page s, and their number.
LEMMA SpanFacts ==
    ASSUME NEW s \in Nat, NEW n \in Nat
    PROVE  /\ \A i : i \in Span(s, n) <=> i \in Nat /\ s <= i /\ i < s + n
           /\ IsFiniteSet(Span(s, n)) /\ Cardinality(Span(s, n)) = n
<1>1. \A i : i \in Span(s, n) <=> i \in Nat /\ s <= i /\ i < s + n
  BY DEF Span
<1>2. IsFiniteSet(Span(s, n)) /\ Cardinality(Span(s, n)) = n
  <2>1. s \in Int /\ s + n - 1 \in Int
    OBVIOUS
  <2>2. /\ IsFiniteSet(s .. (s + n - 1))
        /\ Cardinality(s .. (s + n - 1)) = IF s > s + n - 1 THEN 0 ELSE (s + n - 1) - s + 1
    BY <2>1, FS_Interval
  <2> QED
    BY <2>2 DEF Span
<1> QED
  BY <1>1, <1>2

\* A nonempty set of naturals has a least element, so a first fit exists.
LEMMA MinIsLeast ==
    ASSUME NEW S, S \subseteq Nat, S # {}
    PROVE  Min(S) \in S
<1> DEFINE R == {ss \in Nat \X Nat : ss[1] < ss[2]}
<1>1. IsWellFoundedOn(R, Nat)
  BY NatLessThanWellFounded, Zenon DEF OpToRel
<1>2. S \in SUBSET Nat
  OBVIOUS
<1>3. PICK m \in S : \A n \in S : ~(<<n, m>> \in R)
  BY <1>1, <1>2, WFMin, Zenon
<1>4. \A n \in S : m =< n
  <2>1. SUFFICES ASSUME NEW n \in S
                 PROVE  m =< n
    OBVIOUS
  <2>2. m \in Nat /\ n \in Nat /\ ~(n < m)
    BY <1>3
  <2> QED
    BY <2>2
<1> HIDE DEF R
<1> QED
  BY <1>4 DEF Min

-----------------------------------------------------------------------------
(* Backing and unbacking.                                                  *)

\* Back fills the entries B, which were empty, with distinct free frames.
LEMMA BackStep ==
    ASSUME TypeOK, FramesApart, OwnersMatch, NEW w \in Windows, NEW s, NEW n,
           Backed(w, s, n) \subseteq Entries, \A e \in Backed(w, s, n) : entry[e] = NoFrame,
           Back(w, s, n)
    PROVE  /\ entry' \in [Entries -> Frames \cup {NoFrame}]
           /\ owner' \in [Frames -> Entries \cup {NoOwner}]
           /\ free' \subseteq free /\ held' = held
           /\ \A e \in Entries : e \notin Backed(w, s, n) => entry'[e] = entry[e]
           /\ \A e \in Backed(w, s, n) : entry'[e] \in free
           /\ \A e \in Backed(w, s, n) : w = "pool" => owner'[entry'[e]] = e
           /\ \A f \in Frames : f \notin free => owner'[f] = owner[f]
           /\ FramesApart' /\ OwnersMatch'
<1> DEFINE B == Backed(w, s, n)
<1>1. PICK f \in Injection(B, free) :
         LET at(g) == {e \in DOMAIN f : f[e] = g}
         IN  /\ entry' = [e \in Entries |-> IF e \in DOMAIN f THEN f[e] ELSE entry[e]]
             /\ owner' = [g \in Frames |->
                             IF at(g) = {} THEN owner[g]
                             ELSE IF w = "pool" THEN CHOOSE e \in at(g) : TRUE ELSE NoOwner]
             /\ free' = free \ {f[e] : e \in DOMAIN f}
             /\ UNCHANGED held
  BY DEF Back
<1> HIDE DEF B
<1>2. f \in [B -> free] /\ DOMAIN f = B /\ \A d, e \in B : f[d] = f[e] => d = e
  BY DEF Injection, IsInjective
<1>3. B \subseteq Entries /\ \A e \in B : entry[e] = NoFrame
  BY DEF B
<1>4. /\ entry' = [e \in Entries |-> IF e \in B THEN f[e] ELSE entry[e]]
      /\ free' = free \ {f[e] : e \in B} /\ held' = held
  BY <1>1, <1>2
<1>5. ASSUME NEW g \in Frames
      PROVE  owner'[g] = IF \A e \in B : f[e] # g THEN owner[g]
                         ELSE IF w = "pool" THEN CHOOSE e \in {d \in B : f[d] = g} : TRUE ELSE NoOwner
  BY <1>1, <1>2
<1>6. /\ \A e \in B : entry'[e] = f[e] /\ f[e] \in free
      /\ \A e \in Entries : e \notin B => entry'[e] = entry[e]
  BY <1>2, <1>3, <1>4
<1>7. free \subseteq Frames /\ held \subseteq Frames /\ NoFrame \notin Frames
      /\ entry \in [Entries -> Frames \cup {NoFrame}] /\ owner \in [Frames -> Entries \cup {NoOwner}]
  BY DEF TypeOK
<1>8. entry' \in [Entries -> Frames \cup {NoFrame}]
  BY <1>2, <1>4, <1>7
<1>9. ASSUME NEW e \in B
      PROVE  owner'[f[e]] = IF w = "pool" THEN e ELSE NoOwner
  <2>1. f[e] \in Frames /\ {d \in B : f[d] = f[e]} = {e}
    BY <1>2, <1>7
  <2> QED
    BY <1>5, <2>1
<1>10. ASSUME NEW g \in Frames, \A e \in B : f[e] # g
       PROVE  owner'[g] = owner[g]
  BY <1>5, <1>10
<1>11. owner' \in [Frames -> Entries \cup {NoOwner}]
  <2>1. \A g \in Frames : owner'[g] \in Entries \cup {NoOwner}
    BY <1>3, <1>7, <1>9, <1>10
  <2>2. owner' = [g \in Frames |-> owner'[g]]
    BY <1>1
  <2> QED
    BY <2>1, <2>2
<1>12. \A g \in Frames : g \notin free => owner'[g] = owner[g]
  BY <1>6, <1>10
<1>13. FramesApart'
  <2>1. ASSUME NEW d \in Entries, NEW e \in Entries, entry'[d] # NoFrame, entry'[d] = entry'[e]
        PROVE  d = e
    <3>1. CASE d \in B /\ e \in B
      BY <1>2, <1>6, <2>1, <3>1
    <3>2. CASE d \notin B /\ e \notin B
      BY <1>6, <2>1, <3>2 DEF FramesApart
    <3>3. CASE d \in B <=> e \notin B
      BY <1>6, <2>1, <3>3 DEF FramesApart
    <3> QED
      BY <3>1, <3>2, <3>3
  <2>2. \A e \in Entries : entry'[e] \notin free' /\ entry'[e] \notin held'
    <3>1. \A e \in B : entry'[e] \notin free' /\ entry'[e] \notin held'
      BY <1>4, <1>6 DEF FramesApart
    <3>2. \A e \in Entries : e \notin B => entry'[e] \notin free' /\ entry'[e] \notin held'
      BY <1>4, <1>6 DEF FramesApart
    <3> QED
      BY <3>1, <3>2
  <2>3. free' \cap held' = {}
    BY <1>4 DEF FramesApart
  <2>4. ASSUME NEW g \in Frames
        PROVE  g \in free' \/ g \in held' \/ \E e \in Entries : entry'[e] = g
    <3>1. CASE \E e \in B : f[e] = g
      BY <1>3, <1>6, <3>1
    <3>2. CASE ~(\E e \in B : f[e] = g) /\ g \in free
      BY <1>4, <3>2
    <3>3. CASE \E e \in Entries : entry[e] = g
      BY <1>3, <1>6, <1>7, <3>3
    <3>4. CASE g \in held
      BY <1>4, <3>4
    <3> QED
      BY <3>1, <3>2, <3>3, <3>4 DEF FramesApart
  <2> QED
    BY <2>1, <2>2, <2>3, <2>4 DEF FramesApart
<1>14. OwnersMatch'
  <2>1. ASSUME NEW g \in Frames, owner'[g] # NoOwner
        PROVE  owner'[g] \in Entries /\ entry'[owner'[g]] = g
    <3>1. CASE \E e \in B : f[e] = g
      BY <1>3, <1>6, <1>9, <2>1, <3>1
    <3>2. CASE ~(\E e \in B : f[e] = g)
      <4>1. owner'[g] = owner[g] /\ owner[g] \in Entries /\ entry[owner[g]] = g
        BY <1>10, <2>1, <3>2 DEF OwnersMatch
      <4> QED
        BY <1>3, <1>6, <1>7, <4>1
    <3> QED
      BY <3>1, <3>2
  <2> QED
    BY <2>1 DEF OwnersMatch
<1> QED
  BY <1>4, <1>6, <1>8, <1>9, <1>11, <1>12, <1>13, <1>14 DEF B

\* Unback empties the entries of the pages P and takes these pages off the
\* live pages of the transfers in flight.
LEMMA UnbackStep ==
    ASSUME TypeOK, Supply, NEW w \in Windows, NEW P, P \subseteq Pages(w), Unback(w, P)
    PROVE  /\ entry' \in [Entries -> Frames \cup {NoFrame}]
           /\ owner' \in [Frames -> Entries \cup {NoOwner}]
           /\ free' \subseteq Frames /\ held' \subseteq Frames
           /\ \A i \in P : entry'[Pte(w, i)] = NoFrame
           /\ \A e \in Entries : (\A i \in P : e # Pte(w, i)) => entry'[e] = entry[e]
           /\ Supply'
<1>0. /\ FramesApart /\ OwnersMatch /\ PoolOwned /\ IoTyped /\ (~Overlap => IoPinned)
      /\ entry \in [Entries -> Frames \cup {NoFrame}] /\ owner \in [Frames -> Entries \cup {NoOwner}]
      /\ free \subseteq Frames /\ held \subseteq Frames /\ NoFrame \notin Frames
  BY DEF TypeOK, Supply
<1> DEFINE gone == {FrameOf(w, i) : i \in {j \in P : Mapped(w, j)}}
           E    == {Pte(w, i) : i \in P}
<1>1. /\ entry' = [e \in Entries |-> IF e \in E THEN NoFrame ELSE entry[e]]
      /\ owner' = [f \in Frames |-> IF f \in gone THEN NoOwner ELSE owner[f]]
      /\ free' = free \cup gone /\ held' = held
      /\ io' = [d \in Transfer |->
                  IF io[d] # NoIo /\ io[d].w = w THEN [io[d] EXCEPT !.live = @ \ P] ELSE io[d]]
  <2>1. \A e : (\E i \in P : e = Pte(w, i)) <=> e \in E
    OBVIOUS
  <2> QED
    BY <2>1 DEF Unback
<1>2. E \subseteq Entries
  BY EntryFacts
<1>3. \A f : f \in gone <=> \E e \in E : entry[e] = f /\ f # NoFrame
  BY DEF FrameOf, Mapped
<1>4. \A i \in P : Pte(w, i) \in E
  OBVIOUS
<1>5. \A i : Pte(w, i) \in E => i \in P
  BY EntryFacts
<1>6. \A v, i : v # w => Pte(v, i) \notin E
  BY EntryFacts
<1>7. \A e : (\A i \in P : e # Pte(w, i)) => e \notin E
  OBVIOUS
<1> HIDE DEF E, gone
<1>8. gone \subseteq Frames
  BY <1>0, <1>2, <1>3
<1>9. /\ entry' \in [Entries -> Frames \cup {NoFrame}]
      /\ owner' \in [Frames -> Entries \cup {NoOwner}]
      /\ free' \subseteq Frames /\ held' \subseteq Frames
  BY <1>0, <1>1, <1>8
<1>10. /\ \A e \in E : entry'[e] = NoFrame
       /\ \A e \in Entries : e \notin E => entry'[e] = entry[e]
  BY <1>1, <1>2
<1>11. \A f \in Frames : /\ f \in gone => owner'[f] = NoOwner
                         /\ f \notin gone => owner'[f] = owner[f]
  BY <1>1
<1>12. \A e \in Entries : e \notin E => entry[e] \notin gone
  BY <1>0, <1>2, <1>3 DEF FramesApart
<1>13. FramesApart'
  <2>1. \A d, e \in Entries : entry'[d] # NoFrame /\ entry'[d] = entry'[e] => d = e
    BY <1>0, <1>10 DEF FramesApart
  <2>2. \A e \in Entries : entry'[e] \notin free' /\ entry'[e] \notin held'
    BY <1>0, <1>1, <1>8, <1>10, <1>12 DEF FramesApart
  <2>3. free' \cap held' = {}
    BY <1>0, <1>1, <1>2, <1>3 DEF FramesApart
  <2>4. ASSUME NEW f \in Frames
        PROVE  f \in free' \/ f \in held' \/ \E e \in Entries : entry'[e] = f
    <3>1. CASE f \in free \/ f \in held
      BY <1>1, <3>1
    <3>2. CASE \E e \in Entries : entry[e] = f
      BY <1>0, <1>1, <1>3, <1>10, <3>2
    <3> QED
      BY <1>0, <3>1, <3>2 DEF FramesApart
  <2> QED
    BY <2>1, <2>2, <2>3, <2>4 DEF FramesApart
<1>14. OwnersMatch'
  <2>1. ASSUME NEW f \in Frames, owner'[f] # NoOwner
        PROVE  owner'[f] \in Entries /\ entry'[owner'[f]] = f
    <3>1. f \notin gone /\ owner'[f] = owner[f]
      BY <1>11, <2>1
    <3>2. owner[f] \in Entries /\ entry[owner[f]] = f
      BY <1>0, <2>1, <3>1 DEF OwnersMatch
    <3>3. owner[f] \notin E
      BY <1>0, <1>3, <3>1, <3>2
    <3> QED
      BY <1>10, <3>1, <3>2, <3>3
  <2> QED
    BY <2>1 DEF OwnersMatch
<1>15. ASSUME NEW d \in Transfer
       PROVE  /\ io[d] = NoIo => io'[d] = NoIo
              /\ io[d] # NoIo =>
                   /\ io'[d] # NoIo
                   /\ io'[d].kind = io[d].kind /\ io'[d].w = io[d].w
                   /\ io'[d].pages = io[d].pages /\ io'[d].pfn = io[d].pfn
                   /\ io'[d].live = IF io[d].w = w THEN io[d].live \ P ELSE io[d].live
                   /\ io'[d] \in [kind : {"cache", "mdl"}, w : Windows, pages : SUBSET Nat,
                                  live : SUBSET Nat, pfn : [io[d].pages -> Frames]]
  <2>1. io'[d] = IF io[d] # NoIo /\ io[d].w = w THEN [io[d] EXCEPT !.live = @ \ P] ELSE io[d]
    BY <1>1
  <2>2. CASE io[d] = NoIo
    BY <2>1, <2>2
  <2>3. CASE io[d] # NoIo
    <3> DEFINE T == [io[d].pages -> Frames]
    <3>1. io[d] \in [kind : {"cache", "mdl"}, w : Windows, pages : SUBSET Nat,
                     live : SUBSET Nat, pfn : T]
      BY <1>0, <2>3 DEF IoTyped, InFlight
    <3> HIDE DEF T
    <3>2. CASE io[d].w = w
      <4>1. io'[d] = [io[d] EXCEPT !.live = @ \ P]
        BY <2>1, <2>3, <3>2
      <4>2. /\ io'[d].kind = io[d].kind /\ io'[d].w = io[d].w
            /\ io'[d].pages = io[d].pages /\ io'[d].pfn = io[d].pfn
            /\ io'[d].live = io[d].live \ P
            /\ io'[d] \in [kind : {"cache", "mdl"}, w : Windows, pages : SUBSET Nat,
                           live : SUBSET Nat, pfn : T]
        BY <3>1, <4>1
      <4>3. io'[d].kind # "none"
        BY <3>1, <4>2
      <4> QED
        BY <2>3, <3>2, <4>2, <4>3 DEF NoIo, T
    <3>3. CASE io[d].w # w
      BY <2>1, <2>3, <3>1, <3>3 DEF T
    <3> QED
      BY <3>2, <3>3
  <2> QED
    BY <2>2, <2>3
<1>16. InFlight' = InFlight
  BY <1>15 DEF InFlight
<1>17. IoTyped'
  <2>1. io' = [d \in Transfer |-> io'[d]]
    BY <1>1
  <2> QED
    BY <1>0, <1>15, <1>16, <2>1 DEF IoTyped, InFlight
<1>18. PoolOwned'
  <2>1. ASSUME NEW i \in Pages("pool"), entry'[Pte("pool", i)] # NoFrame
        PROVE  \/ owner'[entry'[Pte("pool", i)]] = Pte("pool", i)
               \/ \E d \in Transfer : PinnedBy(d, i)'
    <3>1. /\ Pte("pool", i) \in Entries /\ Pte("pool", i) \notin E
          /\ entry'[Pte("pool", i)] = entry[Pte("pool", i)]
      BY <1>10, <2>1, EntryFacts, PageFacts
    <3>2. owner'[entry[Pte("pool", i)]] = owner[entry[Pte("pool", i)]]
      BY <1>0, <1>11, <1>12, <2>1, <3>1
    <3>3. \A d \in Transfer : PinnedBy(d, i) => PinnedBy(d, i)'
      BY <1>15, <3>1 DEF PinnedBy, FrameOf
    <3> QED
      BY <1>0, <2>1, <3>1, <3>2, <3>3 DEF PoolOwned, Mapped, FrameOf
  <2> QED
    BY <2>1 DEF PoolOwned, Mapped, FrameOf
<1>19. ASSUME ~Overlap
       PROVE  IoPinned'
  <2>1. \A c, d \in InFlight : c # d /\ io'[c].w = io'[d].w => io'[c].pages \cap io'[d].pages = {}
    BY <1>0, <1>15, <1>19 DEF IoPinned, InFlight
  <2>2. ASSUME NEW d \in InFlight, NEW i \in io'[d].live
        PROVE  entry'[Pte(io[d].w, i)] = io[d].pfn[i] /\ owner'[io[d].pfn[i]] = NoOwner
    <3>1. /\ d \in Transfer /\ i \in io[d].live /\ i \in io[d].pages
          /\ (io[d].w = w => i \notin P)
          /\ io[d].w \in Windows /\ i \in Pages(io[d].w) /\ io[d].pfn[i] \in Frames
      BY <1>0, <1>15, <2>2 DEF InFlight, IoTyped
    <3>2. Pte(io[d].w, i) \in Entries /\ Pte(io[d].w, i) \notin E
      BY <1>5, <1>6, <3>1, EntryFacts
    <3>3. entry[Pte(io[d].w, i)] = io[d].pfn[i] /\ owner[io[d].pfn[i]] = NoOwner
      BY <1>0, <1>19, <2>2, <3>1 DEF IoPinned, FrameOf
    <3> QED
      BY <1>10, <1>11, <3>1, <3>2, <3>3 DEF FrameOf
  <2>3. \A d \in InFlight : io'[d].w = io[d].w /\ io'[d].pfn = io[d].pfn
    BY <1>15 DEF InFlight
  <2> QED
    BY <1>16, <2>1, <2>2, <2>3 DEF IoPinned, FrameOf
<1> QED
  BY <1>4, <1>7, <1>9, <1>10, <1>13, <1>14, <1>17, <1>18, <1>19 DEF Supply

-----------------------------------------------------------------------------
(* The window invariants in terms of the entries.                          *)

\* A page is covered when it lies in a run of its window.
LEMMA CoveredMeans ==
    \A w, i : i \in Covered(w) <=> \E r \in runs : r[1] = w /\ i \in Span(r[2], r[3])
  BY DEF Covered

\* A step that backs no page, drops none and changes no record of a window
\* keeps the window exact; page tables may be added.
LEMMA WindowKept ==
    ASSUME Window, UNCHANGED <<window, runs>>,
           \A w \in Windows : \A i \in Pages(w) :
              /\ entry'[Pte(w, i)] = NoFrame <=> entry[Pte(w, i)] = NoFrame
              /\ entry[Pde(w, i)] # NoFrame => entry'[Pde(w, i)] # NoFrame
    PROVE  Window'
<1>1. \A w : Covered(w)' = Covered(w)
  BY DEF Covered
<1>2. PagesMapped'
  BY <1>1 DEF Window, PagesMapped, Mapped
<1>3. BitmapExact' /\ RunTableExact' /\ RunsTyped' /\ RunsApart'
  BY <1>1 DEF Window, BitmapExact, RunTableExact, RunsTyped, RunsApart, window
<1> QED
  BY <1>2, <1>3 DEF Window

\* A step that gives run <<w, s, n>> of unmapped pages to a caller keeps the
\* mapping exact.
LEMMA RunAdded ==
    ASSUME Window, NEW w \in Windows, NEW s \in Nat, NEW n \in Nat \ {0},
           s + n <= SizeOf(w),
           \A i \in Span(s, n) : ~Mapped(w, i),
           runs' = runs \cup {<<w, s, n>>},
           \A v \in Windows : \A i \in Pages(v) :
              /\ entry'[Pte(v, i)] # NoFrame <=> entry[Pte(v, i)] # NoFrame \/ (v = w /\ i \in Span(s, n))
              /\ entry[Pde(v, i)] # NoFrame => entry'[Pde(v, i)] # NoFrame
              /\ v = w /\ i \in Span(s, n) => entry'[Pde(v, i)] # NoFrame
    PROVE  /\ RunsTyped' /\ RunsApart' /\ PagesMapped'
           /\ Covered(w)' = Covered(w) \cup Span(s, n)
           /\ \A v \in Windows : v # w => Covered(v)' = Covered(v)
           /\ Covered(w) \cap Span(s, n) = {}
<1>0. RunsTyped /\ RunsApart /\ PagesMapped
  BY DEF Window
<1> DEFINE r0 == <<w, s, n>>
<1>1. r0 \in Windows \X Nat \X (Nat \ {0}) /\ r0[1] = w /\ r0[2] = s /\ r0[3] = n
  OBVIOUS
<1>2. \A r : r \in runs' <=> r \in runs \/ r = r0
  OBVIOUS
<1> HIDE DEF r0
<1>3. \A i \in Span(s, n) : i \in Pages(w)
  BY SpanFacts, PageFacts
<1>4. Covered(w) \cap Span(s, n) = {}
  BY <1>0, <1>3 DEF PagesMapped
<1>5. Covered(w)' = Covered(w) \cup Span(s, n)
  BY <1>1, <1>2 DEF Covered
<1>6. \A v \in Windows : v # w => Covered(v)' = Covered(v)
  BY <1>1, <1>2 DEF Covered
<1>7. RunsTyped'
  BY <1>0, <1>1, <1>2 DEF RunsTyped
<1>8. RunsApart'
  <2>1. ASSUME NEW r \in runs, r[1] = w
        PROVE  Span(r[2], r[3]) \cap Span(s, n) = {}
    BY <1>4, <2>1, CoveredMeans
  <2>2. ASSUME NEW q \in runs', NEW r \in runs', q # r, q[1] = r[1]
        PROVE  Span(q[2], q[3]) \cap Span(r[2], r[3]) = {}
    <3>1. CASE q \in runs /\ r \in runs
      BY <1>0, <2>2, <3>1 DEF RunsApart
    <3>2. CASE q = r0
      <4>1. r \in runs /\ r[1] = w /\ Span(q[2], q[3]) = Span(s, n)
        BY <1>1, <1>2, <2>2, <3>2
      <4> QED
        BY <2>1, <4>1
    <3>3. CASE r = r0
      <4>1. q \in runs /\ q[1] = w /\ Span(r[2], r[3]) = Span(s, n)
        BY <1>1, <1>2, <2>2, <3>3
      <4> QED
        BY <2>1, <4>1
    <3> QED
      BY <1>2, <3>1, <3>2, <3>3
  <2> QED
    BY <2>2 DEF RunsApart
<1>9. PagesMapped'
  <2>1. ASSUME NEW v \in Windows, NEW i \in Pages(v)
        PROVE  /\ entry'[Pte(v, i)] # NoFrame <=> i \in Covered(v)'
               /\ entry'[Pte(v, i)] # NoFrame => entry'[Pde(v, i)] # NoFrame
    <3>1. /\ entry[Pte(v, i)] # NoFrame <=> i \in Covered(v)
          /\ entry[Pte(v, i)] # NoFrame => entry[Pde(v, i)] # NoFrame
      BY <1>0 DEF PagesMapped, Mapped
    <3>2. CASE v = w
      BY <1>5, <3>1, <3>2
    <3>3. CASE v # w
      BY <1>6, <3>1, <3>3
    <3> QED
      BY <3>2, <3>3
  <2> QED
    BY <2>1 DEF PagesMapped, Mapped
<1> QED
  BY <1>4, <1>5, <1>6, <1>7, <1>8, <1>9

\* The same for a run that is given back.
LEMMA RunDropped ==
    ASSUME Window, NEW r0 \in runs, runs' = runs \ {r0},
           \A v \in Windows : \A i \in Pages(v) :
              /\ entry'[Pte(v, i)] # NoFrame
                    <=> entry[Pte(v, i)] # NoFrame /\ ~(v = r0[1] /\ i \in Span(r0[2], r0[3]))
              /\ entry'[Pde(v, i)] = entry[Pde(v, i)]
    PROVE  /\ RunsTyped' /\ RunsApart' /\ PagesMapped'
           /\ Covered(r0[1])' = Covered(r0[1]) \ Span(r0[2], r0[3])
           /\ \A v \in Windows : v # r0[1] => Covered(v)' = Covered(v)
           /\ Span(r0[2], r0[3]) \subseteq Covered(r0[1])
<1>0. RunsTyped /\ RunsApart /\ PagesMapped
  BY DEF Window
<1>1. \A r : r \in runs' <=> r \in runs /\ r # r0
  OBVIOUS
<1>2. Span(r0[2], r0[3]) \subseteq Covered(r0[1])
  BY DEF Covered
<1>3. Covered(r0[1])' = Covered(r0[1]) \ Span(r0[2], r0[3])
  <2>1. \A r \in runs : r # r0 /\ r[1] = r0[1] => Span(r[2], r[3]) \cap Span(r0[2], r0[3]) = {}
    BY <1>0 DEF RunsApart
  <2>2. \A i : i \in Covered(r0[1])' <=> \E r \in runs' : r[1] = r0[1] /\ i \in Span(r[2], r[3])
    BY DEF Covered
  <2>3. \A i : i \in Covered(r0[1])' <=> i \in Covered(r0[1]) /\ i \notin Span(r0[2], r0[3])
    BY <1>1, <2>1, <2>2, CoveredMeans
  <2> QED
    BY <2>3
<1>4. \A v \in Windows : v # r0[1] => Covered(v)' = Covered(v)
  BY <1>1 DEF Covered
<1>5. RunsTyped' /\ RunsApart'
  BY <1>0, <1>1 DEF RunsTyped, RunsApart
<1>6. PagesMapped'
  <2>1. ASSUME NEW v \in Windows, NEW i \in Pages(v)
        PROVE  /\ entry'[Pte(v, i)] # NoFrame <=> i \in Covered(v)'
               /\ entry'[Pte(v, i)] # NoFrame => entry'[Pde(v, i)] # NoFrame
    <3>1. /\ entry[Pte(v, i)] # NoFrame <=> i \in Covered(v)
          /\ entry[Pte(v, i)] # NoFrame => entry[Pde(v, i)] # NoFrame
      BY <1>0 DEF PagesMapped, Mapped
    <3>2. CASE v = r0[1]
      BY <1>3, <3>1, <3>2
    <3>3. CASE v # r0[1]
      BY <1>4, <3>1, <3>3
    <3> QED
      BY <3>2, <3>3
  <2> QED
    BY <2>1 DEF PagesMapped, Mapped
<1> QED
  BY <1>2, <1>3, <1>4, <1>5, <1>6

-----------------------------------------------------------------------------
(* Each step preserves the invariant.                                      *)

\* What a first fit of unmapped pages backs: entries of the window that were
\* empty, and if frames suffice every page of the run and its page table.
LEMMA BackedFacts ==
    ASSUME TypeOK, NEW w \in Windows, NEW s \in Nat, NEW n \in Nat \ {0}, s + n <= SizeOf(w),
           \A i \in Span(s, n) : ~Mapped(w, i)
    PROVE  /\ \A i \in Span(s, n) : i \in Pages(w)
           /\ Backed(w, s, n) \subseteq Entries
           /\ \A e \in Backed(w, s, n) : entry[e] = NoFrame
           /\ \A v \in Windows : \A i \in Pages(v) :
                 Pte(v, i) \in Backed(w, s, n) => v = w /\ i \in Span(s, n) /\ Enough(w, s, n)
           /\ Enough(w, s, n) =>
                 \A i \in Span(s, n) : /\ Pte(w, i) \in Backed(w, s, n)
                                       /\ Pde(w, i) \in Backed(w, s, n) \/ entry[Pde(w, i)] # NoFrame
<1>1. \A i \in Span(s, n) : i \in Pages(w)
  BY SpanFacts, PageFacts
<1>2. \A e \in Needed(w, s, n) : e \in Entries /\ entry[e] = NoFrame
  BY <1>1, EntryFacts DEF Needed, Mapped
<1>3. Taken(w, s, n) \subseteq Needed(w, s, n)
  BY DEF Taken
<1>4. Backed(w, s, n) \subseteq Needed(w, s, n)
  BY <1>3 DEF Backed
<1>5. ASSUME NEW v \in Windows, NEW i \in Pages(v), Pte(v, i) \in Backed(w, s, n)
      PROVE  v = w /\ i \in Span(s, n) /\ Enough(w, s, n)
  <2>1. Pte(v, i) \in Needed(w, s, n)
    BY <1>4, <1>5
  <2>2. v = w /\ i \in Span(s, n)
    BY <2>1, EntryFacts DEF Needed
  <2>3. Pte(v, i)[2] # "pde"
    BY DEF Pte
  <2>4. Enough(w, s, n)
    BY <1>5, <2>3 DEF Backed
  <2> QED
    BY <2>2, <2>4
<1>6. ASSUME Enough(w, s, n), NEW i \in Span(s, n)
      PROVE  /\ Pte(w, i) \in Backed(w, s, n)
             /\ Pde(w, i) \in Backed(w, s, n) \/ entry[Pde(w, i)] # NoFrame
  <2>1. Backed(w, s, n) = Needed(w, s, n)
    BY <1>6 DEF Backed
  <2> QED
    BY <1>6, <2>1 DEF Needed
<1> QED
  BY <1>1, <1>2, <1>4, <1>5, <1>6

\* Taking frames for a run leaves every transfer, every page under one, and
\* every owner of a mapped frame alone.
LEMMA BackSupply ==
    ASSUME TypeOK, Supply, NEW w \in Windows, NEW s \in Nat, NEW n \in Nat \ {0}, s + n <= SizeOf(w),
           \A i \in Span(s, n) : ~Mapped(w, i), Back(w, s, n), UNCHANGED io
    PROVE  /\ Supply'
           /\ entry' \in [Entries -> Frames \cup {NoFrame}]
           /\ owner' \in [Frames -> Entries \cup {NoOwner}]
           /\ free' \subseteq Frames /\ held' \subseteq Frames
           /\ \A v \in Windows : \A i \in Pages(v) :
                 /\ entry'[Pte(v, i)] # NoFrame
                       <=> entry[Pte(v, i)] # NoFrame \/ (v = w /\ i \in Span(s, n) /\ Enough(w, s, n))
                 /\ entry[Pde(v, i)] # NoFrame => entry'[Pde(v, i)] # NoFrame
                 /\ v = w /\ i \in Span(s, n) /\ Enough(w, s, n) => entry'[Pde(v, i)] # NoFrame
<1> DEFINE B == Backed(w, s, n)
<1>0. /\ FramesApart /\ OwnersMatch /\ PoolOwned /\ IoTyped /\ (~Overlap => IoPinned)
      /\ free \subseteq Frames /\ held \subseteq Frames /\ NoFrame \notin Frames
      /\ entry \in [Entries -> Frames \cup {NoFrame}]
  BY DEF TypeOK, Supply
<1>1. /\ \A i \in Span(s, n) : i \in Pages(w)
      /\ B \subseteq Entries
      /\ \A e \in B : entry[e] = NoFrame
      /\ \A v \in Windows : \A i \in Pages(v) :
            Pte(v, i) \in B => v = w /\ i \in Span(s, n) /\ Enough(w, s, n)
      /\ Enough(w, s, n) => \A i \in Span(s, n) : /\ Pte(w, i) \in B
                                                  /\ Pde(w, i) \in B \/ entry[Pde(w, i)] # NoFrame
  BY BackedFacts
<1>2. /\ entry' \in [Entries -> Frames \cup {NoFrame}]
      /\ owner' \in [Frames -> Entries \cup {NoOwner}]
      /\ free' \subseteq free /\ held' = held
      /\ \A e \in Entries : e \notin B => entry'[e] = entry[e]
      /\ \A e \in B : entry'[e] \in free
      /\ \A e \in B : w = "pool" => owner'[entry'[e]] = e
      /\ \A f \in Frames : f \notin free => owner'[f] = owner[f]
      /\ FramesApart' /\ OwnersMatch'
  BY <1>0, <1>1, BackStep
<1> HIDE DEF B
<1>3. \A e \in B : entry'[e] # NoFrame
  BY <1>0, <1>2
<1>4. \A v \in Windows : \A i \in Pages(v) : Pte(v, i) \in Entries /\ Pde(v, i) \in Entries
  BY EntryFacts
<1>5. ASSUME NEW v \in Windows, NEW i \in Pages(v)
      PROVE  /\ entry'[Pte(v, i)] # NoFrame
                   <=> entry[Pte(v, i)] # NoFrame \/ (v = w /\ i \in Span(s, n) /\ Enough(w, s, n))
             /\ entry[Pde(v, i)] # NoFrame => entry'[Pde(v, i)] # NoFrame
             /\ v = w /\ i \in Span(s, n) /\ Enough(w, s, n) => entry'[Pde(v, i)] # NoFrame
  BY <1>1, <1>2, <1>3, <1>4
<1>6. PoolOwned'
  <2>1. ASSUME NEW i \in Pages("pool"), entry'[Pte("pool", i)] # NoFrame
        PROVE  \/ owner'[entry'[Pte("pool", i)]] = Pte("pool", i)
               \/ \E d \in Transfer : PinnedBy(d, i)'
    <3>1. CASE Pte("pool", i) \in B
      <4>1. w = "pool"
        BY <1>1, <3>1, PageFacts
      <4> QED
        BY <1>2, <3>1, <4>1
    <3>2. CASE Pte("pool", i) \notin B
      <4>1. Pte("pool", i) \in Entries /\ entry'[Pte("pool", i)] = entry[Pte("pool", i)]
        BY <1>2, <1>4, <3>2, PageFacts
      <4>2. entry[Pte("pool", i)] \in Frames /\ entry[Pte("pool", i)] \notin free
        BY <1>0, <2>1, <4>1 DEF FramesApart
      <4>3. owner'[entry[Pte("pool", i)]] = owner[entry[Pte("pool", i)]]
        BY <1>2, <4>2
      <4>4. \A d \in Transfer : PinnedBy(d, i) => PinnedBy(d, i)'
        BY <4>1 DEF PinnedBy, FrameOf
      <4> QED
        BY <1>0, <2>1, <4>1, <4>3, <4>4 DEF PoolOwned, Mapped, FrameOf
    <3> QED
      BY <3>1, <3>2
  <2> QED
    BY <2>1 DEF PoolOwned, Mapped, FrameOf
<1>7. IoTyped' /\ InFlight' = InFlight
  BY <1>0 DEF IoTyped, InFlight
<1>8. ASSUME ~Overlap
      PROVE  IoPinned'
  <2>1. ASSUME NEW d \in InFlight, NEW i \in io[d].live
        PROVE  entry'[Pte(io[d].w, i)] = io[d].pfn[i] /\ owner'[io[d].pfn[i]] = NoOwner
    <3>1. io[d].w \in Windows /\ i \in Pages(io[d].w) /\ io[d].pfn[i] \in Frames
      BY <1>0, <2>1 DEF IoTyped
    <3>2. entry[Pte(io[d].w, i)] = io[d].pfn[i] /\ owner[io[d].pfn[i]] = NoOwner
      BY <1>0, <1>8, <2>1 DEF IoPinned, FrameOf
    <3>3. Pte(io[d].w, i) \in Entries /\ Pte(io[d].w, i) \notin B /\ io[d].pfn[i] \notin free
      BY <1>0, <1>1, <1>4, <3>1, <3>2 DEF FramesApart
    <3> QED
      BY <1>2, <3>1, <3>2, <3>3
  <2> QED
    BY <1>0, <1>7, <1>8, <2>1 DEF IoPinned, FrameOf
<1> QED
  BY <1>0, <1>2, <1>5, <1>6, <1>7, <1>8 DEF Supply

\* A set of pages of the pool is finite and no larger than the window, and a
\* run outside of it, or inside of it, adds or takes away its length.
LEMMA BitmapSize ==
    ASSUME NEW S, S \subseteq Pages("pool")
    PROVE  /\ IsFiniteSet(S) /\ Cardinality(S) \in 0 .. NXPP_PAGES
           /\ \A s, n \in Nat : S \cap Span(s, n) = {} => Cardinality(S \cup Span(s, n)) = Cardinality(S) + n
           /\ \A s, n \in Nat : Span(s, n) \subseteq S => Cardinality(S \ Span(s, n)) = Cardinality(S) - n
<1>1. Pages("pool") = 0 .. NXPP_PAGES - 1 /\ NXPP_PAGES \in Nat \ {0} /\ 0 \in Int /\ NXPP_PAGES - 1 \in Int
  BY PageFacts
<1>2. IsFiniteSet(0 .. NXPP_PAGES - 1) /\ Cardinality(0 .. NXPP_PAGES - 1) = NXPP_PAGES
  BY <1>1, FS_Interval
<1>3. IsFiniteSet(S) /\ Cardinality(S) <= NXPP_PAGES
  BY <1>1, <1>2, FS_Subset
<1>4. Cardinality(S) \in Nat
  BY <1>3, FS_CardinalityType
<1>5. ASSUME NEW s \in Nat, NEW n \in Nat, S \cap Span(s, n) = {}
      PROVE  Cardinality(S \cup Span(s, n)) = Cardinality(S) + n
  <2>1. IsFiniteSet(Span(s, n)) /\ Cardinality(Span(s, n)) = n
    BY SpanFacts
  <2>2. Cardinality(S \cup Span(s, n)) = Cardinality(S) + Cardinality(Span(s, n)) - Cardinality(S \cap Span(s, n))
    BY <1>3, <2>1, FS_Union
  <2>3. Cardinality(S \cap Span(s, n)) = 0
    BY <1>5, FS_EmptySet
  <2> QED
    BY <1>4, <2>1, <2>2, <2>3
<1>6. ASSUME NEW s \in Nat, NEW n \in Nat, Span(s, n) \subseteq S
      PROVE  Cardinality(S \ Span(s, n)) = Cardinality(S) - n
  <2>1. IsFiniteSet(Span(s, n)) /\ Cardinality(Span(s, n)) = n
    BY SpanFacts
  <2>2. Cardinality(S \ Span(s, n)) = Cardinality(S) - Cardinality(S \cap Span(s, n))
    BY <1>3, FS_Difference
  <2>3. S \cap Span(s, n) = Span(s, n)
    BY <1>6
  <2> QED
    BY <2>1, <2>2, <2>3
<1> QED
  BY <1>3, <1>4, <1>5, <1>6

\* A first fit from the hint, or from the start, lands on unmapped pages.
LEMMA FirstFitFree ==
    ASSUME IInv, NEW n \in Nat \ {0}, Fits(n) # {}
    PROVE  /\ FirstFit(n) \in Pages("pool") /\ FirstFit(n) \in Nat /\ FirstFit(n) + n <= NXPP_PAGES
           /\ \A i \in Span(FirstFit(n), n) : ~Mapped("pool", i)
           /\ NxppUsedMap \cap Span(FirstFit(n), n) = {}
<1> DEFINE after == {s \in Fits(n) : s >= NxppScanHint}
           S == IF after # {} THEN after ELSE Fits(n)
<1>1. S \subseteq Nat /\ S # {} /\ S \subseteq Fits(n)
  BY PageFacts DEF Fits
<1>2. Min(S) \in S
  BY <1>1, MinIsLeast
<1>3. FirstFit(n) \in Fits(n)
  BY <1>1, <1>2 DEF FirstFit
<1>4. FirstFit(n) \in Pages("pool") /\ FirstFit(n) + n <= NXPP_PAGES
      /\ Span(FirstFit(n), n) \cap NxppUsedMap = {}
  BY <1>3 DEF Fits, NxppTestRange
<1>5. FirstFit(n) \in Nat
  BY <1>4, PageFacts
<1>6. \A i \in Span(FirstFit(n), n) : i \in Pages("pool")
  BY <1>4, <1>5, SpanFacts, PageFacts
<1>7. \A i \in Pages("pool") : Mapped("pool", i) => i \in NxppUsedMap
  BY PageFacts DEF IInv, Window, PagesMapped, BitmapExact
<1> QED
  BY <1>4, <1>5, <1>6, <1>7

\* An allocation from the pool.
LEMMA NxPoolPagesAllocStep ==
    ASSUME IInv, NEW n \in 1 .. MaxRun, NxPoolPagesAlloc(n)
    PROVE  IInv'
<1> DEFINE s == FirstFit(n)
<1>0. TypeOK /\ Supply /\ Window /\ n \in Nat \ {0}
  BY DEF IInv
<1>1. /\ Fits(n) # {} /\ Back("pool", s, n) /\ io' = io
      /\ IF Enough("pool", s, n)
         THEN /\ NxppUsedMap' = NxppUsedMap \cup Span(s, n)
              /\ NxppRunPages' = [NxppRunPages EXCEPT ![s] = n]
              /\ NxppCommitted' = NxppCommitted + n
              /\ NxppScanHint' = IF s + n >= NXPP_PAGES THEN 0 ELSE s + n
              /\ runs' = runs \cup {<<"pool", s, n>>}
         ELSE UNCHANGED <<window, runs>>
  BY DEF NxPoolPagesAlloc
<1>2. /\ s \in Pages("pool") /\ s \in Nat /\ s + n <= NXPP_PAGES
      /\ \A i \in Span(s, n) : ~Mapped("pool", i)
      /\ NxppUsedMap \cap Span(s, n) = {}
  BY <1>0, <1>1, FirstFitFree
<1> HIDE DEF s
<1>3. "pool" \in Windows /\ s + n <= SizeOf("pool")
  BY <1>2, PageFacts
<1>4. /\ Supply'
      /\ entry' \in [Entries -> Frames \cup {NoFrame}]
      /\ owner' \in [Frames -> Entries \cup {NoOwner}]
      /\ free' \subseteq Frames /\ held' \subseteq Frames
      /\ \A v \in Windows : \A i \in Pages(v) :
            /\ entry'[Pte(v, i)] # NoFrame
                  <=> entry[Pte(v, i)] # NoFrame \/ (v = "pool" /\ i \in Span(s, n) /\ Enough("pool", s, n))
            /\ entry[Pde(v, i)] # NoFrame => entry'[Pde(v, i)] # NoFrame
            /\ v = "pool" /\ i \in Span(s, n) /\ Enough("pool", s, n) => entry'[Pde(v, i)] # NoFrame
  BY <1>0, <1>1, <1>2, <1>3, BackSupply
<1>5. CASE ~Enough("pool", s, n)
  <2>1. UNCHANGED <<window, runs>>
    BY <1>1, <1>5
  <2>2. Window'
    BY <1>0, <1>4, <1>5, <2>1, WindowKept
  <2>3. TypeOK'
    BY <1>0, <1>4, <2>1 DEF TypeOK, window
  <2> QED
    BY <1>4, <2>2, <2>3 DEF IInv
<1>6. CASE Enough("pool", s, n)
  <2>1. /\ RunsTyped' /\ RunsApart' /\ PagesMapped'
        /\ Covered("pool")' = Covered("pool") \cup Span(s, n)
    <3>1. runs' = runs \cup {<<"pool", s, n>>}
      BY <1>1, <1>6
    <3>2. \A v \in Windows : \A i \in Pages(v) :
            /\ entry'[Pte(v, i)] # NoFrame <=> entry[Pte(v, i)] # NoFrame \/ (v = "pool" /\ i \in Span(s, n))
            /\ entry[Pde(v, i)] # NoFrame => entry'[Pde(v, i)] # NoFrame
            /\ v = "pool" /\ i \in Span(s, n) => entry'[Pde(v, i)] # NoFrame
      BY <1>4, <1>6
    <3> QED
      BY <1>0, <1>2, <1>3, <3>1, <3>2, RunAdded
  <2>2. /\ NxppUsedMap \subseteq Pages("pool") /\ NxppUsedMap = Covered("pool")
        /\ NxppCommitted = Cardinality(NxppUsedMap)
    BY <1>0 DEF Window, BitmapExact, TypeOK
  <2>3. NxppUsedMap' = Covered("pool")' /\ NxppUsedMap' = NxppUsedMap \cup Span(s, n)
        /\ NxppCommitted' = NxppCommitted + n
    BY <1>1, <1>6, <2>1, <2>2
  <2>4. NxppCommitted' = Cardinality(NxppUsedMap')
    BY <1>0, <1>2, <2>2, <2>3, BitmapSize
  <2>5. NxppUsedMap' \subseteq Pages("pool")
    BY <1>0, <1>2, <2>2, <2>3, SpanFacts, PageFacts
  <2>6. NxppCommitted' \in 0 .. NXPP_PAGES
    BY <2>4, <2>5, BitmapSize
  <2>7. /\ NxppRunPages' \in [Pages("pool") -> 0 .. NXPP_PAGES]
        /\ \A q \in Pages("pool") : NxppRunPages'[q] = IF q = s THEN n ELSE NxppRunPages[q]
    <3>1. n \in 0 .. NXPP_PAGES
      BY <1>0, <1>2
    <3>2. NxppRunPages \in [Pages("pool") -> 0 .. NXPP_PAGES] /\ NxppRunPages' = [NxppRunPages EXCEPT ![s] = n]
      BY <1>0, <1>1, <1>6 DEF TypeOK
    <3> QED
      BY <1>2, <3>1, <3>2
  <2>8. NxppScanHint' \in Pages("pool")
    BY <1>0, <1>1, <1>2, <1>6, PageFacts
  <2>9. RunTableExact'
    <3>1. /\ \A q \in Pages("pool") : NxppRunPages[q] # 0 => <<"pool", q, NxppRunPages[q]>> \in runs
          /\ \A r \in runs : r[1] = "pool" => NxppRunPages[r[2]] = r[3]
      BY <1>0 DEF Window, RunTableExact
    <3>2. runs' = runs \cup {<<"pool", s, n>>}
      BY <1>1, <1>6
    <3>3. \A q \in Pages("pool") : NxppRunPages'[q] # 0 => <<"pool", q, NxppRunPages'[q]>> \in runs'
      BY <2>7, <3>1, <3>2
    <3>4. ASSUME NEW r \in runs', r[1] = "pool"
          PROVE  NxppRunPages'[r[2]] = r[3]
      <4>1. CASE r = <<"pool", s, n>>
        BY <1>2, <2>7, <4>1
      <4>2. CASE r \in runs
        <5>1. r \in Windows \X Nat \X (Nat \ {0}) /\ r[2] + r[3] <= NXPP_PAGES /\ NxppRunPages[r[2]] = r[3]
          BY <1>0, <3>1, <3>4, <4>2, PageFacts DEF Window, RunsTyped
        <5>2. r[2] \in Nat /\ r[3] \in Nat \ {0}
          BY <5>1
        <5>3. r[2] \in Pages("pool") /\ r[2] \in Span(r[2], r[3])
          BY <5>1, <5>2, SpanFacts, PageFacts
        <5>4. r[2] \in Covered("pool")
          BY <3>4, <4>2, <5>3, CoveredMeans
        <5>5. r[2] # s
          BY <1>0, <1>2, <2>2, <5>4, SpanFacts
        <5> QED
          BY <2>7, <5>1, <5>3, <5>5
      <4> QED
        BY <3>2, <4>1, <4>2
    <3> QED
      BY <3>3, <3>4 DEF RunTableExact
  <2>10. TypeOK'
    BY <1>4, <2>5, <2>6, <2>7, <2>8 DEF TypeOK
  <2>11. Window'
    BY <2>1, <2>3, <2>4, <2>9 DEF Window, BitmapExact
  <2> QED
    BY <1>4, <2>10, <2>11 DEF IInv
<1> QED
  BY <1>5, <1>6

\* A free of a run of the pool.
LEMMA NxPoolPagesFreeStep ==
    ASSUME IInv, NEW s \in Pages("pool"), NxPoolPagesFree(s)
    PROVE  IInv'
<1> DEFINE n == NxppRunPages[s]
           P == Span(s, n)
<1>0. TypeOK /\ Supply /\ Window
  BY DEF IInv
<1>r. PICK r0 \in runs : r0 = <<"pool", s, n>>
  BY DEF NxPoolPagesFree
<1>1. /\ r0 \in runs /\ Unback("pool", P)
      /\ NxppUsedMap' = NxppUsedMap \ P
      /\ NxppCommitted' = NxppCommitted - n
      /\ NxppRunPages' = [NxppRunPages EXCEPT ![s] = 0]
      /\ runs' = runs \ {r0}
      /\ NxppScanHint' = NxppScanHint
  BY <1>r DEF NxPoolPagesFree
<1>2. r0[1] = "pool" /\ r0[2] = s /\ r0[3] = n
  BY <1>r
<1> HIDE DEF n
<1>3. "pool" \in Windows /\ s \in Nat /\ n \in Nat \ {0} /\ s + n <= NXPP_PAGES
  BY <1>0, <1>1, <1>2, PageFacts DEF Window, RunsTyped
<1>4. \A i : i \in P <=> i \in Nat /\ s <= i /\ i < s + n
  BY <1>3, SpanFacts
<1>5. P = Span(s, n)
  OBVIOUS
<1> HIDE DEF P
<1>6. P \subseteq Pages("pool")
  BY <1>3, <1>4, PageFacts
<1>7. /\ entry' \in [Entries -> Frames \cup {NoFrame}]
      /\ owner' \in [Frames -> Entries \cup {NoOwner}]
      /\ free' \subseteq Frames /\ held' \subseteq Frames
      /\ \A i \in P : entry'[Pte("pool", i)] = NoFrame
      /\ \A e \in Entries : (\A i \in P : e # Pte("pool", i)) => entry'[e] = entry[e]
      /\ Supply'
  BY <1>0, <1>1, <1>3, <1>6, UnbackStep
<1>8. ASSUME NEW v \in Windows, NEW i \in Pages(v)
      PROVE  /\ entry'[Pte(v, i)] # NoFrame <=> entry[Pte(v, i)] # NoFrame /\ ~(v = "pool" /\ i \in P)
             /\ entry'[Pde(v, i)] = entry[Pde(v, i)]
  BY <1>7, EntryFacts
<1>9. /\ RunsTyped' /\ RunsApart' /\ PagesMapped'
      /\ Covered("pool")' = Covered("pool") \ P
      /\ P \subseteq Covered("pool")
  <2>1. \A v \in Windows : \A i \in Pages(v) :
           /\ entry'[Pte(v, i)] # NoFrame
                 <=> entry[Pte(v, i)] # NoFrame /\ ~(v = r0[1] /\ i \in Span(r0[2], r0[3]))
           /\ entry'[Pde(v, i)] = entry[Pde(v, i)]
    BY <1>2, <1>5, <1>8
  <2>2. /\ RunsTyped' /\ RunsApart' /\ PagesMapped'
        /\ Covered(r0[1])' = Covered(r0[1]) \ Span(r0[2], r0[3])
        /\ Span(r0[2], r0[3]) \subseteq Covered(r0[1])
    BY <1>0, <1>1, <2>1, RunDropped
  <2> QED
    BY <1>2, <1>5, <2>2
<1>10. /\ NxppUsedMap \subseteq Pages("pool") /\ NxppUsedMap = Covered("pool")
       /\ NxppCommitted = Cardinality(NxppUsedMap)
  BY <1>0 DEF Window, BitmapExact, TypeOK
<1>11. NxppUsedMap' = Covered("pool")' /\ NxppUsedMap' \subseteq Pages("pool")
  BY <1>1, <1>9, <1>10
<1>12. NxppCommitted' = Cardinality(NxppUsedMap')
  BY <1>1, <1>3, <1>5, <1>9, <1>10, BitmapSize
<1>13. NxppCommitted' \in 0 .. NXPP_PAGES
  BY <1>11, <1>12, BitmapSize
<1>14. /\ NxppRunPages' \in [Pages("pool") -> 0 .. NXPP_PAGES]
       /\ \A q \in Pages("pool") : NxppRunPages'[q] = IF q = s THEN 0 ELSE NxppRunPages[q]
  BY <1>0, <1>1 DEF TypeOK
<1>15. RunTableExact'
  <2>1. /\ \A q \in Pages("pool") : NxppRunPages[q] # 0 => <<"pool", q, NxppRunPages[q]>> \in runs
        /\ \A r \in runs : r[1] = "pool" => NxppRunPages[r[2]] = r[3]
    BY <1>0 DEF Window, RunTableExact
  <2>2. \A q \in Pages("pool") : NxppRunPages'[q] # 0 => <<"pool", q, NxppRunPages'[q]>> \in runs'
    BY <1>1, <1>14, <1>r, <2>1
  <2>3. ASSUME NEW r \in runs', r[1] = "pool"
        PROVE  NxppRunPages'[r[2]] = r[3]
    <3>1. r \in runs /\ r # r0 /\ r \in Windows \X Nat \X (Nat \ {0}) /\ r[2] + r[3] <= NXPP_PAGES
          /\ NxppRunPages[r[2]] = r[3]
      BY <1>0, <1>1, <2>1, <2>3, PageFacts DEF Window, RunsTyped
    <3>2. r[2] \in Pages("pool") /\ r[2] \in Nat /\ r[3] \in Nat \ {0} /\ r = <<r[1], r[2], r[3]>>
      BY <3>1, PageFacts
    <3>3. r[2] # s
      BY <1>r, <2>3, <3>1, <3>2 DEF n
    <3> QED
      BY <1>14, <3>1, <3>2, <3>3
  <2> QED
    BY <2>2, <2>3 DEF RunTableExact
<1>16. TypeOK'
  BY <1>0, <1>1, <1>7, <1>11, <1>13, <1>14 DEF TypeOK
<1>17. Window'
  BY <1>9, <1>11, <1>12, <1>15 DEF Window, BitmapExact
<1> QED
  BY <1>7, <1>16, <1>17 DEF IInv

\* An allocation from the aperture.
LEMMA NxkSysVaAllocateStep ==
    ASSUME IInv, NEW n \in 1 .. MaxRun, NxkSysVaAllocate(n)
    PROVE  IInv'
<1> DEFINE s == Min(SysFits(n))
<1>0. TypeOK /\ Supply /\ Window /\ n \in Nat \ {0}
  BY DEF IInv
<1>1. /\ SysFits(n) # {} /\ Back("sys", s, n) /\ UNCHANGED <<window, io>>
      /\ runs' = IF Enough("sys", s, n) THEN runs \cup {<<"sys", s, n>>} ELSE runs
  BY DEF NxkSysVaAllocate
<1>2. s \in SysFits(n)
  <2>1. SysFits(n) \subseteq Nat
    BY PageFacts DEF SysFits
  <2> QED
    BY <1>1, <2>1, MinIsLeast
<1> HIDE DEF s
<1>3. /\ s \in Nat /\ s + n <= SizeOf("sys") /\ "sys" \in Windows
      /\ \A i \in Span(s, n) : ~Mapped("sys", i)
  BY <1>2, PageFacts DEF SysFits
<1>4. /\ Supply'
      /\ entry' \in [Entries -> Frames \cup {NoFrame}]
      /\ owner' \in [Frames -> Entries \cup {NoOwner}]
      /\ free' \subseteq Frames /\ held' \subseteq Frames
      /\ \A v \in Windows : \A i \in Pages(v) :
            /\ entry'[Pte(v, i)] # NoFrame
                  <=> entry[Pte(v, i)] # NoFrame \/ (v = "sys" /\ i \in Span(s, n) /\ Enough("sys", s, n))
            /\ entry[Pde(v, i)] # NoFrame => entry'[Pde(v, i)] # NoFrame
            /\ v = "sys" /\ i \in Span(s, n) /\ Enough("sys", s, n) => entry'[Pde(v, i)] # NoFrame
  BY <1>0, <1>1, <1>3, BackSupply
<1>5. TypeOK'
  BY <1>0, <1>1, <1>4 DEF TypeOK, window
<1>6. CASE ~Enough("sys", s, n)
  <2>1. UNCHANGED <<window, runs>>
    BY <1>1, <1>6
  <2>2. Window'
    BY <1>0, <1>4, <1>6, <2>1, WindowKept
  <2> QED
    BY <1>4, <1>5, <2>2 DEF IInv
<1>7. CASE Enough("sys", s, n)
  <2>1. runs' = runs \cup {<<"sys", s, n>>}
    BY <1>1, <1>7
  <2>2. \A v \in Windows : \A i \in Pages(v) :
          /\ entry'[Pte(v, i)] # NoFrame <=> entry[Pte(v, i)] # NoFrame \/ (v = "sys" /\ i \in Span(s, n))
          /\ entry[Pde(v, i)] # NoFrame => entry'[Pde(v, i)] # NoFrame
          /\ v = "sys" /\ i \in Span(s, n) => entry'[Pde(v, i)] # NoFrame
    BY <1>4, <1>7
  <2>3. /\ RunsTyped' /\ RunsApart' /\ PagesMapped'
        /\ \A v \in Windows : v # "sys" => Covered(v)' = Covered(v)
    BY <1>0, <1>3, <2>1, <2>2, RunAdded
  <2>4. BitmapExact'
    BY <1>0, <1>1, <2>3, PageFacts DEF Window, BitmapExact, window
  <2>5. RunTableExact'
    BY <1>0, <1>1, <2>1 DEF Window, RunTableExact, window
  <2> QED
    BY <1>4, <1>5, <2>3, <2>4, <2>5 DEF IInv, Window
<1> QED
  BY <1>6, <1>7

\* A free of a run of the aperture.
LEMMA NxkSysVaFreeStep ==
    ASSUME IInv, NEW s \in Pages("sys"), NEW n \in 1 .. MaxRun, NxkSysVaFree(s, n)
    PROVE  IInv'
<1> DEFINE P == Span(s, n)
           r0 == <<"sys", s, n>>
<1>0. TypeOK /\ Supply /\ Window
  BY DEF IInv
<1>1. r0 \in runs /\ Unback("sys", P) /\ runs' = runs \ {r0} /\ UNCHANGED window
  BY DEF NxkSysVaFree
<1>2. r0[1] = "sys" /\ r0[2] = s /\ r0[3] = n
  OBVIOUS
<1> HIDE DEF r0
<1>3. "sys" \in Windows /\ s \in Nat /\ n \in Nat \ {0} /\ s + n <= SysPages
  BY <1>0, <1>1, <1>2, PageFacts DEF Window, RunsTyped
<1>4. \A i : i \in P <=> i \in Nat /\ s <= i /\ i < s + n
  BY <1>3, SpanFacts
<1>5. P = Span(s, n)
  OBVIOUS
<1> HIDE DEF P
<1>6. P \subseteq Pages("sys")
  BY <1>3, <1>4, PageFacts
<1>7. /\ entry' \in [Entries -> Frames \cup {NoFrame}]
      /\ owner' \in [Frames -> Entries \cup {NoOwner}]
      /\ free' \subseteq Frames /\ held' \subseteq Frames
      /\ \A i \in P : entry'[Pte("sys", i)] = NoFrame
      /\ \A e \in Entries : (\A i \in P : e # Pte("sys", i)) => entry'[e] = entry[e]
      /\ Supply'
  BY <1>0, <1>1, <1>3, <1>6, UnbackStep
<1>8. ASSUME NEW v \in Windows, NEW i \in Pages(v)
      PROVE  /\ entry'[Pte(v, i)] # NoFrame <=> entry[Pte(v, i)] # NoFrame /\ ~(v = "sys" /\ i \in P)
             /\ entry'[Pde(v, i)] = entry[Pde(v, i)]
  BY <1>7, EntryFacts
<1>9. /\ RunsTyped' /\ RunsApart' /\ PagesMapped'
      /\ Covered("pool")' = Covered("pool")
  <2>1. \A v \in Windows : \A i \in Pages(v) :
           /\ entry'[Pte(v, i)] # NoFrame
                 <=> entry[Pte(v, i)] # NoFrame /\ ~(v = r0[1] /\ i \in Span(r0[2], r0[3]))
           /\ entry'[Pde(v, i)] = entry[Pde(v, i)]
    BY <1>2, <1>5, <1>8
  <2>2. /\ RunsTyped' /\ RunsApart' /\ PagesMapped'
        /\ \A v \in Windows : v # r0[1] => Covered(v)' = Covered(v)
    BY <1>0, <1>1, <2>1, RunDropped
  <2> QED
    BY <1>2, <2>2, PageFacts
<1>10. BitmapExact'
  BY <1>0, <1>1, <1>9 DEF Window, BitmapExact, window
<1>11. RunTableExact'
  BY <1>0, <1>1, <1>2 DEF Window, RunTableExact, window, r0
<1>12. TypeOK'
  BY <1>0, <1>1, <1>7 DEF TypeOK, window
<1> QED
  BY <1>7, <1>9, <1>10, <1>11, <1>12 DEF IInv, Window

-----------------------------------------------------------------------------
(* Transfers: only owners and the transfers themselves change.             *)

\* What is left to show when a transfer starts or ends.
LEMMA TransferStep ==
    ASSUME IInv, UNCHANGED <<entry, free, held, window, runs>>,
           owner' \in [Frames -> Entries \cup {NoOwner}],
           OwnersMatch', PoolOwned', IoTyped', ~Overlap => IoPinned'
    PROVE  IInv'
<1>1. TypeOK'
  BY DEF IInv, TypeOK, window
<1>2. FramesApart'
  BY DEF IInv, Supply, FramesApart
<1>3. Window'
  BY WindowKept DEF IInv
<1> QED
  BY <1>1, <1>2, <1>3 DEF IInv, Supply

\* A transfer that starts takes the owners of its frames away.
LEMMA StartStep ==
    ASSUME IInv, NEW d \in Transfer, NEW kind \in {"cache", "mdl"}, NEW w \in Windows,
           NEW s \in Nat, NEW n \in Nat, kind = "cache" => w = "pool",
           Start(d, kind, w, s, n),
           owner' = [f \in Frames |-> IF \E i \in Span(s, n) : FrameOf(w, i) = f THEN NoOwner ELSE owner[f]]
    PROVE  IInv'
<1> DEFINE P == Span(s, n)
           D == Dma(kind, w, s, n)
<1>0. /\ FramesApart /\ OwnersMatch /\ PoolOwned /\ IoTyped /\ (~Overlap => IoPinned)
      /\ entry \in [Entries -> Frames \cup {NoFrame}] /\ owner \in [Frames -> Entries \cup {NoOwner}]
      /\ NoFrame \notin Frames
  BY DEF IInv, TypeOK, Supply
<1>1. /\ io[d] = NoIo /\ io' = [io EXCEPT ![d] = D]
      /\ \A i \in P : i \in Pages(w) /\ Mapped(w, i)
      /\ \A c \in InFlight : Apart(c, kind, w, P)
      /\ UNCHANGED <<entry, free, held, window, runs>>
  BY DEF Start
<1>2. \A f \in Frames : owner'[f] = IF \E i \in P : entry[Pte(w, i)] = f THEN NoOwner ELSE owner[f]
  BY DEF FrameOf
<1>3. owner' \in [Frames -> Entries \cup {NoOwner}]
  BY <1>0
<1>4. P \subseteq Nat
  BY SpanFacts
<1>5. \A i \in P : Pte(w, i) \in Entries /\ entry[Pte(w, i)] \in Frames
  BY <1>0, <1>1, EntryFacts DEF Mapped
<1>6. /\ D.kind = kind /\ D.w = w /\ D.pages = P /\ D.live = P /\ D # NoIo
      /\ D.pfn = [i \in P |-> entry[Pte(w, i)]]
      /\ D \in [kind : {"cache", "mdl"}, w : Windows, pages : SUBSET Nat, live : SUBSET Nat, pfn : [P -> Frames]]
  <2>1. [i \in P |-> entry[Pte(w, i)]] \in [P -> Frames]
    BY <1>5
  <2>2. D = [kind |-> kind, w |-> w, pages |-> P, live |-> P, pfn |-> [i \in P |-> entry[Pte(w, i)]]]
    BY DEF Dma, FrameOf
  <2> HIDE DEF D, P
  <2>3. D.kind = kind /\ D.w = w /\ D.pages = P /\ D.live = P
        /\ D.pfn = [i \in P |-> entry[Pte(w, i)]]
    BY <2>2
  <2>4. D # NoIo
    <3>1. NoIo.kind = "none"
      BY DEF NoIo
    <3> QED
      BY <2>3, <3>1
  <2>5. D \in [kind : {"cache", "mdl"}, w : Windows, pages : SUBSET Nat, live : SUBSET Nat, pfn : [P -> Frames]]
    BY <1>4, <2>1, <2>2
  <2> QED
    BY <2>3, <2>4, <2>5
<1> HIDE DEF D, P
<1>7. /\ io'[d] = D /\ \A c \in Transfer : c # d => io'[c] = io[c]
      /\ io' = [c \in Transfer |-> io'[c]]
  BY <1>0, <1>1 DEF IoTyped
<1>8. \A c : c \in InFlight' <=> c = d \/ (c \in InFlight /\ c # d)
  BY <1>6, <1>7 DEF InFlight
<1>9. OwnersMatch'
  BY <1>0, <1>1, <1>2 DEF OwnersMatch
<1>10. PoolOwned'
  <2>1. ASSUME NEW i \in Pages("pool"), entry[Pte("pool", i)] # NoFrame
        PROVE  \/ owner'[entry[Pte("pool", i)]] = Pte("pool", i)
               \/ \E c \in Transfer : PinnedBy(c, i)'
    <3>1. Pte("pool", i) \in Entries /\ entry[Pte("pool", i)] \in Frames
      BY <1>0, <2>1, EntryFacts, PageFacts
    <3>2. CASE \E j \in P : entry[Pte(w, j)] = entry[Pte("pool", i)]
      <4>1. w = "pool" /\ i \in P
        BY <1>0, <1>5, <2>1, <3>1, <3>2, EntryFacts DEF FramesApart
      <4>2. D.pfn[i] = entry[Pte("pool", i)]
        BY <1>6, <4>1
      <4>3. PinnedBy(d, i)'
        BY <1>1, <1>6, <1>7, <4>1, <4>2 DEF PinnedBy, FrameOf
      <4> QED
        BY <4>3
    <3>3. CASE ~\E j \in P : entry[Pte(w, j)] = entry[Pte("pool", i)]
      <4>1. owner'[entry[Pte("pool", i)]] = owner[entry[Pte("pool", i)]]
        BY <1>2, <3>1, <3>3
      <4>2. \A c \in Transfer : PinnedBy(c, i) => PinnedBy(c, i)'
        BY <1>1, <1>7 DEF PinnedBy, FrameOf
      <4> QED
        BY <1>0, <2>1, <4>1, <4>2 DEF PoolOwned, Mapped, FrameOf
    <3> QED
      BY <3>2, <3>3
  <2> QED
    BY <1>1, <2>1 DEF PoolOwned, Mapped, FrameOf
<1>11. IoTyped'
  <2>1. ASSUME NEW c \in InFlight'
        PROVE  /\ io'[c] \in [kind : {"cache", "mdl"}, w : Windows, pages : SUBSET Nat, live : SUBSET Nat,
                              pfn : [io'[c].pages -> Frames]]
               /\ io'[c].pages \subseteq Pages(io'[c].w) /\ io'[c].live \subseteq io'[c].pages
               /\ io'[c].kind = "cache" => io'[c].w = "pool"
    <3>1. CASE c = d
      BY <1>1, <1>6, <1>7, <3>1
    <3>2. CASE c \in InFlight /\ c # d
      <4>1. io'[c] = io[c]
        BY <1>7, <3>2 DEF InFlight
      <4> QED
        BY <1>0, <3>2, <4>1 DEF IoTyped
    <3> QED
      BY <1>8, <2>1, <3>1, <3>2
  <2> QED
    BY <1>7, <2>1 DEF IoTyped
<1>12. ASSUME ~Overlap
       PROVE  IoPinned'
  <2>1. ASSUME NEW b \in InFlight, b # d, io[b].w = w
        PROVE  io[b].pages \cap P = {}
    BY <1>1, <1>12, <2>1 DEF Apart
  <2>2. \A b \in InFlight : b # d => io'[b] = io[b]
    BY <1>7 DEF InFlight
  <2>3. ASSUME NEW b \in InFlight', NEW c \in InFlight', b # c, io'[b].w = io'[c].w
        PROVE  io'[b].pages \cap io'[c].pages = {}
    <3>1. CASE b = d
      BY <1>6, <1>7, <1>8, <2>1, <2>2, <2>3, <3>1
    <3>2. CASE c = d
      BY <1>6, <1>7, <1>8, <2>1, <2>2, <2>3, <3>2
    <3>3. CASE b # d /\ c # d
      BY <1>0, <1>8, <1>12, <2>2, <2>3, <3>3 DEF IoPinned
    <3> QED
      BY <3>1, <3>2, <3>3
  <2>4. ASSUME NEW c \in InFlight', NEW i \in io'[c].live
        PROVE  entry[Pte(io'[c].w, i)] = io'[c].pfn[i] /\ owner'[io'[c].pfn[i]] = NoOwner
    <3>1. CASE c = d
      <4>1. i \in P /\ io'[c].w = w /\ io'[c].pfn[i] = entry[Pte(w, i)]
        BY <1>6, <1>7, <2>4, <3>1
      <4> QED
        BY <1>2, <1>5, <4>1
    <3>2. CASE c # d
      <4>1. c \in InFlight /\ io'[c] = io[c]
        BY <1>8, <2>2, <2>4, <3>2
      <4>2. entry[Pte(io[c].w, i)] = io[c].pfn[i] /\ owner[io[c].pfn[i]] = NoOwner
        BY <1>0, <1>12, <2>4, <4>1 DEF IoPinned, FrameOf
      <4>3. io[c].pfn[i] \in Frames
        BY <1>0, <2>4, <4>1 DEF IoTyped
      <4> QED
        BY <1>2, <4>1, <4>2, <4>3
    <3> QED
      BY <3>1, <3>2
  <2> QED
    BY <1>1, <2>3, <2>4 DEF IoPinned, FrameOf
<1> QED
  BY <1>1, <1>3, <1>9, <1>10, <1>11, <1>12, TransferStep

\* A transfer d in window w that ends gives owners to frames its pages map,
\* and at least to those that the device was given and that are still mapped.
Ends(d, w) ==
    /\ d \in InFlight /\ w = io[d].w /\ io' = [io EXCEPT ![d] = NoIo]
    /\ UNCHANGED <<entry, free, held, window, runs>>
    /\ owner' = [f \in Frames |-> owner'[f]]
    /\ \A f \in Frames : \/ owner'[f] = owner[f]
                         \/ \E i \in io[d].pages : owner'[f] = Pte(w, i) /\ entry[Pte(w, i)] = f
    /\ \A i \in io[d].pages : entry[Pte(w, i)] = io[d].pfn[i] => owner'[io[d].pfn[i]] = Pte(w, i)

\* Such a step preserves the invariant.
LEMMA EndStep ==
    ASSUME IInv, NEW d, NEW w, Ends(d, w)
    PROVE  IInv'
<1>e. /\ d \in InFlight /\ w = io[d].w /\ io' = [io EXCEPT ![d] = NoIo]
      /\ UNCHANGED <<entry, free, held, window, runs>>
      /\ owner' = [f \in Frames |-> owner'[f]]
      /\ \A f \in Frames : \/ owner'[f] = owner[f]
                           \/ \E i \in io[d].pages : owner'[f] = Pte(w, i) /\ entry[Pte(w, i)] = f
      /\ \A i \in io[d].pages : entry[Pte(w, i)] = io[d].pfn[i] => owner'[io[d].pfn[i]] = Pte(w, i)
  BY DEF Ends
<1>0. /\ FramesApart /\ OwnersMatch /\ PoolOwned /\ IoTyped /\ (~Overlap => IoPinned)
      /\ entry \in [Entries -> Frames \cup {NoFrame}] /\ owner \in [Frames -> Entries \cup {NoOwner}]
      /\ NoFrame \notin Frames
  BY DEF IInv, TypeOK, Supply
<1>1. d \in Transfer /\ io[d] # NoIo /\ w \in Windows /\ io[d].pages \subseteq Pages(w)
  BY <1>e, <1>0 DEF InFlight, IoTyped
<1>2. \A i \in io[d].pages : Pte(w, i) \in Entries
  BY <1>1, EntryFacts
<1>3. owner' \in [Frames -> Entries \cup {NoOwner}]
  <2>1. \A f \in Frames : owner'[f] \in Entries \cup {NoOwner}
    BY <1>e, <1>0, <1>2
  <2> QED
    BY <1>e, <2>1
<1>4. OwnersMatch'
  BY <1>e, <1>0, <1>2 DEF OwnersMatch
<1>5. /\ io'[d] = NoIo /\ \A c \in Transfer : c # d => io'[c] = io[c]
      /\ io' = [c \in Transfer |-> io'[c]]
  BY <1>e, <1>0, <1>1 DEF IoTyped
<1>6. \A c : c \in InFlight' <=> c \in InFlight /\ c # d
  BY <1>5 DEF InFlight
<1>7. PoolOwned'
  <2>1. ASSUME NEW i \in Pages("pool"), entry[Pte("pool", i)] # NoFrame
        PROVE  \/ owner'[entry[Pte("pool", i)]] = Pte("pool", i)
               \/ \E c \in Transfer : PinnedBy(c, i)'
    <3>1. Pte("pool", i) \in Entries /\ entry[Pte("pool", i)] \in Frames
      BY <1>0, <2>1, EntryFacts, PageFacts
    <3>2. \/ owner'[entry[Pte("pool", i)]] = owner[entry[Pte("pool", i)]]
          \/ owner'[entry[Pte("pool", i)]] = Pte("pool", i)
      BY <1>e, <1>0, <1>2, <2>1, <3>1 DEF FramesApart
    <3>3. CASE owner[entry[Pte("pool", i)]] = Pte("pool", i)
      BY <3>2, <3>3
    <3>4. CASE \E c \in Transfer : PinnedBy(c, i)
      <4>1. PICK c \in Transfer : PinnedBy(c, i)
        BY <3>4
      <4>2. CASE c = d
        <5>1. w = "pool" /\ i \in io[d].pages /\ io[d].pfn[i] = entry[Pte(w, i)]
          BY <1>e, <4>1, <4>2 DEF PinnedBy, FrameOf
        <5> QED
          BY <1>e, <5>1
      <4>3. CASE c # d
        <5>1. PinnedBy(c, i)'
          BY <1>e, <1>5, <4>1, <4>3 DEF PinnedBy, FrameOf
        <5> QED
          BY <5>1
      <4> QED
        BY <4>2, <4>3
    <3> QED
      BY <1>0, <2>1, <3>3, <3>4 DEF PoolOwned, Mapped, FrameOf
  <2> QED
    BY <1>e, <2>1 DEF PoolOwned, Mapped, FrameOf
<1>8. IoTyped'
  <2>1. \A c \in InFlight' : c \in InFlight /\ io'[c] = io[c]
    BY <1>5, <1>6 DEF InFlight
  <2> QED
    BY <1>0, <1>5, <2>1 DEF IoTyped
<1>9. ASSUME ~Overlap
      PROVE  IoPinned'
  <2>1. \A c \in InFlight' : c \in InFlight /\ c # d /\ io'[c] = io[c]
    BY <1>5, <1>6 DEF InFlight
  <2>2. \A b, c \in InFlight' : b # c /\ io'[b].w = io'[c].w => io'[b].pages \cap io'[c].pages = {}
    BY <1>0, <1>9, <2>1 DEF IoPinned
  <2>3. ASSUME NEW c \in InFlight', NEW i \in io'[c].live
        PROVE  entry[Pte(io'[c].w, i)] = io'[c].pfn[i] /\ owner'[io'[c].pfn[i]] = NoOwner
    <3>1. c \in InFlight /\ c # d /\ io'[c] = io[c] /\ i \in io[c].live
      BY <2>1, <2>3
    <3>2. entry[Pte(io[c].w, i)] = io[c].pfn[i] /\ owner[io[c].pfn[i]] = NoOwner
      BY <1>0, <1>9, <3>1 DEF IoPinned, FrameOf
    <3>3. i \in io[c].pages /\ io[c].pfn[i] \in Frames /\ Pte(io[c].w, i) \in Entries
      <4>1. io[c].w \in Windows /\ i \in io[c].pages /\ i \in Pages(io[c].w) /\ io[c].pfn[i] \in Frames
        BY <1>0, <3>1 DEF IoTyped
      <4> QED
        BY <4>1, EntryFacts
    <3>4. ASSUME NEW j \in io[d].pages, entry[Pte(w, j)] = io[c].pfn[i]
          PROVE  FALSE
      <4>1. Pte(w, j) = Pte(io[c].w, i)
        BY <1>0, <1>2, <3>2, <3>3, <3>4 DEF FramesApart
      <4>2. io[c].w = io[d].w /\ i \in io[d].pages
        BY <1>e, <3>4, <4>1, EntryFacts
      <4> QED
        BY <1>e, <1>0, <1>9, <3>1, <3>3, <4>2 DEF IoPinned
    <3>5. owner'[io[c].pfn[i]] = owner[io[c].pfn[i]]
      BY <1>e, <3>3, <3>4
    <3> QED
      BY <3>1, <3>2, <3>5
  <2> QED
    BY <1>e, <2>2, <2>3 DEF IoPinned, FrameOf
<1> QED
  BY <1>e, <1>3, <1>4, <1>7, <1>8, <1>9, TransferStep

\* The transfers of the cache and the locked buffers, started and ended.
LEMMA NxcPagingIoStartStep ==
    ASSUME IInv, NEW d \in Transfer, NEW s \in Pages("pool"), NEW n \in 1 .. MaxRun, NxcPagingIoStart(d, s, n)
    PROVE  IInv'
<1>1. s \in Nat /\ n \in Nat /\ "pool" \in Windows /\ Start(d, "cache", "pool", s, n)
  BY PageFacts DEF NxcPagingIoStart
<1>2. owner' = [f \in Frames |-> IF \E i \in Span(s, n) : FrameOf("pool", i) = f THEN NoOwner ELSE owner[f]]
  <2>1. owner' = [f \in Frames |-> IF {i \in Span(s, n) : FrameOf("pool", i) = f} = {} THEN owner[f] ELSE NoOwner]
    BY DEF NxcPagingIoStart, NxPoolPagesSetMovable
  <2> QED
    BY <2>1
<1> QED
  BY <1>1, <1>2, StartStep

\* Locking the pages of a buffer makes their frames immovable.
LEMMA MmProbeAndLockPagesStep ==
    ASSUME IInv, NEW d \in Transfer, NEW w \in Windows, NEW s \in Pages(w), NEW n \in 1 .. MaxRun,
           MmProbeAndLockPages(d, w, s, n)
    PROVE  IInv'
<1>1. s \in Nat /\ n \in Nat /\ Start(d, "mdl", w, s, n)
  BY PageFacts DEF MmProbeAndLockPages
<1>2. owner' = [f \in Frames |-> IF \E i \in Span(s, n) : FrameOf(w, i) = f THEN NoOwner ELSE owner[f]]
  BY DEF MmProbeAndLockPages, Locked
<1> QED
  BY <1>1, <1>2, StartStep

\* The end of a paging transfer names each page entry as owner again.
LEMMA NxcPagingIoEndStep ==
    ASSUME IInv, NEW d \in Transfer, NxcPagingIoEnd(d)
    PROVE  IInv'
<1>0. /\ FramesApart /\ IoTyped /\ io[d].kind = "cache" /\ io' = [io EXCEPT ![d] = NoIo]
      /\ entry \in [Entries -> Frames \cup {NoFrame}] /\ NoFrame \notin Frames
      /\ UNCHANGED <<entry, free, held, window, runs>>
  BY DEF IInv, TypeOK, Supply, NxcPagingIoEnd
<1>1. d \in InFlight
  BY <1>0 DEF InFlight, NoIo
<1>2. /\ io[d].w = "pool" /\ io[d].pages \subseteq Pages("pool")
      /\ \A i \in io[d].pages : io[d].pfn[i] \in Frames
  BY <1>0, <1>1 DEF IoTyped
<1>3. \A i \in io[d].pages : Pte("pool", i) \in Entries
  BY <1>2, EntryFacts, PageFacts
<1> DEFINE at(f) == {i \in io[d].pages : entry[Pte("pool", i)] = f}
<1>4. owner' = [f \in Frames |-> IF at(f) = {} THEN owner[f] ELSE Pte("pool", CHOOSE i \in at(f) : TRUE)]
  BY DEF NxcPagingIoEnd, NxPoolPagesSetMovable, FrameOf
<1>5. \A f \in Frames : owner'[f] = IF at(f) = {} THEN owner[f] ELSE Pte("pool", CHOOSE i \in at(f) : TRUE)
  BY <1>4
<1>6. ASSUME NEW f \in Frames
      PROVE  \/ owner'[f] = owner[f]
             \/ \E i \in io[d].pages : owner'[f] = Pte("pool", i) /\ entry[Pte("pool", i)] = f
  BY <1>5
<1>7. ASSUME NEW i \in io[d].pages, entry[Pte("pool", i)] = io[d].pfn[i]
      PROVE  owner'[io[d].pfn[i]] = Pte("pool", i)
  <2>1. \A j \in io[d].pages : entry[Pte("pool", j)] = io[d].pfn[i] => j = i
    BY <1>0, <1>2, <1>3, <1>7, EntryFacts DEF FramesApart
  <2>2. at(io[d].pfn[i]) = {i}
    BY <1>7, <2>1
  <2> QED
    BY <1>2, <1>5, <2>2
<1>8. owner' = [f \in Frames |-> owner'[f]]
  BY <1>4
<1> HIDE DEF at
<1> QED
  <2>1. Ends(d, "pool")
    BY <1>0, <1>1, <1>2, <1>6, <1>7, <1>8 DEF Ends
  <2> QED
    BY <2>1, EndStep

\* Unlocking the pages of a buffer names their entries as owners again.
LEMMA MmUnlockPagesStep ==
    ASSUME IInv, NEW d \in Transfer, MmUnlockPages(d)
    PROVE  IInv'
<1>0. /\ FramesApart /\ IoTyped /\ io[d].kind = "mdl" /\ io' = [io EXCEPT ![d] = NoIo]
      /\ entry \in [Entries -> Frames \cup {NoFrame}] /\ NoFrame \notin Frames
      /\ UNCHANGED <<entry, free, held, window, runs>>
  BY DEF IInv, TypeOK, Supply, MmUnlockPages
<1>1. d \in InFlight
  BY <1>0 DEF InFlight, NoIo
<1>2. PICK w \in Windows : w = io[d].w
  BY <1>0, <1>1 DEF IoTyped
<1>3. io[d].pages \subseteq Pages(w) /\ \A i \in io[d].pages : io[d].pfn[i] \in Frames
  BY <1>0, <1>1, <1>2 DEF IoTyped
<1>4. \A i \in io[d].pages : Pte(w, i) \in Entries
  BY <1>3, EntryFacts
<1> DEFINE at(f) == {i \in io[d].pages : entry[Pte(w, i)] = io[d].pfn[i] /\ io[d].pfn[i] = f}
<1>5. owner' = [f \in Frames |-> IF at(f) = {} THEN owner[f] ELSE Pte(w, CHOOSE i \in at(f) : TRUE)]
  <2>1. \A f : {i \in StillMapped(d) : io[d].pfn[i] = f} = at(f)
    BY <1>2 DEF StillMapped, FrameOf
  <2> HIDE DEF at
  <2> QED
    BY <1>2, <2>1 DEF MmUnlockPages
<1>6. \A f \in Frames : owner'[f] = IF at(f) = {} THEN owner[f] ELSE Pte(w, CHOOSE i \in at(f) : TRUE)
  BY <1>5
<1>7. ASSUME NEW f \in Frames
      PROVE  \/ owner'[f] = owner[f]
             \/ \E i \in io[d].pages : owner'[f] = Pte(w, i) /\ entry[Pte(w, i)] = f
  BY <1>6
<1>8. ASSUME NEW i \in io[d].pages, entry[Pte(w, i)] = io[d].pfn[i]
      PROVE  owner'[io[d].pfn[i]] = Pte(w, i)
  <2>1. \A j \in io[d].pages : entry[Pte(w, j)] = io[d].pfn[i] => j = i
    BY <1>0, <1>3, <1>4, <1>8, EntryFacts DEF FramesApart
  <2>2. at(io[d].pfn[i]) = {i}
    BY <1>8, <2>1
  <2> QED
    BY <1>3, <1>6, <2>2
<1>9. owner' = [f \in Frames |-> owner'[f]]
  BY <1>5
<1> HIDE DEF at
<1> QED
  <2>1. Ends(d, w)
    BY <1>0, <1>1, <1>2, <1>7, <1>8, <1>9 DEF Ends
  <2> QED
    BY <2>1, EndStep

-----------------------------------------------------------------------------
(* The contiguous allocator.                                               *)

\* Taking a free frame and giving it back.
LEMMA NxkPageSupplyTakeRunStep ==
    ASSUME IInv, NEW f \in Frames, NxkPageSupplyTakeRun(f) \/ NxkPageSupplyReturn(f)
    PROVE  IInv'
<1>0. UNCHANGED <<entry, owner, window, runs, io>>
  BY DEF NxkPageSupplyTakeRun, NxkPageSupplyReturn
<1>1. TypeOK'
  BY <1>0 DEF IInv, TypeOK, window, NxkPageSupplyTakeRun, NxkPageSupplyReturn
<1>2. FramesApart'
  <2>0. FramesApart
    BY DEF IInv, Supply
  <2>1. \A d, e \in Entries : entry'[d] # NoFrame /\ entry'[d] = entry'[e] => d = e
    BY <1>0, <2>0 DEF FramesApart
  <2>2. \A e \in Entries : entry'[e] \notin free' /\ entry'[e] \notin held'
    BY <1>0, <2>0 DEF FramesApart, NxkPageSupplyTakeRun, NxkPageSupplyReturn
  <2>3. free' \cap held' = {}
    BY <2>0 DEF FramesApart, NxkPageSupplyTakeRun, NxkPageSupplyReturn
  <2>4. \A g \in Frames : g \in free' \/ g \in held' \/ \E e \in Entries : entry'[e] = g
    BY <1>0, <2>0 DEF FramesApart, NxkPageSupplyTakeRun, NxkPageSupplyReturn
  <2> QED
    BY <2>1, <2>2, <2>3, <2>4 DEF FramesApart
<1>3. OwnersMatch' /\ PoolOwned' /\ IoTyped' /\ (~Overlap => IoPinned')
  BY <1>0 DEF IInv, Supply, OwnersMatch, PoolOwned, PinnedBy, IoTyped, IoPinned, InFlight, Mapped, FrameOf
<1>4. Window'
  BY <1>0, WindowKept DEF IInv
<1> QED
  BY <1>1, <1>2, <1>3, <1>4 DEF IInv, Supply

\* Moving the page in a frame that has an owner to a free one.
LEMMA RelocateStep ==
    ASSUME IInv, NEW f \in Frames, NEW dest \in Frames, NxkPageSupplyTakeRunRelocate(f, dest)
    PROVE  IInv'
<1>0. /\ FramesApart /\ OwnersMatch /\ PoolOwned /\ IoTyped /\ (~Overlap => IoPinned)
      /\ entry \in [Entries -> Frames \cup {NoFrame}] /\ owner \in [Frames -> Entries \cup {NoOwner}]
      /\ NoFrame \notin Frames /\ free \subseteq Frames /\ held \subseteq Frames
  BY DEF IInv, TypeOK, Supply
<1>1. PICK o \in Entries : o = owner[f] /\ o # NoOwner /\ entry[o] = f
  BY <1>0 DEF NxkPageSupplyTakeRunRelocate, OwnersMatch
<1>2. /\ f \notin free /\ dest \in free /\ f # dest
      /\ entry' = [entry EXCEPT ![o] = dest]
      /\ owner' = [owner EXCEPT ![dest] = o, ![f] = NoOwner]
      /\ free' = free \ {dest} /\ held' = held \cup {f}
      /\ UNCHANGED <<window, runs, io>>
  BY <1>1 DEF NxkPageSupplyTakeRunRelocate
<1>3. /\ entry' \in [Entries -> Frames \cup {NoFrame}] /\ entry'[o] = dest
      /\ \A e \in Entries : e # o => entry'[e] = entry[e]
  BY <1>0, <1>1, <1>2
<1>4. /\ owner' \in [Frames -> Entries \cup {NoOwner}] /\ owner'[dest] = o /\ owner'[f] = NoOwner
      /\ \A g \in Frames : g # f /\ g # dest => owner'[g] = owner[g]
  BY <1>0, <1>1, <1>2
<1>5. \A e \in Entries : entry[e] # dest /\ (e # o => entry[e] # f)
  BY <1>0, <1>1, <1>2 DEF FramesApart
<1>6. TypeOK'
  BY <1>2, <1>3, <1>4 DEF IInv, TypeOK, window
<1>7. FramesApart'
  <2>1. \A d, e \in Entries : entry'[d] # NoFrame /\ entry'[d] = entry'[e] => d = e
    BY <1>0, <1>3, <1>5 DEF FramesApart
  <2>2. \A e \in Entries : entry'[e] \notin free' /\ entry'[e] \notin held'
    BY <1>0, <1>2, <1>3, <1>5 DEF FramesApart
  <2>3. free' \cap held' = {}
    BY <1>0, <1>2 DEF FramesApart
  <2>4. \A g \in Frames : g \in free' \/ g \in held' \/ \E e \in Entries : entry'[e] = g
    BY <1>0, <1>1, <1>2, <1>3 DEF FramesApart
  <2> QED
    BY <2>1, <2>2, <2>3, <2>4 DEF FramesApart
<1>8. OwnersMatch'
  <2>1. ASSUME NEW g \in Frames, owner'[g] # NoOwner
        PROVE  owner'[g] \in Entries /\ entry'[owner'[g]] = g
    <3>1. CASE g = dest
      BY <1>3, <1>4, <3>1
    <3>2. CASE g # dest
      <4>1. g # f /\ owner'[g] = owner[g]
        BY <1>4, <2>1, <3>2
      <4>2. owner[g] \in Entries /\ entry[owner[g]] = g
        BY <1>0, <2>1, <4>1 DEF OwnersMatch
      <4>3. owner[g] # o
        BY <1>1, <4>1, <4>2
      <4> QED
        BY <1>3, <4>1, <4>2, <4>3
    <3> QED
      BY <3>1, <3>2
  <2> QED
    BY <2>1 DEF OwnersMatch
<1>9. PoolOwned'
  <2>1. ASSUME NEW i \in Pages("pool"), entry'[Pte("pool", i)] # NoFrame
        PROVE  \/ owner'[entry'[Pte("pool", i)]] = Pte("pool", i)
               \/ \E c \in Transfer : PinnedBy(c, i)'
    <3>1. Pte("pool", i) \in Entries
      BY EntryFacts, PageFacts
    <3>2. CASE Pte("pool", i) = o
      BY <1>3, <1>4, <3>2
    <3>3. CASE Pte("pool", i) # o
      <4>1. entry'[Pte("pool", i)] = entry[Pte("pool", i)] /\ entry[Pte("pool", i)] \in Frames
        BY <1>0, <1>3, <2>1, <3>1, <3>3
      <4>2. owner'[entry[Pte("pool", i)]] = owner[entry[Pte("pool", i)]]
        BY <1>4, <1>5, <3>1, <3>3, <4>1
      <4>3. \A c \in Transfer : PinnedBy(c, i) => PinnedBy(c, i)'
        BY <1>2, <4>1 DEF PinnedBy, FrameOf
      <4> QED
        BY <1>0, <2>1, <4>1, <4>2, <4>3 DEF PoolOwned, Mapped, FrameOf
    <3> QED
      BY <3>2, <3>3
  <2> QED
    BY <2>1 DEF PoolOwned, Mapped, FrameOf
<1>10. IoTyped' /\ InFlight' = InFlight
  BY <1>0, <1>2 DEF IoTyped, InFlight
<1>11. ASSUME ~Overlap
       PROVE  IoPinned'
  <2>1. ASSUME NEW d \in InFlight, NEW i \in io[d].live
        PROVE  entry'[Pte(io[d].w, i)] = io[d].pfn[i] /\ owner'[io[d].pfn[i]] = NoOwner
    <3>1. io[d].w \in Windows /\ i \in Pages(io[d].w) /\ io[d].pfn[i] \in Frames
      BY <1>0, <2>1 DEF IoTyped
    <3>2. entry[Pte(io[d].w, i)] = io[d].pfn[i] /\ owner[io[d].pfn[i]] = NoOwner
      BY <1>0, <1>11, <2>1 DEF IoPinned, FrameOf
    <3>3. Pte(io[d].w, i) \in Entries
      BY <3>1, EntryFacts
    <3>4. Pte(io[d].w, i) # o
      BY <1>1, <3>2
    <3> QED
      BY <1>3, <1>4, <1>5, <3>1, <3>2, <3>3, <3>4
  <2>2. io' = io /\ InFlight' = InFlight
        /\ \A c, d \in InFlight : c # d /\ io[c].w = io[d].w => io[c].pages \cap io[d].pages = {}
    BY <1>0, <1>2, <1>10, <1>11 DEF IoPinned
  <2> QED
    BY <2>1, <2>2 DEF IoPinned, FrameOf
<1>12. Window'
  <2>1. \A w \in Windows : \A i \in Pages(w) :
          /\ entry'[Pte(w, i)] = NoFrame <=> entry[Pte(w, i)] = NoFrame
          /\ entry[Pde(w, i)] # NoFrame => entry'[Pde(w, i)] # NoFrame
    <3>1. \A e \in Entries : entry'[e] = NoFrame <=> entry[e] = NoFrame
      BY <1>0, <1>1, <1>2, <1>3
    <3> QED
      BY <3>1, EntryFacts
  <2> QED
    BY <1>2, <2>1, WindowKept DEF IInv
<1> QED
  BY <1>6, <1>7, <1>8, <1>9, <1>10, <1>11, <1>12 DEF IInv, Supply

-----------------------------------------------------------------------------
(* The theorems.                                                           *)

\* The initial state satisfies the invariant.
LEMMA InitIInv == Init => IInv
<1> SUFFICES ASSUME Init PROVE IInv
  OBVIOUS
<1>1. \A w \in Windows : \A i \in Pages(w) : Pte(w, i) \in Entries /\ entry[Pte(w, i)] = NoFrame
  BY EntryFacts DEF Init
<1>2. TypeOK
  BY PageFacts DEF Init, TypeOK
<1>3. FramesApart /\ OwnersMatch
  BY DEF Init, FramesApart, OwnersMatch
<1>4. PoolOwned
  BY <1>1, PageFacts DEF PoolOwned, Mapped
<1>5. InFlight = {} /\ io = [d \in Transfer |-> io[d]]
  BY DEF Init, InFlight
<1>6. IoTyped /\ IoPinned
  BY <1>5 DEF IoTyped, IoPinned
<1>7. runs = {} /\ \A w : Covered(w) = {}
  BY DEF Init, Covered
<1>8. RunsTyped /\ RunsApart /\ PagesMapped
  BY <1>1, <1>7 DEF RunsTyped, RunsApart, PagesMapped, Mapped
<1>9. BitmapExact
  BY <1>7, FS_EmptySet DEF Init, BitmapExact
<1>10. RunTableExact
  BY <1>7 DEF Init, RunTableExact
<1> QED
  BY <1>2, <1>3, <1>4, <1>6, <1>8, <1>9, <1>10 DEF IInv, Supply, Window

\* Every step, and stuttering, preserves the invariant.
LEMMA NextIInv == IInv /\ [Next]_vars => IInv'
<1> SUFFICES ASSUME IInv, [Next]_vars PROVE IInv'
  OBVIOUS
<1>1. CASE \E n \in 1 .. MaxRun : NxPoolPagesAlloc(n) \/ NxkSysVaAllocate(n)
  BY <1>1, NxPoolPagesAllocStep, NxkSysVaAllocateStep
<1>2. CASE \E s \in Pages("pool") : NxPoolPagesFree(s)
  BY <1>2, NxPoolPagesFreeStep
<1>3. CASE \E s \in Pages("sys"), n \in 1 .. MaxRun : NxkSysVaFree(s, n)
  BY <1>3, NxkSysVaFreeStep
<1>4. CASE \E d \in Transfer :
             \/ \E s \in Pages("pool"), n \in 1 .. MaxRun : NxcPagingIoStart(d, s, n)
             \/ \E w \in Windows : \E s \in Pages(w), n \in 1 .. MaxRun : MmProbeAndLockPages(d, w, s, n)
             \/ NxcPagingIoEnd(d)
             \/ MmUnlockPages(d)
  BY <1>4, NxcPagingIoStartStep, MmProbeAndLockPagesStep, NxcPagingIoEndStep, MmUnlockPagesStep
<1>5. CASE \E f \in Frames : NxkPageSupplyTakeRun(f) \/ NxkPageSupplyReturn(f)
  BY <1>5, NxkPageSupplyTakeRunStep
<1>6. CASE \E f, dest \in Frames : NxkPageSupplyTakeRunRelocate(f, dest)
  BY <1>6, RelocateStep
<1>7. CASE UNCHANGED vars
  <2>1. UNCHANGED <<entry, owner, free, held, window, runs, io>>
    BY <1>7 DEF vars, supply
  <2>2. TypeOK'
    BY <2>1 DEF IInv, TypeOK, window
  <2>3. FramesApart' /\ OwnersMatch' /\ PoolOwned' /\ IoTyped' /\ (~Overlap => IoPinned')
    BY <2>1 DEF IInv, Supply, FramesApart, OwnersMatch, PoolOwned, PinnedBy, IoTyped, IoPinned,
                InFlight, Mapped, FrameOf
  <2>4. Window'
    BY <2>1, WindowKept DEF IInv
  <2> QED
    BY <2>2, <2>3, <2>4 DEF IInv, Supply
<1> QED
  BY <1>1, <1>2, <1>3, <1>4, <1>5, <1>6, <1>7 DEF Next

\* The counts in FramesExact follow from the frames being in one place.
LEMMA FramesCounted == IInv => FramesExact
<1> SUFFICES ASSUME IInv, NEW f \in Frames
             PROVE  Cardinality({e \in Entries : entry[e] = f})
                      + (IF f \in free THEN 1 ELSE 0) + (IF f \in held THEN 1 ELSE 0) = 1
  BY DEF FramesExact
<1> DEFINE M == {e \in Entries : entry[e] = f}
<1>0. FramesApart /\ NoFrame \notin Frames
  BY DEF IInv, Supply
<1>1. CASE M = {}
  <2>1. Cardinality(M) = 0
    BY <1>1, FS_EmptySet
  <2>2. \/ f \in free /\ f \notin held
        \/ f \notin free /\ f \in held
    BY <1>0, <1>1 DEF FramesApart
  <2> HIDE DEF M
  <2>3. Cardinality(M) + (IF f \in free THEN 1 ELSE 0) + (IF f \in held THEN 1 ELSE 0) = 1
    BY <2>1, <2>2
  <2> QED
    BY <2>3 DEF M
<1>2. CASE M # {}
  <2>1. PICK e \in Entries : entry[e] = f
    BY <1>2
  <2>2. f \notin free /\ f \notin held /\ M = {e}
    BY <1>0, <2>1 DEF FramesApart
  <2>3. Cardinality(M) = 1
    BY <2>2, FS_Singleton
  <2> HIDE DEF M
  <2>4. Cardinality(M) + (IF f \in free THEN 1 ELSE 0) + (IF f \in held THEN 1 ELSE 0) = 1
    BY <2>2, <2>3
  <2> QED
    BY <2>4 DEF M
<1> QED
  BY <1>1, <1>2

\* The runs of the pool correspond to the nonzero words of the run table.
LEMMA RunsCounted ==
    ASSUME IInv
    PROVE  Cardinality({r \in runs : r[1] = "pool"}) = Cardinality({s \in Pages("pool") : NxppRunPages[s] # 0})
<1> DEFINE S == {s \in Pages("pool") : NxppRunPages[s] # 0}
           R == {r \in runs : r[1] = "pool"}
           F == [s \in S |-> <<"pool", s, NxppRunPages[s]>>]
<1>0. RunsTyped /\ RunTableExact
  BY DEF IInv, Window
<1>1. IsFiniteSet(S)
  BY BitmapSize
<1>2. \A s \in S : <<"pool", s, NxppRunPages[s]>> \in R
  BY <1>0 DEF RunTableExact
<1>3. ASSUME NEW r \in R
      PROVE  \E s \in S : F[s] = r
  <2>1. r \in Windows \X Nat \X (Nat \ {0}) /\ r[2] + r[3] <= NXPP_PAGES /\ NxppRunPages[r[2]] = r[3]
    BY <1>0, PageFacts DEF RunsTyped, RunTableExact
  <2>2. r[2] \in Pages("pool") /\ r[3] # 0 /\ r = <<"pool", r[2], r[3]>>
    BY <2>1, PageFacts
  <2>3. r[2] \in S /\ F[r[2]] = r
    BY <2>1, <2>2
  <2> QED
    BY <2>3
<1>4. \A s, t \in S : F[s] = F[t] => s = t
  OBVIOUS
<1>5. F \in [S -> R]
  BY <1>2
<1>6. \A s \in S : F[s] \in R
  BY <1>2
<1> HIDE DEF S, R, F
<1>7. F \in Bijection(S, R)
  <2>1. F \in Injection(S, R)
    BY <1>4, <1>5 DEF Injection, IsInjective
  <2>2. F \in Surjection(S, R)
    BY <1>3, <1>5 DEF Surjection
  <2> QED
    BY <2>1, <2>2 DEF Bijection
<1>8. ExistsBijection(S, R)
  BY <1>7 DEF ExistsBijection
<1>9. Cardinality(R) = Cardinality(S)
  BY <1>1, <1>8, FS_Bijection
<1> QED
  BY <1>9 DEF S, R

\* The records of both windows agree with what callers hold.
LEMMA WindowCounted == IInv => WindowExact
<1> SUFFICES ASSUME IInv PROVE WindowExact
  OBVIOUS
<1>0. RunsTyped /\ RunsApart /\ PagesMapped /\ BitmapExact /\ RunTableExact
  BY DEF IInv, Window
<1>1. \A s \in Pages("pool") : NxppRunPages[s] # 0 <=> <<"pool", s, NxppRunPages[s]>> \in runs
  <2>1. ASSUME NEW s \in Pages("pool"), <<"pool", s, NxppRunPages[s]>> \in runs
        PROVE  NxppRunPages[s] # 0
    BY <1>0, <2>1 DEF RunsTyped
  <2> QED
    BY <1>0, <2>1 DEF RunTableExact
<1> QED
  BY <1>0, <1>1, RunsCounted DEF WindowExact, RunsApart, PagesMapped, BitmapExact

\* Owners are exact: a page that no transfer covers is pinned by none.
LEMMA OwnersCounted == IInv => OwnersExact
<1> SUFFICES ASSUME IInv PROVE OwnersExact
  OBVIOUS
<1>0. OwnersMatch /\ PoolOwned
  BY DEF IInv, Supply
<1> QED
  BY <1>0 DEF OwnersExact, OwnersMatch, PoolOwned, PinnedBy, InFlight

\* The inductive invariant holds in every reachable state.
THEOREM Invariance == Spec => []IInv
  BY InitIInv, NextIInv, PTL DEF Spec

\* Every variable keeps its type; in particular the statistic of poolpages.c
\* never leaves the size of the window.
THEOREM TypeCorrect == Spec => []TypeOK
<1>1. IInv => TypeOK
  BY DEF IInv
<1> QED
  BY <1>1, Invariance, PTL

\* The bitmap, the run table, the statistic, the page-table entries and the
\* runs that callers hold describe the same pages, through every allocation,
\* roll-back, free and relocation, for windows of any size.
THEOREM WindowsAreExact == Spec => []WindowExact
  BY WindowCounted, Invariance, PTL

\* No frame of the machine is lost or in two places.
THEOREM FramesAreExact == Spec => []FramesExact
  BY FramesCounted, Invariance, PTL

\* The owner word of a frame names the entry that maps it, and every pin of
\* a pool page is undone by the end of its transfer, also when buffers
\* overlap.
THEOREM OwnersAreExact == Spec => []OwnersExact
  BY OwnersCounted, Invariance, PTL

\* When no two locked buffers share a page, a relocation never moves a page
\* under a device: the frames of a running transfer stay mapped.
THEOREM DmaStaysStill == ASSUME ~Overlap PROVE Spec => []DmaStill
<1>1. IInv => DmaStill
  BY DEF IInv, Supply, IoPinned, DmaStill
<1> QED
  BY <1>1, Invariance, PTL
==============================================================================
